---------------------------- MODULE AtomicFiles ----------------------------
(***************************************************************************)
(* What a shared directory promises its users (helpers/file-cache-store.ts *)
(* and helpers/write-exception-registry.ts): a path holds one complete     *)
(* content or none, and a reader sees the old content or the new, never    *)
(* part of either.  Absent and NoView are no contents (FileMarks, in       *)
(* SharedDirectory).                                                       *)
(***************************************************************************)
CONSTANTS
    Paths,
    Users,
    Contents,   \* the complete contents a file may have
    Absent,     \* no file
    NoView      \* nothing read yet

VARIABLES
    content,    \* content of a path
    view        \* what a user has read last

MayHold == Contents \cup {Absent}

Init ==
    /\ DOMAIN content = Paths
    /\ \A path \in Paths : content[path] \in MayHold
    /\ view = [u \in Users |-> NoView]

Replace(path) ==
    /\ content'[path] \in MayHold
    /\ content' = [content EXCEPT ![path] = content'[path]]
    /\ UNCHANGED view

Look(u, path) ==
    /\ view' = [view EXCEPT ![u] = content[path]]
    /\ UNCHANGED content

Next ==
    \E path \in Paths : Replace(path) \/ (\E u \in Users : Look(u, path))

Spec == Init /\ [][Next]_<<content, view>>

=============================================================================
