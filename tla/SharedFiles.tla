---------------------------- MODULE SharedFiles ----------------------------
(***************************************************************************)
(* A directory under .repo-contract that several processes use at once,    *)
(* by the operations both of its users are made of: the cache's file       *)
(* store (helpers/file-cache-store.ts) and the writer of the exception     *)
(* registries (helpers/write-exception-registry.ts).  Both write a         *)
(* temporary file beside the target and rename it over the target.         *)
(***************************************************************************)
EXTENDS FiniteSets

CONSTANTS
    Paths, Users, Absent, NoView,
    Partial     \* the content of a file that is being written

VARIABLES
    disk,       \* content of each target
    temps,      \* temporary files: [user, path, content]
    got         \* what each user has read last

fileVars == <<disk, temps, got>>

\* Every name in the directory may be read, a temporary one too.
Names == Paths \cup temps

--------------------------------------------------------------------------
\* Every file is listed, temporary or not.
ListingMutant == {path \in Paths : disk[path] # Absent} \cup temps

\* Temporary files are left out by their name.
Listing == {path \in Paths : disk[path] # Absent}

\* A temporary file that was listed may be gone by now.
ContentOf(name) ==
    IF name \in Paths THEN disk[name]
    ELSE IF name \in temps THEN name.content ELSE Absent

Read(u, name) ==
    /\ got' = [got EXCEPT ![u] = ContentOf(name)]
    /\ UNCHANGED <<disk, temps>>

TempOf(u) == {t \in temps : t.user = u}

\* The target itself is opened and written.
OpenTempMutant(u, path) ==
    /\ disk' = [disk EXCEPT ![path] = Partial]
    /\ temps' = temps \cup {[user |-> u, path |-> path, content |-> Partial]}
    /\ UNCHANGED got

\* writeFile, first half: the file is there, its content is not.
OpenTemp(u, path) ==
    /\ temps' = temps \cup {[user |-> u, path |-> path, content |-> Partial]}
    /\ UNCHANGED <<disk, got>>

FillTemp(u, content) ==
    /\ temps' = (temps \ TempOf(u)) \cup {[t EXCEPT !.content = content] : t \in TempOf(u)}
    /\ UNCHANGED <<disk, got>>

Rename(u) ==
    /\ disk' = [path \in Paths |->
                    IF \E t \in TempOf(u) : t.path = path
                    THEN (CHOOSE t \in TempOf(u) : TRUE).content ELSE disk[path]]
    /\ temps' = temps \ TempOf(u)
    /\ UNCHANGED got

RemoveTemp(u) ==
    /\ temps' = temps \ TempOf(u)
    /\ UNCHANGED <<disk, got>>

\* rm with force: a file that is gone already is not an error.
Remove(name) ==
    /\ disk' = [path \in Paths |-> IF path = name THEN Absent ELSE disk[path]]
    /\ temps' = temps \ {name}
    /\ UNCHANGED got

\* Someone who is not one of the users puts a content there, or takes it away.
Place(path, content) ==
    /\ disk' = [disk EXCEPT ![path] = content]
    /\ UNCHANGED <<temps, got>>

=============================================================================
