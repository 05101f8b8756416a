----------------------------- MODULE SpawnCheck -----------------------------
(***************************************************************************)
(* spawnCheck (src/execution/spawn-check.ts) on POSIX, with killTree and   *)
(* the host's SIGINT/SIGTERM handler: the process of each check, whatever  *)
(* descendant it has, and the timers, listeners and handles that race to   *)
(* end it.  Which check is started when is RunChecks' concern; here any    *)
(* queued one may be.                                                      *)
(*                                                                         *)
(* Each callback (a timer, an abort event, an event of the child, the      *)
(* signal handler) is an action.  Time is left out but for one order: the  *)
(* host's own timer (2250 ms) ends after the escalations (2000 ms) armed   *)
(* in the same callback.                                                   *)
(***************************************************************************)
EXTENDS FiniteSets

CONSTANTS
  Checks,
  Descendants               \* the kinds of descendant a check's command may leave

(* "quiet" stays in the process group with its stdio closed, "piped" stays *)
(* and holds the check's stdio, "escaped" holds it where the group's       *)
(* signals do not reach it: in another group, or as another user.          *)
ASSUME DescendantsAssumption ==
  Descendants \subseteq {"none", "quiet", "piped", "escaped"}

VARIABLES
  phase,                    \* the promise of each spawnCheck call
  evidence,                 \* the status it resolved to
  reason,                   \* `terminationReason`
  hostTerminated,           \* the checks whose handle was killed
  timeout, escalation,      \* the checks with that timer armed
  listening,                \* the checks whose effective signal has its listener
  activeHandles,            \* the registry shared with the signal handler
  signalled,                \* history: the checks whose tree was sent a signal
  abortedBy,                \* what aborted runSignal first: the caller or the host
  handlers,                 \* SIGINT and SIGTERM listeners are installed
  host,                     \* the host process
  root, exit,               \* the spawned process, and how it ended
  kin, child                \* the kind of its descendant, and that process

promiseVars == <<phase, evidence>>
killVars    == <<reason, hostTerminated, signalled>>
armedVars   == <<timeout, escalation, listening, activeHandles>>
hostVars    == <<abortedBy, handlers, host>>
processVars == <<root, exit, kin, child>>
vars == <<promiseVars, killVars, armedVars, hostVars, processVars>>

HasPid == {c \in Checks : root[c] # "none"}
Running == host \in {"running", "ending"}       \* the host still runs callbacks

Init ==
  /\ phase = [c \in Checks |-> "queued"]
  /\ evidence = [c \in Checks |-> "none"]
  /\ reason = [c \in Checks |-> "none"]
  /\ hostTerminated = {}
  /\ timeout = {}
  /\ escalation = {}
  /\ listening = {}
  /\ activeHandles = {}
  /\ signalled = {}
  /\ abortedBy = "none"
  /\ handlers = TRUE
  /\ host = "running"
  /\ root = [c \in Checks |-> "none"]
  /\ exit = [c \in Checks |-> "none"]
  /\ kin = [c \in Checks |-> "none"]
  /\ child = [c \in Checks |-> "none"]

----------------------------------------------------------------------------
(* killTree reaches the members of the root's process group.  SIGTERM and  *)
(* SIGINT end those of them that do not trap it, SIGKILL all of them.      *)
RootsIn(S)    == {c \in S : root[c] = "alive"}
ChildrenIn(S) == {c \in S : child[c] = "alive" /\ kin[c] # "escaped"}

Kill(roots, children) ==
  /\ root' = [c \in Checks |-> IF c \in roots THEN "dying" ELSE root[c]]
  /\ child' = [c \in Checks |-> IF c \in children THEN "dying" ELSE child[c]]
  /\ UNCHANGED <<exit, kin>>

(* A root that runs as another user refuses the signal, and child.kill     *)
(* emits "error" from inside: the once listener cleans up and answers      *)
(* before the kill's caller goes on.  `pending` are the timeouts still     *)
(* armed.  A second refusal has no listener left, and its throw is         *)
(* swallowed.                                                              *)
Refused(S, pending) ==
  /\ phase' = [c \in Checks |-> IF c \in S THEN "settled" ELSE phase[c]]
  /\ evidence' = [c \in Checks |-> IF c \in S THEN "spawn_error" ELSE evidence[c]]
  /\ timeout' = pending \ S
  /\ listening' = listening \ S
  /\ activeHandles' = activeHandles \ S

BestEffortKillTree(S, pending) ==
  \E refusing \in SUBSET RootsIn(S) :
    /\ \E roots \in SUBSET (RootsIn(S) \ refusing), children \in SUBSET ChildrenIn(S) :
         Kill(roots, children)
    /\ Refused(refusing, pending)

(* Names that end in "Mutant" are deliberate mistakes: each takes the place *)
(* of the definition after it to show that a property notices.             *)
NotRearmedMutant(S, pending) ==
  /\ BestEffortKillTree(S, pending)
  /\ escalation' = (escalation \ S) \cup (S \ escalation)
  /\ signalled' = signalled \cup S

NoEscalationMutant(S, pending) ==
  /\ BestEffortKillTree(S, pending)
  /\ signalled' = signalled \cup S
  /\ UNCHANGED escalation

(* killWithEscalation for the checks S that have a pid: the signal now, and *)
(* SIGKILL when the grace period ends; a pending escalation is replaced,   *)
(* and one is armed for a check that has just been answered as well.       *)
KillWithEscalation(S, pending) ==
  /\ BestEffortKillTree(S, pending)
  /\ escalation' = escalation \cup S
  /\ signalled' = signalled \cup S

EscalationFires(c) ==
  /\ Running
  /\ c \in escalation
  /\ escalation' = escalation \ {c}
  /\ \E refusing \in SUBSET RootsIn({c}) :
       /\ Kill(RootsIn({c}) \ refusing, ChildrenIn({c}))
       /\ Refused(refusing, timeout)
  /\ UNCHANGED <<killVars, hostVars>>

----------------------------------------------------------------------------
(* A check queued behind an abort, or skipped because another one failed,  *)
(* is answered without a process.                                          *)
AnswerWithoutSpawning(c) ==
  /\ Running
  /\ phase[c] = "queued"
  /\ abortedBy # "none" \/ \E d \in Checks : phase[d] = "settled"
  /\ phase' = [phase EXCEPT ![c] = "settled"]
  /\ evidence' = [evidence EXCEPT ![c] = "aborted"]
  /\ UNCHANGED <<killVars, armedVars, hostVars, processVars>>

(* The executor of the promise: the timeout timer, if one is configured,   *)
(* is armed first.  No check is started once the run has been answered;    *)
(* what keeps one from being started behind a host signal is the abort.    *)
LaunchMutant(c) ==
  /\ Running
  /\ handlers \/ host = "ending"
  /\ phase[c] = "queued"
  /\ timeout' \in {timeout, timeout \cup {c}}
  /\ UNCHANGED <<evidence, killVars, escalation, hostVars>>

Launch(c) ==
  /\ Running
  /\ handlers \/ host = "ending"
  /\ phase[c] = "queued"
  /\ abortedBy = "none"
  /\ timeout' \in {timeout, timeout \cup {c}}
  /\ UNCHANGED <<evidence, killVars, escalation, hostVars>>

(* spawn throws: the promise rejects, and the timer stays armed. *)
SpawnThrows(c) ==
  /\ Launch(c)
  /\ phase' = [phase EXCEPT ![c] = "threw"]
  /\ UNCHANGED <<listening, activeHandles, processVars>>

SpawnFailsMutant(c) ==
  /\ Launch(c)
  /\ phase' = [phase EXCEPT ![c] = "open"]
  /\ listening' = listening \cup {c}
  /\ activeHandles' = activeHandles \cup {c}
  /\ UNCHANGED processVars

(* spawn returns a child without a pid, whose "error" event is to come. *)
SpawnFails(c) ==
  /\ Launch(c)
  /\ phase' = [phase EXCEPT ![c] = "open"]
  /\ listening' = listening \cup {c}
  /\ UNCHANGED <<activeHandles, processVars>>

Spawns(c) ==
  /\ Launch(c)
  /\ phase' = [phase EXCEPT ![c] = "open"]
  /\ listening' = listening \cup {c}
  /\ activeHandles' = activeHandles \cup {c}
  /\ root' = [root EXCEPT ![c] = "alive"]
  /\ \E k \in Descendants :
       /\ kin' = [kin EXCEPT ![c] = k]
       /\ child' = [child EXCEPT ![c] = IF k = "none" THEN "none" ELSE "alive"]
  /\ UNCHANGED exit

----------------------------------------------------------------------------
(* onEffectiveAbort, for every check of S that still listens; an effective *)
(* signal aborts once.                                                     *)
Hearing(S) == {c \in S \cap listening : reason[c] = "none"}

TerminationReason(S, aborter) ==
  reason' = [c \in Checks |-> IF c \notin Hearing(S) THEN reason[c]
                              ELSE IF aborter # "none" THEN "aborted" ELSE "timed_out"]

TimeoutFires(c) ==
  /\ Running
  /\ c \in timeout
  /\ TerminationReason({c}, abortedBy)
  /\ KillWithEscalation(Hearing({c}) \cap HasPid, timeout \ {c})
  /\ UNCHANGED <<hostTerminated, hostVars>>

(* options.signal aborts. *)
CallerAborts ==
  /\ Running
  /\ abortedBy = "none"
  /\ abortedBy' = "caller"
  /\ TerminationReason(Checks, "caller")
  /\ KillWithEscalation(Hearing(Checks) \cap HasPid, timeout)
  /\ UNCHANGED <<hostTerminated, handlers, host>>

(* The handler for SIGINT and SIGTERM: abort the run, kill the handles     *)
(* that are left (a check that refuses the abort's kill has none any       *)
(* more), uninstall, and die by the same signal: at once when no check is  *)
(* active, after the grace period otherwise.                               *)
LeftActive == {c \in activeHandles : c \in Hearing(Checks) => phase'[c] = "open"}

HostSignal ==
  /\ Running
  /\ handlers
  /\ handlers' = FALSE
  /\ abortedBy' = IF abortedBy = "none" THEN "host" ELSE abortedBy
  /\ TerminationReason(Checks, "host")
  /\ KillWithEscalation(activeHandles \cup (Hearing(Checks) \cap HasPid), timeout)
  /\ hostTerminated' = hostTerminated \cup LeftActive
  /\ host' = IF LeftActive = {} THEN "exited" ELSE "ending"

SelfTerminates ==
  /\ host = "ending"
  /\ escalation = {}
  /\ host' = "exited"
  /\ UNCHANGED <<promiseVars, killVars, armedVars, abortedBy, handlers, processVars>>

(* A signal with no listener left: the default disposition, no cleanup. *)
UnhandledSignal ==
  /\ Running
  /\ ~ handlers
  /\ host' = "killed"
  /\ UNCHANGED <<promiseVars, killVars, armedVars, abortedBy, handlers, processVars>>

(* runChecks' finally block: every call has settled, or one has thrown.    *)
(* Its disposeRunSignal() does nothing: every Node the package supports    *)
(* has AbortSignal.any, whose composition has nothing to release.          *)
Finally ==
  /\ Running
  /\ handlers
  /\ \/ \A c \in Checks : phase[c] \in {"settled", "threw"}
     \/ \E c \in Checks : phase[c] = "threw"
  /\ handlers' = FALSE
  /\ UNCHANGED <<promiseVars, killVars, armedVars, abortedBy, host, processVars>>

----------------------------------------------------------------------------
CleanupMutant(c) ==
  /\ timeout' = timeout \ {c}
  /\ listening' = listening \ {c}
  /\ activeHandles' = activeHandles \ {c}
  /\ UNCHANGED escalation

Cleanup(c) ==
  /\ timeout' = timeout \ {c}
  /\ escalation' = escalation \ {c}
  /\ listening' = listening \ {c}
  /\ activeHandles' = activeHandles \ {c}

StatusMutant(c) ==
  IF reason[c] # "none" THEN reason[c]
  ELSE IF c \in hostTerminated THEN "host_terminated"
  ELSE IF exit[c] = "signal" THEN "signaled" ELSE "completed"

Status(c) ==
  IF c \in hostTerminated THEN "host_terminated"
  ELSE IF reason[c] # "none" THEN reason[c]
  ELSE IF exit[c] = "signal" THEN "signaled" ELSE "completed"

(* "close": the process has exited and nothing holds its stdio any more.   *)
(* After a refused kill it only clears the escalation.                     *)
HoldsStdio(c) == kin[c] \in {"piped", "escaped"} /\ child[c] # "exited"

Close(c) ==
  /\ Running
  /\ phase[c] = "open" \/ c \in escalation
  /\ root[c] = "exited"
  /\ ~ HoldsStdio(c)
  /\ Cleanup(c)
  /\ phase' = [phase EXCEPT ![c] = "settled"]
  /\ evidence' = [evidence EXCEPT ![c] = IF phase[c] = "open" THEN Status(c) ELSE @]
  /\ UNCHANGED <<killVars, hostVars, processVars>>

(* The "error" of a spawn that failed; that of a refused kill is in        *)
(* Refused.                                                                *)
ErrorEvent(c) ==
  /\ Running
  /\ phase[c] = "open"
  /\ c \notin HasPid
  /\ Cleanup(c)
  /\ phase' = [phase EXCEPT ![c] = "settled"]
  /\ evidence' = [evidence EXCEPT ![c] = "spawn_error"]
  /\ UNCHANGED <<killVars, hostVars, processVars>>

(* The operating system's side: a process may end when it likes, and does  *)
(* end once a signal it does not survive was sent to it.                   *)
RootExits(c) ==
  /\ root[c] = "alive"
  /\ root' = [root EXCEPT ![c] = "exited"]
  /\ \E how \in {"code", "signal"} : exit' = [exit EXCEPT ![c] = how]
  /\ UNCHANGED <<promiseVars, killVars, armedVars, hostVars, kin, child>>

RootDies(c) ==
  /\ root[c] = "dying"
  /\ root' = [root EXCEPT ![c] = "exited"]
  /\ exit' = [exit EXCEPT ![c] = "signal"]
  /\ UNCHANGED <<promiseVars, killVars, armedVars, hostVars, kin, child>>

ChildExits(c) ==
  /\ child[c] = "alive"
  /\ child' = [child EXCEPT ![c] = "exited"]
  /\ UNCHANGED <<promiseVars, killVars, armedVars, hostVars, root, exit, kin>>

ChildDies(c) ==
  /\ child[c] = "dying"
  /\ child' = [child EXCEPT ![c] = "exited"]
  /\ UNCHANGED <<promiseVars, killVars, armedVars, hostVars, root, exit, kin>>

Next ==
  \/ CallerAborts
  \/ HostSignal
  \/ SelfTerminates
  \/ UnhandledSignal
  \/ Finally
  \/ \E c \in Checks :
       \/ AnswerWithoutSpawning(c)
       \/ SpawnThrows(c)
       \/ SpawnFails(c)
       \/ Spawns(c)
       \/ TimeoutFires(c)
       \/ EscalationFires(c)
       \/ Close(c)
       \/ ErrorEvent(c)
       \/ RootExits(c)
       \/ RootDies(c)
       \/ ChildExits(c)
       \/ ChildDies(c)

(* Timers fire, events are delivered and killed processes end; no process  *)
(* has to end by itself.                                                   *)
Fairness ==
  /\ WF_vars(SelfTerminates)
  /\ \A c \in Checks :
       /\ WF_vars(TimeoutFires(c))
       /\ WF_vars(EscalationFires(c))
       /\ WF_vars(Close(c))
       /\ WF_vars(ErrorEvent(c))
       /\ WF_vars(RootDies(c))
       /\ WF_vars(ChildDies(c))

Spec == Init /\ [][Next]_vars
FairSpec == Spec /\ Fairness

----------------------------------------------------------------------------
OwnKills == {"aborted", "timed_out", "host_terminated"}
Processes == {"none", "alive", "dying", "exited"}

TypeOK ==
  /\ phase \in [Checks -> {"queued", "open", "settled", "threw"}]
  /\ evidence \in [Checks -> OwnKills \cup {"none", "completed", "signaled", "spawn_error"}]
  /\ reason \in [Checks -> {"none", "aborted", "timed_out"}]
  /\ hostTerminated \subseteq signalled
  /\ signalled \subseteq HasPid
  /\ timeout \subseteq Checks
  /\ escalation \subseteq HasPid
  /\ listening \subseteq Checks
  /\ activeHandles \subseteq HasPid
  /\ abortedBy \in {"none", "caller", "host"}
  /\ handlers \in BOOLEAN
  /\ host \in {"running", "ending", "exited", "killed"}
  /\ root \in [Checks -> Processes]
  /\ exit \in [Checks -> {"none", "code", "signal"}]
  /\ kin \in [Checks -> Descendants \cup {"none"}]
  /\ child \in [Checks -> Processes]

(* Nothing that could still signal a pid survives the promise, for the pid *)
(* may belong to another process by then (cleanup, lines 430 to 461), on   *)
(* every path that settles but one: a refused kill runs cleanup from       *)
(* inside and arms the escalation after it (lines 363 to 368).             *)
NothingArmedAfterSettle ==
  \A c \in Checks : phase[c] = "settled" =>
    /\ c \notin timeout \cup listening \cup activeHandles
    /\ c \in escalation => c \in signalled /\ evidence[c] = "spawn_error"

(* A tree that was told to end does so within the grace period, however    *)
(* many kills overlap: while its promise is open, either SIGKILL is still  *)
(* to come or nothing in the process group is alive.                       *)
GraceIsBounded ==
  \A c \in signalled : phase[c] = "open" /\ Running =>
    c \in escalation \/ (RootsIn({c}) = {} /\ ChildrenIn({c}) = {})

(* When the host re-sends itself the signal, no check it still waits for   *)
(* has a live process in its group: every one has had its SIGKILL.  A host *)
(* that exits without waiting had no live check at all.                    *)
HostLeavesNothingAlive ==
  host = "exited" =>
    \A c \in Checks : phase[c] = "open" => RootsIn({c}) = {} /\ ChildrenIn({c}) = {}

(* The three ways in which a run ends a check are told apart from each     *)
(* other and from a signal sent by somebody else, whatever the order of    *)
(* kill, exit and close: "aborted" for a spawned check means the caller's  *)
(* signal, never the host's (lines 492 to 501, which test the host's kill  *)
(* first).  A kill the process refused reads "spawn_error", and no other   *)
(* check that had a process does.                                          *)
OwnKillsAreOwned ==
  \A c \in HasPid : phase[c] = "settled" =>
    /\ c \in signalled <=> evidence[c] \in OwnKills \cup {"spawn_error"}
    /\ evidence[c] = "aborted" => abortedBy = "caller"

(* A check that was cancelled, or has a timeout to come, settles, although *)
(* its processes may ignore SIGTERM (the comment at lines 42 to 52).  It   *)
(* does not when a descendant holds its stdio from another process group.  *)
CancelledChecksSettle ==
  \A c \in Checks :
    phase[c] = "open" /\ (reason[c] # "none" \/ c \in timeout)
      ~> phase[c] = "settled" \/ ~ Running

(* specs/architecture.md: "a timed-out, aborted, or host-terminated check  *)
(* has its entire descendant process tree killed".                         *)
WholeTreeKilled ==
  \A c \in HasPid : evidence[c] \in OwnKills => root[c] # "alive" /\ child[c] # "alive"
=============================================================================
