------------------------- MODULE SpawnCheck_proofs -------------------------
(***************************************************************************)
(* The safety properties of spawnCheck hold for any number of checks and   *)
(* any descendants: every timer, listener and handle belongs to a promise  *)
(* that is still open, but for the escalation behind a refused kill, and   *)
(* what was signalled is exactly what the reasons and the host's kills     *)
(* account for.                                                            *)
(***************************************************************************)
EXTENDS SpawnCheck, TLAPS

(* A check whose process refused a kill of the run. *)
Disowned(c) == c \in HasPid /\ phase[c] = "settled" /\ evidence[c] = "spawn_error"

(* The listener lives as long as the promise is open, the handle as long   *)
(* as it has a process too; only such a check, or one that has refused a   *)
(* kill, has an escalation to come.                                        *)
ArmedOK ==
  /\ listening = {c \in Checks : phase[c] = "open"}
  /\ activeHandles = listening \cap HasPid
  /\ \A c \in escalation : c \in activeHandles \/ Disowned(c)
  /\ \A c \in timeout : phase[c] \in {"open", "threw"}

(* Nothing has happened to a queued check, and a descendant has a root.    *)
ProcessOK ==
  \A c \in Checks :
    /\ phase[c] = "queued" => root[c] = "none" /\ reason[c] = "none"
    /\ root[c] = "none" => child[c] = "none"

(* A tree was signalled for a reason or by the host's kill, and the host's *)
(* abort is always accompanied by its kill.                                *)
KillsOK ==
  /\ signalled = {c \in HasPid : reason[c] # "none"} \cup hostTerminated
  /\ hostTerminated \subseteq HasPid
  /\ escalation \subseteq signalled
  /\ \A c \in activeHandles \ hostTerminated : reason[c] = "aborted" => abortedBy = "caller"
  /\ abortedBy = "host" => activeHandles \subseteq hostTerminated

(* A host on its way out has killed every handle, and has aborted the run, *)
(* so that no check is launched behind its back.                           *)
HostOK ==
  host \in {"ending", "exited"} =>
    abortedBy # "none" /\ ~ handlers /\ activeHandles \subseteq hostTerminated

GroupAlive(c) == root[c] = "alive" \/ (child[c] = "alive" /\ kin[c] # "escaped")

(* GraceIsBounded, in the pointwise form the steps preserve.               *)
GraceOK ==
  \A c \in signalled : phase[c] = "open" => c \in escalation \/ ~ GroupAlive(c)

ExitedOK ==
  host = "exited" => \A c \in Checks : phase[c] = "open" => ~ GroupAlive(c)

EvidenceOK ==
  \A c \in HasPid : phase[c] = "settled" =>
    /\ c \in signalled <=> evidence[c] \in OwnKills \cup {"spawn_error"}
    /\ evidence[c] = "aborted" => abortedBy = "caller"

IInv ==
  /\ TypeOK
  /\ ArmedOK
  /\ ProcessOK
  /\ KillsOK
  /\ HostOK
  /\ GraceOK
  /\ ExitedOK
  /\ EvidenceOK

USE DEF HasPid, GroupAlive

----------------------------------------------------------------------------
(* A kill ends processes, and starts none. *)
LEMMA KillFacts ==
  ASSUME TypeOK, NEW STATE S,
         NEW STATE roots, roots \subseteq RootsIn(S),
         NEW STATE children, children \subseteq ChildrenIn(S),
         Kill(roots, children)
  PROVE  /\ root' \in [Checks -> Processes]
         /\ child' \in [Checks -> Processes]
         /\ UNCHANGED <<exit, kin>>
         /\ HasPid' = HasPid
         /\ \A c \in Checks :
              /\ root'[c] = "none" <=> root[c] = "none"
              /\ child'[c] = "none" <=> child[c] = "none"
              /\ GroupAlive(c)' => GroupAlive(c)
              /\ roots = RootsIn({c}) /\ children = ChildrenIn({c}) => ~ GroupAlive(c)'
BY DEF TypeOK, Kill, RootsIn, ChildrenIn, Processes

(* A step of killWithEscalation sends the signal to the checks it names,   *)
(* and leaves each of them an escalation, the ones that refuse included.   *)
LEMMA KillWithEscalationFacts ==
  ASSUME TypeOK, ArmedOK, NEW STATE S, S \subseteq activeHandles,
         NEW STATE pending, pending \subseteq timeout,
         KillWithEscalation(S, pending)
  PROVE  /\ root' \in [Checks -> Processes]
         /\ child' \in [Checks -> Processes]
         /\ UNCHANGED <<exit, kin>>
         /\ HasPid' = HasPid
         /\ escalation' = escalation \cup S
         /\ signalled' = signalled \cup S
         /\ \A c \in Checks :
              /\ root'[c] = "none" <=> root[c] = "none"
              /\ child'[c] = "none" <=> child[c] = "none"
              /\ GroupAlive(c)' => GroupAlive(c)
         /\ \E refusing \in SUBSET RootsIn(S) : Refused(refusing, pending)
<1>1. PICK refusing \in SUBSET RootsIn(S) :
        /\ \E roots \in SUBSET (RootsIn(S) \ refusing), children \in SUBSET ChildrenIn(S) :
             Kill(roots, children)
        /\ Refused(refusing, pending)
  BY DEF KillWithEscalation, BestEffortKillTree
<1>2. PICK roots \in SUBSET RootsIn(S), children \in SUBSET ChildrenIn(S) : Kill(roots, children)
  BY <1>1
<1>3. roots \subseteq RootsIn(S) /\ children \subseteq ChildrenIn(S)
  OBVIOUS
<1> QED
  BY <1>1, <1>2, <1>3, KillFacts DEF KillWithEscalation

(* A callback that makes checks of S hear an abort, kills the checks of T  *)
(* of the host's own and those that heard it: what the three of them,      *)
(* timeout, caller and host, do to the invariant.  The host names its own  *)
(* kills those of the handles that are left.                               *)
LEMMA AbortFacts ==
  ASSUME IInv, NEW S \in SUBSET Checks,
         NEW STATE aborter, aborter \in {"none", "caller", "host"},
         TerminationReason(S, aborter),
         NEW STATE T, T \subseteq activeHandles,
         NEW STATE pending, pending \subseteq timeout,
         KillWithEscalation(T \cup (Hearing(S) \cap HasPid), pending),
         T = {} => hostTerminated' = hostTerminated,
         T # {} => T = activeHandles /\ S = Checks /\ hostTerminated' = hostTerminated \cup LeftActive,
         abortedBy' \in {"none", "caller", "host"},
         abortedBy # "none" => abortedBy' = abortedBy,
         abortedBy' = "host" => T = activeHandles \/ activeHandles \subseteq hostTerminated,
         aborter # "none" => abortedBy' # "none",
         handlers' \in BOOLEAN, host' \in {"running", "ending", "exited", "killed"},
         host' \in {"ending", "exited"} =>
           /\ ~ handlers' /\ abortedBy' # "none"
           /\ T = activeHandles \/ activeHandles \subseteq hostTerminated,
         host' = "exited" => LeftActive = {} /\ T = activeHandles
  PROVE  IInv'
<1>1. /\ TypeOK /\ ArmedOK /\ ProcessOK /\ KillsOK /\ GraceOK /\ EvidenceOK
  BY DEF IInv
<1> DEFINE K == T \cup (Hearing(S) \cap HasPid)
<1>2. K \subseteq activeHandles /\ K \subseteq Checks
      /\ \A c \in Hearing(S) : c \in listening /\ c \in S /\ reason[c] = "none"
  BY <1>1 DEF Hearing, ArmedOK, TypeOK
<1>3. /\ root' \in [Checks -> Processes]
      /\ child' \in [Checks -> Processes]
      /\ UNCHANGED <<exit, kin>>
      /\ HasPid' = HasPid
      /\ escalation' = escalation \cup K
      /\ signalled' = signalled \cup K
      /\ \A c \in Checks :
           /\ root'[c] = "none" <=> root[c] = "none"
           /\ child'[c] = "none" <=> child[c] = "none"
           /\ GroupAlive(c)' => GroupAlive(c)
  BY <1>1, <1>2, KillWithEscalationFacts
<1>4. PICK refusing \in SUBSET RootsIn(K) : Refused(refusing, pending)
  BY <1>1, <1>2, KillWithEscalationFacts
<1>5. /\ phase' \in [Checks -> {"queued", "open", "settled", "threw"}]
      /\ evidence' \in [Checks -> OwnKills \cup {"none", "completed", "signaled", "spawn_error"}]
      /\ timeout' \subseteq timeout \ refusing
      /\ listening' = listening \ refusing
      /\ activeHandles' = activeHandles \ refusing
      /\ \A c \in Checks \ refusing : phase'[c] = phase[c] /\ evidence'[c] = evidence[c]
      /\ \A c \in refusing : /\ c \in K /\ phase[c] = "open" /\ root[c] = "alive"
                             /\ phase'[c] = "settled" /\ evidence'[c] = "spawn_error"
  BY <1>1, <1>2, <1>4 DEF TypeOK, ArmedOK, Refused, RootsIn
<1>6. /\ reason' \in [Checks -> {"none", "aborted", "timed_out"}]
      /\ \A c \in Checks :
           reason'[c] = IF c \notin Hearing(S) THEN reason[c]
                        ELSE IF aborter # "none" THEN "aborted" ELSE "timed_out"
  BY <1>1 DEF TerminationReason, TypeOK
<1>7. /\ hostTerminated \subseteq hostTerminated'
      /\ hostTerminated' \subseteq hostTerminated \cup T
      /\ T = activeHandles => activeHandles' \subseteq hostTerminated'
      /\ T = activeHandles /\ LeftActive = {} => activeHandles' = {}
  <2>1. \A c \in activeHandles' : c \in activeHandles /\ phase'[c] = "open"
    BY <1>1, <1>2, <1>5 DEF ArmedOK
  <2>2. T = {} => T # activeHandles \/ activeHandles' = {}
    BY <2>1
  <2> QED
    BY <1>1, <2>1, <2>2 DEF LeftActive
<1>8. TypeOK'
  BY <1>1, <1>2, <1>3, <1>5, <1>6, <1>7 DEF TypeOK
<1>9. ArmedOK'
  <2>1. listening' = {c \in Checks : phase'[c] = "open"} /\ activeHandles' = listening' \cap HasPid'
    BY <1>1, <1>3, <1>5 DEF ArmedOK
  <2>2. ASSUME NEW c \in escalation'
        PROVE  c \in activeHandles' \/ Disowned(c)'
    BY <1>1, <1>2, <1>3, <1>5, <2>2 DEF ArmedOK, Disowned, TypeOK
  <2>3. \A c \in timeout' : phase'[c] \in {"open", "threw"}
    BY <1>1, <1>5 DEF ArmedOK, TypeOK
  <2> QED
    BY <2>1, <2>2, <2>3 DEF ArmedOK
<1>10. ProcessOK'
  BY <1>1, <1>2, <1>3, <1>5, <1>6 DEF ProcessOK, ArmedOK
<1>11. KillsOK'
  <2>1. signalled' = {c \in HasPid' : reason'[c] # "none"} \cup hostTerminated'
    <3>1. ASSUME NEW c \in T
          PROVE  reason'[c] # "none" \/ c \in hostTerminated'
      BY <1>1, <1>2, <1>6, <3>1 DEF Hearing, ArmedOK, LeftActive
    <3> QED
      BY <1>1, <1>2, <1>3, <1>6, <1>7, <3>1 DEF KillsOK, TypeOK, ArmedOK, Hearing
  <2>2. hostTerminated' \subseteq HasPid' /\ escalation' \subseteq signalled'
    BY <1>1, <1>3, <1>7 DEF KillsOK, ArmedOK
  <2>3. \A c \in activeHandles' \ hostTerminated' : reason'[c] = "aborted" => abortedBy' = "caller"
    <3> SUFFICES ASSUME NEW c \in activeHandles' \ hostTerminated', reason'[c] = "aborted"
                 PROVE  abortedBy' = "caller"
      OBVIOUS
    <3>1. c \in activeHandles \ hostTerminated /\ c \in Checks
      BY <1>1, <1>5, <1>7 DEF TypeOK
    <3>2. CASE c \in Hearing(S)
      BY <1>6, <1>7, <3>1, <3>2
    <3>3. CASE c \notin Hearing(S)
      BY <1>1, <1>6, <3>1, <3>3 DEF KillsOK
    <3> QED
      BY <3>2, <3>3
  <2> QED
    BY <1>5, <1>7, <2>1, <2>2, <2>3 DEF KillsOK
<1>12. HostOK'
  BY <1>5, <1>7 DEF HostOK
<1>13. GraceOK'
  BY <1>1, <1>3, <1>5 DEF GraceOK, TypeOK
<1>14. ExitedOK'
  BY <1>1, <1>3, <1>7, <1>9, <1>10 DEF ExitedOK, ArmedOK, ProcessOK
<1>15. EvidenceOK'
  BY <1>1, <1>2, <1>3, <1>5 DEF EvidenceOK, ArmedOK, KillsOK, OwnKills
<1> QED
  BY <1>8, <1>9, <1>10, <1>11, <1>12, <1>13, <1>14, <1>15 DEF IInv

(* cleanup leaves nothing of the check armed, and every other one as it is. *)
LEMMA SettleFacts ==
  ASSUME IInv, NEW c \in Checks, Running,
         Cleanup(c),
         phase' = [phase EXCEPT ![c] = "settled"],
         NEW how \in OwnKills \cup {"completed", "signaled", "spawn_error"},
         evidence' = [evidence EXCEPT ![c] = how],
         phase[c] = "open" \/ (Disowned(c) /\ how = evidence[c]),
         c \in HasPid => /\ c \in signalled <=> how \in OwnKills \cup {"spawn_error"}
                         /\ how = "aborted" => abortedBy = "caller",
         UNCHANGED <<killVars, hostVars, processVars>>
  PROVE  IInv'
<1>1. /\ TypeOK /\ ArmedOK /\ ProcessOK /\ KillsOK /\ HostOK /\ GraceOK /\ ExitedOK /\ EvidenceOK
  BY DEF IInv
<1>2. /\ UNCHANGED <<reason, hostTerminated, signalled, abortedBy, handlers, host, root, exit, kin, child>>
      /\ HasPid' = HasPid
      /\ timeout' = timeout \ {c}
      /\ escalation' = escalation \ {c}
      /\ listening' = listening \ {c}
      /\ activeHandles' = activeHandles \ {c}
  BY DEF killVars, hostVars, processVars, Cleanup
<1>3. /\ \A d \in Checks : phase'[d] = IF d = c THEN "settled" ELSE phase[d]
      /\ \A d \in Checks : evidence'[d] = IF d = c THEN how ELSE evidence[d]
      /\ phase[c] # "queued"
  BY <1>1 DEF TypeOK, Disowned
<1>4. TypeOK'
  BY <1>1, <1>2 DEF TypeOK, OwnKills
<1>5. ArmedOK'
  <2>1. listening' = {d \in Checks : phase'[d] = "open"} /\ activeHandles' = listening' \cap HasPid'
    BY <1>1, <1>2, <1>3 DEF ArmedOK, Disowned
  <2>2. \A d \in escalation' : d \in activeHandles' \/ Disowned(d)'
    BY <1>1, <1>2, <1>3 DEF ArmedOK, TypeOK, Disowned
  <2>3. \A d \in timeout' : phase'[d] \in {"open", "threw"}
    BY <1>1, <1>2, <1>3 DEF ArmedOK, TypeOK
  <2> QED
    BY <2>1, <2>2, <2>3 DEF ArmedOK
<1>6. ProcessOK' /\ KillsOK' /\ HostOK'
  BY <1>1, <1>2, <1>3 DEF ProcessOK, KillsOK, HostOK
<1>7. GraceOK' /\ ExitedOK'
  BY <1>1, <1>2, <1>3 DEF GraceOK, ExitedOK, TypeOK
<1>8. EvidenceOK'
  BY <1>1, <1>2, <1>3 DEF EvidenceOK
<1> QED
  BY <1>4, <1>5, <1>6, <1>7, <1>8 DEF IInv

(* A process of some check ends by itself or of a signal: no group comes   *)
(* to life by it.                                                          *)
LEMMA ProcessEnds ==
  ASSUME IInv,
         root' \in [Checks -> Processes], child' \in [Checks -> Processes],
         exit' \in [Checks -> {"none", "code", "signal"}], UNCHANGED kin,
         \A c \in Checks :
           /\ root'[c] = "none" <=> root[c] = "none"
           /\ child'[c] = "none" <=> child[c] = "none"
           /\ GroupAlive(c)' => GroupAlive(c),
         UNCHANGED <<promiseVars, killVars, armedVars, hostVars>>
  PROVE  IInv'
<1>1. /\ TypeOK /\ ArmedOK /\ ProcessOK /\ KillsOK /\ HostOK /\ GraceOK /\ ExitedOK /\ EvidenceOK
  BY DEF IInv
<1>2. UNCHANGED <<phase, evidence, reason, hostTerminated, signalled, timeout, escalation,
                  listening, activeHandles, abortedBy, handlers, host>>
  BY DEF promiseVars, killVars, armedVars, hostVars
<1>3. HasPid' = HasPid
  OBVIOUS
<1>4. TypeOK' /\ ArmedOK'
  BY <1>1, <1>2, <1>3 DEF TypeOK, ArmedOK, Disowned
<1>5. ProcessOK' /\ KillsOK' /\ HostOK'
  BY <1>1, <1>2, <1>3 DEF ProcessOK, KillsOK, HostOK
<1>6. GraceOK' /\ ExitedOK'
  BY <1>1, <1>2 DEF GraceOK, ExitedOK, TypeOK
<1>7. EvidenceOK'
  BY <1>1, <1>2, <1>3 DEF EvidenceOK
<1> QED
  BY <1>4, <1>5, <1>6, <1>7 DEF IInv

(* The promise is created: what spawn throwing, failing and succeeding     *)
(* have in common.                                                         *)
LEMMA LaunchStep ==
  ASSUME IInv, NEW c \in Checks, Launch(c),
         SpawnThrows(c) \/ SpawnFails(c) \/ Spawns(c)
  PROVE  IInv'
<1>1. /\ TypeOK /\ ArmedOK /\ ProcessOK /\ KillsOK /\ HostOK /\ GraceOK /\ ExitedOK /\ EvidenceOK
  BY DEF IInv
<1>2. /\ host = "running"
      /\ phase[c] = "queued" /\ root[c] = "none" /\ child[c] = "none" /\ reason[c] = "none"
      /\ abortedBy = "none"
      /\ timeout' \subseteq timeout \cup {c}
      /\ c \notin signalled /\ c \notin hostTerminated /\ c \notin escalation
      /\ UNCHANGED <<evidence, reason, hostTerminated, signalled, escalation, abortedBy, handlers, host>>
  BY <1>1 DEF Launch, Running, killVars, hostVars, ProcessOK, KillsOK, HostOK, ArmedOK, TypeOK
<1>3. CASE SpawnThrows(c)
  <2>1. /\ phase' = [phase EXCEPT ![c] = "threw"]
        /\ UNCHANGED <<listening, activeHandles, root, exit, kin, child>>
    BY <1>3 DEF SpawnThrows, processVars
  <2>2. TypeOK' /\ ArmedOK'
    BY <1>1, <1>2, <2>1 DEF TypeOK, ArmedOK, Disowned
  <2>3. ProcessOK' /\ KillsOK' /\ HostOK'
    BY <1>1, <1>2, <2>1 DEF TypeOK, ProcessOK, KillsOK, HostOK
  <2>4. GraceOK' /\ ExitedOK' /\ EvidenceOK'
    BY <1>1, <1>2, <2>1 DEF TypeOK, GraceOK, ExitedOK, EvidenceOK
  <2> QED
    BY <2>2, <2>3, <2>4 DEF IInv
<1>4. CASE SpawnFails(c)
  <2>1. /\ phase' = [phase EXCEPT ![c] = "open"]
        /\ listening' = listening \cup {c}
        /\ UNCHANGED <<activeHandles, root, exit, kin, child>>
    BY <1>4 DEF SpawnFails, processVars
  <2>2. TypeOK' /\ ArmedOK'
    BY <1>1, <1>2, <2>1 DEF TypeOK, ArmedOK, Disowned
  <2>3. ProcessOK' /\ KillsOK' /\ HostOK'
    BY <1>1, <1>2, <2>1 DEF TypeOK, ProcessOK, KillsOK, HostOK
  <2>4. GraceOK' /\ ExitedOK' /\ EvidenceOK'
    BY <1>1, <1>2, <2>1 DEF TypeOK, GraceOK, ExitedOK, EvidenceOK
  <2> QED
    BY <2>2, <2>3, <2>4 DEF IInv
<1>5. CASE Spawns(c)
  <2>1. /\ phase' = [phase EXCEPT ![c] = "open"]
        /\ listening' = listening \cup {c}
        /\ activeHandles' = activeHandles \cup {c}
        /\ root' = [root EXCEPT ![c] = "alive"]
        /\ UNCHANGED exit
    BY <1>5 DEF Spawns
  <2>2. PICK k \in Descendants :
          /\ kin' = [kin EXCEPT ![c] = k]
          /\ child' = [child EXCEPT ![c] = IF k = "none" THEN "none" ELSE "alive"]
    BY <1>5 DEF Spawns
  <2>3. HasPid' = HasPid \cup {c}
    BY <1>1, <2>1 DEF TypeOK
  <2>4. TypeOK'
    BY <1>1, <1>2, <2>1, <2>2, <2>3 DEF TypeOK, Processes
  <2>5. ArmedOK'
    BY <1>1, <1>2, <2>1, <2>3 DEF TypeOK, ArmedOK, Disowned
  <2>6. ProcessOK' /\ KillsOK' /\ HostOK'
    BY <1>1, <1>2, <2>1, <2>2, <2>3 DEF TypeOK, ProcessOK, KillsOK, HostOK
  <2>7. GraceOK' /\ ExitedOK'
    BY <1>1, <1>2, <2>1, <2>2 DEF TypeOK, GraceOK, ExitedOK
  <2>8. EvidenceOK'
    BY <1>1, <1>2, <2>1, <2>3 DEF TypeOK, EvidenceOK
  <2> QED
    BY <2>4, <2>5, <2>6, <2>7, <2>8 DEF IInv
<1> QED
  BY <1>3, <1>4, <1>5

----------------------------------------------------------------------------
(* Nothing has been started, armed or signalled. *)
LEMMA InitIInv == Init => IInv
<1> SUFFICES ASSUME Init
             PROVE  IInv
  OBVIOUS
<1>1. TypeOK
  BY DEF Init, TypeOK, OwnKills, Processes
<1>2. ArmedOK /\ ProcessOK /\ KillsOK /\ HostOK
  BY DEF Init, ArmedOK, ProcessOK, KillsOK, HostOK
<1>3. GraceOK /\ ExitedOK /\ EvidenceOK
  BY DEF Init, GraceOK, ExitedOK, EvidenceOK
<1> QED
  BY <1>1, <1>2, <1>3 DEF IInv

(* Every callback and every end of a process keeps the invariant. *)
LEMMA NextIInv == IInv /\ [Next]_vars => IInv'
<1> SUFFICES ASSUME IInv, [Next]_vars
             PROVE  IInv'
  OBVIOUS
<1>1. /\ TypeOK /\ ArmedOK /\ ProcessOK /\ KillsOK /\ HostOK /\ GraceOK /\ ExitedOK /\ EvidenceOK
  BY DEF IInv
<1>2. CASE CallerAborts
  <2>1. /\ abortedBy = "none" /\ abortedBy' = "caller"
        /\ host \in {"running", "ending"}
        /\ TerminationReason(Checks, "caller")
        /\ KillWithEscalation({} \cup (Hearing(Checks) \cap HasPid), timeout)
        /\ UNCHANGED <<hostTerminated, handlers, host>>
    BY <1>2 DEF CallerAborts, Running
  <2>2. /\ handlers' \in BOOLEAN
        /\ host' \in {"ending", "exited"} => ~ handlers' /\ activeHandles \subseteq hostTerminated
    BY <1>1, <2>1 DEF HostOK, TypeOK
  <2> QED
    BY <2>1, <2>2, AbortFacts
<1>3. CASE HostSignal
  <2>1. /\ handlers' = FALSE
        /\ abortedBy' = IF abortedBy = "none" THEN "host" ELSE abortedBy
        /\ TerminationReason(Checks, "host")
        /\ KillWithEscalation(activeHandles \cup (Hearing(Checks) \cap HasPid), timeout)
        /\ hostTerminated' = hostTerminated \cup LeftActive
        /\ host' = IF LeftActive = {} THEN "exited" ELSE "ending"
    BY <1>3 DEF HostSignal
  <2>2. /\ handlers' \in BOOLEAN
        /\ host' \in {"running", "ending", "exited", "killed"}
        /\ host' = "exited" => LeftActive = {}
        /\ activeHandles = {} => hostTerminated' = hostTerminated
        /\ abortedBy' \in {"none", "caller", "host"} /\ abortedBy' # "none"
        /\ abortedBy # "none" => abortedBy' = abortedBy
    BY <1>1, <2>1 DEF TypeOK, LeftActive
  <2> QED
    BY <2>1, <2>2, AbortFacts
<1>4. CASE SelfTerminates
  <2>1. /\ host = "ending" /\ host' = "exited" /\ escalation = {}
        /\ UNCHANGED <<phase, evidence, reason, hostTerminated, signalled, timeout, escalation,
                       listening, activeHandles, abortedBy, handlers, root, exit, kin, child>>
    BY <1>4 DEF SelfTerminates, promiseVars, killVars, armedVars, processVars
  <2>2. \A c \in Checks : phase[c] = "open" => ~ GroupAlive(c)
    <3> SUFFICES ASSUME NEW c \in Checks, phase[c] = "open", root[c] # "none"
                 PROVE  ~ GroupAlive(c)
      BY <1>1 DEF ProcessOK
    <3>1. c \in signalled
      BY <1>1, <2>1 DEF ArmedOK, HostOK, KillsOK
    <3> QED
      BY <1>1, <2>1, <3>1 DEF GraceOK
  <2>3. TypeOK' /\ ArmedOK' /\ ProcessOK' /\ KillsOK' /\ HostOK'
    BY <1>1, <2>1 DEF TypeOK, ArmedOK, Disowned, ProcessOK, KillsOK, HostOK
  <2>4. GraceOK' /\ ExitedOK' /\ EvidenceOK'
    BY <1>1, <2>1, <2>2 DEF GraceOK, ExitedOK, EvidenceOK
  <2> QED
    BY <2>3, <2>4 DEF IInv
<1>5. CASE UnhandledSignal
  <2>1. /\ host' = "killed"
        /\ UNCHANGED <<phase, evidence, reason, hostTerminated, signalled, timeout, escalation,
                       listening, activeHandles, abortedBy, handlers, root, exit, kin, child>>
    BY <1>5 DEF UnhandledSignal, promiseVars, killVars, armedVars, processVars
  <2>2. TypeOK' /\ ArmedOK' /\ ProcessOK' /\ KillsOK' /\ HostOK'
    BY <1>1, <2>1 DEF TypeOK, ArmedOK, Disowned, ProcessOK, KillsOK, HostOK
  <2>3. GraceOK' /\ ExitedOK' /\ EvidenceOK'
    BY <1>1, <2>1 DEF GraceOK, ExitedOK, EvidenceOK
  <2> QED
    BY <2>2, <2>3 DEF IInv
<1>6. CASE Finally
  <2>1. /\ handlers' = FALSE
        /\ UNCHANGED <<phase, evidence, reason, hostTerminated, signalled, timeout, escalation,
                       listening, activeHandles, abortedBy, host, root, exit, kin, child>>
    BY <1>6 DEF Finally, promiseVars, killVars, armedVars, processVars
  <2>2. TypeOK' /\ ArmedOK' /\ ProcessOK' /\ KillsOK' /\ HostOK'
    BY <1>1, <2>1 DEF TypeOK, ArmedOK, Disowned, ProcessOK, KillsOK, HostOK
  <2>3. GraceOK' /\ ExitedOK' /\ EvidenceOK'
    BY <1>1, <2>1 DEF GraceOK, ExitedOK, EvidenceOK
  <2> QED
    BY <2>2, <2>3 DEF IInv
<1>7. ASSUME NEW c \in Checks, AnswerWithoutSpawning(c)
      PROVE  IInv'
  <2>1. /\ phase[c] = "queued" /\ root[c] = "none"
        /\ phase' = [phase EXCEPT ![c] = "settled"]
        /\ evidence' = [evidence EXCEPT ![c] = "aborted"]
        /\ UNCHANGED <<reason, hostTerminated, signalled, timeout, escalation, listening, activeHandles,
                       abortedBy, handlers, host, root, exit, kin, child>>
    BY <1>1, <1>7 DEF AnswerWithoutSpawning, killVars, armedVars, hostVars, processVars, ProcessOK
  <2>2. TypeOK' /\ ArmedOK'
    <3>1. TypeOK'
      BY <1>1, <2>1 DEF TypeOK, OwnKills
    <3>2. ArmedOK'
      BY <1>1, <2>1 DEF TypeOK, ArmedOK, Disowned
    <3> QED
      BY <3>1, <3>2
  <2>3. ProcessOK' /\ KillsOK' /\ HostOK'
    BY <1>1, <2>1 DEF TypeOK, ProcessOK, KillsOK, HostOK
  <2>4. GraceOK' /\ ExitedOK' /\ EvidenceOK'
    BY <1>1, <2>1 DEF TypeOK, GraceOK, ExitedOK, EvidenceOK
  <2> QED
    BY <2>2, <2>3, <2>4 DEF IInv
<1>8. ASSUME NEW c \in Checks, SpawnThrows(c) \/ SpawnFails(c) \/ Spawns(c)
      PROVE  IInv'
  BY <1>8, LaunchStep DEF SpawnThrows, SpawnFails, Spawns
<1>9. ASSUME NEW c \in Checks, TimeoutFires(c)
      PROVE  IInv'
  <2>1. /\ TerminationReason({c}, abortedBy)
        /\ KillWithEscalation({} \cup (Hearing({c}) \cap HasPid), timeout \ {c})
        /\ UNCHANGED <<hostTerminated, abortedBy, handlers, host>>
    BY <1>9 DEF TimeoutFires, hostVars
  <2>2. /\ abortedBy \in {"none", "caller", "host"}
        /\ handlers' \in BOOLEAN /\ host' \in {"running", "ending", "exited", "killed"}
        /\ abortedBy = "host" => activeHandles \subseteq hostTerminated
        /\ host \in {"ending", "exited"} =>
             ~ handlers /\ abortedBy # "none" /\ activeHandles \subseteq hostTerminated
        /\ host # "exited"
        /\ timeout \ {c} \subseteq timeout /\ {c} \in SUBSET Checks /\ {} \subseteq activeHandles
    BY <1>1, <1>9, <2>1 DEF TypeOK, HostOK, KillsOK, TimeoutFires, Running
  <2> QED
    BY <2>1, <2>2, AbortFacts
<1>10. ASSUME NEW c \in Checks, EscalationFires(c)
       PROVE  IInv'
  <2>1. PICK refusing \in SUBSET RootsIn({c}) :
          /\ Kill(RootsIn({c}) \ refusing, ChildrenIn({c}))
          /\ Refused(refusing, timeout)
    BY <1>10 DEF EscalationFires
  <2>2. /\ c \in escalation /\ escalation' = escalation \ {c}
        /\ UNCHANGED <<reason, hostTerminated, signalled, abortedBy, handlers, host>>
        /\ c \in HasPid /\ c \in signalled /\ phase[c] # "queued"
    BY <1>1, <1>10 DEF EscalationFires, killVars, hostVars, KillsOK, ProcessOK, TypeOK
  <2>3. /\ root' \in [Checks -> Processes]
        /\ child' \in [Checks -> Processes]
        /\ UNCHANGED <<exit, kin>>
        /\ HasPid' = HasPid
        /\ \A d \in Checks :
             /\ root'[d] = "none" <=> root[d] = "none"
             /\ child'[d] = "none" <=> child[d] = "none"
             /\ GroupAlive(d)' => GroupAlive(d)
        /\ refusing = {} => ~ GroupAlive(c)'
    <3>1. /\ RootsIn({c}) \ refusing \subseteq RootsIn({c})
          /\ refusing = {} => RootsIn({c}) \ refusing = RootsIn({c})
      OBVIOUS
    <3> QED
      BY <1>1, <2>1, <3>1, KillFacts
  <2>4. /\ refusing \subseteq {c}
        /\ phase' = [d \in Checks |-> IF d \in refusing THEN "settled" ELSE phase[d]]
        /\ evidence' = [d \in Checks |-> IF d \in refusing THEN "spawn_error" ELSE evidence[d]]
        /\ timeout' = timeout \ refusing
        /\ listening' = listening \ refusing
        /\ activeHandles' = activeHandles \ refusing
    BY <2>1 DEF Refused, RootsIn
  <2>5. TypeOK'
    BY <1>1, <2>2, <2>3, <2>4 DEF TypeOK
  <2>6. ArmedOK'
    <3>1. listening' = {d \in Checks : phase'[d] = "open"} /\ activeHandles' = listening' \cap HasPid'
      BY <1>1, <2>3, <2>4 DEF ArmedOK
    <3>2. \A d \in escalation' : d \in activeHandles' \/ Disowned(d)'
      BY <1>1, <2>2, <2>3, <2>4 DEF ArmedOK, TypeOK, Disowned
    <3>3. \A d \in timeout' : phase'[d] \in {"open", "threw"}
      BY <1>1, <2>4 DEF ArmedOK, TypeOK
    <3> QED
      BY <3>1, <3>2, <3>3 DEF ArmedOK
  <2>7. ProcessOK' /\ KillsOK' /\ HostOK'
    BY <1>1, <2>2, <2>3, <2>4 DEF ProcessOK, KillsOK, HostOK
  <2>8. GraceOK' /\ ExitedOK'
    BY <1>1, <2>2, <2>3, <2>4 DEF TypeOK, GraceOK, ExitedOK
  <2>9. EvidenceOK'
    BY <1>1, <2>2, <2>3, <2>4 DEF EvidenceOK
  <2> QED
    BY <2>5, <2>6, <2>7, <2>8, <2>9 DEF IInv
<1>11. ASSUME NEW c \in Checks, Close(c)
       PROVE  IInv'
  <2> DEFINE how == IF phase[c] = "open" THEN Status(c) ELSE evidence[c]
  <2>1. /\ Running /\ Cleanup(c)
        /\ phase[c] = "open" \/ c \in escalation
        /\ phase' = [phase EXCEPT ![c] = "settled"]
        /\ evidence' = [evidence EXCEPT ![c] = how]
        /\ UNCHANGED <<killVars, hostVars, processVars>>
    BY <1>11 DEF Close
  <2>2. phase[c] = "open" \/ Disowned(c)
    BY <1>1, <2>1 DEF ArmedOK
  <2>3. how \in OwnKills \cup {"completed", "signaled", "spawn_error"}
    BY <1>1, <2>2 DEF Status, OwnKills, TypeOK, Disowned
  <2>4. c \in HasPid => /\ c \in signalled <=> how \in OwnKills \cup {"spawn_error"}
                        /\ how = "aborted" => abortedBy = "caller"
    BY <1>1, <2>2 DEF Status, OwnKills, TypeOK, KillsOK, ArmedOK, Disowned, EvidenceOK
  <2>5. phase[c] = "open" \/ (Disowned(c) /\ how = evidence[c])
    BY <2>2 DEF Disowned
  <2> HIDE DEF how
  <2> QED
    BY <2>1, <2>3, <2>4, <2>5, SettleFacts
<1>12. ASSUME NEW c \in Checks, ErrorEvent(c)
       PROVE  IInv'
  <2>1. /\ phase[c] = "open" /\ c \notin HasPid /\ Running /\ Cleanup(c)
        /\ phase' = [phase EXCEPT ![c] = "settled"]
        /\ evidence' = [evidence EXCEPT ![c] = "spawn_error"]
        /\ UNCHANGED <<killVars, hostVars, processVars>>
    BY <1>12 DEF ErrorEvent
  <2> QED
    BY <2>1, SettleFacts
<1>13. ASSUME NEW c \in Checks, RootExits(c) \/ RootDies(c)
       PROVE  IInv'
  <2>1. /\ root[c] \in {"alive", "dying"}
        /\ root' = [root EXCEPT ![c] = "exited"]
        /\ \E how \in {"code", "signal"} : exit' = [exit EXCEPT ![c] = how]
        /\ UNCHANGED <<promiseVars, killVars, armedVars, hostVars, kin, child>>
    BY <1>13 DEF RootExits, RootDies
  <2>2. /\ root' \in [Checks -> Processes] /\ child' \in [Checks -> Processes]
        /\ exit' \in [Checks -> {"none", "code", "signal"}]
        /\ \A d \in Checks :
             /\ root'[d] = "none" <=> root[d] = "none"
             /\ child'[d] = "none" <=> child[d] = "none"
             /\ GroupAlive(d)' => GroupAlive(d)
    BY <1>1, <2>1 DEF TypeOK, Processes
  <2> QED
    BY <2>1, <2>2, ProcessEnds
<1>14. ASSUME NEW c \in Checks, ChildExits(c) \/ ChildDies(c)
       PROVE  IInv'
  <2>1. /\ child[c] \in {"alive", "dying"}
        /\ child' = [child EXCEPT ![c] = "exited"]
        /\ UNCHANGED <<promiseVars, killVars, armedVars, hostVars, root, exit, kin>>
    BY <1>14 DEF ChildExits, ChildDies
  <2>2. /\ root' \in [Checks -> Processes] /\ child' \in [Checks -> Processes]
        /\ exit' \in [Checks -> {"none", "code", "signal"}]
        /\ \A d \in Checks :
             /\ root'[d] = "none" <=> root[d] = "none"
             /\ child'[d] = "none" <=> child[d] = "none"
             /\ GroupAlive(d)' => GroupAlive(d)
    BY <1>1, <2>1 DEF TypeOK, Processes
  <2> QED
    BY <2>1, <2>2, ProcessEnds
<1>15. CASE UNCHANGED vars
  <2>1. /\ UNCHANGED <<promiseVars, killVars, armedVars, hostVars, root, exit, kin, child>>
    BY <1>15 DEF vars, processVars
  <2> QED
    BY <1>1, <2>1, ProcessEnds DEF TypeOK
<1> QED
  BY <1>2, <1>3, <1>4, <1>5, <1>6, <1>7, <1>8, <1>9, <1>10, <1>11, <1>12, <1>13, <1>14, <1>15 DEF Next

(* The invariant holds of every behaviour of the calls. *)
THEOREM Inductive == Spec => []IInv
<1>1. Init => IInv
  BY InitIInv
<1>2. IInv /\ [Next]_vars => IInv'
  BY NextIInv
<1> QED
  BY <1>1, <1>2, PTL DEF Spec

----------------------------------------------------------------------------
(* Handles and timers are of spawned checks only, and the host's kills are *)
(* among the trees that were signalled.                                    *)
THEOREM TypeCorrect == Spec => []TypeOK
<1>1. IInv => TypeOK
  BY DEF IInv
<1> QED
  BY <1>1, Inductive, PTL

(* cleanup misses nothing on any path that settles: whatever the order of  *)
(* timers, aborts, signals and events, what could still signal a pid       *)
(* belongs to no settled check, but for the one escalation armed behind a  *)
(* refused kill.                                                           *)
THEOREM NothingArmed == Spec => []NothingArmedAfterSettle
<1>1. IInv => NothingArmedAfterSettle
  BY DEF IInv, ArmedOK, KillsOK, Disowned, TypeOK, NothingArmedAfterSettle
<1> QED
  BY <1>1, Inductive, PTL

(* However many kills of a check overlap, SIGKILL is still to come for it  *)
(* or has ended all of its process group.                                  *)
THEOREM Grace == Spec => []GraceIsBounded
<1>1. IInv => GraceIsBounded
  BY DEF IInv, GraceOK, TypeOK, GraceIsBounded, RootsIn, ChildrenIn
<1> QED
  BY <1>1, Inductive, PTL

(* The host that re-sends itself the signal leaves no live process in the  *)
(* group of a check it still waited for.                                   *)
THEOREM NothingLeftAlive == Spec => []HostLeavesNothingAlive
<1>1. IInv => HostLeavesNothingAlive
  BY DEF IInv, ExitedOK, HostLeavesNothingAlive, RootsIn, ChildrenIn
<1> QED
  BY <1>1, Inductive, PTL

(* The evidence of a spawned check names a kill of the run, taken or       *)
(* refused, exactly when there was one, and "aborted" only when the        *)
(* caller's signal did it.                                                 *)
THEOREM KillsAreOwned == Spec => []OwnKillsAreOwned
<1>1. IInv => OwnKillsAreOwned
  BY DEF IInv, EvidenceOK, OwnKillsAreOwned
<1> QED
  BY <1>1, Inductive, PTL

(* What a step may never do to a check whose promise has settled: signal   *)
(* its tree anew, or bring one of its processes down by a signal of the    *)
(* run, but for the one SIGKILL that was armed when it refused a kill.     *)
Felled(c) ==
  \/ root'[c] = "dying" /\ root[c] # "dying"
  \/ child'[c] = "dying" /\ child[c] # "dying"

LateKillsAreArmed(c) ==
  phase[c] = "settled" =>
    /\ c \in signalled' => c \in signalled
    /\ Felled(c) => c \in escalation /\ evidence[c] = "spawn_error" /\ c \notin escalation'

NoLateKill == [][\A c \in Checks : LateKillsAreArmed(c)]_vars

(* killTree is called for no check after its promise settled, when its pid *)
(* may already be another process's, but at most once for one whose        *)
(* process refused a kill (cleanup, lines 430 to 461).                     *)
THEOREM NeverKilledLate == Spec => NoLateKill
<1>1. ASSUME IInv, [Next]_vars, NEW c \in Checks, phase[c] = "settled"
      PROVE  LateKillsAreArmed(c)
  <2>1. /\ TypeOK /\ c \notin listening /\ c \notin activeHandles
        /\ c \in escalation => evidence[c] = "spawn_error"
    BY <1>1 DEF IInv, ArmedOK, Disowned
  <2>2. ASSUME NEW STATE S, NEW STATE pending, c \notin S, KillWithEscalation(S, pending)
        PROVE  LateKillsAreArmed(c)
    BY <2>2 DEF KillWithEscalation, BestEffortKillTree, Kill, RootsIn, ChildrenIn,
                LateKillsAreArmed, Felled
  <2>3. CASE CallerAborts
    BY <2>1, <2>2, <2>3 DEF CallerAborts, Hearing
  <2>4. CASE HostSignal
    BY <2>1, <2>2, <2>4 DEF HostSignal, Hearing
  <2>5. ASSUME NEW d \in Checks, TimeoutFires(d)
        PROVE  LateKillsAreArmed(c)
    BY <2>1, <2>2, <2>5 DEF TimeoutFires, Hearing
  <2>6. ASSUME NEW d \in Checks, EscalationFires(d)
        PROVE  LateKillsAreArmed(c)
    <3>1. c # d => ~ Felled(c)
      BY <2>1, <2>6 DEF EscalationFires, Kill, RootsIn, ChildrenIn, Felled
    <3> QED
      BY <2>1, <2>6, <3>1 DEF EscalationFires, killVars, LateKillsAreArmed
  <2>7. CASE SelfTerminates \/ UnhandledSignal \/ Finally
    BY <2>7 DEF SelfTerminates, UnhandledSignal, Finally, killVars, processVars,
                LateKillsAreArmed, Felled
  <2>8. ASSUME NEW d \in Checks,
               AnswerWithoutSpawning(d) \/ Close(d) \/ ErrorEvent(d) \/ SpawnThrows(d) \/ SpawnFails(d)
        PROVE  UNCHANGED <<signalled, root, child>>
    BY <2>8 DEF AnswerWithoutSpawning, Close, ErrorEvent, SpawnThrows, SpawnFails, Launch,
                killVars, processVars
  <2>9. ASSUME NEW d \in Checks, Spawns(d)
        PROVE  LateKillsAreArmed(c)
    BY <1>1, <2>1, <2>9 DEF Spawns, Launch, TypeOK, killVars, LateKillsAreArmed, Felled
  <2>10. ASSUME NEW d \in Checks, RootExits(d) \/ RootDies(d) \/ ChildExits(d) \/ ChildDies(d)
         PROVE  LateKillsAreArmed(c)
    BY <2>1, <2>10 DEF RootExits, RootDies, ChildExits, ChildDies, TypeOK, killVars,
                       LateKillsAreArmed, Felled
  <2>11. CASE UNCHANGED vars
    BY <2>11 DEF vars, killVars, processVars, LateKillsAreArmed, Felled
  <2>12. UNCHANGED <<signalled, root, child>> => LateKillsAreArmed(c)
    BY DEF LateKillsAreArmed, Felled
  <2> QED
    BY <1>1, <2>3, <2>4, <2>5, <2>6, <2>7, <2>8, <2>9, <2>10, <2>11, <2>12 DEF Next
<1>2. IInv /\ [Next]_vars => [\A c \in Checks : LateKillsAreArmed(c)]_vars
  BY <1>1 DEF LateKillsAreArmed
<1> QED
  BY <1>2, Inductive, PTL DEF Spec, NoLateKill

=============================================================================
