----------------------------- MODULE LoggedRuns -----------------------------
(***************************************************************************)
(* Runs of RunPipeline that write ContractLogs: each is given hooks of its *)
(* own, onEvidenceSaveToRepoContractLogs and                               *)
(* onVerdictPrependRepoContractLogs, and all of them log to one folder in  *)
(* one mode.  The caller awaits a run before the next but need not flush:  *)
(* the queue of one run may still be at work when the next begins.         *)
(***************************************************************************)
EXTENDS RunPipeline

CONSTANTS
  Backlog,                  \* a bound on the writes not done yet when a run begins
  Absent,                   \* no log
  Unknown                   \* the content of a log that is no run's evidence

VARIABLES
  mode, written, reported, queue, files,        \* ContractLogs
  intruded                  \* history: an earlier run's worker wrote since this one began

Logs == INSTANCE ContractLogs WITH LogChecks <- Checks

(* A log that is there is not an absent one. *)
ASSUME LogMarks ==
  \A r \in (1 .. MaxRuns) \cup {Unknown}, v \in Outcomes \cup {"none"} : Logs!Log(r, v) # Absent

logVars == <<mode, written, reported, queue, files>>
allVars == <<vars, logVars, intruded>>

LoggedInit ==
  /\ Init
  /\ Logs!Init
  /\ intruded = FALSE

(* Creating the evidence hook begins a new log. *)
BeginLoggedRun ==
  /\ BeginRun
  /\ Len(queue) <= Backlog
  /\ Logs!Begin
  /\ intruded' = FALSE

(* onEvidence *)
EvidenceLogged(k) ==
  /\ EvidenceArrives(k)
  /\ Logs!SaveEvidence(entries[k], run)
  /\ UNCHANGED intruded

StrayLogged(r, c) ==
  /\ StrayEvidence(r, c)
  /\ Logs!SaveEvidence(c, r)
  /\ intruded' = (intruded \/ r # run)

(* onVerdict *)
VerdictLogged(k, o) ==
  /\ PolicyReturns(k, o)
  /\ Logs!PrependVerdict(entries[k], o)
  /\ UNCHANGED intruded

(* The steps of a run that tell no hook. *)
Silent ==
  /\ \/ RunRejects
     \/ EvidenceComplete
     \/ ParsingFails
     \/ EvidenceBuilt
     \/ PoliciesDone
     \/ \E k \in Positions : WorkerThrows(k) \/ ParseEnds(k) \/ PolicyThrows(k)
  /\ UNCHANGED <<logVars, intruded>>

LogWork == Logs!Work /\ UNCHANGED <<vars, intruded>>

LoggedNext ==
  \/ BeginLoggedRun
  \/ Silent
  \/ LogWork
  \/ \E k \in Positions : EvidenceLogged(k) \/ \E o \in Outcomes : VerdictLogged(k, o)
  \/ \E r \in 1 .. MaxRuns, c \in Checks : StrayLogged(r, c)

(* Continuations run, workers, parsers and policies settle, and so does    *)
(* every file operation.  Nobody has to begin a run.                       *)
Progress == Silent \/ \E k \in Positions : EvidenceLogged(k) \/ \E o \in Outcomes : VerdictLogged(k, o)

Fairness == WF_allVars(Progress) /\ WF_allVars(LogWork)

LoggedSpec == LoggedInit /\ [][LoggedNext]_allVars
FairLoggedSpec == LoggedSpec /\ Fairness

----------------------------------------------------------------------------
TypeOK ==
  /\ run \in 0 .. MaxRuns
  /\ entries \in Seq(Checks)
  /\ phase \in {"over", "running", "parsing", "judging"}
  /\ DOMAIN stage = Positions /\ DOMAIN results = Positions
  /\ answer \in {"none", "resolved", "rejected"}
  /\ strays \subseteq (1 .. MaxRuns) \X Checks
  /\ written \subseteq Checks
  /\ \A c \in Checks : files[c] = Absent \/ files[c].evidence \in (1 .. MaxRuns) \cup {Unknown}
  /\ mode = "off" => written = {} /\ queue = <<>>

(* A verdict has one result for each check, its own, in declaration order  *)
(* whatever the order in which policies settled, and passes when none of   *)
(* them fails; an error from the policies names each policy that failed,   *)
(* and is reported after the last of them has settled.                     *)
VerdictIsFaithful ==
  phase = "over" =>
    /\ answer = "resolved" =>
         /\ \A k \in Positions : results[k] = <<entries[k], stage[k]>> /\ stage[k] \in Outcomes
         /\ passed <=> \A k \in Positions : stage[k] # "fail"
    /\ thrown # <<>> =>
         /\ answer = "rejected"
         /\ \A k \in Positions :
              IF stage[k] = "threw" THEN \E x \in DOMAIN thrown : thrown[x] = entries[k]
                                    ELSE stage[k] \in Outcomes

(* Strict phasing: by the time one check has a verdict, every check has    *)
(* its evidence and its parsed output, so that a policy may read them all, *)
(* and a failure to parse is reported only when no parser is at work.      *)
PhasesNeverOverlap ==
  /\ (\E k \in Positions : stage[k] \in Outcomes) =>
       \A k \in Positions : stage[k] \in Outcomes \cup {"parsed", "threw"}
  /\ phase = "over" /\ (\E k \in Positions : stage[k] = "unparsed") =>
       \A k \in Positions : stage[k] \in {"parsed", "unparsed"}

(* "The folder only ever describes the run that just happened": once its   *)
(* writes are done, each check that has evidence, and did not pass if only *)
(* failing ones are kept, has a log with this run's evidence under this    *)
(* run's verdict, `has` is true of exactly these, and there is no other    *)
(* log.  Unless a problem was reported, or a worker of an earlier run that *)
(* was rejected with it in flight has written since.                       *)
Kept(k) ==
  /\ \/ stage[k] \in Outcomes \cup {"evident", "parsed", "unparsed"}
     \/ stage[k] = "threw" /\ thrown # <<>>
  /\ ~ (mode = "failing" /\ stage[k] = "pass")

ExpectedLogs ==
  [c \in Checks |->
     IF \E k \in Positions : entries[k] = c /\ Kept(k)
     THEN LET k == CHOOSE k \in Positions : entries[k] = c
          IN  Logs!Log(run, IF stage[k] \in Outcomes THEN stage[k] ELSE "none")
     ELSE Absent]

LogsTellTheRun ==
  run > 0 /\ phase = "over" /\ queue = <<>> /\ mode # "off" =>
    \/ reported
    \/ intruded
    \/ files = ExpectedLogs /\ written = {c \in Checks : files[c] # Absent}

(* Every run is answered and every write asked for is worked off, so that  *)
(* flush resolves once no more runs are begun, whatever fails on the way:  *)
(* a worker, a parser, a policy or any of the file operations.             *)
RunsAndFlushesEnd == []<>(phase = "over" /\ queue = <<>>)
=============================================================================
