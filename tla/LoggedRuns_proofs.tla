------------------------- MODULE LoggedRuns_proofs -------------------------
(***************************************************************************)
(* Runs and their logs are correct for every number of checks and runs:    *)
(* the phases of a run never overlap, a verdict is faithful to what the    *)
(* policies said, and a folder that has been written tells of the run that *)
(* just happened.                                                          *)
(***************************************************************************)
EXTENDS LoggedRuns, TLAPS

----------------------------------------------------------------------------
(* The types of a run's variables.                                         *)
Stages == {"running", "evident", "threw", "dropped", "parsed", "unparsed"} \cup Outcomes

RunTypes ==
  /\ run \in 0 .. MaxRuns
  /\ entries \in Seq(Checks) /\ \A j, k \in Positions : entries[j] = entries[k] => j = k
  /\ phase \in {"over", "running", "parsing", "judging"} /\ (phase # "over" => run # 0)
  /\ stage \in [Positions -> Stages]
  /\ results \in [Positions -> (Checks \X Outcomes) \cup {Hole}]
  /\ thrown \in Seq(Checks)
  /\ answer \in {"none", "resolved", "rejected"}
  /\ strays \subseteq (1 .. run) \X Checks

(* What the checks have come to in each phase.                             *)
Gathering ==
  thrown = <<>> /\ \A k \in Positions : stage[k] \in {"running", "evident", "threw", "dropped"}

Parsing ==
  thrown = <<>> /\ \A k \in Positions : stage[k] \in {"evident", "parsed", "unparsed"}

(* Results by position, and one error for each policy that failed.         *)
Judging ==
  \A k \in Positions :
    /\ stage[k] \in {"parsed", "threw"} \cup Outcomes
    /\ stage[k] \in Outcomes => results[k] = <<entries[k], stage[k]>>
    /\ stage[k] = "threw" <=> \E x \in DOMAIN thrown : thrown[x] = entries[k]

NobodyIs(at) == \A k \in Positions : stage[k] # at

(* How a run may have ended: not begun, by a worker, by a parser, by a     *)
(* policy, or with a verdict.                                              *)
Ended ==
  \/ run = 0 /\ answer = "none" /\ Positions = {} /\ thrown = <<>>
  \/ answer = "rejected" /\ Gathering
  \/ answer = "rejected" /\ Parsing /\ NobodyIs("evident")
  \/ answer = "rejected" /\ Judging /\ NobodyIs("parsed") /\ thrown # <<>>
  \/ /\ answer = "resolved" /\ Judging /\ NobodyIs("parsed") /\ thrown = <<>>
     /\ passed <=> \A k \in Positions : stage[k] # "fail"

PhasesOK ==
  /\ phase = "running" => Gathering
  /\ phase = "parsing" => Parsing
  /\ phase = "judging" => Judging
  /\ phase = "over" => Ended

(* A stray of this run: it was rejected with that worker in flight.        *)
StraysOK ==
  \A c \in Checks : <<run, c>> \in strays =>
    /\ phase = "over" /\ answer = "rejected" /\ Gathering
    /\ \E k \in Positions : entries[k] = c /\ stage[k] = "running"

RunInv == RunTypes /\ PhasesOK /\ StraysOK

----------------------------------------------------------------------------
(* The types of the log store's.                                           *)
Operation ==
  [kind : {"begin"}] \cup [kind : {"save"}, check : Checks, run : 1 .. MaxRuns]
  \cup [kind : {"remove"}, check : Checks] \cup [kind : {"prepend"}, check : Checks, verdict : Outcomes]

Content == [evidence : (1 .. MaxRuns) \cup {Unknown}, verdict : Outcomes \cup {"none"}]

LogTypes ==
  /\ mode \in {"all", "failing", "off"}
  /\ written \subseteq Checks
  /\ queue \in Seq(Operation)
  /\ files \in [Checks -> Content \cup {Absent}]
  /\ mode = "off" => written = {} /\ queue = <<>>

(* An operation of the queue that changes the log of c.                    *)
Touches(op, c) == op.kind = "begin" \/ op.check = c

Untouched(q, c, from, to) == \A i \in from .. to : ~ Touches(q[i], c)

(* The evidence of run r is there by the time operation i puts a verdict   *)
(* on it: an operation saves it before, or it is there already.            *)
Prepared(q, c, now, r, i) ==
  \/ \E j \in 1 .. (i - 1) :
       /\ q[j].kind = "save" /\ q[j].check = c /\ q[j].run = r
       /\ Untouched(q, c, j + 1, i - 1)
  \/ Untouched(q, c, 1, i - 1) /\ now \in Content /\ now.evidence = r

(* Operation i leaves the log of c as it is to be.                         *)
Leaves(q, c, now, r, i, log) ==
  \/ q[i].kind \in {"begin", "remove"} /\ log = Absent
  \/ q[i].kind = "save" /\ q[i].run = r /\ log = Logs!Log(r, "none")
  \/ q[i].kind = "prepend" /\ log = Logs!Log(r, q[i].verdict) /\ Prepared(q, c, now, r, i)

(* Worked off without a failure, queue q turns what is there now for c     *)
(* into what is expected of run r: its last operation for c leaves that,   *)
(* or it has none and nothing remains to do.                               *)
Foretells(q, c, now, r, log) ==
  \/ Untouched(q, c, 1, Len(q)) /\ now = log
  \/ \E i \in 1 .. Len(q) :
       /\ Touches(q[i], c) /\ Untouched(q, c, i + 1, Len(q))
       /\ Leaves(q, c, now, r, i, log)

LogInv ==
  /\ LogTypes
  /\ run > 0 /\ mode # "off" /\ ~ intruded =>
       /\ written = {c \in Checks : ExpectedLogs[c] # Absent}
       /\ ~ reported => \A c \in Checks : Foretells(queue, c, files[c], run, ExpectedLogs[c])

IInv == RunInv /\ LogInv
----------------------------------------------------------------------------
(* The run.                                                                *)

LEMMA AscendingFacts ==
  ASSUME NEW q \in Ascending
  PROVE  q \in Seq(Checks) /\ \A j, k \in DOMAIN q : q[j] = q[k] => j = k
<1>1. PICK n \in 0 .. N : q \in [1 .. n -> Checks]
  BY DEF Ascending
<1>2. q \in Seq(Checks)
  BY <1>1, PipelineAssumption
<1>3. \A j, k \in DOMAIN q : q[j] = q[k] => j = k
  <2>1. \A j, k \in DOMAIN q : j \in Nat /\ k \in Nat /\ q[j] \in Nat /\ q[k] \in Nat
    BY <1>1, PipelineAssumption DEF Checks
  <2>2. \A j, k \in DOMAIN q : j < k => q[j] < q[k]
    BY DEF Ascending
  <2> QED
    BY <2>1, <2>2
<1> QED
  BY <1>2, <1>3

LEMMA EntriesAreChecks ==
  ASSUME RunTypes
  PROVE  \A k \in Positions : entries[k] \in Checks
BY DEF RunTypes, Positions

LEMMA RunInvInit == Init => RunInv
BY PipelineAssumption DEF Init, RunInv, RunTypes, PhasesOK, StraysOK, Ended, Positions, Outcomes

LEMMA BeginRunStep ==
  ASSUME RunInv, BeginRun
  PROVE  RunInv' /\ \A k \in Positions' : stage'[k] = "running"
<1>1. /\ entries' \in Seq(Checks) /\ \A j, k \in DOMAIN entries' : entries'[j] = entries'[k] => j = k
  BY AscendingFacts DEF BeginRun
<1>2. /\ run' = run + 1 /\ run < MaxRuns /\ phase' = "running" /\ thrown' = <<>> /\ answer' = "none"
      /\ strays' = strays
      /\ stage' = [k \in Positions' |-> "running"] /\ results' = [k \in Positions' |-> Hole]
  BY DEF BeginRun, Positions
<1>3. run \in 0 .. MaxRuns /\ strays \subseteq (1 .. run) \X Checks
  BY DEF RunInv, RunTypes
<1>4. RunTypes'
  <2>1. run' \in 0 .. MaxRuns /\ run' # 0 /\ strays' \subseteq (1 .. run') \X Checks
    BY <1>2, <1>3, PipelineAssumption
  <2>2. stage' \in [Positions' -> Stages] /\ results' \in [Positions' -> (Checks \X Outcomes) \cup {Hole}]
    BY <1>2 DEF Stages
  <2> QED
    BY <1>1, <1>2, <2>1, <2>2 DEF RunTypes, Positions
<1>5. PhasesOK'
  BY <1>2 DEF PhasesOK, Gathering
<1>6. StraysOK'
  <2>1. \A c \in Checks : <<run', c>> \notin strays'
    BY <1>2, <1>3
  <2> QED
    BY <2>1 DEF StraysOK
<1> QED
  BY <1>2, <1>4, <1>5, <1>6 DEF RunInv

(* A step that moves one check on while nothing is over.                   *)
LEMMA StageMoves ==
  ASSUME RunTypes, stage' \in [Positions -> Stages], UNCHANGED <<run, entries, phase, results, thrown, answer, strays>>
  PROVE  RunTypes' /\ Positions' = Positions
BY DEF RunTypes, Positions

LEMMA NoStrays ==
  ASSUME RunInv, phase # "over", strays' = strays, run' = run
  PROVE  StraysOK'
BY DEF RunInv, StraysOK

LEMMA GatheringStep ==
  ASSUME RunInv, NEW k \in Positions, EvidenceArrives(k) \/ WorkerThrows(k)
  PROVE  RunInv'
<1>1. RunTypes /\ Gathering /\ phase = "running" /\ stage \in [Positions -> Stages]
  BY DEF RunInv, RunTypes, PhasesOK, EvidenceArrives, WorkerThrows
<1>2. UNCHANGED <<run, entries, phase, results, thrown, answer, strays>>
  BY DEF EvidenceArrives, WorkerThrows
<1>3. /\ stage' \in [Positions -> Stages]
      /\ \A j \in Positions : stage'[j] \in {"running", "evident", "threw", "dropped"}
  <2>1. CASE EvidenceArrives(k)
    BY <1>1, <2>1 DEF EvidenceArrives, Gathering, Stages
  <2>2. CASE WorkerThrows(k)
    BY <1>1, <2>2 DEF WorkerThrows, Gathering, Stages
  <2> QED
    BY <2>1, <2>2
<1>4. RunTypes' /\ Positions' = Positions
  BY <1>1, <1>2, <1>3, StageMoves
<1>5. PhasesOK'
  BY <1>1, <1>2, <1>3, <1>4 DEF PhasesOK, Gathering
<1>6. StraysOK'
  BY <1>1, <1>2, NoStrays
<1> QED
  BY <1>4, <1>5, <1>6 DEF RunInv

LEMMA RunRejectsStep ==
  ASSUME RunInv, RunRejects
  PROVE  RunInv'
<1>1. RunTypes /\ Gathering /\ phase = "running" /\ StraysOK
  BY DEF RunInv, PhasesOK, RunRejects
<1>2. /\ phase' = "over" /\ answer' = "rejected" /\ UNCHANGED <<run, entries, stage, results, thrown>>
      /\ strays' = strays \cup {<<run, entries[k]>> : k \in {j \in Positions : stage[j] = "running"}}
      /\ \E k \in Positions : stage[k] = "threw"
  BY DEF RunRejects, Finish
<1>3. Positions' = Positions /\ Gathering'
  BY <1>1, <1>2 DEF Positions, Gathering
<1>4. RunTypes'
  <2>1. run \in 1 .. run
    <3>1. run # 0
      BY <1>1 DEF RunTypes
    <3> QED
      BY <1>1, <3>1 DEF RunTypes
  <2>2. \A k \in Positions : entries[k] \in Checks
    BY <1>1 DEF RunTypes, Positions
  <2>3. strays' \subseteq (1 .. run) \X Checks
    BY <1>1, <1>2, <2>1, <2>2 DEF RunTypes
  <2> QED
    BY <1>1, <1>2, <1>3, <2>3 DEF RunTypes
<1>5. PhasesOK'
  BY <1>2, <1>3 DEF PhasesOK, Ended
<1>6. StraysOK'
  <2>1. \A c \in Checks : <<run, c>> \notin strays
    BY <1>1 DEF StraysOK
  <2> QED
    BY <1>2, <1>3, <2>1 DEF StraysOK
<1> QED
  BY <1>4, <1>5, <1>6 DEF RunInv

LEMMA StrayStep ==
  ASSUME RunInv, NEW r \in 1 .. MaxRuns, NEW c \in Checks, StrayEvidence(r, c)
  PROVE  RunInv' /\ UNCHANGED <<run, entries, phase, thrown>>
<1>1. /\ RunTypes /\ StraysOK /\ PhasesOK /\ <<r, c>> \in strays /\ strays' = strays \ {<<r, c>>}
      /\ UNCHANGED <<run, entries, graph, phase, results, thrown, answer, passed>>
      /\ stage' = IF r = run THEN [k \in Positions |-> IF entries[k] = c THEN "evident" ELSE stage[k]] ELSE stage
  BY DEF RunInv, StrayEvidence
<1>2. CASE r # run
  <2>1. stage' = stage /\ Positions' = Positions
    BY <1>1, <1>2 DEF Positions
  <2>2. RunTypes'
    BY <1>1, <2>1 DEF RunTypes
  <2>3. PhasesOK'
    BY <1>1, <2>1 DEF PhasesOK, Ended, Gathering, Parsing, Judging, NobodyIs
  <2>4. StraysOK'
    BY <1>1, <2>1 DEF StraysOK, Gathering
  <2> QED
    BY <1>1, <2>2, <2>3, <2>4 DEF RunInv
<1>3. CASE r = run
  <2>1. /\ phase = "over" /\ answer = "rejected" /\ Gathering
        /\ \E k \in Positions : entries[k] = c /\ stage[k] = "running"
    BY <1>1, <1>3 DEF StraysOK
  <2>2. stage' = [k \in Positions |-> IF entries[k] = c THEN "evident" ELSE stage[k]] /\ Positions' = Positions
    BY <1>1, <1>3 DEF Positions
  <2>3. RunTypes'
    BY <1>1, <2>2 DEF RunTypes, Stages
  <2>4. Gathering'
    BY <1>1, <2>1, <2>2 DEF Gathering
  <2>5. PhasesOK'
    BY <1>1, <2>1, <2>4 DEF PhasesOK, Ended
  <2>6. StraysOK'
    BY <1>1, <1>3, <2>1, <2>2, <2>4 DEF StraysOK
  <2> QED
    BY <1>1, <2>3, <2>5, <2>6 DEF RunInv
<1> QED
  BY <1>2, <1>3

LEMMA ParsingStep ==
  ASSUME RunInv, NEW k \in Positions, ParseEnds(k)
  PROVE  RunInv'
<1>1. RunTypes /\ Parsing /\ phase = "parsing" /\ stage \in [Positions -> Stages]
  BY DEF RunInv, RunTypes, PhasesOK, ParseEnds
<1>2. /\ UNCHANGED <<run, entries, phase, results, thrown, answer, strays>>
      /\ stage' \in [Positions -> Stages]
      /\ \A j \in Positions : stage'[j] \in {"evident", "parsed", "unparsed"}
  BY <1>1 DEF ParseEnds, Parsing, Stages
<1>3. RunTypes' /\ Positions' = Positions
  BY <1>1, <1>2, StageMoves
<1>4. PhasesOK'
  BY <1>1, <1>2, <1>3 DEF PhasesOK, Parsing
<1>5. StraysOK'
  BY <1>1, <1>2, NoStrays
<1> QED
  BY <1>3, <1>4, <1>5 DEF RunInv

(* A step from one phase to the next, with nothing else changed.           *)
LEMMA PhaseMoves ==
  ASSUME RunInv, phase # "over", phase' \in {"over", "parsing", "judging"}, answer' \in {"none", "resolved", "rejected"},
         UNCHANGED <<run, entries, stage, results, thrown, strays>>
  PROVE  /\ RunTypes' /\ StraysOK' /\ Positions' = Positions
         /\ Gathering' = Gathering /\ Parsing' = Parsing /\ Judging' = Judging
         /\ \A at : NobodyIs(at)' = NobodyIs(at)
<1>1. Positions' = Positions
  BY DEF Positions
<1>2. RunTypes'
  BY <1>1 DEF RunInv, RunTypes
<1>3. StraysOK'
  BY NoStrays
<1> QED
  BY <1>1, <1>2, <1>3 DEF Gathering, Parsing, Judging, NobodyIs

LEMMA EvidenceCompleteStep ==
  ASSUME RunInv, EvidenceComplete
  PROVE  RunInv'
<1>1. Parsing
  BY DEF RunInv, PhasesOK, EvidenceComplete, Gathering, Parsing
<1>2. phase = "running" /\ phase' = "parsing" /\ UNCHANGED <<run, entries, stage, results, thrown, answer, strays>>
  BY DEF EvidenceComplete
<1>3. RunTypes' /\ StraysOK' /\ Parsing'
  BY <1>1, <1>2, PhaseMoves DEF RunInv, RunTypes
<1> QED
  BY <1>2, <1>3 DEF RunInv, PhasesOK

LEMMA ParsingFailsStep ==
  ASSUME RunInv, ParsingFails
  PROVE  RunInv'
<1>1. /\ phase = "parsing" /\ phase' = "over" /\ answer' = "rejected"
      /\ UNCHANGED <<run, entries, stage, results, thrown, strays>> /\ NobodyIs("evident")
  BY DEF ParsingFails, Finish, NobodyIs
<1>2. RunTypes' /\ StraysOK' /\ Parsing' /\ NobodyIs("evident")'
  BY <1>1, PhaseMoves DEF RunInv, PhasesOK
<1> QED
  BY <1>1, <1>2 DEF RunInv, PhasesOK, Ended

LEMMA EvidenceBuiltStep ==
  ASSUME RunInv, EvidenceBuilt
  PROVE  RunInv'
<1>1. /\ phase = "parsing" /\ phase' = "judging"
      /\ UNCHANGED <<run, entries, stage, results, thrown, answer, strays>>
      /\ \A k \in Positions : stage[k] = "parsed"
  BY DEF EvidenceBuilt
<1>2. Judging
  <2>1. thrown = <<>>
    BY <1>1 DEF RunInv, PhasesOK, Parsing
  <2> QED
    BY <1>1, <2>1 DEF Judging, Outcomes
<1>3. RunTypes' /\ StraysOK' /\ Judging'
  BY <1>1, <1>2, PhaseMoves DEF RunInv, RunTypes
<1> QED
  BY <1>1, <1>3 DEF RunInv, PhasesOK

LEMMA PolicyReturnsStep ==
  ASSUME RunInv, NEW k \in Positions, NEW o \in Outcomes, PolicyReturns(k, o)
  PROVE  RunInv'
<1>1. /\ RunTypes /\ Judging /\ phase = "judging" /\ stage[k] = "parsed"
      /\ stage \in [Positions -> Stages] /\ results \in [Positions -> (Checks \X Outcomes) \cup {Hole}]
      /\ entries[k] \in Checks
  <2>1. RunTypes /\ Judging /\ phase = "judging" /\ stage[k] = "parsed"
    BY DEF RunInv, PhasesOK, PolicyReturns
  <2> QED
    BY <2>1, EntriesAreChecks DEF RunTypes
<1>2. /\ UNCHANGED <<run, entries, phase, thrown, answer, strays>> /\ Positions' = Positions
      /\ stage' = [stage EXCEPT ![k] = o] /\ results' = [results EXCEPT ![k] = <<entries[k], o>>]
  BY DEF PolicyReturns, Positions
<1>3. RunTypes'
  BY <1>1, <1>2 DEF RunTypes, Stages
<1>4. Judging'
  <2>1. o # "threw" /\ ~ \E x \in DOMAIN thrown : thrown[x] = entries[k]
    BY <1>1 DEF Judging, Outcomes
  <2> QED
    BY <1>1, <1>2, <2>1 DEF Judging
<1>5. StraysOK'
  BY <1>1, <1>2, NoStrays
<1> QED
  BY <1>1, <1>2, <1>3, <1>4, <1>5 DEF RunInv, PhasesOK

LEMMA PolicyThrowsStep ==
  ASSUME RunInv, NEW k \in Positions, PolicyThrows(k)
  PROVE  RunInv' /\ thrown' # <<>> /\ (thrown = <<>> => NobodyIs("threw"))
<1>1. /\ RunTypes /\ Judging /\ phase = "judging" /\ stage[k] = "parsed"
      /\ stage \in [Positions -> Stages] /\ thrown \in Seq(Checks) /\ entries[k] \in Checks
  <2>1. RunTypes /\ Judging /\ phase = "judging" /\ stage[k] = "parsed"
    BY DEF RunInv, PhasesOK, PolicyThrows
  <2> QED
    BY <2>1, EntriesAreChecks DEF RunTypes
<1>2. /\ UNCHANGED <<run, entries, phase, results, answer, strays>> /\ Positions' = Positions
      /\ stage' = [stage EXCEPT ![k] = "threw"] /\ thrown' = Append(thrown, entries[k])
  BY DEF PolicyThrows, Positions
<1>3. /\ thrown' \in Seq(Checks) /\ thrown' # <<>>
      /\ \A c : (\E x \in DOMAIN thrown' : thrown'[x] = c) <=> c = entries[k] \/ \E x \in DOMAIN thrown : thrown[x] = c
  <2>1. /\ thrown' \in Seq(Checks) /\ Len(thrown') = Len(thrown) + 1 /\ thrown'[Len(thrown) + 1] = entries[k]
        /\ \A x \in 1 .. Len(thrown) : thrown'[x] = thrown[x]
        /\ DOMAIN thrown = 1 .. Len(thrown) /\ DOMAIN thrown' = 1 .. (Len(thrown) + 1) /\ Len(thrown) \in Nat
    BY <1>1, <1>2
  <2> QED
    BY <2>1
<1>4. RunTypes'
  BY <1>1, <1>2, <1>3 DEF RunTypes, Stages
<1>5. Judging'
  <2>1. \A j \in Positions : j # k => entries[j] # entries[k] /\ stage'[j] = stage[j]
    BY <1>1, <1>2 DEF RunTypes
  <2>2. stage'[k] = "threw" /\ "threw" \notin Outcomes
    BY <1>1, <1>2 DEF Outcomes
  <2>3. \A j \in Positions :
          /\ stage'[j] \in {"parsed", "threw"} \cup Outcomes
          /\ stage'[j] \in Outcomes => results'[j] = <<entries'[j], stage'[j]>>
    BY <1>1, <1>2, <2>1, <2>2 DEF Judging
  <2>4. \A j \in Positions : stage'[j] = "threw" <=> \E x \in DOMAIN thrown' : thrown'[x] = entries'[j]
    BY <1>1, <1>2, <1>3, <2>1, <2>2, SMTT(20) DEF Judging
  <2> QED
    BY <1>2, <2>3, <2>4 DEF Judging
<1>6. StraysOK'
  BY <1>1, <1>2, NoStrays
<1>7. thrown = <<>> => NobodyIs("threw")
  BY <1>1 DEF Judging, NobodyIs
<1> QED
  BY <1>1, <1>2, <1>3, <1>4, <1>5, <1>6, <1>7 DEF RunInv, PhasesOK

LEMMA PoliciesDoneStep ==
  ASSUME RunInv, PoliciesDone
  PROVE  RunInv'
<1>1. /\ Judging /\ phase = "judging" /\ NobodyIs("parsed") /\ phase' = "over"
      /\ UNCHANGED <<run, entries, stage, results, thrown, strays>>
      /\ IF thrown # <<>> THEN answer' = "rejected"
         ELSE answer' = "resolved" /\ passed' = \A k \in Positions : results[k][2] # "fail"
  BY DEF RunInv, PhasesOK, PoliciesDone, Finish, NobodyIs
<1>2. RunTypes' /\ StraysOK' /\ Judging' /\ NobodyIs("parsed")' /\ Positions' = Positions
  BY <1>1, PhaseMoves
<1>3. thrown = <<>> => \A k \in Positions : results[k][2] = stage[k]
  <2>1. thrown = <<>> => \A k \in Positions : stage[k] \in Outcomes
    BY <1>1 DEF Judging, NobodyIs
  <2>2. thrown = <<>> => \A k \in Positions : results[k] = <<entries[k], stage[k]>>
    BY <1>1, <2>1 DEF Judging
  <2> QED
    BY <2>2
<1>4. Ended'
  BY <1>1, <1>2, <1>3 DEF Ended
<1> QED
  BY <1>1, <1>2, <1>4 DEF RunInv, PhasesOK

LEMMA RunStutters ==
  ASSUME RunInv, UNCHANGED vars
  PROVE  RunInv'
BY DEF RunInv, RunTypes, PhasesOK, StraysOK, Ended, Gathering, Parsing, Judging, NobodyIs, Positions, vars
----------------------------------------------------------------------------
(* What the queue foretells.                                               *)

LEMMA OperationFacts ==
  ASSUME NEW op \in Operation
  PROVE  /\ op.kind \in {"begin", "save", "remove", "prepend"}
         /\ op.kind # "begin" => op.check \in Checks
         /\ op.kind = "save" => op.run \in 1 .. MaxRuns
         /\ op.kind = "prepend" => op.verdict \in Outcomes
BY DEF Operation

LEMMA LogFacts ==
  ASSUME NEW r \in 1 .. MaxRuns, NEW v \in Outcomes \cup {"none"}
  PROVE  /\ Logs!Log(r, v) # Absent /\ Logs!Log(r, v) \in Content /\ Logs!Log(r, v).evidence = r
         /\ \A w \in Outcomes \cup {"none"} : Logs!Log(r, v) = Logs!Log(r, w) => v = w
BY LogMarks DEF Logs!Log, Content

LEMMA AppendFacts ==
  ASSUME NEW S, NEW q \in Seq(S), NEW e \in S
  PROVE  /\ Append(q, e) \in Seq(S) /\ Len(q) \in Nat /\ Len(Append(q, e)) = Len(q) + 1
         /\ \A i \in 1 .. Len(q) : Append(q, e)[i] = q[i]
         /\ Append(q, e)[Len(q) + 1] = e
OBVIOUS

LEMMA TailFacts ==
  ASSUME NEW S, NEW q \in Seq(S), q # <<>>
  PROVE  /\ Tail(q) \in Seq(S) /\ Len(q) \in Nat \ {0} /\ Len(Tail(q)) = Len(q) - 1
         /\ \A i \in 1 .. Len(Tail(q)) : Tail(q)[i] = q[i + 1]
         /\ Head(q) = q[1] /\ q[1] \in S
OBVIOUS

(* What an operation leaves depends on those before it only.               *)
LEMMA LeavesByPrefix ==
  ASSUME NEW q, NEW s, NEW c, NEW now, NEW r, NEW log, NEW i \in Nat,
         \A j \in 1 .. i : s[j] = q[j], i # 0, Leaves(q, c, now, r, i, log)
  PROVE  Leaves(s, c, now, r, i, log)
<1>1. s[i] = q[i]
  OBVIOUS
<1>2. Prepared(q, c, now, r, i) => Prepared(s, c, now, r, i)
  BY DEF Prepared, Untouched
<1> QED
  BY <1>1, <1>2 DEF Leaves

LEMMA AskedElsewhere ==
  ASSUME NEW q \in Seq(Operation), NEW op \in Operation, NEW c, NEW now, NEW r, NEW log,
         ~ Touches(op, c), Foretells(q, c, now, r, log)
  PROVE  Foretells(Append(q, op), c, now, r, log)
<1> DEFINE s == Append(q, op)
<1>1. /\ Len(q) \in Nat /\ Len(s) = Len(q) + 1 /\ s[Len(q) + 1] = op
      /\ \A i \in 1 .. Len(q) : s[i] = q[i]
  BY AppendFacts
<1> HIDE DEF s
<1>2. CASE Untouched(q, c, 1, Len(q)) /\ now = log
  BY <1>1, <1>2 DEF Foretells, Untouched, s
<1>3. CASE \E i \in 1 .. Len(q) : /\ Touches(q[i], c) /\ Untouched(q, c, i + 1, Len(q))
                                  /\ Leaves(q, c, now, r, i, log)
  <2>1. PICK i \in 1 .. Len(q) : /\ Touches(q[i], c) /\ Untouched(q, c, i + 1, Len(q))
                                 /\ Leaves(q, c, now, r, i, log)
    BY <1>3
  <2>2. i \in 1 .. Len(s) /\ Touches(s[i], c) /\ Untouched(s, c, i + 1, Len(s))
    BY <1>1, <2>1 DEF Untouched
  <2>3. Leaves(s, c, now, r, i, log)
    <3>1. i \in Nat /\ i # 0 /\ \A j \in 1 .. i : s[j] = q[j]
      BY <1>1
    <3> QED
      BY <3>1, <2>1, LeavesByPrefix
  <2> QED
    BY <2>2, <2>3 DEF Foretells, s
<1> QED
  BY <1>2, <1>3 DEF Foretells

(* The last operation asked for decides.                                   *)
LEMMA AskedHere ==
  ASSUME NEW q \in Seq(Operation), NEW op \in Operation, NEW c, NEW now, NEW r, NEW log,
         Touches(op, c), Leaves(Append(q, op), c, now, r, Len(q) + 1, log)
  PROVE  Foretells(Append(q, op), c, now, r, log)
<1>1. /\ Len(q) \in Nat /\ Len(Append(q, op)) = Len(q) + 1 /\ Append(q, op)[Len(q) + 1] = op
  BY AppendFacts
<1> QED
  BY <1>1 DEF Foretells, Untouched

LEMMA AskedToRemove ==
  ASSUME NEW q \in Seq(Operation), NEW op \in Operation, NEW c, NEW now, NEW r,
         Touches(op, c), op.kind \in {"begin", "remove"}
  PROVE  Foretells(Append(q, op), c, now, r, Absent)
BY AppendFacts, AskedHere DEF Leaves

LEMMA AskedToSave ==
  ASSUME NEW q \in Seq(Operation), NEW op \in Operation, NEW c, NEW now, NEW r,
         Touches(op, c), op.kind = "save", op.run = r
  PROVE  Foretells(Append(q, op), c, now, r, Logs!Log(r, "none"))
BY AppendFacts, AskedHere DEF Leaves

(* A verdict is put on the evidence that is there, or will be by then.     *)
LEMMA AskedToPrepend ==
  ASSUME NEW q \in Seq(Operation), NEW op \in Operation, NEW c, NEW now, NEW r \in 1 .. MaxRuns,
         Touches(op, c), op.kind = "prepend", Foretells(q, c, now, r, Logs!Log(r, "none"))
  PROVE  Foretells(Append(q, op), c, now, r, Logs!Log(r, op.verdict))
<1> DEFINE s == Append(q, op)
<1>1. /\ Len(q) \in Nat /\ Len(s) = Len(q) + 1 /\ s[Len(q) + 1] = op
      /\ \A i \in 1 .. Len(q) : s[i] = q[i] /\ q[i] \in Operation
  BY AppendFacts
<1> HIDE DEF s
<1>2. Prepared(s, c, now, r, Len(q) + 1)
  <2>1. CASE Untouched(q, c, 1, Len(q)) /\ now = Logs!Log(r, "none")
    <3>1. now \in Content /\ now.evidence = r
      BY <2>1, LogFacts
    <3> QED
      BY <1>1, <2>1, <3>1 DEF Prepared, Untouched
  <2>2. CASE \E i \in 1 .. Len(q) : /\ Touches(q[i], c) /\ Untouched(q, c, i + 1, Len(q))
                                    /\ Leaves(q, c, now, r, i, Logs!Log(r, "none"))
    <3>1. PICK i \in 1 .. Len(q) : /\ Touches(q[i], c) /\ Untouched(q, c, i + 1, Len(q))
                                   /\ Leaves(q, c, now, r, i, Logs!Log(r, "none"))
      BY <2>2
    <3>2. q[i].kind = "save" /\ q[i].run = r
      <4>1. Logs!Log(r, "none") # Absent
        BY LogFacts
      <4>2. q[i].kind = "prepend" => Logs!Log(r, "none") # Logs!Log(r, q[i].verdict)
        <5>1. q[i].kind = "prepend" => q[i].verdict \in Outcomes
          BY <1>1, OperationFacts
        <5> QED
          BY <5>1, LogFacts DEF Outcomes
      <4> QED
        BY <3>1, <4>1, <4>2 DEF Leaves
    <3>3. q[i].check = c
      BY <3>1, <3>2 DEF Touches
    <3>4. i \in 1 .. (Len(q) + 1 - 1) /\ s[i] = q[i] /\ Untouched(s, c, i + 1, Len(q) + 1 - 1)
      BY <1>1, <3>1 DEF Untouched
    <3> QED
      BY <3>2, <3>3, <3>4 DEF Prepared
  <2> QED
    BY <2>1, <2>2 DEF Foretells
<1>3. Leaves(s, c, now, r, Len(q) + 1, Logs!Log(r, op.verdict))
  BY <1>1, <1>2 DEF Leaves
<1> QED
  BY <1>3, AskedHere DEF s

(* What an operation makes of the log it changes.                          *)
Worked(op, now) ==
  IF op.kind \in {"begin", "remove"} THEN Absent
  ELSE IF op.kind = "save" THEN Logs!Log(op.run, "none")
  ELSE Logs!Log(now.evidence, op.verdict)

LEMMA WorkedElsewhere ==
  ASSUME NEW q \in Seq(Operation), q # <<>>, NEW c, NEW now, NEW r, NEW log,
         ~ Touches(Head(q), c), Foretells(q, c, now, r, log)
  PROVE  Foretells(Tail(q), c, now, r, log)
<1> DEFINE s == Tail(q)
<1>1. /\ Len(q) \in Nat \ {0} /\ Len(s) = Len(q) - 1 /\ ~ Touches(q[1], c)
      /\ \A i \in 1 .. Len(s) : s[i] = q[i + 1]
  BY TailFacts
<1> HIDE DEF s
<1>2. CASE Untouched(q, c, 1, Len(q)) /\ now = log
  BY <1>1, <1>2 DEF Foretells, Untouched, s
<1>3. CASE \E i \in 1 .. Len(q) : /\ Touches(q[i], c) /\ Untouched(q, c, i + 1, Len(q))
                                  /\ Leaves(q, c, now, r, i, log)
  <2>1. PICK i \in 1 .. Len(q) : /\ Touches(q[i], c) /\ Untouched(q, c, i + 1, Len(q))
                                 /\ Leaves(q, c, now, r, i, log)
    BY <1>3
  <2>2. i - 1 \in 1 .. Len(s) /\ s[i - 1] = q[i]
    BY <1>1, <2>1
  <2>3. Untouched(s, c, (i - 1) + 1, Len(s))
    BY <1>1, <2>1 DEF Untouched
  <2>4. Prepared(q, c, now, r, i) => Prepared(s, c, now, r, i - 1)
    <3>1. CASE \E j \in 1 .. (i - 1) : /\ q[j].kind = "save" /\ q[j].check = c /\ q[j].run = r
                                       /\ Untouched(q, c, j + 1, i - 1)
      <4>1. PICK j \in 1 .. (i - 1) : /\ q[j].kind = "save" /\ q[j].check = c /\ q[j].run = r
                                      /\ Untouched(q, c, j + 1, i - 1)
        BY <3>1
      <4>2. j # 1
        BY <1>1, <4>1 DEF Touches
      <4>3. j - 1 \in 1 .. ((i - 1) - 1) /\ s[j - 1] = q[j]
        BY <1>1, <2>2, <4>1, <4>2
      <4>4. Untouched(s, c, (j - 1) + 1, (i - 1) - 1)
        BY <1>1, <2>2, <4>1, <4>2, SMTT(20) DEF Untouched
      <4> QED
        BY <4>1, <4>3, <4>4 DEF Prepared
    <3>2. CASE Untouched(q, c, 1, i - 1) /\ now \in Content /\ now.evidence = r
      <4>1. Untouched(s, c, 1, (i - 1) - 1)
        BY <1>1, <2>2, <3>2 DEF Untouched
      <4> QED
        BY <3>2, <4>1 DEF Prepared
    <3> QED
      BY <3>1, <3>2 DEF Prepared
  <2>5. Leaves(s, c, now, r, i - 1, log)
    BY <2>1, <2>2, <2>4 DEF Leaves
  <2> QED
    BY <2>1, <2>2, <2>3, <2>5 DEF Foretells, s
<1> QED
  BY <1>2, <1>3 DEF Foretells

LEMMA WorkedHere ==
  ASSUME NEW q \in Seq(Operation), q # <<>>, NEW c, NEW now, NEW r \in 1 .. MaxRuns, NEW log,
         Touches(Head(q), c), Foretells(q, c, now, r, log)
  PROVE  Foretells(Tail(q), c, Worked(Head(q), now), r, log)
<1> DEFINE s == Tail(q)
           next == Worked(Head(q), now)
<1>1. /\ Len(q) \in Nat \ {0} /\ Len(s) = Len(q) - 1 /\ Touches(q[1], c) /\ q[1] \in Operation /\ next = Worked(q[1], now)
      /\ \A i \in 1 .. Len(s) : s[i] = q[i + 1]
  BY TailFacts
<1> HIDE DEF s, next
<1>2. PICK i \in 1 .. Len(q) : /\ Touches(q[i], c) /\ Untouched(q, c, i + 1, Len(q))
                               /\ Leaves(q, c, now, r, i, log)
  BY <1>1 DEF Foretells, Untouched
<1>3. CASE i = 1
  <2>1. Untouched(s, c, 1, Len(s))
    BY <1>1, <1>2, <1>3 DEF Untouched
  <2>2. Prepared(q, c, now, r, 1) => now.evidence = r
    BY DEF Prepared
  <2>3. next = log
    BY <1>1, <1>2, <1>3, <2>2 DEF Worked, Leaves
  <2> QED
    BY <2>1, <2>3 DEF Foretells, s, next
<1>4. CASE i # 1
  <2>1. i - 1 \in 1 .. Len(s) /\ s[i - 1] = q[i]
    BY <1>1, <1>2, <1>4
  <2>2. Untouched(s, c, (i - 1) + 1, Len(s))
    BY <1>1, <1>2, <1>4 DEF Untouched
  <2>3. Prepared(q, c, now, r, i) => Prepared(s, c, next, r, i - 1)
    <3>1. ~ Untouched(q, c, 1, i - 1)
      BY <1>1, <2>1 DEF Untouched
    <3>2. SUFFICES ASSUME NEW j \in 1 .. (i - 1), q[j].kind = "save", q[j].check = c, q[j].run = r,
                          Untouched(q, c, j + 1, i - 1)
                   PROVE  Prepared(s, c, next, r, i - 1)
      BY <3>1 DEF Prepared
    <3>3. CASE j = 1
      <4>1. next \in Content /\ next.evidence = r
        <5>1. q[1].kind = "save" /\ q[1].run = r
          BY <3>2, <3>3
        <5>2. next = Logs!Log(q[1].run, "none")
          BY <1>1, <5>1 DEF Worked
        <5>3. Logs!Log(r, "none") \in Content /\ Logs!Log(r, "none").evidence = r
          BY LogFacts
        <5> QED
          BY <5>1, <5>2, <5>3
      <4>2. Untouched(s, c, 1, (i - 1) - 1)
        BY <1>1, <2>1, <3>2, <3>3, SMTT(20) DEF Untouched
      <4> QED
        BY <4>1, <4>2 DEF Prepared
    <3>4. CASE j # 1
      <4>1. j - 1 \in 1 .. ((i - 1) - 1) /\ s[j - 1] = q[j]
        BY <1>1, <2>1, <3>4
      <4>2. Untouched(s, c, (j - 1) + 1, (i - 1) - 1)
        <5>1. \A x \in (j - 1) + 1 .. (i - 1) - 1 : s[x] = q[x + 1] /\ x + 1 \in j + 1 .. i - 1
          BY <1>1, <2>1
        <5>2. \A x \in j + 1 .. i - 1 : ~ Touches(q[x], c)
          BY <3>2 DEF Untouched
        <5> QED
          BY <5>1, <5>2 DEF Untouched
      <4>3. s[j - 1].kind = "save" /\ s[j - 1].check = c /\ s[j - 1].run = r
        BY <3>2, <4>1
      <4> QED
        BY <4>1, <4>2, <4>3 DEF Prepared
    <3> QED
      BY <3>3, <3>4
  <2>4. Leaves(s, c, next, r, i - 1, log)
    BY <1>2, <2>1, <2>3 DEF Leaves
  <2> QED
    BY <1>2, <2>1, <2>2, <2>4 DEF Foretells, s, next
<1> QED
  BY <1>3, <1>4
----------------------------------------------------------------------------
(* What is expected, check by check.                                       *)
Due(k) == IF Kept(k) THEN Logs!Log(run, IF stage[k] \in Outcomes THEN stage[k] ELSE "none") ELSE Absent

ExpectedByEntry ==
  /\ \A k \in Positions : ExpectedLogs[entries[k]] = Due(k)
  /\ \A c \in Checks : (\A k \in Positions : entries[k] # c) => ExpectedLogs[c] = Absent
  /\ DOMAIN ExpectedLogs = Checks

LEMMA ExpectedIs == RunTypes => ExpectedByEntry
<1> SUFFICES ASSUME RunTypes PROVE ExpectedByEntry
  OBVIOUS
<1>1. ASSUME NEW k \in Positions
      PROVE  ExpectedLogs[entries[k]] = Due(k)
  <2>1. entries[k] \in Checks /\ \A j \in Positions : entries[j] = entries[k] => j = k
    BY EntriesAreChecks DEF RunTypes
  <2>2. (CHOOSE j \in Positions : entries[j] = entries[k]) = k
    BY <2>1
  <2>3. (\E j \in Positions : entries[j] = entries[k] /\ Kept(j)) <=> Kept(k)
    BY <2>1
  <2> QED
    BY <2>1, <2>2, <2>3 DEF ExpectedLogs, Due
<1>2. ASSUME NEW c \in Checks, \A k \in Positions : entries[k] # c
      PROVE  ExpectedLogs[c] = Absent
  BY <1>2 DEF ExpectedLogs
<1>3. DOMAIN ExpectedLogs = Checks
  BY DEF ExpectedLogs
<1> QED
  BY <1>1, <1>2, <1>3 DEF ExpectedByEntry

LEMMA ExpectedIsThen == RunTypes' => ExpectedByEntry'
BY ExpectedIs, PTL

(* A step that changes what is due to one check changes what is expected   *)
(* of that one.                                                            *)
LEMMA ExpectedMoves ==
  ASSUME RunTypes, RunTypes', entries' = entries, NEW k \in Positions,
         \A j \in Positions : j # k => Due(j)' = Due(j)
  PROVE  /\ ExpectedLogs'[entries[k]] = Due(k)'
         /\ \A c \in Checks : c # entries[k] => ExpectedLogs'[c] = ExpectedLogs[c]
<1>1. Positions' = Positions
  BY DEF Positions
<1>2. ExpectedByEntry /\ ExpectedByEntry'
  BY ExpectedIs, ExpectedIsThen
<1>3. /\ \A j \in Positions : ExpectedLogs'[entries[j]] = Due(j)'
      /\ \A c \in Checks : (\A j \in Positions : entries[j] # c) => ExpectedLogs'[c] = Absent
  BY <1>1, <1>2 DEF ExpectedByEntry
<1>4. ASSUME NEW c \in Checks, c # entries[k]
      PROVE  ExpectedLogs'[c] = ExpectedLogs[c]
  <2>1. CASE \E j \in Positions : entries[j] = c
    <3>1. PICK j \in Positions : entries[j] = c
      BY <2>1
    <3>2. j # k
      BY <1>4, <3>1
    <3> QED
      BY <1>2, <1>3, <3>1, <3>2 DEF ExpectedByEntry
  <2>2. CASE \A j \in Positions : entries[j] # c
    BY <1>2, <1>3, <2>2 DEF ExpectedByEntry
  <2> QED
    BY <2>1, <2>2
<1> QED
  BY <1>3, <1>4

(* The same with nothing changed.                                          *)
LEMMA ExpectedStays ==
  ASSUME RunTypes, RunTypes', entries' = entries, \A j \in Positions : Due(j)' = Due(j)
  PROVE  ExpectedLogs' = ExpectedLogs
<1>1. Positions' = Positions
  BY DEF Positions
<1>2. ExpectedByEntry /\ ExpectedByEntry'
  BY ExpectedIs, ExpectedIsThen
<1>3. /\ \A j \in Positions : ExpectedLogs'[entries[j]] = Due(j)'
      /\ \A c \in Checks : (\A j \in Positions : entries[j] # c) => ExpectedLogs'[c] = Absent
  BY <1>1, <1>2 DEF ExpectedByEntry
<1>4. \A c \in Checks : ExpectedLogs'[c] = ExpectedLogs[c]
  BY <1>2, <1>3 DEF ExpectedByEntry
<1>5. /\ ExpectedLogs = [c \in Checks |-> ExpectedLogs[c]]
      /\ ExpectedLogs' = [c \in Checks |-> ExpectedLogs'[c]]
  BY DEF ExpectedLogs
<1> QED
  BY <1>4, <1>5
----------------------------------------------------------------------------
(* Each call of a hook asks for what is then expected.                     *)

LEMMA MayAsk ==
  /\ [kind |-> "begin"] \in Operation
  /\ \A c \in Checks :
       /\ [kind |-> "remove", check |-> c] \in Operation
       /\ \A r \in 1 .. MaxRuns : [kind |-> "save", check |-> c, run |-> r] \in Operation
       /\ \A o \in Outcomes : [kind |-> "prepend", check |-> c, verdict |-> o] \in Operation
BY DEF Operation

LEMMA NothingAsked ==
  ASSUME LogInv, UNCHANGED <<run, logVars, intruded>>, ExpectedLogs' = ExpectedLogs
  PROVE  LogInv'
BY DEF LogInv, LogTypes, logVars

LEMMA LogBegun ==
  ASSUME LogInv, Logs!Begin, \A c \in Checks : ExpectedLogs'[c] = Absent
  PROVE  LogInv'
<1>1. /\ written' = {} /\ UNCHANGED <<mode, files>>
      /\ mode = "off" => queue' = queue
      /\ mode # "off" => queue' = Append(queue, [kind |-> "begin"])
  BY DEF Logs!Begin, Logs!Asked
<1>2. LogTypes
  BY DEF LogInv
<1>3. LogTypes'
  <2>1. Append(queue, [kind |-> "begin"]) \in Seq(Operation)
    BY <1>2, MayAsk, AppendFacts DEF LogTypes
  <2> QED
    BY <1>1, <1>2, <2>1 DEF LogTypes
<1>4. ASSUME mode # "off", NEW c \in Checks
      PROVE  Foretells(queue', c, files'[c], run', ExpectedLogs'[c])
  <2>1. Touches([kind |-> "begin"], c)
    BY DEF Touches
  <2>2. queue \in Seq(Operation)
    BY <1>2 DEF LogTypes
  <2> QED
    BY <1>1, <1>4, <2>1, <2>2, MayAsk, AskedToRemove
<1> QED
  BY <1>1, <1>3, <1>4 DEF LogInv

LEMMA EvidenceAsked ==
  ASSUME LogInv, NEW c \in Checks, NEW r \in 1 .. MaxRuns, Logs!SaveEvidence(c, r)
  PROVE  /\ LogTypes' /\ UNCHANGED <<mode, reported, files>>
         /\ mode # "off" => /\ written' = written \cup {c}
                            /\ queue' = Append(queue, [kind |-> "save", check |-> c, run |-> r])
<1>1. /\ UNCHANGED <<mode, reported, files>>
      /\ mode = "off" => UNCHANGED <<written, queue>>
      /\ mode # "off" => /\ written' = written \cup {c}
                         /\ queue' = Append(queue, [kind |-> "save", check |-> c, run |-> r])
  BY DEF Logs!SaveEvidence, Logs!Asked
<1>2. LogTypes
  BY DEF LogInv
<1>3. Append(queue, [kind |-> "save", check |-> c, run |-> r]) \in Seq(Operation)
  BY <1>2, MayAsk, AppendFacts DEF LogTypes
<1> QED
  BY <1>1, <1>2, <1>3 DEF LogTypes

(* Evidence of this run.                                                   *)
LEMMA EvidenceExpected ==
  ASSUME LogInv, NEW c \in Checks, run \in 1 .. MaxRuns, run' = run, (intruded => intruded'),
         Logs!SaveEvidence(c, run), ExpectedLogs'[c] = Logs!Log(run, "none"),
         \A d \in Checks : d # c => ExpectedLogs'[d] = ExpectedLogs[d]
  PROVE  LogInv'
<1> DEFINE op == [kind |-> "save", check |-> c, run |-> run]
<1>1. /\ LogTypes' /\ UNCHANGED <<mode, reported, files>>
      /\ mode # "off" => written' = written \cup {c} /\ queue' = Append(queue, op)
  BY EvidenceAsked
<1>2. LogTypes /\ op \in Operation /\ op.kind = "save" /\ op.run = run /\ op.check = c
  BY MayAsk DEF LogInv
<1> HIDE DEF op
<1>3. queue \in Seq(Operation)
  BY <1>2 DEF LogTypes
<1>4. ASSUME mode # "off", ~ intruded
      PROVE  /\ written' = {d \in Checks : ExpectedLogs'[d] # Absent}
             /\ ~ reported => \A d \in Checks : Foretells(queue', d, files'[d], run, ExpectedLogs'[d])
  <2>1. Logs!Log(run, "none") # Absent
    BY LogFacts
  <2>2. written = {d \in Checks : ExpectedLogs[d] # Absent}
    BY <1>4 DEF LogInv
  <2>3. written' = {d \in Checks : ExpectedLogs'[d] # Absent}
    BY <1>1, <1>4, <2>1, <2>2
  <2>4. ASSUME ~ reported, NEW d \in Checks
        PROVE  Foretells(queue', d, files'[d], run, ExpectedLogs'[d])
    <3>1. CASE d = c
      <4>1. Touches(op, c)
        BY <1>2 DEF Touches
      <4>2. Foretells(Append(queue, op), c, files[c], run, Logs!Log(run, "none"))
        BY <1>2, <1>3, <4>1, AskedToSave
      <4> QED
        BY <1>1, <1>4, <3>1, <4>2
    <3>2. CASE d # c
      <4>1. ~ Touches(op, d)
        BY <1>2, <3>2 DEF Touches
      <4>2. Foretells(queue, d, files[d], run, ExpectedLogs[d])
        BY <1>4, <2>4 DEF LogInv
      <4>3. Foretells(Append(queue, op), d, files[d], run, ExpectedLogs[d])
        BY <1>2, <1>3, <4>1, <4>2, AskedElsewhere
      <4> QED
        BY <1>1, <1>4, <3>2, <4>3
    <3> QED
      BY <3>1, <3>2
  <2> QED
    BY <2>3, <2>4
<1> QED
  BY <1>1, <1>4 DEF LogInv

(* A verdict on evidence that is expected.                                 *)
LEMMA VerdictExpected ==
  ASSUME LogInv, NEW c \in Checks, NEW o \in Outcomes, run \in 1 .. MaxRuns, run' = run, intruded' = intruded,
         Logs!PrependVerdict(c, o), ExpectedLogs[c] = Logs!Log(run, "none"),
         ExpectedLogs'[c] = IF mode = "failing" /\ o = "pass" THEN Absent ELSE Logs!Log(run, o),
         \A d \in Checks : d # c => ExpectedLogs'[d] = ExpectedLogs[d]
  PROVE  LogInv'
<1> DEFINE gone == mode = "failing" /\ o = "pass"
           op == IF gone THEN [kind |-> "remove", check |-> c] ELSE [kind |-> "prepend", check |-> c, verdict |-> o]
<1>1. /\ UNCHANGED <<mode, reported, files>>
      /\ c \notin written => UNCHANGED <<written, queue>>
      /\ c \in written => /\ written' = IF gone THEN written \ {c} ELSE written
                          /\ queue' = Append(queue, op)
  BY DEF Logs!PrependVerdict, Logs!Asked
<1>2. LogTypes /\ queue \in Seq(Operation) /\ written \subseteq Checks
  BY DEF LogInv, LogTypes
<1>3. /\ op \in Operation /\ op.check = c /\ op.kind \in {"remove", "prepend"}
      /\ gone => op.kind = "remove"
      /\ ~ gone => op.kind = "prepend" /\ op.verdict = o
  BY MayAsk
<1> HIDE DEF op
<1>4. LogTypes'
  <2>1. Append(queue, op) \in Seq(Operation)
    BY <1>2, <1>3, AppendFacts
  <2>2. mode = "off" => c \notin written
    BY <1>2 DEF LogTypes
  <2> QED
    BY <1>1, <1>2, <2>1, <2>2 DEF LogTypes
<1>5. ASSUME mode # "off", ~ intruded
      PROVE  /\ written' = {d \in Checks : ExpectedLogs'[d] # Absent}
             /\ ~ reported => \A d \in Checks : Foretells(queue', d, files'[d], run, ExpectedLogs'[d])
  <2>1. Logs!Log(run, "none") # Absent /\ Logs!Log(run, o) # Absent
    BY LogFacts
  <2>2. written = {d \in Checks : ExpectedLogs[d] # Absent}
    BY <1>5 DEF LogInv
  <2>3. c \in written
    BY <2>1, <2>2
  <2>4. written' = {d \in Checks : ExpectedLogs'[d] # Absent}
    BY <1>1, <2>1, <2>2, <2>3
  <2>5. ASSUME ~ reported, NEW d \in Checks
        PROVE  Foretells(queue', d, files'[d], run, ExpectedLogs'[d])
    <3>0. Foretells(queue, d, files[d], run, ExpectedLogs[d])
      BY <1>5, <2>5 DEF LogInv
    <3>1. CASE d = c /\ gone
      <4>1. Touches(op, c)
        BY <1>3 DEF Touches
      <4>2. Foretells(Append(queue, op), c, files[c], run, Absent)
        BY <1>2, <1>3, <3>1, <4>1, AskedToRemove
      <4> QED
        BY <1>1, <2>3, <3>1, <4>2
    <3>2. CASE d = c /\ ~ gone
      <4>1. Touches(op, c)
        BY <1>3 DEF Touches
      <4>2. Foretells(Append(queue, op), c, files[c], run, Logs!Log(run, op.verdict))
        BY <1>2, <1>3, <3>0, <3>2, <4>1, AskedToPrepend
      <4> QED
        BY <1>1, <1>3, <2>3, <3>2, <4>2
    <3>3. CASE d # c
      <4>1. ~ Touches(op, d)
        BY <1>3, <3>3 DEF Touches
      <4>2. Foretells(Append(queue, op), d, files[d], run, ExpectedLogs[d])
        BY <1>2, <1>3, <3>0, <4>1, AskedElsewhere
      <4> QED
        BY <1>1, <2>3, <3>3, <4>2
    <3> QED
      BY <3>1, <3>2, <3>3
  <2> QED
    BY <2>4, <2>5
<1> QED
  BY <1>1, <1>4, <1>5 DEF LogInv

(* An operation done does to each log what Worked says.                    *)
LEMMA DoesIsWorked ==
  ASSUME LogTypes, NEW op \in Operation, Logs!Does(op)
  PROVE  /\ \A c \in Checks : files'[c] = IF Touches(op, c) THEN Worked(op, files[c]) ELSE files[c]
         /\ files' \in [Checks -> Content \cup {Absent}]
<1>1. files \in [Checks -> Content \cup {Absent}]
  BY DEF LogTypes
<1>2. /\ op.kind # "begin" => op.check \in Checks
      /\ op.kind = "save" => op.run \in 1 .. MaxRuns
      /\ op.kind = "prepend" => op.verdict \in Outcomes
  BY OperationFacts
<1>3. CASE op.kind = "begin"
  BY <1>3 DEF Logs!Does, Worked, Touches
<1>4. CASE op.kind = "remove"
  <2>1. files' = [files EXCEPT ![op.check] = Absent]
    BY <1>4 DEF Logs!Does, Logs!Put
  <2> QED
    BY <1>1, <1>2, <1>4, <2>1 DEF Worked, Touches
<1>5. CASE op.kind = "save"
  <2>1. files' = [files EXCEPT ![op.check] = Logs!Log(op.run, "none")]
    BY <1>5 DEF Logs!Does, Logs!Put
  <2>2. Logs!Log(op.run, "none") \in Content
    BY <1>2, <1>5, LogFacts
  <2> QED
    BY <1>1, <1>2, <1>5, <2>1, <2>2 DEF Worked, Touches
<1>6. CASE op.kind = "prepend"
  <2>1. /\ files[op.check] # Absent
        /\ files' = [files EXCEPT ![op.check] = [files[op.check] EXCEPT !.verdict = op.verdict]]
    BY <1>6 DEF Logs!Does, Logs!Put
  <2>2. files[op.check] \in Content
    BY <1>1, <1>2, <1>6, <2>1
  <2>3. /\ [files[op.check] EXCEPT !.verdict = op.verdict] = Logs!Log(files[op.check].evidence, op.verdict)
        /\ Logs!Log(files[op.check].evidence, op.verdict) \in Content
    BY <1>2, <1>6, <2>2 DEF Content, Logs!Log
  <2> QED
    BY <1>1, <1>2, <1>6, <2>1, <2>3 DEF Worked, Touches
<1> QED
  BY <1>3, <1>4, <1>5, <1>6, OperationFacts

LEMMA FailsTyped ==
  ASSUME LogTypes, NEW op \in Operation, Logs!Fails(op)
  PROVE  files' \in [Checks -> Content \cup {Absent}]
<1>1. files \in [Checks -> Content \cup {Absent}]
  BY DEF LogTypes
<1>2. op.kind # "begin" => op.check \in Checks
  BY OperationFacts
<1>3. Logs!Log(Unknown, "none") \in Content
  BY DEF Logs!Log, Content
<1> QED
  BY <1>1, <1>2, <1>3 DEF Logs!Fails, Logs!Put

LEMMA LogWorkStep ==
  ASSUME RunTypes, LogInv, LogWork
  PROVE  LogInv'
<1>1. /\ LogTypes /\ queue \in Seq(Operation) /\ queue # <<>> /\ queue' = Tail(queue)
      /\ UNCHANGED <<mode, written, run, intruded>> /\ ExpectedLogs' = ExpectedLogs
      /\ Logs!OperationDone \/ Logs!OperationFailed
  BY DEF LogInv, LogTypes, LogWork, Logs!Work, Logs!OperationDone, Logs!OperationFailed, vars,
         ExpectedLogs, Positions, Kept
<1>2. Head(queue) \in Operation /\ queue' \in Seq(Operation)
  BY <1>1, TailFacts
<1>3. CASE Logs!OperationFailed
  <2>1. reported' = TRUE /\ files' \in [Checks -> Content \cup {Absent}]
    BY <1>1, <1>2, <1>3, FailsTyped DEF Logs!OperationFailed
  <2> QED
    BY <1>1, <1>2, <2>1 DEF LogInv, LogTypes
<1>4. CASE Logs!OperationDone
  <2>1. /\ reported' = reported /\ files' \in [Checks -> Content \cup {Absent}]
        /\ \A c \in Checks : files'[c] = IF Touches(Head(queue), c) THEN Worked(Head(queue), files[c]) ELSE files[c]
    BY <1>1, <1>2, <1>4, DoesIsWorked DEF Logs!OperationDone
  <2>2. LogTypes'
    BY <1>1, <1>2, <2>1 DEF LogTypes
  <2>3. ASSUME run > 0, mode # "off", ~ intruded, ~ reported, NEW c \in Checks
        PROVE  Foretells(queue', c, files'[c], run, ExpectedLogs[c])
    <3>1. Foretells(queue, c, files[c], run, ExpectedLogs[c])
      BY <2>3 DEF LogInv
    <3>2. run \in 1 .. MaxRuns
      BY <2>3 DEF RunTypes
    <3>3. CASE Touches(Head(queue), c)
      BY <1>1, <2>1, <3>1, <3>2, <3>3, WorkedHere
    <3>4. CASE ~ Touches(Head(queue), c)
      BY <1>1, <2>1, <3>1, <3>4, WorkedElsewhere
    <3> QED
      BY <3>3, <3>4
  <2> QED
    BY <1>1, <2>1, <2>2, <2>3 DEF LogInv
<1> QED
  BY <1>1, <1>3, <1>4
----------------------------------------------------------------------------
(* The steps of runs that log.                                             *)

LEMMA RunIsOn == RunTypes /\ phase # "over" => run \in 1 .. MaxRuns
BY DEF RunTypes

LEMMA BeginLoggedRunStep ==
  ASSUME IInv, BeginLoggedRun
  PROVE  IInv'
<1>1. RunInv' /\ \A k \in Positions' : stage'[k] = "running"
  BY BeginRunStep DEF IInv, BeginLoggedRun
<1>2. ExpectedByEntry'
  BY <1>1, ExpectedIsThen DEF RunInv
<1>3. \A k \in Positions' : Due(k)' = Absent
  BY <1>1 DEF Due, Kept, Outcomes
<1>4. \A c \in Checks : ExpectedLogs'[c] = Absent
  BY <1>2, <1>3 DEF ExpectedByEntry
<1>5. LogInv'
  BY <1>4, LogBegun DEF IInv, BeginLoggedRun
<1> QED
  BY <1>1, <1>5 DEF IInv

LEMMA EvidenceLoggedStep ==
  ASSUME IInv, NEW k \in Positions, EvidenceLogged(k)
  PROVE  IInv'
<1>1. /\ RunInv /\ LogInv /\ RunTypes /\ EvidenceArrives(k) /\ Logs!SaveEvidence(entries[k], run)
      /\ stage \in [Positions -> Stages] /\ run \in 1 .. MaxRuns /\ entries[k] \in Checks
  BY RunIsOn, EntriesAreChecks DEF IInv, RunInv, RunTypes, EvidenceLogged, EvidenceArrives
<1>2. /\ stage[k] = "running" /\ stage' = [stage EXCEPT ![k] = "evident"]
      /\ UNCHANGED <<run, entries, thrown, intruded>> /\ mode' = mode
  BY DEF EvidenceLogged, EvidenceArrives, Logs!SaveEvidence
<1>3. RunInv'
  BY <1>1, GatheringStep
<1>4. Due(k)' = Logs!Log(run, "none")
  BY <1>1, <1>2 DEF Due, Kept, Outcomes
<1>5. \A j \in Positions : j # k => Due(j)' = Due(j)
  BY <1>1, <1>2 DEF Due, Kept
<1>6. /\ ExpectedLogs'[entries[k]] = Logs!Log(run, "none")
      /\ \A c \in Checks : c # entries[k] => ExpectedLogs'[c] = ExpectedLogs[c]
  BY <1>1, <1>2, <1>3, <1>4, <1>5, ExpectedMoves DEF RunInv
<1>7. LogInv'
  BY <1>1, <1>2, <1>6, EvidenceExpected
<1> QED
  BY <1>3, <1>7 DEF IInv

LEMMA StrayLoggedStep ==
  ASSUME IInv, NEW r \in 1 .. MaxRuns, NEW c \in Checks, StrayLogged(r, c)
  PROVE  IInv'
<1>1. /\ RunInv /\ LogInv /\ RunTypes /\ StraysOK /\ StrayEvidence(r, c) /\ Logs!SaveEvidence(c, r)
      /\ intruded' = (intruded \/ r # run)
  BY DEF IInv, RunInv, StrayLogged
<1>2. RunInv' /\ UNCHANGED <<run, entries, phase, thrown>>
  BY <1>1, StrayStep
<1>3. CASE r # run
  <2>1. LogTypes' /\ intruded'
    BY <1>1, <1>3, EvidenceAsked
  <2> QED
    BY <1>2, <2>1 DEF IInv, LogInv
<1>4. CASE r = run
  <2>1. <<run, c>> \in strays /\ stage' = [k \in Positions |-> IF entries[k] = c THEN "evident" ELSE stage[k]]
    BY <1>1, <1>4 DEF StrayEvidence
  <2>2. PICK k \in Positions : entries[k] = c /\ stage[k] = "running"
    BY <1>1, <2>1 DEF StraysOK
  <2>3. mode' = mode /\ (intruded => intruded')
    BY <1>1, <1>4 DEF Logs!SaveEvidence
  <2>4. \A j \in Positions : j # k => entries[j] # c
    BY <1>1, <2>2 DEF RunTypes
  <2>5. Due(k)' = Logs!Log(run, "none")
    BY <1>2, <2>1, <2>2 DEF Due, Kept, Outcomes
  <2>6. \A j \in Positions : j # k => Due(j)' = Due(j)
    BY <1>2, <2>1, <2>3, <2>4 DEF Due, Kept
  <2>7. /\ ExpectedLogs'[c] = Logs!Log(run, "none")
        /\ \A d \in Checks : d # c => ExpectedLogs'[d] = ExpectedLogs[d]
    BY <1>1, <1>2, <2>2, <2>5, <2>6, ExpectedMoves DEF RunInv
  <2>8. LogInv'
    BY <1>1, <1>2, <1>4, <2>3, <2>7, EvidenceExpected
  <2> QED
    BY <1>2, <2>8 DEF IInv
<1> QED
  BY <1>3, <1>4

LEMMA VerdictLoggedStep ==
  ASSUME IInv, NEW k \in Positions, NEW o \in Outcomes, VerdictLogged(k, o)
  PROVE  IInv'
<1>1. /\ RunInv /\ LogInv /\ RunTypes /\ PolicyReturns(k, o) /\ Logs!PrependVerdict(entries[k], o)
      /\ stage \in [Positions -> Stages] /\ run \in 1 .. MaxRuns /\ entries[k] \in Checks
  BY RunIsOn, EntriesAreChecks DEF IInv, RunInv, RunTypes, VerdictLogged, PolicyReturns
<1>2. /\ stage[k] = "parsed" /\ stage' = [stage EXCEPT ![k] = o]
      /\ UNCHANGED <<run, entries, thrown, intruded>> /\ mode' = mode
  BY DEF VerdictLogged, PolicyReturns, Logs!PrependVerdict
<1>3. RunInv'
  BY <1>1, PolicyReturnsStep
<1>4. Due(k) = Logs!Log(run, "none")
  BY <1>2 DEF Due, Kept, Outcomes
<1>5. Due(k)' = IF mode = "failing" /\ o = "pass" THEN Absent ELSE Logs!Log(run, o)
  BY <1>1, <1>2 DEF Due, Kept
<1>6. \A j \in Positions : j # k => Due(j)' = Due(j)
  BY <1>1, <1>2 DEF Due, Kept
<1>7. /\ ExpectedLogs'[entries[k]] = IF mode = "failing" /\ o = "pass" THEN Absent ELSE Logs!Log(run, o)
      /\ \A c \in Checks : c # entries[k] => ExpectedLogs'[c] = ExpectedLogs[c]
  BY <1>1, <1>2, <1>3, <1>5, <1>6, ExpectedMoves DEF RunInv
<1>8. ExpectedLogs[entries[k]] = Logs!Log(run, "none")
  BY <1>1, <1>4, ExpectedIs DEF ExpectedByEntry
<1>9. LogInv'
  BY <1>1, <1>2, <1>7, <1>8, VerdictExpected
<1> QED
  BY <1>3, <1>9 DEF IInv

(* A silent step leaves what is due to each check as it is.                *)
LEMMA SilentStep ==
  ASSUME IInv, Silent
  PROVE  IInv'
<1>1. RunInv /\ LogInv /\ RunTypes /\ PhasesOK /\ stage \in [Positions -> Stages] /\ UNCHANGED <<logVars, intruded>>
  BY DEF IInv, RunInv, RunTypes, Silent
<1>2. mode' = mode
  BY <1>1 DEF logVars
<1>3. SUFFICES RunInv' /\ entries' = entries /\ run' = run /\ \A j \in Positions : Due(j)' = Due(j)
  <2>1. RunInv' /\ entries' = entries /\ run' = run /\ (\A j \in Positions : Due(j)' = Due(j)) => ExpectedLogs' = ExpectedLogs
    BY <1>1, ExpectedStays DEF RunInv
  <2> QED
    BY <1>1, <1>3, <2>1, NothingAsked DEF IInv
<1>4. CASE RunRejects \/ EvidenceComplete \/ ParsingFails \/ EvidenceBuilt \/ PoliciesDone
  <2>1. UNCHANGED <<run, entries, stage, thrown>>
    BY <1>4 DEF RunRejects, EvidenceComplete, ParsingFails, EvidenceBuilt, PoliciesDone
  <2>2. RunInv'
    BY <1>1, <1>4, RunRejectsStep, EvidenceCompleteStep, ParsingFailsStep, EvidenceBuiltStep, PoliciesDoneStep
  <2> QED
    BY <1>2, <2>1, <2>2 DEF Due, Kept
<1>5. ASSUME NEW k \in Positions, WorkerThrows(k)
      PROVE  RunInv' /\ entries' = entries /\ run' = run /\ \A j \in Positions : Due(j)' = Due(j)
  <2>1. /\ UNCHANGED <<run, entries, thrown>> /\ stage[k] = "running" /\ thrown = <<>>
        /\ \A j \in Positions : stage'[j] = stage[j] \/ (stage[j] = "running" /\ stage'[j] \in {"threw", "dropped"})
    BY <1>1, <1>5 DEF WorkerThrows, PhasesOK, Gathering
  <2> QED
    BY <1>1, <1>2, <1>5, <2>1, GatheringStep DEF Due, Kept, Outcomes
<1>6. ASSUME NEW k \in Positions, ParseEnds(k)
      PROVE  RunInv' /\ entries' = entries /\ run' = run /\ \A j \in Positions : Due(j)' = Due(j)
  <2>1. /\ UNCHANGED <<run, entries, thrown>>
        /\ \A j \in Positions : stage'[j] = stage[j] \/ (stage[j] = "evident" /\ stage'[j] \in {"parsed", "unparsed"})
    BY <1>1, <1>6 DEF ParseEnds
  <2> QED
    BY <1>1, <1>2, <1>6, <2>1, ParsingStep DEF Due, Kept, Outcomes
<1>7. ASSUME NEW k \in Positions, PolicyThrows(k)
      PROVE  RunInv' /\ entries' = entries /\ run' = run /\ \A j \in Positions : Due(j)' = Due(j)
  <2>1. /\ UNCHANGED <<run, entries>>
        /\ \A j \in Positions : stage'[j] = stage[j] \/ (stage[j] = "parsed" /\ stage'[j] = "threw")
    BY <1>1, <1>7 DEF PolicyThrows
  <2>2. RunInv' /\ thrown' # <<>> /\ (thrown = <<>> => \A j \in Positions : stage[j] # "threw")
    BY <1>1, <1>7, PolicyThrowsStep DEF NobodyIs
  <2> QED
    BY <1>2, <2>1, <2>2 DEF Due, Kept, Outcomes
<1> QED
  BY <1>4, <1>5, <1>6, <1>7 DEF Silent

----------------------------------------------------------------------------

LEMMA InvInit == LoggedInit => IInv
<1> SUFFICES ASSUME LoggedInit PROVE IInv
  OBVIOUS
<1>1. RunInv /\ run = 0
  BY RunInvInit DEF LoggedInit, Init
<1>2. LogTypes
  <2>1. Logs!Log(Unknown, "none") \in Content
    BY DEF Logs!Log, Content
  <2> QED
    BY <2>1 DEF LoggedInit, Logs!Init, LogTypes
<1> QED
  BY <1>1, <1>2 DEF IInv, LogInv

LEMMA InvNext == IInv /\ [LoggedNext]_allVars => IInv'
<1> SUFFICES ASSUME IInv, [LoggedNext]_allVars PROVE IInv'
  OBVIOUS
<1>1. CASE BeginLoggedRun
  BY <1>1, BeginLoggedRunStep
<1>2. CASE Silent
  BY <1>2, SilentStep
<1>3. CASE LogWork
  <2>1. RunInv'
    BY <1>3, RunStutters DEF IInv, LogWork
  <2>2. LogInv'
    BY <1>3, LogWorkStep DEF IInv, RunInv
  <2> QED
    BY <2>1, <2>2 DEF IInv
<1>4. ASSUME NEW k \in Positions, EvidenceLogged(k)
      PROVE  IInv'
  BY <1>4, EvidenceLoggedStep
<1>5. ASSUME NEW k \in Positions, NEW o \in Outcomes, VerdictLogged(k, o)
      PROVE  IInv'
  BY <1>5, VerdictLoggedStep
<1>6. ASSUME NEW r \in 1 .. MaxRuns, NEW c \in Checks, StrayLogged(r, c)
      PROVE  IInv'
  BY <1>6, StrayLoggedStep
<1>7. CASE UNCHANGED allVars
  <2>1. UNCHANGED vars /\ UNCHANGED <<run, logVars, intruded>>
    BY <1>7 DEF allVars, vars
  <2>2. RunInv'
    BY <2>1, RunStutters DEF IInv
  <2>3. ExpectedLogs' = ExpectedLogs
    BY <2>1 DEF vars, logVars, ExpectedLogs, Positions, Kept
  <2>4. LogInv'
    BY <2>1, <2>3, NothingAsked DEF IInv
  <2> QED
    BY <2>2, <2>4 DEF IInv
<1> QED
  BY <1>1, <1>2, <1>3, <1>4, <1>5, <1>6, <1>7 DEF LoggedNext

(* The checks of a run move together through its phases, and the writes    *)
(* the hooks asked for make of the folder what the run has come to.        *)
THEOREM Inductive == LoggedSpec => []IInv
<1> QED
  BY InvInit, InvNext, PTL DEF LoggedSpec

(* The variables have their types in every reachable state.                *)
THEOREM TypeCorrect == LoggedSpec => []TypeOK
<1>1. IInv => TypeOK
  <2> SUFFICES ASSUME IInv PROVE TypeOK
    OBVIOUS
  <2>1. RunTypes /\ LogTypes
    BY DEF IInv, RunInv, LogInv
  <2>2. strays \subseteq (1 .. MaxRuns) \X Checks
    <3>1. 1 .. run \subseteq 1 .. MaxRuns /\ strays \subseteq (1 .. run) \X Checks
      BY <2>1, PipelineAssumption DEF RunTypes
    <3> QED
      BY <3>1
  <2>3. \A c \in Checks : files[c] = Absent \/ files[c].evidence \in (1 .. MaxRuns) \cup {Unknown}
    BY <2>1 DEF LogTypes, Content
  <2>4. DOMAIN stage = Positions /\ DOMAIN results = Positions
    BY <2>1 DEF RunTypes
  <2> QED
    BY <2>1, <2>2, <2>3, <2>4 DEF RunTypes, LogTypes, TypeOK
<1> QED
  BY <1>1, Inductive, PTL

(* A verdict has the result of each check at its position, whatever the    *)
(* order in which policies settled, and an error names every policy that   *)
(* failed.                                                                 *)
THEOREM Faithful == LoggedSpec => []VerdictIsFaithful
<1>1. IInv => VerdictIsFaithful
  <2> SUFFICES ASSUME IInv, phase = "over" PROVE VerdictIsFaithful
    BY DEF VerdictIsFaithful
  <2>1. Ended
    BY DEF IInv, RunInv, PhasesOK
  <2>2. CASE answer = "resolved"
    <3>1. Judging /\ NobodyIs("parsed") /\ thrown = <<>> /\ (passed <=> \A k \in Positions : stage[k] # "fail")
      BY <2>1, <2>2 DEF Ended
    <3>2. \A k \in Positions : stage[k] \in Outcomes
      BY <3>1 DEF Judging, NobodyIs
    <3> QED
      BY <2>2, <3>1, <3>2 DEF Judging, VerdictIsFaithful
  <2>3. CASE answer # "resolved" /\ thrown # <<>>
    <3>1. answer = "rejected" /\ Judging /\ NobodyIs("parsed")
      BY <2>1, <2>3 DEF Ended, Gathering, Parsing
    <3> QED
      BY <2>3, <3>1 DEF Judging, NobodyIs, VerdictIsFaithful
  <2> QED
    BY <2>2, <2>3 DEF VerdictIsFaithful
<1> QED
  BY <1>1, Inductive, PTL

(* No check is judged while another still runs or parses, and a parser's   *)
(* failure is reported when every parser has ended.                        *)
THEOREM NeverOverlap == LoggedSpec => []PhasesNeverOverlap
<1>1. IInv => PhasesNeverOverlap
  <2> SUFFICES ASSUME IInv PROVE PhasesNeverOverlap
    OBVIOUS
  <2>1. phase \in {"over", "running", "parsing", "judging"} /\ PhasesOK
    BY DEF IInv, RunInv, RunTypes
  <2>2. Positions = {} \/ Gathering \/ Parsing \/ Judging
    BY <2>1 DEF PhasesOK, Ended
  <2>3. (\E k \in Positions : stage[k] \in Outcomes) =>
          \A k \in Positions : stage[k] \in Outcomes \cup {"parsed", "threw"}
    BY <2>2 DEF Gathering, Parsing, Judging, Outcomes
  <2>4. ASSUME phase = "over", NEW k \in Positions, stage[k] = "unparsed"
        PROVE  \A j \in Positions : stage[j] \in {"parsed", "unparsed"}
    <3>1. Parsing /\ NobodyIs("evident")
      BY <2>1, <2>4 DEF PhasesOK, Ended, Gathering, Judging, Outcomes
    <3> QED
      BY <3>1 DEF Parsing, NobodyIs
  <2> QED
    BY <2>3, <2>4 DEF PhasesNeverOverlap
<1> QED
  BY <1>1, Inductive, PTL

(* Once its writes are done, the folder describes the run that has ended   *)
(* and no other, and `has` is true of exactly the logs that are there.     *)
THEOREM LogsTell == LoggedSpec => []LogsTellTheRun
<1>1. IInv => LogsTellTheRun
  <2> SUFFICES ASSUME IInv, run > 0, queue = <<>>, mode # "off", ~ intruded, ~ reported
               PROVE  files = ExpectedLogs /\ written = {c \in Checks : files[c] # Absent}
    BY DEF LogsTellTheRun
  <2>1. /\ written = {c \in Checks : ExpectedLogs[c] # Absent}
        /\ \A c \in Checks : Foretells(queue, c, files[c], run, ExpectedLogs[c])
        /\ files = [c \in Checks |-> files[c]]
    BY DEF IInv, LogInv, LogTypes
  <2>2. \A c \in Checks : files[c] = ExpectedLogs[c]
    BY <2>1 DEF Foretells
  <2>3. ExpectedLogs = [c \in Checks |-> ExpectedLogs[c]]
    BY DEF ExpectedLogs
  <2> QED
    BY <2>1, <2>2, <2>3
<1> QED
  BY <1>1, Inductive, PTL

=============================================================================
