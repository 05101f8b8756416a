---------------------- MODULE SharedDirectory_proofs ----------------------
(***************************************************************************)
(* The shared directory is correct for every set of processes, worlds,     *)
(* trees and files: targets are replaced as a whole, a replayed result is  *)
(* the one that belongs to the inputs, what is lost is lost to a race, and *)
(* a check passes only on what somebody has approved.                      *)
(***************************************************************************)
EXTENDS SharedDirectory, FiniteSetTheorems, TLAPS

--------------------------------------------------------------------------
\* The types of the variables, in full.
FilesOK ==
    /\ disk \in [Paths -> Contents \cup {Absent}]
    /\ temps \subseteq [user : Users, path : Paths, content : Contents \cup {Partial}]
    /\ got \in [Users -> Contents \cup {Absent, NoView}]

\* Nobody has two temporary files.
OneTempEach == \A t1, t2 \in temps : t1.user = t2.user => t1 = t2

RunSteps == {"idle", "looking", "computing", "writing", "filling", "renaming", "removing", "standing in", "done", "failed"}
RunType ==
    [at : RunSteps, call : (UNION {Calls[u] : u \in Runs}) \cup {NoView},
     world : Worlds \cup {NoWorld}, value : Worlds \cup {NoWorld}, since : 0..MaxTime]

KeeperType ==
    [at : {"idle", "reading", "removing", "done"}, limits : Limits \cup {NoView},
     since : 0..MaxTime, todo : SUBSET Paths, read : UNION {[paths -> Contents] : paths \in SUBSET Paths}]

Findings == UNION UNION {InitialTrees[k] : k \in Kinds}
CheckerSteps ==
    {"idle", "loading", "reconciling", "probing", "comparing", "writing", "filling", "renaming", "judging", "done"}
CheckerType ==
    [at : CheckerSteps, outcome : (UNION {ToolOutcomes(k) : k \in Kinds}) \cup {None}, status : Whatever \cup {None},
     findings : SUBSET Findings, seen : SUBSET Findings, loaded : Registries \cup {Absent, NoView},
     records : SUBSET RegistryRecords, registryError : BOOLEAN, verdict : {None, "pass", "warn", "fail"}]

CacheOK ==
    /\ now \in 0..MaxTime
    /\ run \in [Runs -> RunType]
    /\ keeper \in [Keepers -> KeeperType]

RegistryOK ==
    /\ kind \in Kinds \cup {CacheScene}
    /\ checker \in [Checkers -> CheckerType]
    /\ edits \in 0..MaxEdits
    /\ kind \in Kinds => tree \in InitialTrees[kind]

--------------------------------------------------------------------------
\* A run is on its way, or done, with the value of its own world; one that
\* may not use the cache has left no trace in it.
RunOK(u) ==
    /\ run[u].at \in {"writing", "filling", "renaming", "removing", "standing in", "done"} => run[u].value = run[u].world
    /\ run[u].at \notin {"idle", "failed"} =>
        run[u].world \in Worlds /\ run[u].call \in Calls[u] /\ ModeOf(u) # Invalid
    /\ run[u].at = "idle" => got[u] = NoView
    /\ run[u].at \in {"idle", "looking", "computing", "writing", "standing in"} => TempOf(u) = {}
    /\ run[u].at = "renaming" => \A t \in TempOf(u) : t.content # Partial
    /\ run[u].at \notin {"idle", "failed"} /\ ModeOf(u) = "off" =>
        run[u].at \in {"computing", "done"} /\ got[u] = NoView /\ TempOf(u) = {}

RunsOK == \A u \in Runs : RunOK(u)

\* What a keeper is about to remove, it may.
KeeperOK(k) ==
    /\ keeper[k].at = "reading" => keeper[k].limits \in Limits
    /\ keeper[k].at = "removing" =>
        /\ keeper[k].limits \in Limits \/ DOMAIN keeper[k].read = {}
        /\ \A path \in keeper[k].todo \cap DOMAIN keeper[k].read :
            IsConsistent(path, keeper[k].read[path]) => BeyondLimits(k, path)

KeepersOK == \A k \in Keepers : KeeperOK(k)

RunsAreIdle == run = [u \in Runs |-> NoRun]

--------------------------------------------------------------------------
\* What a run knows of the tree: what its tool made of the one it saw.
ScanOK(u) ==
    LET c == checker[u]
    IN /\ c.seen \in InitialTrees[kind] /\ c.outcome \in ToolOutcomes(kind)
       /\ c.status = Status(kind, c.outcome, c.seen)
       /\ c.findings = Scanned(c.outcome, c.status, c.seen)
       /\ c.verdict = None

LoadedOK(u) ==
    LET c == checker[u]
    IN c.loaded \in Registries \cup {Absent} /\ IsValid(Records(c.loaded))

ReconciledOK(u) ==
    LET c == checker[u]
    IN /\ LoadedOK(u)
       /\ c.records = Reconcile(Records(c.loaded), Ids(c.findings))
       /\ Distinguishable(kind, c.findings)

\* Where a run is, and what it holds there.
CheckerOK(u) ==
    LET c == checker[u]
    IN /\ c.at \notin {"idle", "done"} => ScanOK(u)
       /\ c.at = "idle" => c = NoCheck
       /\ c.at = "done" => c.findings = {}
       /\ c.at = "loading" => ~c.registryError
       /\ c.at = "reconciling" => LoadedOK(u) /\ c.records = Records(c.loaded) /\ ~c.registryError
       /\ c.at \in {"probing", "comparing", "writing", "filling", "renaming"} => ReconciledOK(u) /\ ~c.registryError
       /\ c.at = "judging" /\ ~c.registryError /\ c.status = "complete" => ReconciledOK(u)

CheckersOK == \A u \in Checkers : CheckerOK(u)

\* Nobody but a run that is writing has a temporary file, and it holds what
\* the run is to persist by the time it is renamed.
HoldsOK(u) ==
    /\ checker[u].at \in {"idle", "loading", "reconciling", "probing", "comparing", "writing"} => TempOf(u) = {}
    /\ \A t \in TempOf(u) : t.path = RegistryPath
    /\ checker[u].at = "renaming" => \A t \in TempOf(u) : t.content = ToPersist(u)

TempsOK == \A u \in Checkers : HoldsOK(u)

\* Whatever stands in a record somebody has put there.
ApprovedOK ==
    /\ disk[RegistryPath] \in Registries \cup {Absent}
    /\ \A e \in Records(disk[RegistryPath]) : {e.id} \X e.filled \subseteq approved
    /\ \A u \in Checkers : \A e \in checker[u].records : {e.id} \X e.filled \subseteq approved

IInv ==
    /\ FilesOK /\ OneTempEach /\ CacheOK /\ RegistryOK /\ KeepersOK
    /\ IF kind = CacheScene THEN RunsOK /\ (\A u \in Checkers : checker[u] = NoCheck)
       ELSE RunsAreIdle /\ CheckersOK /\ TempsOK /\ ApprovedOK /\ NoVerdictWithoutApproval

--------------------------------------------------------------------------
(* What an operation on the files does to them, and that it is a step of   *)
(* the directory that replaces whole contents.                             *)

WholeStep == Whole!Next \/ UNCHANGED <<disk, got>>

OthersKeepTemps(u) == \A v \in Users \ {u} : TempOf(v)' = TempOf(v)

(* The contents a path holds after one path has been given another.        *)
LEMMA ReplaceOne ==
  ASSUME FilesOK, NEW path \in Paths, NEW content \in Contents \cup {Absent},
         disk' = [disk EXCEPT ![path] = content], UNCHANGED got
  PROVE  disk' \in [Paths -> Contents \cup {Absent}] /\ WholeStep
<1>1. disk' \in [Paths -> Contents \cup {Absent}] /\ disk'[path] = content
  BY DEF FilesOK
<1>2. Whole!Replace(path)
  BY <1>1 DEF Whole!Replace, Whole!MayHold
<1> QED
  BY <1>1, <1>2 DEF WholeStep, Whole!Next

LEMMA ReadStep ==
  ASSUME FilesOK, OneTempEach, NEW u \in Users, NEW path \in Paths, Read(u, path)
  PROVE  /\ FilesOK' /\ OneTempEach' /\ WholeStep
         /\ got' = [got EXCEPT ![u] = disk[path]]
         /\ UNCHANGED <<disk, temps>> /\ \A v \in Users : TempOf(v)' = TempOf(v)
<1>1. got' = [got EXCEPT ![u] = disk[path]] /\ UNCHANGED <<disk, temps>>
  BY DEF Read, ContentOf
<1>2. disk[path] \in Contents \cup {Absent}
  BY DEF FilesOK
<1>3. FilesOK' /\ OneTempEach'
  BY <1>1, <1>2 DEF FilesOK, OneTempEach
<1>4. Whole!Look(u, path)
  BY <1>1 DEF Whole!Look
<1> QED
  BY <1>1, <1>3, <1>4 DEF WholeStep, Whole!Next, TempOf

LEMMA OpenTempStep ==
  ASSUME FilesOK, OneTempEach, NEW u \in Users, NEW path \in Paths, TempOf(u) = {}, OpenTemp(u, path)
  PROVE  /\ FilesOK' /\ OneTempEach' /\ WholeStep /\ UNCHANGED <<disk, got>>
         /\ \A t \in TempOf(u)' : t.path = path
         /\ OthersKeepTemps(u)
<1> DEFINE new == [user |-> u, path |-> path, content |-> Partial]
<1>1. temps' = temps \cup {new} /\ UNCHANGED <<disk, got>>
  BY DEF OpenTemp
<1>2. new \in [user : Users, path : Paths, content : Contents \cup {Partial}] /\ new.user = u /\ new.path = path
  OBVIOUS
<1> HIDE DEF new
<1>3. \A t \in temps : t.user # u
  BY DEF TempOf
<1> QED
  BY <1>1, <1>2, <1>3 DEF FilesOK, OneTempEach, WholeStep, OthersKeepTemps, TempOf

LEMMA FillTempStep ==
  ASSUME FilesOK, OneTempEach, NEW u \in Users, NEW content \in Contents, FillTemp(u, content)
  PROVE  /\ FilesOK' /\ OneTempEach' /\ WholeStep /\ UNCHANGED <<disk, got>>
         /\ \A t \in TempOf(u)' : t.content = content /\ \E s \in TempOf(u) : t.path = s.path
         /\ OthersKeepTemps(u)
<1> DEFINE WithContent(t) == [t EXCEPT !.content = content]
<1>1. temps' = (temps \ TempOf(u)) \cup {WithContent(t) : t \in TempOf(u)} /\ UNCHANGED <<disk, got>>
  BY DEF FillTemp
<1>2. \A t \in TempOf(u) : /\ WithContent(t) \in [user : Users, path : Paths, content : Contents \cup {Partial}]
                           /\ WithContent(t).user = u /\ WithContent(t).path = t.path /\ WithContent(t).content = content
  BY DEF FilesOK, TempOf
<1> HIDE DEF WithContent
<1>3. FilesOK'
  BY <1>1, <1>2 DEF FilesOK
<1>4. OneTempEach'
  BY <1>1, <1>2 DEF OneTempEach, TempOf
<1>5. \A t \in TempOf(u)' : t.content = content /\ \E s \in TempOf(u) : t.path = s.path
  BY <1>1, <1>2 DEF TempOf
<1>6. OthersKeepTemps(u)
  BY <1>1, <1>2 DEF OthersKeepTemps, TempOf
<1> QED
  BY <1>1, <1>3, <1>4, <1>5, <1>6 DEF WholeStep

LEMMA RenameStep ==
  ASSUME FilesOK, OneTempEach, NEW u \in Users, \A t \in TempOf(u) : t.content # Partial, Rename(u)
  PROVE  /\ FilesOK' /\ OneTempEach' /\ WholeStep /\ UNCHANGED got
         /\ \A path \in Paths : \/ disk'[path] = disk[path]
                                \/ \E t \in TempOf(u) : t.path = path /\ disk'[path] = t.content
         /\ TempOf(u)' = {} /\ OthersKeepTemps(u)
<1>1. temps' = temps \ TempOf(u) /\ UNCHANGED got
  BY DEF Rename
<1>2. TempOf(u)' = {} /\ OthersKeepTemps(u) /\ OneTempEach'
  BY <1>1 DEF TempOf, OthersKeepTemps, OneTempEach
<1>3. CASE TempOf(u) = {}
  <2>1. disk' = [path \in Paths |-> disk[path]]
    BY <1>3 DEF Rename
  <2>2. disk' = disk
    BY <2>1 DEF FilesOK
  <2> QED
    BY <1>1, <1>2, <2>2 DEF FilesOK, WholeStep
<1>4. ASSUME NEW t \in TempOf(u)
      PROVE  /\ FilesOK' /\ WholeStep
             /\ \A path \in Paths : \/ disk'[path] = disk[path]
                                    \/ t.path = path /\ disk'[path] = t.content
  <2>1. TempOf(u) = {t}
    BY <1>4 DEF TempOf, OneTempEach
  <2>2. disk' = [path \in Paths |-> IF t.path = path THEN (CHOOSE x \in TempOf(u) : TRUE).content ELSE disk[path]]
    BY <2>1 DEF Rename
  <2>3. (CHOOSE x \in TempOf(u) : TRUE) = t
    BY <2>1
  <2>4. t.path \in Paths /\ t.content \in Contents
    BY <1>4 DEF TempOf, FilesOK
  <2>5. disk' = [disk EXCEPT ![t.path] = t.content]
    BY <2>2, <2>3, <2>4 DEF FilesOK
  <2>6. disk' \in [Paths -> Contents \cup {Absent}] /\ WholeStep
    BY <1>1, <2>4, <2>5, ReplaceOne
  <2> QED
    BY <1>1, <2>2, <2>3, <2>6 DEF FilesOK
<1> QED
  BY <1>1, <1>2, <1>3, <1>4

LEMMA RemoveTempStep ==
  ASSUME FilesOK, OneTempEach, NEW u \in Users, RemoveTemp(u)
  PROVE  /\ FilesOK' /\ OneTempEach' /\ WholeStep /\ UNCHANGED <<disk, got>>
         /\ TempOf(u)' = {} /\ OthersKeepTemps(u)
BY DEF RemoveTemp, FilesOK, OneTempEach, WholeStep, TempOf, OthersKeepTemps

(* A target that is removed: no temporary file is lost with it.            *)
LEMMA RemoveStep ==
  ASSUME FilesOK, OneTempEach, NEW path \in Paths, Remove(path)
  PROVE  /\ FilesOK' /\ OneTempEach' /\ WholeStep /\ UNCHANGED got
         /\ \A v \in Users : TempOf(v)' \subseteq TempOf(v)
<1>1. disk' = [disk EXCEPT ![path] = Absent] /\ temps' = temps \ {path} /\ UNCHANGED got
  BY DEF Remove, FilesOK
<1>2. disk' \in [Paths -> Contents \cup {Absent}] /\ WholeStep
  BY <1>1, ReplaceOne
<1> QED
  BY <1>1, <1>2 DEF FilesOK, OneTempEach, TempOf

LEMMA PlaceStep ==
  ASSUME FilesOK, OneTempEach, NEW path \in Paths, NEW content \in Contents, Place(path, content)
  PROVE  /\ FilesOK' /\ OneTempEach' /\ WholeStep /\ UNCHANGED got
         /\ disk' = [disk EXCEPT ![path] = content]
         /\ \A v \in Users : TempOf(v)' = TempOf(v)
<1>1. disk' = [disk EXCEPT ![path] = content] /\ UNCHANGED <<temps, got>>
  BY DEF Place
<1>2. disk' \in [Paths -> Contents \cup {Absent}] /\ WholeStep
  BY <1>1, ReplaceOne
<1> QED
  BY <1>1, <1>2 DEF FilesOK, OneTempEach, TempOf

LEMMA FilesUntouched ==
  ASSUME FilesOK, OneTempEach, UNCHANGED fileVars
  PROVE  /\ FilesOK' /\ OneTempEach' /\ WholeStep
         /\ UNCHANGED <<disk, temps, got>> /\ \A v \in Users : TempOf(v)' = TempOf(v)
BY DEF FilesOK, OneTempEach, WholeStep, TempOf, fileVars

--------------------------------------------------------------------------
(* The runs that replay results.                                           *)

CacheContext == IInv /\ kind = CacheScene /\ UNCHANGED registryVars

(* What is consistent with a path is an entry of the cache.                *)
LEMMA ConsistentEntries ==
  ASSUME NEW path, NEW content \in Contents \cup {Absent}, IsConsistent(path, content)
  PROVE  \E world \in Worlds, time \in 0..MaxTime : content = Entry(world, time)
<1>1. content \in Contents /\ "createdAt" \in DOMAIN content
  BY DEF IsConsistent, IsEntry
<1>2. content \notin Registries
  <2> SUFFICES ASSUME content \in Registries
               PROVE  "createdAt" \notin DOMAIN content
    BY <1>1
  <2> QED
    BY DEF Registries
<1> QED
  BY <1>1, <1>2 DEF Contents, Entries

(* What an entry's path says of its value: the key names all of the world. *)
LEMMA HitIsOwn ==
  ASSUME NEW world \in Worlds, NEW content \in Contents \cup {Absent},
         IsConsistent(EntryPath(world), content)
  PROVE  content.value = world
<1>1. PICK other \in Worlds, time \in 0..MaxTime : content = Entry(other, time)
  BY ConsistentEntries
<1>2. CacheKey(other) = CacheKey(world) /\ content.value = other
  BY <1>1 DEF IsConsistent, Entry, EntryPath
<1>3. world = [check |-> world.check, inputs |-> world.inputs, tools |-> world.tools]
  BY WorldsAssumption
<1>4. other = [check |-> other.check, inputs |-> other.inputs, tools |-> other.tools]
  BY WorldsAssumption
<1>5. other.check = world.check /\ other.inputs = world.inputs /\ other.tools = world.tools
  BY <1>2 DEF CacheKey
<1> QED
  BY <1>2, <1>3, <1>4, <1>5

LEMMA RunAfter ==
  ASSUME CacheOK, NEW u \in Runs, NEW r \in RunType, run' = [run EXCEPT ![u] = r]
  PROVE  run' \in [Runs -> RunType] /\ run'[u] = r /\ \A v \in Runs \ {u} : run'[v] = run[v]
BY DEF CacheOK

(* A step of one run leaves the others, the keepers and the registry alone. *)
LEMMA RunMoves ==
  ASSUME CacheContext, NEW u \in Runs, NEW r \in RunType, run' = [run EXCEPT ![u] = r],
         UNCHANGED <<now, keeper>>, FilesOK', OneTempEach', OthersKeepTemps(u),
         \A v \in Users \ {u} : got'[v] = got[v], RunOK(u)'
  PROVE  IInv'
<1>1. /\ CacheOK /\ KeepersOK /\ RunsOK /\ RegistryOK
      /\ kind = CacheScene /\ UNCHANGED registryVars /\ \A v \in Checkers : checker[v] = NoCheck
  BY DEF CacheContext, IInv
<1>2. run' \in [Runs -> RunType] /\ \A v \in Runs \ {u} : run'[v] = run[v]
  BY <1>1, RunAfter
<1>3. CacheOK'
  BY <1>1, <1>2 DEF CacheOK
<1>4. KeepersOK'
  BY <1>1 DEF KeepersOK, KeeperOK, BeyondLimits, Expired
<1>5. RunsOK'
  <2> SUFFICES ASSUME NEW v \in Runs, v # u
               PROVE  RunOK(v)'
    BY DEF RunsOK
  <2>1. run'[v] = run[v] /\ got'[v] = got[v] /\ TempOf(v)' = TempOf(v) /\ RunOK(v)
    BY <1>1, <1>2, OneDirectory DEF RunsOK, OthersKeepTemps
  <2>2. ModeOf(v)' = ModeOf(v)
    BY <2>1 DEF ModeOf
  <2> QED
    BY <2>1, <2>2 DEF RunOK
<1>6. RegistryOK' /\ kind' = CacheScene /\ \A v \in Checkers : checker'[v] = NoCheck
  BY <1>1 DEF registryVars, RegistryOK, CacheScene, Kinds
<1> QED
  BY <1>3, <1>4, <1>5, <1>6 DEF IInv

(* A run that has nothing left to do with the directory.                   *)
LEMMA RunIsOver ==
  ASSUME NEW u \in Runs, run'[u].at = "failed"
  PROVE  RunOK(u)'
BY DEF RunOK

LEMMA RunFacts ==
  ASSUME CacheContext, NEW u \in Runs
  PROVE  /\ u \in Users /\ run[u] \in RunType /\ RunOK(u) /\ FilesOK /\ OneTempEach /\ CacheOK
         /\ run[u].at \notin {"idle", "failed"} => EntryPath(run[u].world) \in Paths
BY OneDirectory DEF CacheContext, IInv, RunsOK, RunOK, CacheOK

LEMMA CallStep ==
  ASSUME CacheContext, NEW u \in Runs, Call(u)
  PROVE  IInv' /\ WholeStep
<1>1. run[u].at = "idle" /\ UNCHANGED <<now, keeper>> /\ UNCHANGED fileVars
  BY DEF Call, fileVars
<1>2. FilesOK' /\ OneTempEach' /\ WholeStep /\ OthersKeepTemps(u) /\ UNCHANGED <<got, temps>>
      /\ TempOf(u)' = TempOf(u)
  BY <1>1, RunFacts, FilesUntouched DEF OthersKeepTemps
<1>3. PICK call \in Calls[u] :
        run' = [run EXCEPT ![u] =
                 [at |-> CASE CacheMode(call.args, call.env) = Invalid -> "failed"
                           [] CacheMode(call.args, call.env) = "off" -> "computing"
                           [] OTHER -> "looking",
                  call |-> call, world |-> call.world, value |-> NoWorld, since |-> 0]]
  BY DEF Call
<1> DEFINE r == [at |-> CASE CacheMode(call.args, call.env) = Invalid -> "failed"
                          [] CacheMode(call.args, call.env) = "off" -> "computing"
                          [] OTHER -> "looking",
                 call |-> call, world |-> call.world, value |-> NoWorld, since |-> 0]
<1>4. /\ r \in RunType /\ r.call = call /\ r.world = call.world /\ r.world \in Worlds
      /\ r.at \in {"failed", "computing", "looking"}
      /\ r.at # "failed" /\ CacheMode(call.args, call.env) = "off" => r.at = "computing"
      /\ CacheMode(call.args, call.env) = Invalid => r.at = "failed"
  BY WorldsAssumption DEF RunType, RunSteps, Invalid
<1> HIDE DEF r
<1>5. run' = [run EXCEPT ![u] = r]
  BY <1>3 DEF r
<1>6. run'[u] = r
  BY <1>4, <1>5, RunFacts, RunAfter
<1>7. RunOK(u)'
  <2>1. got'[u] = NoView /\ TempOf(u)' = {}
    BY <1>1, <1>2, RunFacts DEF RunOK
  <2>2. ModeOf(u)' = CacheMode(call.args, call.env)
    BY <1>4, <1>6 DEF ModeOf
  <2> QED
    BY <1>4, <1>6, <2>1, <2>2 DEF RunOK
<1> QED
  BY <1>1, <1>2, <1>4, <1>5, <1>7, RunMoves

(* A hit ends the run with its own value, a miss sends it to compute.      *)
LEMMA LookupStep ==
  ASSUME CacheContext, NEW u \in Runs, Lookup(u)
  PROVE  IInv' /\ WholeStep
<1> DEFINE path == EntryPath(run[u].world)
<1>1. run[u].at = "looking" /\ UNCHANGED <<now, keeper>> /\ Read(u, path)
  BY DEF Lookup
<1>2. /\ run[u].world \in Worlds /\ run[u].call \in Calls[u] /\ path \in Paths /\ ModeOf(u) \notin {"off", Invalid}
      /\ run[u] \in RunType /\ TempOf(u) = {}
  BY <1>1, RunFacts DEF RunOK
<1>3. /\ FilesOK' /\ OneTempEach' /\ WholeStep /\ OthersKeepTemps(u) /\ TempOf(u)' = {}
      /\ got' = [got EXCEPT ![u] = disk[path]]
  BY <1>1, <1>2, RunFacts, ReadStep DEF OthersKeepTemps
<1>4. /\ got'[u] = disk[path] /\ disk[path] \in Contents \cup {Absent}
      /\ \A v \in Users \ {u} : got'[v] = got[v]
  BY <1>2, <1>3, RunFacts DEF FilesOK
<1>5. PICK r \in RunType : /\ run' = [run EXCEPT ![u] = r] /\ r.call = run[u].call /\ r.world = run[u].world
                           /\ r.at \in {"done", "computing"}
                           /\ r.at = "done" => r.value = r.world
  <2>1. CASE IsConsistent(path, got'[u])
    <3> DEFINE r == [run[u] EXCEPT !.at = "done", !.value = got'[u].value]
    <3>1. got'[u].value = run[u].world
      BY <1>2, <1>4, <2>1, HitIsOwn
    <3>2. r \in RunType /\ r.call = run[u].call /\ r.world = run[u].world /\ r.at = "done" /\ r.value = run[u].world
      BY <1>2, <3>1 DEF RunType, RunSteps
    <3>3. run' = [run EXCEPT ![u] = r]
      BY <2>1 DEF Lookup, End
    <3> QED
      BY <3>2, <3>3
  <2>2. CASE ~ IsConsistent(path, got'[u])
    <3> DEFINE r == [run[u] EXCEPT !.at = "computing"]
    <3>1. r \in RunType /\ r.call = run[u].call /\ r.world = run[u].world /\ r.at = "computing"
      BY <1>2 DEF RunType, RunSteps
    <3>2. run' = [run EXCEPT ![u] = r]
      BY <2>2 DEF Lookup, Goto
    <3> QED
      BY <3>1, <3>2
  <2> QED
    BY <2>1, <2>2
<1>6. run'[u] = r
  BY <1>5, RunFacts, RunAfter
<1>7. RunOK(u)'
  <2>1. ModeOf(u)' = ModeOf(u)
    BY <1>5, <1>6 DEF ModeOf
  <2> QED
    BY <1>2, <1>3, <1>5, <1>6, <2>1 DEF RunOK
<1> QED
  BY <1>1, <1>3, <1>4, <1>5, <1>7, RunMoves

(* The computation is its own world's.                                     *)
LEMMA ComputeStep ==
  ASSUME CacheContext, NEW u \in Runs, Compute(u)
  PROVE  IInv' /\ WholeStep
<1>1. run[u].at = "computing" /\ UNCHANGED <<now, keeper>> /\ UNCHANGED fileVars
  BY DEF Compute, fileVars
<1>2. /\ run[u].world \in Worlds /\ run[u].call \in Calls[u] /\ run[u] \in RunType /\ TempOf(u) = {}
      /\ ModeOf(u) # Invalid /\ (ModeOf(u) = "off" => got[u] = NoView)
      /\ now \in 0..MaxTime
  BY <1>1, RunFacts DEF RunOK, CacheOK
<1>3. /\ FilesOK' /\ OneTempEach' /\ WholeStep /\ OthersKeepTemps(u) /\ UNCHANGED <<got, temps>>
      /\ TempOf(u)' = {}
  BY <1>1, <1>2, RunFacts, FilesUntouched DEF OthersKeepTemps
<1>4. PICK r \in RunType : /\ run' = [run EXCEPT ![u] = r] /\ r.call = run[u].call /\ r.world = run[u].world
                           /\ r.at \in {"writing", "done"} /\ r.value = r.world
                           /\ r.at = "writing" => ModeOf(u) # "off"
  <2>1. CASE ModeOf(u) = "read-write"
    <3> DEFINE r == [run[u] EXCEPT !.at = "writing", !.value = run[u].world, !.since = now]
    <3>1. /\ r \in RunType /\ r.call = run[u].call /\ r.world = run[u].world /\ r.at = "writing"
          /\ r.value = run[u].world
      BY <1>2 DEF RunType, RunSteps
    <3>2. run' = [run EXCEPT ![u] = r]
      BY <2>1 DEF Compute
    <3> QED
      BY <2>1, <3>1, <3>2
  <2>2. CASE ModeOf(u) # "read-write"
    <3> DEFINE r == [run[u] EXCEPT !.at = "done", !.value = run[u].world]
    <3>1. /\ r \in RunType /\ r.call = run[u].call /\ r.world = run[u].world /\ r.at = "done"
          /\ r.value = run[u].world
      BY <1>2 DEF RunType, RunSteps
    <3>2. run' = [run EXCEPT ![u] = r]
      BY <2>2 DEF Compute, End
    <3> QED
      BY <3>1, <3>2
  <2> QED
    BY <2>1, <2>2
<1>5. run'[u] = r
  BY <1>4, RunFacts, RunAfter
<1>6. RunOK(u)'
  <2>1. ModeOf(u)' = ModeOf(u)
    BY <1>4, <1>5 DEF ModeOf
  <2> QED
    BY <1>2, <1>3, <1>4, <1>5, <2>1 DEF RunOK
<1> QED
  BY <1>1, <1>3, <1>4, <1>6, RunMoves

(* The steps of a store: from one to the next with the value it stores, or *)
(* out.                                                                    *)
LEMMA StoreMoves ==
  ASSUME CacheContext, NEW u \in Runs, NEW at \in {"filling", "renaming", "removing", "standing in", "done"},
         run[u].at \in {"writing", "filling", "renaming", "removing", "standing in"}, Goto(u, at),
         UNCHANGED <<now, keeper>>, FilesOK', OneTempEach', OthersKeepTemps(u),
         \A v \in Users \ {u} : got'[v] = got[v],
         at = "standing in" => TempOf(u)' = {},
         at = "renaming" => \A t \in TempOf(u)' : t.content # Partial
  PROVE  IInv'
<1> DEFINE r == [run[u] EXCEPT !.at = at]
<1>1. /\ run[u] \in RunType /\ RunOK(u) /\ run[u].value = run[u].world /\ ModeOf(u) # "off"
      /\ run[u].world \in Worlds /\ run[u].call \in Calls[u]
  BY RunFacts DEF RunOK
<1>2. r \in RunType /\ r.call = run[u].call /\ r.world = run[u].world /\ r.value = r.world /\ r.at = at
  BY <1>1 DEF RunType, RunSteps
<1>3. run' = [run EXCEPT ![u] = r]
  BY DEF Goto
<1> HIDE DEF r
<1>4. run'[u] = r
  BY <1>2, <1>3, RunFacts, RunAfter
<1>5. RunOK(u)'
  <2>1. ModeOf(u)' = ModeOf(u)
    BY <1>2, <1>4 DEF ModeOf
  <2> QED
    BY <1>1, <1>2, <1>4, <2>1 DEF RunOK
<1> QED
  BY <1>2, <1>3, <1>5, RunMoves

LEMMA ThrowMoves ==
  ASSUME CacheContext, NEW u \in Runs, Throw(u), UNCHANGED <<now, keeper>>,
         FilesOK', OneTempEach', OthersKeepTemps(u), \A v \in Users \ {u} : got'[v] = got[v]
  PROVE  IInv'
<1> DEFINE r == [NoRun EXCEPT !.at = "failed"]
<1>1. r \in RunType /\ r.at = "failed"
  <2>1. r = [at |-> "failed", call |-> NoView, world |-> NoWorld, value |-> NoWorld, since |-> 0]
    BY DEF NoRun
  <2>2. 0 \in 0..MaxTime
    BY WorldsAssumption
  <2> QED
    BY <2>1, <2>2 DEF RunType, RunSteps
<1>2. run' = [run EXCEPT ![u] = r]
  BY DEF Throw
<1> HIDE DEF r
<1>3. run'[u] = r
  BY <1>1, <1>2, RunFacts, RunAfter
<1>4. RunOK(u)'
  BY <1>1, <1>3, RunIsOver
<1> QED
  BY <1>1, <1>2, <1>4, RunMoves

LEMMA OpenEntryStep ==
  ASSUME CacheContext, NEW u \in Runs, OpenEntry(u)
  PROVE  IInv' /\ WholeStep
<1> DEFINE path == EntryPath(run[u].world)
<1>1. run[u].at = "writing" /\ UNCHANGED <<now, keeper>>
  BY DEF OpenEntry
<1>2. path \in Paths /\ TempOf(u) = {}
  BY <1>1, RunFacts DEF RunOK
<1>3. CASE OpenTemp(u, path) /\ Goto(u, "filling")
  <2>1. /\ FilesOK' /\ OneTempEach' /\ WholeStep /\ OthersKeepTemps(u) /\ UNCHANGED got
    BY <1>2, <1>3, RunFacts, OpenTempStep
  <2> QED
    BY <1>1, <1>3, <2>1, StoreMoves
<1>4. CASE Throw(u) /\ UNCHANGED fileVars
  <2>1. /\ FilesOK' /\ OneTempEach' /\ WholeStep /\ OthersKeepTemps(u) /\ UNCHANGED got
    BY <1>4, RunFacts, FilesUntouched DEF OthersKeepTemps
  <2> QED
    BY <1>1, <1>4, <2>1, ThrowMoves
<1> QED
  BY <1>3, <1>4 DEF OpenEntry

LEMMA FillEntryStep ==
  ASSUME CacheContext, NEW u \in Runs, FillEntry(u)
  PROVE  IInv' /\ WholeStep
<1> DEFINE entry == Entry(run[u].world, run[u].since)
<1>1. run[u].at = "filling" /\ UNCHANGED <<now, keeper>>
  BY DEF FillEntry
<1>2. entry \in Contents
  <2>1. run[u].world \in Worlds /\ run[u].since \in 0..MaxTime
    BY <1>1, RunFacts DEF RunOK, RunType
  <2> QED
    BY <2>1 DEF Contents, Entries
<1>3. CASE FillTemp(u, entry) /\ Goto(u, "renaming")
  <2>1. /\ FilesOK' /\ OneTempEach' /\ WholeStep /\ OthersKeepTemps(u) /\ UNCHANGED got
        /\ \A t \in TempOf(u)' : t.content = entry
    BY <1>2, <1>3, RunFacts, FillTempStep
  <2>2. \A t \in TempOf(u)' : t.content # Partial
    BY <1>2, <2>1, FileMarks
  <2> QED
    BY <1>1, <1>3, <2>1, <2>2, StoreMoves
<1>4. CASE Goto(u, "removing") /\ UNCHANGED fileVars
  <2>1. /\ FilesOK' /\ OneTempEach' /\ WholeStep /\ OthersKeepTemps(u) /\ UNCHANGED got
    BY <1>4, RunFacts, FilesUntouched DEF OthersKeepTemps
  <2> QED
    BY <1>1, <1>4, <2>1, StoreMoves
<1> QED
  BY <1>3, <1>4 DEF FillEntry

LEMMA RenameEntryStep ==
  ASSUME CacheContext, NEW u \in Runs, RenameEntry(u)
  PROVE  IInv' /\ WholeStep
<1>1. run[u].at = "renaming" /\ UNCHANGED <<now, keeper>>
  BY DEF RenameEntry
<1>2. \A t \in TempOf(u) : t.content # Partial
  BY <1>1, RunFacts DEF RunOK
<1>3. CASE Rename(u) /\ Goto(u, "done")
  <2>1. /\ FilesOK' /\ OneTempEach' /\ WholeStep /\ OthersKeepTemps(u) /\ UNCHANGED got
    BY <1>2, <1>3, RunFacts, RenameStep
  <2> QED
    BY <1>1, <1>3, <2>1, StoreMoves
<1>4. CASE Goto(u, "removing") /\ UNCHANGED fileVars
  <2>1. /\ FilesOK' /\ OneTempEach' /\ WholeStep /\ OthersKeepTemps(u) /\ UNCHANGED got
    BY <1>4, RunFacts, FilesUntouched DEF OthersKeepTemps
  <2> QED
    BY <1>1, <1>4, <2>1, StoreMoves
<1> QED
  BY <1>3, <1>4 DEF RenameEntry

LEMMA RemoveEntryStep ==
  ASSUME CacheContext, NEW u \in Runs, RemoveEntry(u)
  PROVE  IInv' /\ WholeStep
<1>1. run[u].at = "removing" /\ UNCHANGED <<now, keeper>> /\ RemoveTemp(u)
      /\ (Goto(u, "standing in") \/ Throw(u))
  BY DEF RemoveEntry
<1>2. /\ FilesOK' /\ OneTempEach' /\ WholeStep /\ OthersKeepTemps(u) /\ UNCHANGED got /\ TempOf(u)' = {}
  BY <1>1, RunFacts, RemoveTempStep
<1>3. CASE Goto(u, "standing in")
  BY <1>1, <1>2, <1>3, StoreMoves
<1>4. CASE Throw(u)
  BY <1>1, <1>2, <1>4, ThrowMoves
<1> QED
  BY <1>1, <1>3, <1>4

LEMMA StandInStep ==
  ASSUME CacheContext, NEW u \in Runs, StandIn(u)
  PROVE  IInv' /\ WholeStep
<1> DEFINE path == EntryPath(run[u].world)
<1>1. run[u].at = "standing in" /\ UNCHANGED <<now, keeper>> /\ Read(u, path)
  BY DEF StandIn
<1>2. path \in Paths /\ run[u] \in RunType /\ run[u].value = run[u].world
  BY <1>1, RunFacts DEF RunOK
<1>3. /\ FilesOK' /\ OneTempEach' /\ WholeStep /\ OthersKeepTemps(u)
      /\ \A v \in Users \ {u} : got'[v] = got[v]
  BY <1>1, <1>2, RunFacts, ReadStep, ZenonT(30) DEF OthersKeepTemps, FilesOK
<1>4. CASE got'[u] = Absent
  <2>1. Throw(u)
    BY <1>4 DEF StandIn
  <2> QED
    BY <1>1, <1>3, <2>1, ThrowMoves
<1>5. CASE got'[u] # Absent
  <2>1. Goto(u, "done")
    <3>1. run' = [run EXCEPT ![u] = [[run[u] EXCEPT !.at = "done"] EXCEPT !.value = run[u].value]]
      BY <1>5 DEF StandIn, End
    <3>2. [[run[u] EXCEPT !.at = "done"] EXCEPT !.value = run[u].value] = [run[u] EXCEPT !.at = "done"]
      BY <1>2 DEF RunType
    <3> QED
      BY <3>1, <3>2 DEF Goto
  <2> QED
    BY <1>1, <1>3, <2>1, StoreMoves
<1> QED
  BY <1>4, <1>5

LEMMA KillRunStep ==
  ASSUME CacheContext, NEW u \in Runs, KillRun(u)
  PROVE  IInv' /\ WholeStep
<1>1. Throw(u) /\ UNCHANGED fileVars /\ UNCHANGED <<now, keeper>>
  BY DEF KillRun
<1>2. /\ FilesOK' /\ OneTempEach' /\ WholeStep /\ OthersKeepTemps(u) /\ UNCHANGED got
  BY <1>1, RunFacts, FilesUntouched DEF OthersKeepTemps
<1> QED
  BY <1>1, <1>2, ThrowMoves

--------------------------------------------------------------------------
(* The keepers that tidy the cache.                                        *)

(* A step of one keeper, or of the clock, leaves the runs and the registry *)
(* alone; it removes targets and nobody's temporary file.                  *)
LEMMA KeepersMove ==
  ASSUME CacheContext, CacheOK', KeepersOK', UNCHANGED run, FilesOK', OneTempEach',
         \A v \in Runs : got'[v] = got[v] /\ TempOf(v)' \subseteq TempOf(v)
  PROVE  IInv'
<1>1. /\ RunsOK /\ RegistryOK
      /\ kind = CacheScene /\ UNCHANGED registryVars /\ \A v \in Checkers : checker[v] = NoCheck
  BY DEF CacheContext, IInv
<1>2. RunsOK'
  <2> SUFFICES ASSUME NEW v \in Runs
               PROVE  RunOK(v)'
    BY DEF RunsOK
  <2>1. run'[v] = run[v] /\ got'[v] = got[v] /\ TempOf(v)' \subseteq TempOf(v) /\ RunOK(v)
    BY <1>1 DEF RunsOK
  <2>2. ModeOf(v)' = ModeOf(v)
    BY <2>1 DEF ModeOf
  <2> QED
    BY <2>1, <2>2 DEF RunOK
<1>3. RegistryOK' /\ kind' = CacheScene /\ \A v \in Checkers : checker'[v] = NoCheck
  BY <1>1 DEF registryVars, RegistryOK, CacheScene, Kinds
<1> QED
  BY <1>2, <1>3 DEF IInv

(* One keeper changes. *)
LEMMA KeeperMoves ==
  ASSUME CacheContext, NEW k \in Keepers, NEW r \in KeeperType, keeper' = [keeper EXCEPT ![k] = r],
         UNCHANGED <<now, run>>, FilesOK', OneTempEach',
         \A v \in Runs : got'[v] = got[v] /\ TempOf(v)' \subseteq TempOf(v), KeeperOK(k)'
  PROVE  IInv'
<1>1. CacheOK /\ KeepersOK
  BY DEF CacheContext, IInv
<1>2. keeper' \in [Keepers -> KeeperType] /\ \A j \in Keepers \ {k} : keeper'[j] = keeper[j]
  BY <1>1 DEF CacheOK
<1>3. CacheOK'
  BY <1>1, <1>2 DEF CacheOK
<1>4. KeepersOK'
  <2> SUFFICES ASSUME NEW j \in Keepers, j # k
               PROVE  KeeperOK(j)'
    BY DEF KeepersOK, KeeperOK
  <2>1. keeper'[j] = keeper[j] /\ KeeperOK(j) /\ now' = now
    BY <1>1, <1>2 DEF KeepersOK, KeeperOK
  <2>2. \A path : BeyondLimits(j, path)' <=> BeyondLimits(j, path)
    BY <2>1 DEF BeyondLimits, Expired
  <2> QED
    BY <2>1, <2>2 DEF KeeperOK
<1> QED
  BY <1>3, <1>4, KeepersMove

LEMMA KeeperFacts ==
  ASSUME CacheContext, NEW k \in Keepers
  PROVE  /\ k \in Users \ Runs /\ keeper[k] \in KeeperType /\ FilesOK /\ OneTempEach /\ CacheOK /\ KeeperOK(k)
         /\ DOMAIN keeper[k].read \subseteq Paths /\ keeper[k].read \in [DOMAIN keeper[k].read -> Contents]
         /\ keeper[k].todo \subseteq Paths
<1>1. /\ k \in Users \ Runs /\ keeper[k] \in KeeperType /\ FilesOK /\ OneTempEach /\ CacheOK /\ KeeperOK(k)
  BY OneDirectory DEF CacheContext, IInv, CacheOK, KeepersOK
<1>2. keeper[k].todo \subseteq Paths /\ \E paths \in SUBSET Paths : keeper[k].read \in [paths -> Contents]
  BY <1>1 DEF KeeperType
<1> QED
  BY <1>1, <1>2

LEMMA NotTidyingType == NotTidying \in KeeperType /\ DOMAIN NotTidying.read = {} /\ NotTidying.at = "idle"
<1> DEFINE read == [path \in {} |-> Absent]
<1>1. read \in [{} -> Contents] /\ {} \in SUBSET Paths /\ DOMAIN read = {}
  OBVIOUS
<1>2. read \in UNION {[paths -> Contents] : paths \in SUBSET Paths}
  BY <1>1
<1>3. NotTidying = [at |-> "idle", limits |-> NoView, since |-> 0, todo |-> {}, read |-> read]
  BY DEF NotTidying
<1> HIDE DEF read
<1>4. 0 \in 0..MaxTime /\ NoView \in Limits \cup {NoView} /\ "idle" \in {"idle", "reading", "removing", "done"}
  BY WorldsAssumption
<1>5. NotTidying \in KeeperType
  BY <1>1, <1>2, <1>3, <1>4 DEF KeeperType
<1> QED
  BY <1>1, <1>3, <1>5

LEMMA ListingStep ==
  ASSUME CacheContext, NEW k \in Keepers, Prune(k) \/ Clear(k)
  PROVE  IInv' /\ WholeStep
<1>1. UNCHANGED <<now, run>> /\ UNCHANGED fileVars
  BY DEF Prune, Clear, fileVars
<1>2. /\ FilesOK' /\ OneTempEach' /\ WholeStep
      /\ \A v \in Runs : got'[v] = got[v] /\ TempOf(v)' \subseteq TempOf(v)
  BY <1>1, KeeperFacts, FilesUntouched, OneDirectory
<1>3. Listing \in SUBSET Paths /\ now \in 0..MaxTime
  BY KeeperFacts DEF Listing, CacheOK
<1>4. PICK r \in KeeperType : /\ keeper' = [keeper EXCEPT ![k] = r]
                              /\ \/ r.at = "reading" /\ r.limits \in Limits
                                 \/ r.at = "removing" /\ DOMAIN r.read = {}
  <2>1. CASE Prune(k)
    <3>1. PICK limits \in Limits : keeper' = [keeper EXCEPT ![k] =
            [[[[NotTidying EXCEPT !.at = "reading"] EXCEPT !.limits = limits] EXCEPT !.since = now] EXCEPT !.todo = Listing]]
      BY <2>1 DEF Prune
    <3> DEFINE r == [[[[NotTidying EXCEPT !.at = "reading"] EXCEPT !.limits = limits] EXCEPT !.since = now] EXCEPT !.todo = Listing]
    <3>2. r \in KeeperType /\ r.at = "reading" /\ r.limits = limits
      BY <1>3, NotTidyingType DEF KeeperType
    <3> QED
      BY <3>1, <3>2
  <2>2. CASE Clear(k)
    <3> DEFINE r == [[NotTidying EXCEPT !.at = "removing"] EXCEPT !.todo = Listing]
    <3>1. keeper' = [keeper EXCEPT ![k] = r]
      BY <2>2 DEF Clear
    <3>2. r \in KeeperType /\ r.at = "removing" /\ DOMAIN r.read = {}
      BY <1>3, NotTidyingType DEF KeeperType
    <3> QED
      BY <3>1, <3>2
  <2> QED
    BY <2>1, <2>2
<1>5. KeeperOK(k)'
  <2>1. keeper'[k] = r
    BY <1>4, KeeperFacts DEF CacheOK
  <2> QED
    BY <1>4, <2>1 DEF KeeperOK
<1> QED
  BY <1>1, <1>2, <1>4, <1>5, KeeperMoves

LEMMA ReadOneStep ==
  ASSUME CacheContext, NEW k \in Keepers, ReadOne(k)
  PROVE  IInv' /\ WholeStep
<1> DEFINE Extended(path) == [p \in DOMAIN keeper[k].read \cup {path} |-> IF p = path THEN got'[k] ELSE keeper[k].read[p]]
           NewRead(path) == IF got'[k] = Absent THEN keeper[k].read ELSE Extended(path)
<1>1. PICK path \in keeper[k].todo :
        /\ Read(k, path)
        /\ keeper' = [keeper EXCEPT ![k] = [[keeper[k] EXCEPT !.todo = keeper[k].todo \ {path}]
                                             EXCEPT !.read = NewRead(path)]]
  BY KeeperFacts, ZenonT(30) DEF ReadOne, CacheOK, KeeperType
<1>2. path \in Paths /\ UNCHANGED <<now, run>> /\ keeper[k].at = "reading"
  BY <1>1, KeeperFacts DEF ReadOne
<1>3. /\ FilesOK' /\ OneTempEach' /\ WholeStep
      /\ got' = [got EXCEPT ![k] = disk[path]] /\ disk[path] \in Contents \cup {Absent}
      /\ \A v \in Runs : TempOf(v)' \subseteq TempOf(v)
  BY <1>1, <1>2, KeeperFacts, ReadStep, OneDirectory DEF FilesOK
<1>4. /\ got'[k] \in Contents \cup {Absent}
      /\ \A v \in Runs : got'[v] = got[v]
  BY <1>3, KeeperFacts, OneDirectory DEF FilesOK
<1>5. NewRead(path) \in UNION {[paths -> Contents] : paths \in SUBSET Paths}
  <2>1. CASE got'[k] = Absent
    BY <2>1, KeeperFacts DEF KeeperType
  <2>2. CASE got'[k] # Absent
    <3>1. Extended(path) \in [DOMAIN keeper[k].read \cup {path} -> Contents]
      BY <1>4, <2>2, KeeperFacts
    <3>2. DOMAIN keeper[k].read \cup {path} \in SUBSET Paths
      BY <1>2, KeeperFacts
    <3> QED
      BY <2>2, <3>1, <3>2
  <2> QED
    BY <2>1, <2>2
<1> DEFINE r == [[keeper[k] EXCEPT !.todo = keeper[k].todo \ {path}] EXCEPT !.read = NewRead(path)]
<1> HIDE DEF NewRead
<1>6. r \in KeeperType /\ r.at = "reading" /\ r.limits \in Limits
  BY <1>2, <1>5, KeeperFacts, ZenonT(30) DEF KeeperType, KeeperOK
<1> HIDE DEF r
<1>7. keeper' = [keeper EXCEPT ![k] = r]
  BY <1>1 DEF r
<1>8. KeeperOK(k)'
  <2>1. keeper'[k] = r
    BY <1>7, KeeperFacts DEF CacheOK
  <2> QED
    BY <1>6, <2>1 DEF KeeperOK
<1> QED
  BY <1>2, <1>3, <1>4, <1>6, <1>7, <1>8, KeeperMoves

LEMMA NewestFacts ==
  ASSUME NEW read, NEW paths, NEW limit, NEW kept \in Newest(read, paths, limit), NEW q \in paths \ kept
  PROVE  /\ limit # Unlimited /\ Cardinality(kept) = limit
         /\ \A p \in kept : read[p].createdAt >= read[q].createdAt
BY DEF Newest

(* What is chosen for removal is inconsistent, expired, or older than the  *)
(* entries that are kept, as many as the limit allows.                     *)
LEMMA ChooseStep ==
  ASSUME CacheContext, NEW k \in Keepers, Choose(k)
  PROVE  IInv' /\ WholeStep
<1> DEFINE read  == keeper[k].read
           limit == keeper[k].limits.maxEntries
           sound == {p \in DOMAIN read : IsConsistent(p, read[p]) /\ ~Expired(k, read[p])}
<1>1. /\ keeper[k].at = "reading" /\ UNCHANGED <<now, run>> /\ UNCHANGED fileVars
      /\ \E kept \in Newest(read, sound, limit) :
           keeper' = [keeper EXCEPT ![k] = [[keeper[k] EXCEPT !.at = "removing"] EXCEPT !.todo = DOMAIN read \ kept]]
  BY KeeperFacts DEF Choose, fileVars, CacheOK, KeeperType
<1>2. PICK kept \in Newest(read, sound, limit) :
           keeper' = [keeper EXCEPT ![k] = [[keeper[k] EXCEPT !.at = "removing"] EXCEPT !.todo = DOMAIN read \ kept]]
  BY <1>1
<1>3. /\ FilesOK' /\ OneTempEach' /\ WholeStep
      /\ \A v \in Runs : got'[v] = got[v] /\ TempOf(v)' \subseteq TempOf(v)
  BY <1>1, KeeperFacts, FilesUntouched, OneDirectory
<1> DEFINE r == [[keeper[k] EXCEPT !.at = "removing"] EXCEPT !.todo = DOMAIN read \ kept]
<1>4. /\ r \in KeeperType /\ r.read = read /\ r.limits = keeper[k].limits /\ r.since = keeper[k].since /\ r.todo = DOMAIN read \ kept
      /\ r.at = "removing"
  BY KeeperFacts DEF KeeperType
<1> HIDE DEF r
<1>5. keeper' = [keeper EXCEPT ![k] = r]
  BY <1>2 DEF r
<1>6. keeper'[k] = r
  BY <1>4, <1>5, KeeperFacts DEF CacheOK
<1>7. KeeperOK(k)'
  <2> SUFFICES ASSUME NEW path \in DOMAIN read \ kept, IsConsistent(path, read[path])
               PROVE  BeyondLimits(k, path)'
    <3>1. r.limits \in Limits
      BY <1>1, <1>4, KeeperFacts DEF KeeperOK
    <3> QED
      BY <1>4, <1>6, <3>1 DEF KeeperOK
  <2> DEFINE newer == {p \in DOMAIN read \ {path} :
                         IsConsistent(p, read[p]) /\ read[p].createdAt >= read[path].createdAt}
  <2>1. \A entry : Expired(k, entry)' <=> Expired(k, entry)
    BY <1>1, <1>4, <1>6 DEF Expired
  <2>2. BeyondLimits(k, path)' <=>
          Expired(k, read[path]) \/ (limit # Unlimited /\ Cardinality(newer) >= limit)
    BY <1>4, <1>6, <2>1 DEF BeyondLimits
  <2>3. CASE Expired(k, read[path])
    BY <2>2, <2>3
  <2>4. CASE ~ Expired(k, read[path])
    <3>1. path \in sound \ kept
      BY <2>4
    <3>2. /\ limit # Unlimited /\ Cardinality(kept) = limit
          /\ \A p \in kept : read[p].createdAt >= read[path].createdAt
      BY <3>1, NewestFacts
    <3>3. kept \subseteq newer
      <4>1. kept \subseteq sound
        BY DEF Newest
      <4> QED
        BY <3>2, <4>1
    <3>4. newer \subseteq Paths /\ kept \subseteq newer
      BY <3>3, KeeperFacts
    <3> HIDE DEF newer, read, sound, limit
    <3>5. IsFiniteSet(newer) /\ Cardinality(newer) \in Nat
      BY <3>4, OneDirectory, FS_Subset, FS_CardinalityType
    <3>6. IsFiniteSet(kept) /\ Cardinality(kept) <= Cardinality(newer) /\ Cardinality(kept) \in Nat
      BY <3>4, <3>5, FS_Subset, FS_CardinalityType
    <3> QED
      BY <2>2, <3>2, <3>5, <3>6
  <2> QED
    BY <2>3, <2>4
<1> QED
  BY <1>1, <1>3, <1>4, <1>5, <1>7, KeeperMoves

LEMMA RemoveOneStep ==
  ASSUME CacheContext, NEW k \in Keepers, RemoveOne(k)
  PROVE  IInv' /\ WholeStep
<1> DEFINE After(path) == IF keeper[k].todo = {path} THEN [NotTidying EXCEPT !.at = "done"]
                          ELSE [keeper[k] EXCEPT !.todo = keeper[k].todo \ {path}]
           SameLimits(r) == r.limits = keeper[k].limits /\ r.since = keeper[k].since
<1>1. PICK path \in keeper[k].todo : Remove(path) /\ keeper' = [keeper EXCEPT ![k] = After(path)]
  BY DEF RemoveOne
<1>2. path \in Paths /\ keeper[k].at = "removing" /\ UNCHANGED <<now, run>>
  BY KeeperFacts DEF RemoveOne
<1>3. /\ FilesOK' /\ OneTempEach' /\ WholeStep
      /\ \A v \in Runs : got'[v] = got[v] /\ TempOf(v)' \subseteq TempOf(v)
  BY <1>1, <1>2, KeeperFacts, RemoveStep, OneDirectory
<1> DEFINE r == After(path)
<1>4. /\ r \in KeeperType
      /\ \/ r.at = "done"
         \/ r.at = "removing" /\ r.todo \subseteq keeper[k].todo /\ r.read = keeper[k].read /\ SameLimits(r)
  <2>1. CASE keeper[k].todo = {path}
    <3>1. r = [NotTidying EXCEPT !.at = "done"]
      BY <2>1
    <3> QED
      BY <3>1, NotTidyingType DEF KeeperType
  <2>2. CASE keeper[k].todo # {path}
    <3>1. r = [keeper[k] EXCEPT !.todo = keeper[k].todo \ {path}]
      BY <2>2
    <3> QED
      BY <1>2, <3>1, KeeperFacts DEF KeeperType
  <2> QED
    BY <2>1, <2>2
<1> HIDE DEF r, After
<1>5. keeper' = [keeper EXCEPT ![k] = r]
  BY <1>1 DEF r
<1>6. keeper'[k] = r
  BY <1>4, <1>5, KeeperFacts DEF CacheOK
<1>7. KeeperOK(k)'
  <2>1. CASE r.at = "done"
    BY <1>6, <2>1 DEF KeeperOK
  <2>2. CASE r.at = "removing" /\ r.todo \subseteq keeper[k].todo /\ r.read = keeper[k].read /\ SameLimits(r)
    <3>1. \A p : BeyondLimits(k, p)' <=> BeyondLimits(k, p)
      BY <1>2, <1>6, <2>2 DEF BeyondLimits, Expired
    <3>2. KeeperOK(k)
      BY KeeperFacts
    <3> QED
      BY <1>2, <1>6, <2>2, <3>1, <3>2 DEF KeeperOK
  <2> QED
    BY <1>4, <2>1, <2>2
<1> QED
  BY <1>2, <1>3, <1>4, <1>5, <1>7, KeeperMoves

(* Time passes, and takes nothing a keeper would keep. *)
LEMMA TickStep ==
  ASSUME CacheContext, Tick
  PROVE  IInv' /\ WholeStep
<1>1. /\ now' = now + 1 /\ now < MaxTime /\ now \in 0..MaxTime /\ UNCHANGED <<run, keeper>> /\ UNCHANGED fileVars
      /\ FilesOK /\ OneTempEach /\ CacheOK /\ KeepersOK
  BY DEF Tick, fileVars, CacheContext, IInv, CacheOK
<1>2. /\ FilesOK' /\ OneTempEach' /\ WholeStep
      /\ \A v \in Runs : got'[v] = got[v] /\ TempOf(v)' \subseteq TempOf(v)
  BY <1>1, FilesUntouched, OneDirectory
<1>3. CacheOK'
  BY <1>1, WorldsAssumption DEF CacheOK
<1>4. KeepersOK'
  BY <1>1 DEF KeepersOK, KeeperOK, BeyondLimits, Expired
<1> QED
  BY <1>1, <1>2, <1>3, <1>4, KeepersMove

LEMMA CacheStep ==
  ASSUME CacheContext, CacheNext
  PROVE  IInv' /\ WholeStep
<1>1. ASSUME NEW u \in Runs,
             \/ Call(u) \/ Lookup(u) \/ Compute(u) \/ OpenEntry(u) \/ FillEntry(u)
             \/ RenameEntry(u) \/ RemoveEntry(u) \/ StandIn(u) \/ KillRun(u)
      PROVE  IInv' /\ WholeStep
  BY <1>1, CallStep, LookupStep, ComputeStep, OpenEntryStep, FillEntryStep, RenameEntryStep, RemoveEntryStep,
     StandInStep, KillRunStep
<1>2. ASSUME NEW k \in Keepers, Prune(k) \/ Clear(k) \/ ReadOne(k) \/ Choose(k) \/ RemoveOne(k)
      PROVE  IInv' /\ WholeStep
  BY <1>2, ListingStep, ReadOneStep, ChooseStep, RemoveOneStep
<1> QED
  BY <1>1, <1>2, TickStep DEF CacheNext

--------------------------------------------------------------------------
(* The checks that keep a registry.                                        *)

RegistryContext == IInv /\ kind \in Kinds /\ UNCHANGED cacheVars

Approves(e) == {e.id} \X e.filled \subseteq approved

LEMMA CheckerFacts ==
  ASSUME RegistryContext, NEW u \in Checkers
  PROVE  /\ u \in Users /\ RegistryPath \in Paths /\ kind # CacheScene
         /\ FilesOK /\ OneTempEach /\ CacheOK /\ RegistryOK /\ KeepersOK /\ RunsAreIdle
         /\ checker[u] \in CheckerType /\ CheckerOK(u) /\ HoldsOK(u) /\ tree \in InitialTrees[kind]
         /\ disk[RegistryPath] \in Registries \cup {Absent}
         /\ \A e \in Records(disk[RegistryPath]) : Approves(e)
         /\ \A e \in checker[u].records : Approves(e)
         /\ checker[u].verdict = "pass" => StandsOnApproval(u)
<1>1. kind # CacheScene
  BY DEF RegistryContext, CacheScene, Kinds
<1> QED
  BY <1>1, OneDirectory DEF RegistryContext, IInv, RegistryOK, CheckersOK, TempsOK, ApprovedOK, Approves,
     NoVerdictWithoutApproval

LEMMA CheckerAfter ==
  ASSUME RegistryContext, NEW u \in Checkers, NEW c \in CheckerType, Step(u, c)
  PROVE  /\ checker' \in [Checkers -> CheckerType] /\ checker'[u] = c
         /\ \A v \in Checkers \ {u} : checker'[v] = checker[v]
         /\ UNCHANGED <<kind, tree, approved, edits>>
BY DEF Step, RegistryContext, IInv, RegistryOK

LEMMA PersistType ==
  ASSUME RegistryContext, NEW u \in Checkers
  PROVE  /\ ToPersist(u) \in Registries /\ ToPersist(u) \in Contents /\ ToPersist(u) # Absent
         /\ Records(ToPersist(u)) \subseteq checker[u].records
<1> DEFINE kept == {e \in checker[u].records :
                      e.id \in {x.id : x \in Records(checker[u].loaded)} \/ WorthAStub(kind, e.id, checker[u].findings)}
<1>1. ToPersist(u) = Registry("canonical", kept)
  BY DEF ToPersist
<1>2. kept \in SUBSET RegistryRecords
  BY CheckerFacts DEF CheckerType
<1> HIDE DEF kept
<1>3. ToPersist(u) \in Registries /\ ToPersist(u).entries = kept
  BY <1>1, <1>2 DEF Registry, Registries
<1>4. ToPersist(u) \in Contents /\ ToPersist(u) # Absent
  BY <1>3, FileMarks DEF Contents
<1> QED
  BY <1>3, <1>4 DEF Records, kept

(* What has been approved stays approved. *)
LEMMA ApprovalStands ==
  ASSUME NEW u \in Checkers, StandsOnApproval(u), checker'[u] = checker[u], kind' = kind, approved \subseteq approved'
  PROVE  StandsOnApproval(u)'
<1>1. \A f : IsReviewed(f) => IsReviewed(f)'
  <2>1. \A f : Filled(f) \subseteq Filled(f)'
    BY DEF Filled
  <2> QED
    BY <2>1 DEF IsReviewed
<1> QED
  BY <1>1 DEF StandsOnApproval

(* A step of one check leaves the cache and the other checks alone.        *)
LEMMA CheckerMoves ==
  ASSUME RegistryContext, NEW u \in Checkers, NEW c \in CheckerType, Step(u, c),
         FilesOK', OneTempEach', OthersKeepTemps(u), CheckerOK(u)', HoldsOK(u)',
         c.verdict = "pass" => StandsOnApproval(u)',
         disk'[RegistryPath] = disk[RegistryPath] \/ disk'[RegistryPath] = ToPersist(u),
         \A e \in c.records : Approves(e)
  PROVE  IInv'
<1>1. /\ CacheOK /\ RegistryOK /\ KeepersOK /\ RunsAreIdle /\ kind # CacheScene /\ UNCHANGED cacheVars
      /\ \A v \in Checkers : v \in Users
  BY CheckerFacts DEF RegistryContext
<1>2. /\ checker' \in [Checkers -> CheckerType] /\ checker'[u] = c
      /\ \A v \in Checkers \ {u} : checker'[v] = checker[v]
      /\ UNCHANGED <<kind, tree, approved, edits>>
  BY CheckerAfter
<1>3. CacheOK' /\ KeepersOK' /\ RunsAreIdle'
  BY <1>1 DEF cacheVars, CacheOK, KeepersOK, KeeperOK, BeyondLimits, Expired, RunsAreIdle
<1>4. RegistryOK' /\ kind' # CacheScene
  BY <1>1, <1>2 DEF RegistryOK
<1>5. ASSUME NEW v \in Checkers, v # u
      PROVE  /\ CheckerOK(v)' /\ HoldsOK(v)'
             /\ checker'[v].verdict = "pass" => StandsOnApproval(v)'
             /\ \A e \in checker'[v].records : Approves(e)'
  <2>1. checker'[v] = checker[v] /\ TempOf(v)' = TempOf(v) /\ UNCHANGED <<kind, approved>>
    BY <1>1, <1>2, <1>5 DEF OthersKeepTemps
  <2>2. CheckerOK(v)'
    BY <2>1, CheckerFacts DEF CheckerOK, ScanOK, LoadedOK, ReconciledOK
  <2>3. HoldsOK(v)'
    BY <2>1, CheckerFacts DEF HoldsOK, ToPersist
  <2>4. checker[v].verdict = "pass" => StandsOnApproval(v)'
    BY <2>1, CheckerFacts, ApprovalStands
  <2>5. \A e \in checker'[v].records : Approves(e)'
    BY <2>1, CheckerFacts DEF Approves
  <2> QED
    BY <2>1, <2>2, <2>3, <2>4, <2>5
<1>6. CheckersOK' /\ TempsOK' /\ NoVerdictWithoutApproval'
  BY <1>2, <1>5 DEF CheckersOK, TempsOK, NoVerdictWithoutApproval
<1>7. ApprovedOK'
  <2>1. /\ disk'[RegistryPath] \in Registries \cup {Absent}
        /\ \A e \in Records(disk'[RegistryPath]) : Approves(e)
    BY CheckerFacts, PersistType
  <2>2. \A v \in Checkers : \A e \in checker'[v].records : Approves(e)'
    BY <1>2, <1>5 DEF Approves
  <2> QED
    BY <1>2, <2>1, <2>2 DEF ApprovedOK, Approves
<1> QED
  BY <1>3, <1>4, <1>6, <1>7 DEF IInv

LEMMA NoCheckFacts ==
  /\ NoCheck \in CheckerType
  /\ NoCheck.at = "idle" /\ NoCheck.outcome = None /\ NoCheck.status = None /\ NoCheck.findings = {}
  /\ NoCheck.seen = {} /\ NoCheck.loaded = NoView /\ NoCheck.records = {} /\ NoCheck.registryError = FALSE
  /\ NoCheck.verdict = None
BY DEF NoCheck, CheckerType, CheckerSteps

LEMMA StatusType ==
  ASSUME NEW k \in Kinds, NEW outcome, NEW findings
  PROVE  Status(k, outcome, findings) \in Whatever
BY DEF Status, Kinds, Whatever, SocketStatus, SocketCli, CoderabbitCli, AgentStream, Linkinator, AuditReport, Knip, Answer

(* Every check loads and reconciles its registry after a complete answer.  *)
LEMMA RunOfFacts ==
  ASSUME NEW k \in Kinds
  PROVE  "complete" \in RunOf(k).loads /\ "complete" \in RunOf(k).reconciles
BY DEF RunOf, Kinds, Run, Whatever, SuppressionRun, NetworkRun, SocketRun, DepsRun, DocsRun, DeadCodeRun,
       PresetCommandsRun, CoderabbitRun

LEMMA ScanTypes ==
  ASSUME NEW k \in Kinds, NEW seen \in InitialTrees[k], NEW outcome \in ToolOutcomes(k)
  PROVE  /\ seen \in SUBSET Findings /\ outcome \in (UNION {ToolOutcomes(j) : j \in Kinds}) \cup {None}
         /\ \A status : Scanned(outcome, status, seen) \in SUBSET Findings
         /\ \A status : Ids(Scanned(outcome, status, seen)) \subseteq RecordIds
<1>1. seen \in SUBSET Findings /\ outcome \in (UNION {ToolOutcomes(j) : j \in Kinds}) \cup {None}
  BY DEF Findings
<1>2. \A status : Scanned(outcome, status, seen) \subseteq seen
  BY DEF Scanned
<1>3. Ids(seen) \subseteq RecordIds
  BY DEF RecordIds
<1>4. \A status : Ids(Scanned(outcome, status, seen)) \subseteq Ids(seen)
  BY <1>2 DEF Ids, Governed
<1> QED
  BY <1>1, <1>2, <1>3, <1>4

(* The tool has run; its answer sends the check to its registry or to the  *)
(* verdict.                                                                *)
LEMMA ScanStep ==
  ASSUME RegistryContext, NEW u \in Checkers, Scan(u)
  PROVE  IInv' /\ WholeStep
<1> DEFINE after(outcome) ==
      LET status == Status(kind, outcome, tree)
      IN [NoCheck EXCEPT !.at = IF status \in RunOf(kind).loads THEN "loading" ELSE "judging",
                         !.outcome = outcome, !.status = status, !.seen = tree,
                         !.findings = Scanned(outcome, status, tree)]
<1>1. checker[u].at = "idle" /\ UNCHANGED fileVars /\ UNCHANGED <<kind, tree, approved, edits>>
  BY DEF Scan
<1>2. PICK outcome \in ToolOutcomes(kind) : checker' = [checker EXCEPT ![u] = after(outcome)]
  BY DEF Scan
<1> DEFINE status == Status(kind, outcome, tree)
           c == after(outcome)
<1>3. /\ c \in CheckerType /\ c.at \in {"loading", "judging"} /\ c.outcome = outcome /\ c.status = status
      /\ c.seen = tree /\ c.findings = Scanned(outcome, status, tree) /\ c.verdict = None /\ c.registryError = FALSE
      /\ c.records = {}
      /\ c.at = "judging" => status # "complete"
  <2>1. status \in Whatever /\ kind \in Kinds /\ tree \in InitialTrees[kind]
    BY StatusType, CheckerFacts DEF RegistryContext
  <2>2. /\ tree \in SUBSET Findings /\ outcome \in (UNION {ToolOutcomes(j) : j \in Kinds}) \cup {None}
        /\ Scanned(outcome, status, tree) \in SUBSET Findings
    BY <2>1, ScanTypes
  <2>3. status = "complete" => status \in RunOf(kind).loads
    BY <2>1, RunOfFacts
  <2> QED
    BY <2>1, <2>2, <2>3, NoCheckFacts DEF CheckerType, CheckerSteps
<1> HIDE DEF c, after
<1>4. Step(u, c)
  BY <1>1, <1>2 DEF Step, c
<1>5. /\ FilesOK' /\ OneTempEach' /\ WholeStep /\ OthersKeepTemps(u) /\ UNCHANGED <<disk, temps, got>>
      /\ TempOf(u)' = TempOf(u)
  BY <1>1, CheckerFacts, FilesUntouched DEF OthersKeepTemps
<1>6. checker'[u] = c /\ kind' = kind
  BY <1>3, <1>4, CheckerAfter
<1>7. CheckerOK(u)'
  <2>1. ScanOK(u)'
    BY <1>3, <1>6, CheckerFacts DEF ScanOK
  <2> QED
    BY <1>3, <1>6, <2>1 DEF CheckerOK
<1>8. HoldsOK(u)'
  <2>1. TempOf(u) = {}
    BY <1>1, CheckerFacts DEF HoldsOK
  <2> QED
    BY <1>3, <1>5, <1>6, <2>1 DEF HoldsOK
<1>9. c.verdict # "pass" /\ \A e \in c.records : Approves(e)
  BY <1>3, FileMarks
<1> QED
  BY <1>3, <1>4, <1>5, <1>7, <1>8, <1>9, CheckerMoves

(* A check that meets an error goes to its verdict with it.                *)
LEMMA FailsMoves ==
  ASSUME RegistryContext, NEW u \in Checkers, checker[u].at \notin {"idle", "done"}, Fails(u),
         FilesOK', OneTempEach', UNCHANGED <<disk, temps>>
  PROVE  IInv'
<1> DEFINE c == [checker[u] EXCEPT !.at = "judging", !.registryError = TRUE, !.records = {}, !.loaded = NoView]
<1>1. Step(u, c) /\ OthersKeepTemps(u) /\ TempOf(u)' = TempOf(u)
  BY DEF Fails, OthersKeepTemps, TempOf
<1>2. /\ c \in CheckerType /\ c.at = "judging" /\ c.outcome = checker[u].outcome /\ c.status = checker[u].status
      /\ c.seen = checker[u].seen /\ c.findings = checker[u].findings /\ c.verdict = checker[u].verdict
      /\ c.registryError = TRUE /\ c.records = {}
  BY CheckerFacts, ZenonT(30) DEF CheckerType, CheckerSteps
<1> HIDE DEF c
<1>3. checker'[u] = c /\ kind' = kind
  BY <1>1, <1>2, CheckerAfter
<1>4. ScanOK(u)
  BY CheckerFacts DEF CheckerOK
<1>5. CheckerOK(u)'
  <2>1. ScanOK(u)'
    BY <1>2, <1>3, <1>4 DEF ScanOK
  <2> QED
    BY <1>2, <1>3, <2>1 DEF CheckerOK
<1>6. HoldsOK(u)'
  BY <1>1, <1>2, <1>3, CheckerFacts DEF HoldsOK
<1>7. c.verdict # "pass" /\ \A e \in c.records : Approves(e)
  BY <1>2, <1>4, FileMarks DEF ScanOK
<1> QED
  BY <1>1, <1>2, <1>5, <1>6, <1>7, CheckerMoves

(* From one step of writing to the next: only where the check is changes.  *)
LEMMA WriteMoves ==
  ASSUME RegistryContext, NEW u \in Checkers, NEW at \in CheckerSteps \ {"idle", "loading", "reconciling", "done"},
         checker[u].at \in {"probing", "comparing", "writing", "filling", "renaming"}, MoveTo(u, at),
         FilesOK', OneTempEach', OthersKeepTemps(u),
         at \in {"probing", "comparing", "writing"} => TempOf(u)' = {},
         \A t \in TempOf(u)' : t.path = RegistryPath,
         at = "renaming" => \A t \in TempOf(u)' : t.content = ToPersist(u),
         disk'[RegistryPath] = disk[RegistryPath] \/ disk'[RegistryPath] = ToPersist(u)
  PROVE  IInv'
<1> DEFINE c == [checker[u] EXCEPT !.at = at]
<1>1. Step(u, c)
  BY DEF MoveTo
<1>2. /\ c \in CheckerType /\ c.at = at /\ c.outcome = checker[u].outcome /\ c.status = checker[u].status
      /\ c.seen = checker[u].seen /\ c.findings = checker[u].findings /\ c.verdict = checker[u].verdict
      /\ c.registryError = checker[u].registryError /\ c.records = checker[u].records /\ c.loaded = checker[u].loaded
  BY CheckerFacts DEF CheckerType, CheckerSteps
<1> HIDE DEF c
<1>3. checker'[u] = c /\ kind' = kind
  BY <1>1, <1>2, CheckerAfter
<1>4. ScanOK(u) /\ ReconciledOK(u) /\ ~ checker[u].registryError
  BY CheckerFacts DEF CheckerOK
<1>5. CheckerOK(u)'
  <2>1. ScanOK(u)' /\ ReconciledOK(u)'
    BY <1>2, <1>3, <1>4 DEF ScanOK, ReconciledOK, LoadedOK
  <2> QED
    BY <1>2, <1>3, <1>4, <2>1 DEF CheckerOK
<1>6. HoldsOK(u)'
  <2>1. ToPersist(u)' = ToPersist(u)
    BY <1>2, <1>3 DEF ToPersist
  <2> QED
    BY <1>2, <1>3, <2>1 DEF HoldsOK
<1>7. c.verdict # "pass" /\ \A e \in c.records : Approves(e)
  BY <1>2, <1>4, CheckerFacts, FileMarks DEF ScanOK
<1> QED
  BY <1>1, <1>2, <1>5, <1>6, <1>7, CheckerMoves

LEMMA LoadStep ==
  ASSUME RegistryContext, NEW u \in Checkers, Load(u)
  PROVE  IInv' /\ WholeStep
<1> DEFINE entries == Records(got'[u])
           at == IF checker[u].status \in RunOf(kind).reconciles THEN "reconciling" ELSE "judging"
           c == [checker[u] EXCEPT !.loaded = got'[u], !.records = entries, !.at = at]
<1>1. checker[u].at = "loading" /\ Read(u, RegistryPath)
      /\ IF ~IsValid(entries) THEN Fails(u) ELSE Step(u, c)
  BY DEF Load
<1>2. /\ FilesOK' /\ OneTempEach' /\ WholeStep /\ got' = [got EXCEPT ![u] = disk[RegistryPath]]
      /\ UNCHANGED <<disk, temps>> /\ OthersKeepTemps(u) /\ TempOf(u)' = TempOf(u)
  BY <1>1, CheckerFacts, ReadStep DEF OthersKeepTemps
<1>3. got'[u] = disk[RegistryPath]
  BY <1>2, CheckerFacts DEF FilesOK
<1>4. CASE ~IsValid(entries)
  BY <1>1, <1>2, <1>4, FailsMoves
<1>5. CASE IsValid(entries)
  <2>1. /\ got'[u] \in Registries \cup {Absent} /\ entries \in SUBSET RegistryRecords
        /\ \A e \in entries : Approves(e)
    BY <1>3, CheckerFacts DEF Records, Registries
  <2>2. /\ c \in CheckerType /\ c.at = at /\ c.outcome = checker[u].outcome /\ c.status = checker[u].status
        /\ c.seen = checker[u].seen /\ c.findings = checker[u].findings /\ c.verdict = checker[u].verdict
        /\ c.registryError = checker[u].registryError /\ c.records = entries /\ c.loaded = got'[u]
    BY <2>1, CheckerFacts, ZenonT(30) DEF CheckerType, CheckerSteps
  <2> HIDE DEF c
  <2>3. Step(u, c)
    BY <1>1, <1>5
  <2>4. checker'[u] = c /\ kind' = kind
    BY <2>2, <2>3, CheckerAfter
  <2>5. ScanOK(u) /\ ~ checker[u].registryError
    BY <1>1, CheckerFacts DEF CheckerOK
  <2>6. CheckerOK(u)'
    <3>1. ScanOK(u)' /\ LoadedOK(u)'
      BY <1>5, <2>1, <2>2, <2>4, <2>5 DEF ScanOK, LoadedOK
    <3>2. c.at = "judging" => c.status # "complete"
      BY <2>2, RunOfFacts DEF RegistryContext
    <3>3. c.records = Records(c.loaded) /\ c.at \in {"reconciling", "judging"}
      BY <2>2
    <3> HIDE DEF entries, at
    <3> QED
      BY <2>2, <2>4, <2>5, <3>1, <3>2, <3>3 DEF CheckerOK
  <2>7. HoldsOK(u)'
    <3>1. TempOf(u) = {}
      BY <1>1, CheckerFacts DEF HoldsOK
    <3> QED
      BY <1>2, <2>2, <2>4, <3>1 DEF HoldsOK
  <2>8. c.verdict # "pass" /\ \A e \in c.records : Approves(e)
    BY <2>1, <2>2, <2>5, FileMarks DEF ScanOK
  <2> QED
    BY <1>2, <2>2, <2>3, <2>6, <2>7, <2>8, CheckerMoves
<1> QED
  BY <1>4, <1>5

(* Stubs for the findings without a record: nothing is approved by one.    *)
LEMMA ReconcileFacts ==
  ASSUME NEW entries \in SUBSET RegistryRecords, NEW ids \in SUBSET RecordIds, \A e \in entries : Approves(e)
  PROVE  /\ Reconcile(entries, ids) \in SUBSET RegistryRecords
         /\ \A e \in Reconcile(entries, ids) : Approves(e)
<1>1. \A id \in ids : Stub(id) \in RegistryRecords /\ Stub(id).filled = {}
  BY DEF Stub, RegistryRecords
<1>2. \A id \in ids : Approves(Stub(id))
  BY <1>1 DEF Approves
<1> HIDE DEF RegistryRecords
<1> QED
  BY <1>1, <1>2 DEF Reconcile

LEMMA ReconcileRecordsStep ==
  ASSUME RegistryContext, NEW u \in Checkers, ReconcileRecords(u)
  PROVE  IInv' /\ WholeStep
<1> DEFINE reconciled == Reconcile(checker[u].records, Ids(checker[u].findings))
           c == [checker[u] EXCEPT !.at = "probing", !.records = reconciled]
<1>1. /\ checker[u].at = "reconciling" /\ UNCHANGED fileVars
      /\ Fails(u) \/ (Distinguishable(kind, checker[u].findings) /\ Step(u, c))
  BY DEF ReconcileRecords
<1>2. /\ FilesOK' /\ OneTempEach' /\ WholeStep /\ UNCHANGED <<disk, temps>> /\ OthersKeepTemps(u)
      /\ TempOf(u)' = TempOf(u)
  BY <1>1, CheckerFacts, FilesUntouched DEF OthersKeepTemps
<1>3. CASE Fails(u)
  BY <1>1, <1>2, <1>3, FailsMoves
<1>4. CASE Distinguishable(kind, checker[u].findings) /\ Step(u, c)
  <2>1. /\ ScanOK(u) /\ LoadedOK(u) /\ checker[u].records = Records(checker[u].loaded) /\ ~ checker[u].registryError
        /\ TempOf(u) = {}
    BY <1>1, CheckerFacts DEF CheckerOK, HoldsOK
  <2>2. Ids(checker[u].findings) \in SUBSET RecordIds
    BY <2>1, ScanTypes DEF ScanOK, RegistryContext
  <2>3. reconciled \in SUBSET RegistryRecords /\ \A e \in reconciled : Approves(e)
    <3>1. checker[u].records \in SUBSET RegistryRecords
      BY CheckerFacts DEF CheckerType
    <3> QED
      BY <2>2, <3>1, CheckerFacts, ReconcileFacts
  <2>4. /\ c \in CheckerType /\ c.at = "probing" /\ c.outcome = checker[u].outcome /\ c.status = checker[u].status
        /\ c.seen = checker[u].seen /\ c.findings = checker[u].findings /\ c.verdict = checker[u].verdict
        /\ c.registryError = checker[u].registryError /\ c.records = reconciled /\ c.loaded = checker[u].loaded
    BY <2>3, CheckerFacts DEF CheckerType, CheckerSteps
  <2> HIDE DEF c
  <2>5. checker'[u] = c /\ kind' = kind
    BY <1>4, <2>4, CheckerAfter
  <2>6. CheckerOK(u)'
    <3>1. ScanOK(u)' /\ ReconciledOK(u)'
      BY <1>4, <2>1, <2>4, <2>5 DEF ScanOK, ReconciledOK, LoadedOK
    <3> QED
      BY <2>1, <2>4, <2>5, <3>1 DEF CheckerOK
  <2>7. HoldsOK(u)'
    BY <1>2, <2>1, <2>4, <2>5 DEF HoldsOK
  <2>8. c.verdict # "pass" /\ \A e \in c.records : Approves(e)
    BY <2>1, <2>3, <2>4, FileMarks DEF ScanOK
  <2> QED
    BY <1>2, <1>4, <2>4, <2>6, <2>7, <2>8, CheckerMoves
<1> QED
  BY <1>1, <1>3, <1>4

LEMMA ProbeLinkStep ==
  ASSUME RegistryContext, NEW u \in Checkers, ProbeLink(u)
  PROVE  IInv' /\ WholeStep
<1>1. checker[u].at = "probing" /\ UNCHANGED fileVars /\ (Fails(u) \/ MoveTo(u, "comparing"))
  BY DEF ProbeLink
<1>2. /\ FilesOK' /\ OneTempEach' /\ WholeStep /\ UNCHANGED <<disk, temps>> /\ OthersKeepTemps(u)
      /\ TempOf(u)' = {}
  BY <1>1, CheckerFacts, FilesUntouched DEF OthersKeepTemps, HoldsOK
<1>3. CASE Fails(u)
  BY <1>1, <1>2, <1>3, FailsMoves
<1>4. CASE MoveTo(u, "comparing")
  BY <1>1, <1>2, <1>4, WriteMoves DEF CheckerSteps
<1> QED
  BY <1>1, <1>3, <1>4

LEMMA CompareStep ==
  ASSUME RegistryContext, NEW u \in Checkers, Compare(u)
  PROVE  IInv' /\ WholeStep
<1>1. /\ checker[u].at = "comparing"
      /\ \/ Read(u, RegistryPath) /\ (MoveTo(u, "judging") \/ MoveTo(u, "writing"))
         \/ UNCHANGED fileVars /\ Fails(u)
  BY DEF Compare
<1>2. CASE Read(u, RegistryPath) /\ (MoveTo(u, "judging") \/ MoveTo(u, "writing"))
  <2>1. /\ FilesOK' /\ OneTempEach' /\ WholeStep /\ UNCHANGED <<disk, temps>> /\ OthersKeepTemps(u)
        /\ TempOf(u)' = {}
    BY <1>1, <1>2, CheckerFacts, ReadStep DEF OthersKeepTemps, HoldsOK
  <2> QED
    BY <1>1, <1>2, <2>1, WriteMoves DEF CheckerSteps
<1>3. CASE UNCHANGED fileVars /\ Fails(u)
  <2>1. FilesOK' /\ OneTempEach' /\ WholeStep /\ UNCHANGED <<disk, temps>>
    BY <1>3, CheckerFacts, FilesUntouched
  <2> QED
    BY <1>1, <1>3, <2>1, FailsMoves
<1> QED
  BY <1>1, <1>2, <1>3

LEMMA OpenRegistryStep ==
  ASSUME RegistryContext, NEW u \in Checkers, OpenRegistry(u)
  PROVE  IInv' /\ WholeStep
<1>1. /\ checker[u].at = "writing"
      /\ \/ OpenTemp(u, RegistryPath) /\ MoveTo(u, "filling")
         \/ UNCHANGED fileVars /\ Fails(u)
  BY DEF OpenRegistry
<1>2. CASE OpenTemp(u, RegistryPath) /\ MoveTo(u, "filling")
  <2>1. /\ FilesOK' /\ OneTempEach' /\ WholeStep /\ UNCHANGED disk /\ OthersKeepTemps(u)
        /\ \A t \in TempOf(u)' : t.path = RegistryPath
    BY <1>1, <1>2, CheckerFacts, OpenTempStep DEF HoldsOK
  <2> QED
    BY <1>1, <1>2, <2>1, WriteMoves DEF CheckerSteps
<1>3. CASE UNCHANGED fileVars /\ Fails(u)
  <2>1. FilesOK' /\ OneTempEach' /\ WholeStep /\ UNCHANGED <<disk, temps>>
    BY <1>3, CheckerFacts, FilesUntouched
  <2> QED
    BY <1>1, <1>3, <2>1, FailsMoves
<1> QED
  BY <1>1, <1>2, <1>3

LEMMA FillRegistryStep ==
  ASSUME RegistryContext, NEW u \in Checkers, FillRegistry(u)
  PROVE  IInv' /\ WholeStep
<1>1. /\ checker[u].at = "filling"
      /\ \/ FillTemp(u, ToPersist(u)) /\ MoveTo(u, "renaming")
         \/ UNCHANGED fileVars /\ Fails(u)
  BY DEF FillRegistry
<1>2. CASE FillTemp(u, ToPersist(u)) /\ MoveTo(u, "renaming")
  <2>1. /\ FilesOK' /\ OneTempEach' /\ WholeStep /\ UNCHANGED disk /\ OthersKeepTemps(u)
        /\ \A t \in TempOf(u)' : t.content = ToPersist(u) /\ \E s \in TempOf(u) : t.path = s.path
    BY <1>2, CheckerFacts, PersistType, FillTempStep
  <2>2. \A s \in TempOf(u) : s.path = RegistryPath
    BY CheckerFacts DEF HoldsOK
  <2> QED
    BY <1>1, <1>2, <2>1, <2>2, WriteMoves DEF CheckerSteps
<1>3. CASE UNCHANGED fileVars /\ Fails(u)
  <2>1. FilesOK' /\ OneTempEach' /\ WholeStep /\ UNCHANGED <<disk, temps>>
    BY <1>3, CheckerFacts, FilesUntouched
  <2> QED
    BY <1>1, <1>3, <2>1, FailsMoves
<1> QED
  BY <1>1, <1>2, <1>3

LEMMA RenameRegistryStep ==
  ASSUME RegistryContext, NEW u \in Checkers, RenameRegistry(u)
  PROVE  IInv' /\ WholeStep
<1>1. /\ checker[u].at = "renaming"
      /\ \/ Rename(u) /\ MoveTo(u, "judging")
         \/ UNCHANGED fileVars /\ Fails(u)
  BY DEF RenameRegistry
<1>2. CASE Rename(u) /\ MoveTo(u, "judging")
  <2>1. \A t \in TempOf(u) : t.content = ToPersist(u) /\ t.content # Partial
    BY <1>1, CheckerFacts, PersistType, FileMarks DEF HoldsOK
  <2>2. /\ FilesOK' /\ OneTempEach' /\ WholeStep /\ OthersKeepTemps(u) /\ TempOf(u)' = {}
        /\ disk'[RegistryPath] = disk[RegistryPath] \/ disk'[RegistryPath] = ToPersist(u)
    BY <1>2, <2>1, CheckerFacts, RenameStep
  <2> QED
    BY <1>1, <1>2, <2>2, WriteMoves DEF CheckerSteps
<1>3. CASE UNCHANGED fileVars /\ Fails(u)
  <2>1. FilesOK' /\ OneTempEach' /\ WholeStep /\ UNCHANGED <<disk, temps>>
    BY <1>3, CheckerFacts, FilesUntouched
  <2> QED
    BY <1>1, <1>3, <2>1, FailsMoves
<1> QED
  BY <1>1, <1>2, <1>3

(* A check that is killed leaves its temporary file and no verdict.        *)
LEMMA KillCheckerStep ==
  ASSUME RegistryContext, NEW u \in Checkers, KillChecker(u)
  PROVE  IInv' /\ WholeStep
<1> DEFINE c == [NoCheck EXCEPT !.at = "done"]
<1>1. Step(u, c) /\ UNCHANGED fileVars
  BY DEF KillChecker
<1>2. /\ c \in CheckerType /\ c.at = "done" /\ c.findings = {} /\ c.records = {} /\ c.verdict = None
  BY NoCheckFacts DEF CheckerType, CheckerSteps
<1> HIDE DEF c
<1>3. /\ FilesOK' /\ OneTempEach' /\ WholeStep /\ UNCHANGED <<disk, temps>> /\ OthersKeepTemps(u)
      /\ TempOf(u)' = TempOf(u)
  BY <1>1, CheckerFacts, FilesUntouched DEF OthersKeepTemps
<1>4. checker'[u] = c
  BY <1>1, <1>2, CheckerAfter
<1>5. CheckerOK(u)' /\ HoldsOK(u)'
  BY <1>2, <1>3, <1>4, CheckerFacts DEF CheckerOK, HoldsOK
<1> QED
  BY <1>1, <1>2, <1>3, <1>5, FileMarks, CheckerMoves
--------------------------------------------------------------------------
(* What a verdict stands on.                                               *)

(* The closed form of the strictest policy is what reducing them comes to. *)
LEMMA StrictestIsReduced ==
  ASSUME NEW policies, NEW policy
  PROVE  /\ Strictest({}) = Allowed
         /\ Strictest(policies \cup {policy}) = StricterOf(Strictest(policies), policy)
<1>1. Strictest({}) = Allowed
  BY DEF Strictest
<1> DEFINE fields == UNION {p.requirements : p \in policies}
<1>2. UNION {p.requirements : p \in policies \cup {policy}} = fields \cup policy.requirements
  OBVIOUS
<1>3. Forbidden.mode = "forbidden" /\ Allowed.mode = "allowed" /\ Requiring(fields).mode = "exception"
  BY DEF Forbidden, Allowed, Requiring
<1>4. Allowed.requirements = {} /\ Requiring(fields).requirements = fields
  BY DEF Allowed, Requiring
<1> HIDE DEF fields
<1>5. CASE Forbidden \in policies
  BY <1>5 DEF Strictest, StricterOf
<1>6. CASE Forbidden \notin policies
  <2>1. Strictest(policies) = IF fields = {} THEN Allowed ELSE Requiring(fields)
    BY <1>6 DEF Strictest, fields
  <2>2. Strictest(policies) # Forbidden /\ Strictest(policies).requirements = fields
    BY <1>3, <1>4, <2>1
  <2> QED
    BY <1>2, <1>6, <2>2 DEF Strictest, StricterOf
<1> QED
  BY <1>1, <1>5, <1>6

(* Whoever satisfies the strictest satisfies all of them.                  *)
LEMMA StrictestFacts ==
  ASSUME NEW policies, NEW filled, Strictest(policies) # Forbidden, Strictest(policies).requirements \subseteq filled,
         NEW policy \in policies
  PROVE  policy # Forbidden /\ policy.requirements \subseteq filled
<1> DEFINE fields == UNION {p.requirements : p \in policies}
<1>1. Forbidden \notin policies
  BY DEF Strictest
<1>2. Strictest(policies) = IF fields = {} THEN Allowed ELSE Requiring(fields)
  BY <1>1 DEF Strictest
<1>3. Allowed.requirements = {} /\ Requiring(fields).requirements = fields
  BY DEF Allowed, Requiring
<1>4. policy.requirements \subseteq fields
  OBVIOUS
<1> QED
  BY <1>1, <1>2, <1>3, <1>4

(* No two rules of a group are for the same pattern.                       *)
LEMMA OneRuleEach ==
  ASSUME NEW k \in Kinds, NEW group \in DOMAIN PolicyConfig(k),
         NEW r \in PolicyConfig(k)[group].rules, NEW s \in PolicyConfig(k)[group].rules, r.pattern = s.pattern
  PROVE  r = s
<1> DEFINE Distinct(rules) == \A a, b \in rules : a.pattern = b.pattern => a = b
<1> SUFFICES \A g \in DOMAIN PolicyConfig(k) : Distinct(PolicyConfig(k)[g].rules)
  OBVIOUS
<1>1. \A default, rules : Group(default, rules).rules = rules
  BY DEF Group
<1>2. \A pattern, policy : Rule(pattern, policy).pattern = pattern
  BY DEF Rule
<1>3. Distinct({})
  OBVIOUS
<1>4. CASE k = "suppression"
  <2>1. /\ Distinct({Rule("security/*", Forbidden), Rule("no-console", Allowed),
                     Rule("react-hooks/exhaustive-deps", Requiring(Reviewed))})
        /\ Distinct({Rule("@ts-ignore", Forbidden), Rule("@ts-nocheck", Forbidden), Rule("@ts-expect-error", Allowed)})
        /\ Distinct({Rule("all", Forbidden)})
    BY <1>2
  <2> HIDE DEF Distinct
  <2> QED
    BY <1>1, <1>4, <2>1 DEF PolicyConfig, SuppressionPolicy
<1>5. CASE k = "network"
  <2>1. Distinct({Rule(capability, Requiring(Full)) : capability \in
                    {"module-import", "named-import", "global-usage", "dynamic-import"}})
    BY <1>2
  <2> HIDE DEF Distinct
  <2> QED
    BY <1>1, <1>5, <2>1 DEF PolicyConfig, NetworkPolicy
<1>6. CASE k = "socket"
  <2>1. /\ Distinct({Rule("critical", Forbidden), Rule("high", Forbidden), Rule("middle", Requiring(Full)),
                     Rule("low", Requiring(Reviewed)), Rule("unknown", Requiring(Full))})
        /\ Distinct({Rule("supplyChainRisk", Forbidden)})
    BY <1>2
  <2> HIDE DEF Distinct
  <2> QED
    BY <1>1, <1>6, <2>1 DEF PolicyConfig, SocketPolicy
<1>7. CASE k \notin {"suppression", "network", "socket"}
  <2> HIDE DEF Distinct
  <2> QED
    BY <1>1, <1>3, <1>7 DEF PolicyConfig, DepsPolicy, DocsPolicy, CoderabbitPolicy, Kinds
<1> QED
  BY <1>4, <1>5, <1>6, <1>7

(* A finding whose resolved policy is satisfied satisfies every policy its *)
(* class is under.                                                         *)
LEMMA GoverningCovered ==
  ASSUME NEW k \in Kinds, NEW class, NEW filled,
         NEW resolved, resolved = ResolveExceptionPolicy(class, PolicyConfig(k), GlobalDefault(k)),
         resolved # Forbidden, resolved.requirements \subseteq filled,
         NEW policy \in Governing(k, class)
  PROVE  policy # Forbidden /\ policy.requirements \subseteq filled
<1> DEFINE config == PolicyConfig(k)
           group == config[class.group]
           configured == {config[g] : g \in DOMAIN config \cap {class.group}}
           all == UNION {g.rules : g \in configured}
           default == IF \E g \in configured : g.default # None
                      THEN (CHOOSE g \in configured : TRUE).default ELSE GlobalDefault(k)
           matching == {r \in all : r.pattern = class.category}
           globbed == {r \in all : Globs(r.pattern, class.category)}
           rules == IF class.category = Blanket THEN all ELSE IF matching # {} THEN matching ELSE globbed
<1>1. policy \in {r.policy : r \in rules} \cup (IF rules = {} \/ class.category = Blanket THEN {default} ELSE {})
  BY DEF Governing
<1>2. CASE class.group \notin DOMAIN config
  <2>1. configured = {}
    BY <1>2
  <2>2. all = {} /\ default = GlobalDefault(k)
    BY <2>1
  <2>3. rules = {}
    BY <2>2
  <2>4. resolved = GlobalDefault(k)
    BY <1>2 DEF ResolveExceptionPolicy
  <2> HIDE DEF rules, default
  <2> QED
    BY <1>1, <2>2, <2>3, <2>4
<1>3. CASE class.group \in DOMAIN config
  <2>1. configured = {group}
    BY <1>3
  <2>2. all = group.rules /\ default = IF group.default = None THEN GlobalDefault(k) ELSE group.default
    <3>1. (CHOOSE g \in configured : TRUE) = group
      BY <2>1
    <3> HIDE DEF configured
    <3> QED
      BY <2>1, <3>1
  <2> HIDE DEF configured, all, default
  <2>3. resolved = IF class.category = Blanket THEN Strictest({r.policy : r \in all} \cup {default})
                   ELSE IF matching # {} THEN (CHOOSE r \in matching : TRUE).policy
                   ELSE IF globbed # {} THEN Strictest({r.policy : r \in globbed})
                   ELSE default
    BY <1>3, <2>2 DEF ResolveExceptionPolicy
  <2>4. CASE class.category = Blanket
    <3>1. policy \in {r.policy : r \in all} \cup {default}
      BY <1>1, <2>4
    <3> QED
      BY <2>3, <2>4, <3>1, StrictestFacts
  <2>5. CASE class.category # Blanket /\ matching # {}
    <3>1. PICK r \in matching : policy = r.policy
      BY <1>1, <2>5
    <3>2. (CHOOSE s \in matching : TRUE) \in matching
      BY <2>5
    <3>3. (CHOOSE s \in matching : TRUE) = r
      BY <1>3, <2>2, <3>1, <3>2, OneRuleEach
    <3> QED
      BY <2>3, <2>5, <3>1, <3>3
  <2>6. CASE class.category # Blanket /\ matching = {} /\ globbed # {}
    <3>1. policy \in {r.policy : r \in globbed}
      BY <1>1, <2>6
    <3> QED
      BY <2>3, <2>6, <3>1, StrictestFacts
  <2>7. CASE class.category # Blanket /\ matching = {} /\ globbed = {}
    BY <1>1, <2>3, <2>7
  <2> QED
    BY <2>4, <2>5, <2>6, <2>7
<1> QED
  BY <1>2, <1>3
(* How a check takes a finding: as it is, or with what stands in the code. *)
Takes(k, f, filled) ==
    \/ f.mark = "ok"
    \/ \E more \in {{}, IF f.mark = "reasoned" THEN {"reason"} ELSE {}} :
        Permits(k, f.classes, filled \cup more)

LEMMA PermitsCovered ==
  ASSUME NEW k \in Kinds, NEW f, NEW filled, NEW enough, Permits(k, f.classes, filled), filled \subseteq enough,
         k \notin {"deadCode", "presetCommands"}, NEW policy \in Policies(k, f)
  PROVE  policy # Forbidden /\ policy.requirements \subseteq enough
<1> DEFINE Resolved(class) == ResolveExceptionPolicy(class, PolicyConfig(k), GlobalDefault(k))
           policies == {Resolved(class) : class \in f.classes}
<1>1. Strictest(policies) # Forbidden /\ Strictest(policies).requirements \subseteq filled
  BY DEF Permits, EvaluateExceptionRecord
<1>2. PICK class \in f.classes : policy \in Governing(k, class)
  BY DEF Policies
<1>3. Resolved(class) \in policies
  OBVIOUS
<1> HIDE DEF policies
<1>4. Resolved(class) # Forbidden /\ Resolved(class).requirements \subseteq filled
  BY <1>1, <1>3, StrictestFacts
<1> QED
  BY <1>2, <1>4, GoverningCovered

(* What each check passes on, in the same words for all of them.           *)
Approving(k, e) ==
    /\ e.status = "complete" /\ ~ e.registryError /\ e.stale = {}
    /\ k = "network" => e.outcome # "no files"
    /\ k = "docs" => e.outcome \notin {"no lint report", "lint errors", "lint warnings"}
    /\ \A f \in e.findings :
        IF k \in {"deadCode", "presetCommands"} THEN JustificationApproves(f, FilledFor(e, f))
        ELSE Takes(k, f, FilledFor(e, f))

LEMMA PassIsApproving ==
  ASSUME NEW k \in Kinds, NEW e, e.registryError \in BOOLEAN,
         e.status \in Whatever, Verdict(k, e) = "pass"
  PROVE  Approving(k, e)
<1>1. \A f, filled : (filled \cup {}) = filled
  OBVIOUS
<1>2. CASE k = "suppression"
  <2>1. SuppressionVerdict(e) = "pass"
    BY <1>2 DEF Verdict
  <2>2. e.status = "complete" /\ ~ e.registryError /\ NothingLeft(e, SuppressionApproves)
    BY <2>1 DEF SuppressionVerdict
  <2>3. \A f, filled : SuppressionApproves(f, filled) => Takes(k, f, filled)
    BY <1>2 DEF SuppressionApproves, Takes
  <2> QED
    BY <1>2, <2>2, <2>3 DEF NothingLeft, Approving
<1>3. CASE k = "network"
  <2>1. NetworkVerdict(e) = "pass"
    BY <1>3 DEF Verdict
  <2>2. e.status = "complete" /\ ~ e.registryError /\ e.outcome # "no files" /\ NothingLeft(e, NetworkApproves)
    BY <2>1 DEF NetworkVerdict
  <2>3. \A f, filled : NetworkApproves(f, filled) => Takes(k, f, filled)
    BY <1>1, <1>3 DEF NetworkApproves, Takes
  <2> QED
    BY <1>3, <2>2, <2>3 DEF NothingLeft, Approving
<1>4. CASE k = "socket"
  <2>1. SocketVerdict(e) = "pass"
    BY <1>4 DEF Verdict
  <2>2. e.status = "complete" /\ ~ e.registryError /\ NothingLeft(e, SocketApproves)
    BY <2>1 DEF SocketVerdict, Whatever
  <2>3. \A f, filled : SocketApproves(f, filled) => Takes(k, f, filled)
    BY <1>1, <1>4 DEF SocketApproves, Takes
  <2> QED
    BY <1>4, <2>2, <2>3 DEF NothingLeft, Approving
<1>5. CASE k = "deps"
  <2>1. DepsVerdict(e) = "pass"
    BY <1>5 DEF Verdict
  <2>2. e.status = "complete" /\ ~ e.registryError /\ NothingLeft(e, DepsApproves)
    BY <2>1 DEF DepsVerdict
  <2>3. \A f, filled : DepsApproves(f, filled) => Takes(k, f, filled)
    BY <1>1, <1>5 DEF DepsApproves, Takes
  <2> QED
    BY <1>5, <2>2, <2>3 DEF NothingLeft, Approving
<1>6. CASE k = "docs"
  <2>1. DocsVerdict(e) = "pass"
    BY <1>6 DEF Verdict
  <2>2. /\ e.status = "complete" /\ ~ e.registryError /\ NothingLeft(e, LinkApproves)
        /\ e.outcome \notin {"no lint report", "lint errors", "lint warnings"}
    BY <2>1 DEF DocsVerdict, Markdownlint
  <2>3. \A f, filled : LinkApproves(f, filled) => Takes(k, f, filled)
    BY <1>1, <1>6 DEF LinkApproves, Takes
  <2> QED
    BY <1>6, <2>2, <2>3 DEF NothingLeft, Approving
<1>7. CASE k = "deadCode"
  <2>1. DeadCodeVerdict(e) = "pass"
    BY <1>7 DEF Verdict
  <2>2. e.status = "complete" /\ ~ e.registryError /\ NothingLeft(e, JustificationApproves)
    BY <2>1 DEF DeadCodeVerdict
  <2> QED
    BY <1>7, <2>2 DEF NothingLeft, Approving
<1>8. CASE k = "presetCommands"
  <2>1. PresetCommandsVerdict(e) = "pass"
    BY <1>8 DEF Verdict
  <2>2. e.status = "complete" /\ ~ e.registryError /\ NothingLeft(e, JustificationApproves)
    BY <2>1 DEF PresetCommandsVerdict
  <2> QED
    BY <1>8, <2>2 DEF NothingLeft, Approving
<1>9. CASE k = "coderabbit"
  <2>1. CoderabbitVerdict(e) = "pass"
    BY <1>9 DEF Verdict
  <2>2. e.status = "complete" /\ ~ e.registryError /\ NothingLeft(e, CoderabbitApproves)
    BY <2>1 DEF CoderabbitVerdict
  <2>3. \A f, filled : CoderabbitApproves(f, filled) => Takes(k, f, filled)
    BY <1>1, <1>9 DEF CoderabbitApproves, Takes
  <2> QED
    BY <1>9, <2>2, <2>3 DEF NothingLeft, Approving
<1> QED
  BY <1>2, <1>3, <1>4, <1>5, <1>6, <1>7, <1>8, <1>9 DEF Kinds

(* A verdict is one of three.                                              *)
LEMMA VerdictType ==
  ASSUME NEW k \in Kinds, NEW e
  PROVE  Verdict(k, e) \in {"pass", "warn", "fail"}
<1>1. SocketVerdict(e) \in {"pass", "warn", "fail"}
  BY DEF SocketVerdict
<1> QED
  BY <1>1 DEF Verdict, Kinds, SuppressionVerdict, NetworkVerdict, DepsVerdict, DocsVerdict, DeadCodeVerdict,
     PresetCommandsVerdict, CoderabbitVerdict

(* A tool whose answer is complete has finished, and what it found in the  *)
(* tree is all there is.                                                   *)
LEMMA CompleteAnswers ==
  ASSUME NEW k \in Kinds, NEW seen, NEW outcome \in ToolOutcomes(k), Status(k, outcome, seen) = "complete",
         k = "network" => outcome # "no files",
         k = "docs" => outcome \notin {"no lint report", "lint errors", "lint warnings"}
  PROVE  /\ outcome = "done" \/ (outcome = "no lockfile" /\ seen = {})
         /\ Scanned(outcome, "complete", seen) = seen
<1>1. outcome = "done" \/ (outcome = "no lockfile" /\ seen = {})
  <2>1. CASE k = "socket"
    <3>1. SocketStatus(outcome, seen) = "complete"
      BY <2>1 DEF Status
    <3> QED
      BY <2>1, <3>1 DEF SocketStatus, SocketCli, ToolOutcomes
  <2>2. CASE k = "coderabbit"
    <3>1. CoderabbitCli(outcome) = "complete"
      BY <2>2 DEF Status
    <3> QED
      BY <2>2, <3>1 DEF CoderabbitCli, AgentStream, ToolOutcomes
  <2>3. CASE k = "docs"
    <3>1. Linkinator(outcome) = "complete"
      BY <2>3 DEF Status
    <3> QED
      BY <2>3, <3>1 DEF Linkinator, ToolOutcomes
  <2>4. CASE k = "network"
    <3>1. outcome # "no files" => Answer(outcome) = "complete"
      BY <2>4 DEF Status
    <3> QED
      BY <2>4, <3>1 DEF Answer
  <2>5. CASE k \in {"deps", "deadCode"}
    <3>1. Answer(outcome) = "complete"
      BY <2>5 DEF Status, AuditReport, Knip
    <3> QED
      BY <3>1 DEF Answer
  <2>6. CASE k \in {"suppression", "presetCommands"}
    <3>1. outcome \in {"done", "failed"}
      BY <2>6 DEF ToolOutcomes
    <3>2. Answer(outcome) = "complete"
      BY <2>6, <3>1 DEF Status
    <3> QED
      BY <3>2 DEF Answer
  <2> QED
    BY <2>1, <2>2, <2>3, <2>4, <2>5, <2>6 DEF Kinds
<1> QED
  BY <1>1 DEF Scanned
(* Findings that have an id each are told apart by their records.          *)
LEMMA IdsTellApart ==
  ASSUME NEW k \in Kinds, NEW seen \in InitialTrees[k], ~ RunOf(k).collapses, Distinguishable(k, seen),
         NEW f \in seen, NEW g \in seen, f.id = g.id
  PROVE  f = g
<1>1. k # "presetCommands"
  BY DEF RunOf, PresetCommandsRun, Run
<1>2. IsFiniteSet(seen) /\ Governed(seen) = seen
  BY <1>1, TreesAssumption
<1>3. Ids(seen) = {x.id : x \in seen}
  BY <1>2 DEF Ids
<1>4. Cardinality(seen) = Cardinality(Ids(seen))
  BY <1>2 DEF Distinguishable
<1> DEFINE name == [x \in seen |-> x.id]
<1>5. name \in Surjection(seen, Ids(seen))
  BY <1>3 DEF Surjection
<1>6. IsFiniteSet(Ids(seen)) /\ name \in Injection(seen, Ids(seen))
  BY <1>2, <1>4, <1>5, FS_Surjection
<1> QED
  BY <1>6 DEF Injection, IsInjective

LEMMA RecordOf ==
  ASSUME NEW entries, NEW id \in {e.id : e \in entries}
  PROVE  \E e \in entries : e.id = id /\ FilledOf(entries, id) = e.filled
BY DEF FilledOf

(* What a check counts as filled in for a finding is what somebody has     *)
(* filled in.                                                              *)
LEMMA FilledIsApproved ==
  ASSUME RegistryContext, NEW u \in Checkers, NEW f
  PROVE  FilledFor(Evidence(u), f) \subseteq {field \in Fields : <<f.id, field>> \in approved}
<1> DEFINE records == checker[u].records
           covered == {e.id : e \in records} \cap Ids(checker[u].findings)
<1>1. Evidence(u).active = [id \in covered |-> FilledOf(records, id)]
  BY DEF Evidence
<1>2. CASE f.id \notin covered
  <2>1. FilledFor(Evidence(u), f) = {}
    BY <1>1, <1>2 DEF FilledFor
  <2> QED
    BY <2>1
<1>3. CASE f.id \in covered
  <2>1. FilledFor(Evidence(u), f) = FilledOf(records, f.id)
    BY <1>1, <1>3 DEF FilledFor
  <2>2. PICK e \in records : e.id = f.id /\ FilledOf(records, f.id) = e.filled
    BY <1>3, RecordOf
  <2>3. {e.id} \X e.filled \subseteq approved
    BY <2>2, CheckerFacts DEF Approves
  <2>4. e.filled \subseteq Fields
    <3>1. e \in RegistryRecords
      BY <2>2, CheckerFacts DEF CheckerType
    <3> QED
      BY <3>1, TreesAssumption DEF RegistryRecords
  <2> QED
    BY <2>1, <2>2, <2>3, <2>4
<1> QED
  BY <1>2, <1>3

(* A check that passes has everything a pass is to stand on.               *)
LEMMA PassIsSound ==
  ASSUME RegistryContext, NEW u \in Checkers, checker[u].at = "judging", Verdict(kind, Evidence(u)) = "pass"
  PROVE  StandsOnApproval(u)
<1> DEFINE c == checker[u]
           E == Evidence(u)
<1>1. /\ E.registryError = c.registryError /\ E.status = c.status /\ E.outcome = c.outcome
      /\ E.findings = c.findings /\ E.stale = Stale(c.records, Ids(c.findings))
  BY DEF Evidence
<1>2. ScanOK(u) /\ kind \in Kinds /\ c.registryError \in BOOLEAN /\ c.status \in Whatever
  <2>1. ScanOK(u) /\ kind \in Kinds
    BY CheckerFacts DEF CheckerOK, RegistryContext
  <2>2. c.status \in Whatever
    BY <2>1, StatusType DEF ScanOK
  <2> QED
    BY <2>1, <2>2, CheckerFacts DEF CheckerType
<1>3. Approving(kind, E)
  BY <1>1, <1>2, PassIsApproving
<1>4. /\ c.outcome = "done" \/ (c.outcome = "no lockfile" /\ c.seen = {})
      /\ c.findings = c.seen
  <2>1. /\ c.status = "complete"
        /\ kind = "network" => c.outcome # "no files"
        /\ kind = "docs" => c.outcome \notin {"no lint report", "lint errors", "lint warnings"}
    BY <1>1, <1>3 DEF Approving
  <2>2. c.outcome \in ToolOutcomes(kind) /\ Status(kind, c.outcome, c.seen) = "complete"
    BY <1>2, <2>1 DEF ScanOK
  <2>3. c.findings = Scanned(c.outcome, "complete", c.seen)
    BY <1>2, <2>1 DEF ScanOK
  <2> QED
    BY <1>2, <2>1, <2>2, <2>3, CompleteAnswers
<1>5. ReconciledOK(u)
  BY <1>1, <1>3, CheckerFacts DEF Approving, CheckerOK
<1>6. \A f \in c.seen : f.mark # "opaque" /\ (f.mark = "ok" \/ IsReviewed(f))
  <2> SUFFICES ASSUME NEW f \in c.seen
               PROVE  f.mark # "opaque" /\ (f.mark = "ok" \/ IsReviewed(f))
    OBVIOUS
  <2>1. FilledFor(E, f) \subseteq {field \in Fields : <<f.id, field>> \in approved}
    BY FilledIsApproved
  <2> HIDE DEF E
  <2>2. CASE kind \in {"deadCode", "presetCommands"}
    <3>1. f.mark # "opaque" /\ "justification" \in FilledFor(E, f)
      BY <1>1, <1>3, <1>4, <2>2 DEF Approving, JustificationApproves
    <3>2. Policies(kind, f) = {Requiring({"justification"})} /\ "justification" \in Filled(f)
      BY <2>1, <2>2, <3>1 DEF Policies, Filled
    <3>3. Requiring({"justification"}) # Forbidden /\ Requiring({"justification"}).requirements = {"justification"}
      BY DEF Requiring, Forbidden
    <3> QED
      BY <3>1, <3>2, <3>3 DEF IsReviewed
  <2>3. CASE kind \notin {"deadCode", "presetCommands"}
    <3>1. Takes(kind, f, FilledFor(E, f))
      BY <1>1, <1>3, <1>4, <2>3 DEF Approving
    <3>2. f.mark # "opaque"
      <4>1. Governed(c.seen) = c.seen
        BY <1>2, <2>3, TreesAssumption DEF ScanOK
      <4> QED
        BY <4>1 DEF Governed
    <3>3. ASSUME f.mark # "ok"
          PROVE  IsReviewed(f)
      <4>1. PICK more \in {{}, IF f.mark = "reasoned" THEN {"reason"} ELSE {}} :
                    Permits(kind, f.classes, FilledFor(E, f) \cup more)
        BY <3>1, <3>3 DEF Takes
      <4>2. FilledFor(E, f) \cup more \subseteq Filled(f)
        BY <2>1 DEF Filled
      <4> QED
        BY <1>2, <2>3, <4>1, <4>2, PermitsCovered DEF IsReviewed
    <3> QED
      BY <3>2, <3>3
  <2> QED
    BY <2>2, <2>3
<1>7. \A e \in Records(c.loaded) : \E f \in c.seen : f.id = e.id
  <2>1. Records(c.loaded) \subseteq c.records
    BY <1>5 DEF ReconciledOK, Reconcile
  <2>2. \A e \in c.records : e.id \in Ids(c.seen)
    BY <1>1, <1>3, <1>4 DEF Approving, Stale
  <2> QED
    BY <2>1, <2>2 DEF Ids, Governed
<1>8. ~RunOf(kind).collapses => \A f, g \in c.seen : f.id = g.id => f = g
  BY <1>2, <1>4, <1>5, IdsTellApart DEF ScanOK, ReconciledOK
<1> QED
  BY <1>4, <1>6, <1>7, <1>8 DEF StandsOnApproval
(* The verdict; only a pass keeps what it stands on.                       *)
LEMMA JudgeStep ==
  ASSUME RegistryContext, NEW u \in Checkers, Judge(u)
  PROVE  IInv' /\ WholeStep
<1> DEFINE verdict == Verdict(kind, Evidence(u))
           seen == IF verdict = "pass" THEN checker[u].seen ELSE {}
           loaded == IF verdict = "pass" THEN checker[u].loaded ELSE NoView
           outcome == IF verdict = "pass" THEN checker[u].outcome ELSE None
           c == [NoCheck EXCEPT !.at = "done", !.verdict = verdict, !.seen = seen, !.loaded = loaded,
                                !.outcome = outcome]
<1>1. checker[u].at = "judging" /\ Step(u, c) /\ UNCHANGED fileVars
  BY DEF Judge
<1>2. verdict \in {"pass", "warn", "fail"}
  BY VerdictType DEF RegistryContext
<1>3. verdict = "pass" => StandsOnApproval(u)
  BY <1>1, PassIsSound
<1> HIDE DEF verdict
<1>4. /\ c \in CheckerType /\ c.at = "done" /\ c.findings = {} /\ c.records = {} /\ c.verdict = verdict
      /\ verdict = "pass" => /\ c.seen = checker[u].seen /\ c.loaded = checker[u].loaded
                             /\ c.outcome = checker[u].outcome
  <2>1. /\ seen \in SUBSET Findings /\ loaded \in Registries \cup {Absent, NoView}
        /\ outcome \in (UNION {ToolOutcomes(k) : k \in Kinds}) \cup {None}
    BY CheckerFacts DEF CheckerType
  <2>2. verdict = "pass" => seen = checker[u].seen /\ loaded = checker[u].loaded /\ outcome = checker[u].outcome
    OBVIOUS
  <2> HIDE DEF seen, loaded, outcome
  <2> QED
    BY <1>2, <2>1, <2>2, NoCheckFacts DEF CheckerType, CheckerSteps
<1> HIDE DEF c
<1>5. /\ FilesOK' /\ OneTempEach' /\ WholeStep /\ UNCHANGED <<disk, temps>> /\ OthersKeepTemps(u)
      /\ TempOf(u)' = TempOf(u)
  BY <1>1, CheckerFacts, FilesUntouched DEF OthersKeepTemps
<1>6. checker'[u] = c /\ UNCHANGED <<kind, approved>>
  BY <1>1, <1>4, CheckerAfter
<1>7. CheckerOK(u)' /\ HoldsOK(u)'
  BY <1>1, <1>4, <1>5, <1>6, CheckerFacts DEF CheckerOK, HoldsOK
<1>8. c.verdict = "pass" => StandsOnApproval(u)'
  <2>1. \A f : IsReviewed(f)' <=> IsReviewed(f)
    BY <1>6 DEF IsReviewed, Filled
  <2> QED
    BY <1>3, <1>4, <1>6, <2>1 DEF StandsOnApproval
<1> QED
  BY <1>1, <1>4, <1>5, <1>7, <1>8, CheckerMoves

--------------------------------------------------------------------------
(* What people do to the registry and to the tree.                         *)

LEMMA EditMoves ==
  ASSUME RegistryContext, Edit, FilesOK', OneTempEach', \A v \in Checkers : TempOf(v)' = TempOf(v),
         tree' \in InitialTrees[kind], approved \subseteq approved',
         disk'[RegistryPath] \in Registries \cup {Absent},
         \A e \in Records(disk'[RegistryPath]) : Approves(e)'
  PROVE  IInv'
<1>1. /\ CacheOK /\ RegistryOK /\ KeepersOK /\ RunsAreIdle /\ UNCHANGED cacheVars
      /\ CheckersOK /\ TempsOK /\ ApprovedOK /\ NoVerdictWithoutApproval /\ kind # CacheScene
  BY DEF RegistryContext, IInv, CacheScene, Kinds
<1>2. edits < MaxEdits /\ edits' = edits + 1 /\ UNCHANGED <<kind, checker>>
  BY DEF Edit
<1>3. CacheOK' /\ KeepersOK' /\ RunsAreIdle'
  BY <1>1 DEF cacheVars, CacheOK, KeepersOK, KeeperOK, BeyondLimits, Expired, RunsAreIdle
<1>4. RegistryOK' /\ kind' # CacheScene
  BY <1>1, <1>2, WorldsAssumption DEF RegistryOK
<1>5. CheckersOK'
  BY <1>1, <1>2 DEF CheckersOK, CheckerOK, ScanOK, LoadedOK, ReconciledOK
<1>6. TempsOK'
  BY <1>1, <1>2 DEF TempsOK, HoldsOK, ToPersist
<1>7. ApprovedOK'
  BY <1>1, <1>2 DEF ApprovedOK, Approves
<1>8. NoVerdictWithoutApproval'
  BY <1>1, <1>2, ApprovalStands DEF NoVerdictWithoutApproval
<1> QED
  BY <1>3, <1>4, <1>5, <1>6, <1>7, <1>8 DEF IInv

(* Someone puts records into the file, none of them with a field that      *)
(* nobody has filled in.                                                   *)
LEMMA PutMoves ==
  ASSUME RegistryContext, Edit, disk[RegistryPath] # Absent,
         NEW entries \in SUBSET RegistryRecords, Put(entries), tree' = tree, approved \subseteq approved',
         \A e \in entries : Approves(e)'
  PROVE  IInv' /\ WholeStep
<1>1. /\ FilesOK /\ OneTempEach /\ RegistryPath \in Paths /\ tree \in InitialTrees[kind]
      /\ \A v \in Checkers : v \in Users
  BY OneDirectory DEF RegistryContext, IInv, RegistryOK
<1>2. PICK form \in {"link", "edited"} : Place(RegistryPath, Registry(form, entries))
  BY DEF Put
<1>3. /\ Registry(form, entries) \in Registries /\ Registry(form, entries) \in Contents
      /\ Registry(form, entries) # Absent /\ Registry(form, entries).entries = entries
  BY FileMarks DEF Registry, Registries, Contents
<1>4. /\ FilesOK' /\ OneTempEach' /\ WholeStep /\ \A v \in Checkers : TempOf(v)' = TempOf(v)
      /\ disk'[RegistryPath] = Registry(form, entries)
  <2>1. /\ FilesOK' /\ OneTempEach' /\ WholeStep /\ \A v \in Users : TempOf(v)' = TempOf(v)
        /\ disk' = [disk EXCEPT ![RegistryPath] = Registry(form, entries)]
    BY <1>1, <1>2, <1>3, PlaceStep
  <2> QED
    BY <1>1, <2>1 DEF FilesOK
<1>5. Records(disk'[RegistryPath]) = entries
  BY <1>3, <1>4 DEF Records
<1> QED
  BY <1>1, <1>3, <1>4, <1>5, EditMoves

LEMMA OnDisk ==
  ASSUME RegistryContext, NEW e \in Records(disk[RegistryPath])
  PROVE  /\ disk[RegistryPath] # Absent /\ Records(disk[RegistryPath]) \in SUBSET RegistryRecords
         /\ e \in RegistryRecords
         /\ \A x \in Records(disk[RegistryPath]) : Approves(x)
<1>1. disk[RegistryPath] \in Registries \cup {Absent} /\ \A x \in Records(disk[RegistryPath]) : Approves(x)
  BY DEF RegistryContext, IInv, ApprovedOK, Approves, CacheScene, Kinds
<1> QED
  BY <1>1 DEF Records, Registries

LEMMA FillInStep ==
  ASSUME RegistryContext, NEW e \in Records(disk[RegistryPath]), FillIn(e)
  PROVE  IInv' /\ WholeStep
<1> DEFINE filled == [e EXCEPT !.filled = Full]
           entries == (Records(disk[RegistryPath]) \ {e}) \cup {filled}
<1>1. Edit /\ Put(entries) /\ approved' = approved \cup ({e.id} \X Full) /\ tree' = tree
  BY DEF FillIn
<1>2. filled \in RegistryRecords /\ filled.id = e.id /\ filled.filled = Full
  BY OnDisk DEF RegistryRecords
<1> HIDE DEF filled
<1>3. Approves(filled)'
  BY <1>1, <1>2 DEF Approves
<1>4. \A x \in Records(disk[RegistryPath]) : Approves(x)'
  BY <1>1, OnDisk DEF Approves
<1>5. entries \in SUBSET RegistryRecords /\ \A x \in entries : Approves(x)'
  BY <1>2, <1>3, <1>4, OnDisk
<1> HIDE DEF entries
<1> QED
  BY <1>1, <1>5, OnDisk, PutMoves

LEMMA DeleteRecordStep ==
  ASSUME RegistryContext, NEW e \in Records(disk[RegistryPath]), DeleteRecord(e)
  PROVE  IInv' /\ WholeStep
<1> DEFINE entries == Records(disk[RegistryPath]) \ {e}
<1>1. Edit /\ Put(entries) /\ approved' = approved /\ tree' = tree
  BY DEF DeleteRecord
<1>2. entries \in SUBSET RegistryRecords /\ \A x \in entries : Approves(x)'
  BY <1>1, OnDisk DEF Approves
<1> HIDE DEF entries
<1> QED
  BY <1>1, <1>2, OnDisk, PutMoves

LEMMA DamageRecordStep ==
  ASSUME RegistryContext, NEW e \in Records(disk[RegistryPath]), DamageRecord(e)
  PROVE  IInv' /\ WholeStep
<1> DEFINE broken == [e EXCEPT !.shape = "unknown field"]
           spoiled == (Records(disk[RegistryPath]) \ {e}) \cup {broken}
           doubled == Records(disk[RegistryPath]) \cup {Stub(e.id)}
<1>1. Edit /\ (Put(spoiled) \/ Put(doubled)) /\ approved' = approved /\ tree' = tree
  BY DEF DamageRecord
<1>2. broken \in RegistryRecords /\ broken.id = e.id /\ broken.filled = e.filled
  BY OnDisk DEF RegistryRecords
<1>3. Stub(e.id) \in RegistryRecords /\ Stub(e.id).filled = {}
  BY OnDisk DEF RegistryRecords, Stub
<1> HIDE DEF broken
<1>4. /\ Approves(broken)' /\ Approves(Stub(e.id))'
      /\ \A x \in Records(disk[RegistryPath]) : Approves(x)'
  BY <1>1, <1>2, <1>3, OnDisk DEF Approves
<1>5. /\ spoiled \in SUBSET RegistryRecords /\ doubled \in SUBSET RegistryRecords
      /\ \A x \in spoiled \cup doubled : Approves(x)'
  BY <1>2, <1>3, <1>4, OnDisk
<1> HIDE DEF spoiled, doubled
<1>6. CASE Put(spoiled)
  BY <1>1, <1>5, <1>6, OnDisk, PutMoves
<1>7. CASE Put(doubled)
  BY <1>1, <1>5, <1>7, OnDisk, PutMoves
<1> QED
  BY <1>1, <1>6, <1>7

LEMMA ChangeTreeStep ==
  ASSUME RegistryContext, ChangeTree
  PROVE  IInv' /\ WholeStep
<1>1. Edit /\ UNCHANGED fileVars /\ approved' = approved /\ tree' \in InitialTrees[kind]
  BY DEF ChangeTree, Edit
<1>2. /\ FilesOK' /\ OneTempEach' /\ WholeStep /\ UNCHANGED disk /\ \A v \in Checkers : TempOf(v)' = TempOf(v)
  <2>1. FilesOK /\ OneTempEach /\ \A v \in Checkers : v \in Users
    BY OneDirectory DEF RegistryContext, IInv
  <2> QED
    BY <1>1, <2>1, FilesUntouched
<1>3. /\ disk[RegistryPath] \in Registries \cup {Absent} /\ \A e \in Records(disk[RegistryPath]) : Approves(e)
  BY DEF RegistryContext, IInv, ApprovedOK, Approves, CacheScene, Kinds
<1>4. \A e \in Records(disk'[RegistryPath]) : Approves(e)'
  BY <1>1, <1>2, <1>3 DEF Approves
<1> QED
  BY <1>1, <1>2, <1>3, <1>4, EditMoves

LEMMA RegistryStep ==
  ASSUME RegistryContext, RegistryNext
  PROVE  IInv' /\ WholeStep
<1>1. ASSUME NEW u \in Checkers,
             \/ Scan(u) \/ Load(u) \/ ReconcileRecords(u) \/ ProbeLink(u) \/ Compare(u)
             \/ OpenRegistry(u) \/ FillRegistry(u) \/ RenameRegistry(u) \/ Judge(u) \/ KillChecker(u)
      PROVE  IInv' /\ WholeStep
  BY <1>1, ScanStep, LoadStep, ReconcileRecordsStep, ProbeLinkStep, CompareStep, OpenRegistryStep, FillRegistryStep,
     RenameRegistryStep, JudgeStep, KillCheckerStep
<1>2. ASSUME NEW e \in Records(disk[RegistryPath]), FillIn(e) \/ DeleteRecord(e) \/ DamageRecord(e)
      PROVE  IInv' /\ WholeStep
  BY <1>2, FillInStep, DeleteRecordStep, DamageRecordStep
<1> QED
  BY <1>1, <1>2, ChangeTreeStep DEF RegistryNext
--------------------------------------------------------------------------
(* The whole directory.                                                    *)

LEMMA InitIInv == Init => IInv
<1> SUFFICES ASSUME Init
             PROVE  IInv
  OBVIOUS
<1>1. /\ temps = {} /\ got = [u \in Users |-> NoView] /\ now = 0 /\ run = [u \in Runs |-> NoRun]
      /\ keeper = [k \in Keepers |-> NotTidying] /\ kind \in Kinds \cup {CacheScene}
  BY DEF Init, CacheInit
<1>2. CacheOK
  <2>1. NoRun \in RunType
    BY WorldsAssumption DEF NoRun, RunType, RunSteps
  <2> QED
    BY <1>1, <2>1, NotTidyingType, WorldsAssumption DEF CacheOK
<1>3. KeepersOK
  <2>1. \A k \in Keepers : keeper[k].at = "idle"
    BY <1>1, NotTidyingType
  <2> QED
    BY <2>1 DEF KeepersOK, KeeperOK
<1>4. checker = [u \in Checkers |-> NoCheck] /\ edits = 0
  BY DEF Init, RegistryInit
<1>5. RegistryOK
  BY <1>1, <1>4, NoCheckFacts, WorldsAssumption DEF RegistryOK, Init, RegistryInit, CacheScene, Kinds
<1>6. CASE kind = CacheScene
  <2>1. PICK entries \in InitialEntries :
          disk = [path \in Paths |-> IF path \in DOMAIN entries THEN entries[path] ELSE Absent]
    BY <1>6 DEF Init
  <2>2. FilesOK /\ OneTempEach
    BY <1>1, <2>1, WorldsAssumption DEF FilesOK, OneTempEach
  <2>3. RunsOK
    <3> SUFFICES ASSUME NEW u \in Runs
                 PROVE  RunOK(u)
      BY DEF RunsOK
    <3>1. run[u].at = "idle" /\ got[u] = NoView /\ TempOf(u) = {}
      BY <1>1, OneDirectory DEF NoRun, TempOf
    <3> QED
      BY <3>1 DEF RunOK
  <2> QED
    BY <1>2, <1>3, <1>4, <1>5, <1>6, <2>2, <2>3 DEF IInv
<1>7. CASE kind # CacheScene
  <2>1. PICK file \in InitialFiles[kind] : disk = [path \in Paths |-> IF path = RegistryPath THEN file ELSE Absent]
    BY <1>7 DEF Init
  <2>2. kind \in Kinds /\ file \in Registries \cup {Absent} /\ disk[RegistryPath] = file
    BY <1>1, <1>7, <2>1, TreesAssumption, OneDirectory
  <2>3. FilesOK /\ OneTempEach
    BY <1>1, <2>1, <2>2 DEF FilesOK, OneTempEach, Contents
  <2>4. \A u \in Checkers : checker[u] = NoCheck /\ TempOf(u) = {}
    BY <1>1, <1>4 DEF TempOf
  <2>5. CheckersOK /\ TempsOK
    BY <2>4, NoCheckFacts DEF CheckersOK, CheckerOK, TempsOK, HoldsOK
  <2>6. ApprovedOK
    <3>1. approved = UNION {{e.id} \X e.filled : e \in Records(disk[RegistryPath])}
      BY <1>7 DEF Init, RegistryInit
    <3>2. \A e \in Records(disk[RegistryPath]) : {e.id} \X e.filled \subseteq approved
      BY <3>1
    <3> QED
      BY <2>2, <2>4, <3>2, NoCheckFacts DEF ApprovedOK
  <2>7. NoVerdictWithoutApproval
    BY <2>4, NoCheckFacts, FileMarks DEF NoVerdictWithoutApproval
  <2> QED
    BY <1>1, <1>2, <1>3, <1>5, <1>7, <2>3, <2>5, <2>6, <2>7 DEF IInv, RunsAreIdle
<1> QED
  BY <1>6, <1>7

LEMMA NextIInv ==
  ASSUME IInv, Next
  PROVE  IInv' /\ WholeStep
<1>1. CASE kind = CacheScene /\ CacheNext /\ UNCHANGED registryVars
  BY <1>1, CacheStep DEF CacheContext
<1>2. CASE kind \in Kinds /\ RegistryNext /\ UNCHANGED cacheVars
  BY <1>2, RegistryStep DEF RegistryContext
<1> QED
  BY <1>1, <1>2 DEF Next

LEMMA Stuttering ==
  ASSUME IInv, UNCHANGED vars
  PROVE  IInv'
<1>1. UNCHANGED <<disk, temps, got, now, run, keeper, kind, tree, checker, approved, edits>>
  BY DEF vars, fileVars, cacheVars, registryVars
<1>2. FilesOK' /\ OneTempEach' /\ CacheOK' /\ RegistryOK'
  BY <1>1 DEF IInv, FilesOK, OneTempEach, CacheOK, RegistryOK
<1>3. KeepersOK'
  BY <1>1 DEF IInv, KeepersOK, KeeperOK, BeyondLimits, Expired
<1>4. CASE kind = CacheScene
  <2>1. RunsOK'
    BY <1>1, <1>4 DEF IInv, RunsOK, RunOK, TempOf, ModeOf
  <2> QED
    BY <1>1, <1>2, <1>3, <1>4, <2>1 DEF IInv
<1>5. CASE kind # CacheScene
  <2>1. RunsAreIdle' /\ ApprovedOK'
    BY <1>1, <1>5 DEF IInv, RunsAreIdle, ApprovedOK
  <2>2. CheckersOK'
    BY <1>1, <1>5 DEF IInv, CheckersOK, CheckerOK, ScanOK, LoadedOK, ReconciledOK
  <2>3. TempsOK'
    BY <1>1, <1>5 DEF IInv, TempsOK, HoldsOK, TempOf, ToPersist
  <2>4. NoVerdictWithoutApproval'
    <3>1. NoVerdictWithoutApproval
      BY <1>5 DEF IInv
    <3> QED
      BY <1>1, <3>1, ApprovalStands DEF NoVerdictWithoutApproval
  <2> QED
    BY <1>1, <1>2, <1>3, <1>5, <2>1, <2>2, <2>3, <2>4 DEF IInv
<1> QED
  BY <1>4, <1>5

(* Every user and every file is where the code can have brought it.        *)
THEOREM Inductive == Spec => []IInv
<1>1. IInv /\ [Next]_vars => IInv'
  BY NextIInv, Stuttering
<1> QED
  BY InitIInv, <1>1, PTL DEF Spec

(* Every variable has its type, and no target ever holds a partial content *)
(* (file-cache-store.ts and write-exception-registry.ts).                  *)
THEOREM TypeCorrect == Spec => []TypeOK
<1>1. IInv => TypeOK
  <2> SUFFICES ASSUME IInv
               PROVE  TypeOK
    OBVIOUS
  <2>1. FilesOK /\ OneTempEach /\ CacheOK /\ RegistryOK
    BY DEF IInv
  <2>2. \A u \in Runs : run[u].world \in Worlds \cup {NoWorld} /\ run[u].value \in Worlds \cup {NoWorld}
    BY <2>1 DEF CacheOK, RunType
  <2>3. \A k \in Keepers : keeper[k].todo \subseteq Paths /\ DOMAIN keeper[k].read \subseteq Paths
    BY <2>1 DEF CacheOK, KeeperType
  <2>4. \A u \in Checkers : checker[u].verdict \in {None, "pass", "warn", "fail"} /\ checker[u].findings \subseteq checker[u].seen
    <3> SUFFICES ASSUME NEW u \in Checkers
                 PROVE  checker[u].verdict \in {None, "pass", "warn", "fail"} /\ checker[u].findings \subseteq checker[u].seen
      OBVIOUS
    <3>1. checker[u].verdict \in {None, "pass", "warn", "fail"}
      BY <2>1 DEF RegistryOK, CheckerType
    <3>2. CASE checker[u].at \in {"idle", "done"}
      <4>1. checker[u].findings = {}
        BY <3>2, NoCheckFacts DEF IInv, CheckersOK, CheckerOK
      <4> QED
        BY <3>1, <4>1
    <3>3. CASE checker[u].at \notin {"idle", "done"}
      <4>1. ScanOK(u)
        BY <3>3, NoCheckFacts DEF IInv, CheckersOK, CheckerOK
      <4> QED
        BY <3>1, <4>1 DEF ScanOK, Scanned
    <3> QED
      BY <3>2, <3>3
  <2> QED
    BY <2>1, <2>2, <2>3, <2>4 DEF TypeOK, FilesOK, OneTempEach, CacheOK, RegistryOK
<1> QED
  BY Inductive, <1>1, PTL

(* A release, or a run that is to be full, is a usage error or has no      *)
(* cache, and does not stop early.                                         *)
LEMMA ReleasesAreFull ==
  ASSUME NEW args, NEW env, IsRelease(env) \/ env.ciFull = "true"
  PROVE  CacheMode(args, env) \in {Invalid, "off"} /\ ~ResolveFailFast(args, env)
<1>1. ResolveScope(ParsedScope(args), env) = "full"
  BY DEF ResolveScope
<1> QED
  BY <1>1 DEF CacheMode, ResolveCacheMode, ResolveFailFast, IsTruthy

(* A run that ends in a value ends in that of its own inputs and tools,    *)
(* whatever the cache held (cache.ts); releases do not use it (scope.ts).  *)
THEOREM GenuineHits == Spec => []HitsAreGenuine
<1>1. IInv => HitsAreGenuine
  <2> SUFFICES ASSUME IInv, NEW u \in Runs
               PROVE  /\ run[u].at = "done" => run[u].value = run[u].world
                      /\ run[u].at \notin {"idle", "failed"} /\ (IsRelease(run[u].call.env) \/ run[u].call.env.ciFull = "true") =>
                          got[u] = NoView /\ TempOf(u) = {} /\ ~ResolveFailFast(run[u].call.args, run[u].call.env)
    BY DEF HitsAreGenuine
  <2>1. CASE kind = CacheScene
    <3>1. RunOK(u)
      BY <2>1 DEF IInv, RunsOK
    <3>2. run[u].at = "done" => run[u].value = run[u].world
      BY <3>1 DEF RunOK
    <3>3. ASSUME run[u].at \notin {"idle", "failed"}, IsRelease(run[u].call.env) \/ run[u].call.env.ciFull = "true"
          PROVE  got[u] = NoView /\ TempOf(u) = {} /\ ~ResolveFailFast(run[u].call.args, run[u].call.env)
      BY <3>1, <3>3, ReleasesAreFull DEF RunOK, ModeOf
    <3> QED
      BY <3>2, <3>3
  <2>2. CASE kind # CacheScene
    <3>1. run[u].at = "idle"
      BY <2>2 DEF IInv, RunsAreIdle, NoRun
    <3> QED
      BY <3>1
  <2> QED
    BY <2>1, <2>2
<1> QED
  BY Inductive, <1>1, PTL

(* A check passes only on what a finished tool found in the tree and what  *)
(* somebody has written about it (the eight checks' policies).             *)
THEOREM ApprovedVerdicts == Spec => []NoVerdictWithoutApproval
<1>1. IInv => NoVerdictWithoutApproval
  <2>1. ASSUME IInv, kind = CacheScene
        PROVE  NoVerdictWithoutApproval
    BY <2>1, NoCheckFacts, FileMarks DEF IInv, NoVerdictWithoutApproval
  <2> QED
    BY <2>1 DEF IInv
<1> QED
  BY Inductive, <1>1, PTL

(* The directory is one of whole contents: every step of its users         *)
(* replaces one content, looks at one, or does neither.                    *)
THEOREM Refinement == Spec => ImplementsAtomicFiles
<1>1. Init => Whole!Init
  <2> SUFFICES ASSUME Init
               PROVE  Whole!Init
    OBVIOUS
  <2>1. FilesOK /\ got = [u \in Users |-> NoView]
    BY InitIInv DEF IInv, Init
  <2> QED
    BY <2>1 DEF FilesOK, Whole!Init, Whole!MayHold
<1>2. IInv /\ [Next]_vars => [Whole!Next]_<<disk, got>>
  <2>1. ASSUME IInv, Next
        PROVE  [Whole!Next]_<<disk, got>>
    BY <2>1, NextIInv DEF WholeStep
  <2>2. ASSUME UNCHANGED vars
        PROVE  [Whole!Next]_<<disk, got>>
    BY <2>2 DEF vars, fileVars
  <2> QED
    BY <2>1, <2>2
<1> QED
  BY Inductive, <1>1, <1>2, PTL DEF Spec, ImplementsAtomicFiles, Whole!Spec
--------------------------------------------------------------------------
(* What is lost.                                                           *)

(* Only a check's own rename takes it from there to its verdict.           *)
LEMMA OwnRename ==
  ASSUME RegistryContext, RegistryNext, NEW u \in Checkers, checker[u].at = "renaming", checker'[u].at = "judging"
  PROVE  RenameRegistry(u)
<1>1. checker \in [Checkers -> CheckerType]
  BY DEF RegistryContext, IInv, RegistryOK
<1>2. ASSUME NEW v \in Checkers, NEW c, checker' = [checker EXCEPT ![v] = c]
      PROVE  v = u /\ c.at = "judging"
  BY <1>1, <1>2
<1>3. ASSUME NEW v \in Checkers,
             \/ Scan(v) \/ Load(v) \/ ReconcileRecords(v) \/ ProbeLink(v) \/ Compare(v)
             \/ OpenRegistry(v) \/ FillRegistry(v) \/ Judge(v)
      PROVE  FALSE
  <2>1. checker[v].at # "renaming"
    BY <1>3 DEF Scan, Load, ReconcileRecords, ProbeLink, Compare, OpenRegistry, FillRegistry, Judge
  <2>2. PICK c : checker' = [checker EXCEPT ![v] = c]
    <3>1. \A c : Step(v, c) => checker' = [checker EXCEPT ![v] = c]
      BY DEF Step
    <3>2. (\E at : MoveTo(v, at)) \/ Fails(v) => \E c : Step(v, c)
      BY DEF MoveTo, Fails
    <3>3. \/ \E c : Step(v, c)
          \/ \E c : checker' = [checker EXCEPT ![v] = c]
      <4>1. CASE Scan(v)
        BY <4>1 DEF Scan
      <4>2. CASE Load(v)
        BY <3>2, <4>2 DEF Load
      <4>3. CASE ReconcileRecords(v)
        BY <3>2, <4>3 DEF ReconcileRecords
      <4>4. CASE ProbeLink(v) \/ Compare(v)
        BY <3>2, <4>4 DEF ProbeLink, Compare
      <4>5. CASE OpenRegistry(v) \/ FillRegistry(v)
        BY <3>2, <4>5 DEF OpenRegistry, FillRegistry
      <4>6. CASE Judge(v)
        BY <4>6 DEF Judge
      <4> QED
        BY <1>3, <4>1, <4>2, <4>3, <4>4, <4>5, <4>6
    <3> QED
      BY <3>1, <3>3
  <2> QED
    BY <1>2, <2>1, <2>2
<1>4. ASSUME NEW v \in Checkers, KillChecker(v)
      PROVE  FALSE
  <2> DEFINE c == [NoCheck EXCEPT !.at = "done"]
  <2>1. c.at = "done"
    BY NoCheckFacts DEF CheckerType
  <2>2. checker' = [checker EXCEPT ![v] = c]
    BY <1>4 DEF KillChecker, Step
  <2> HIDE DEF c
  <2> QED
    BY <1>2, <2>1, <2>2
<1>5. ASSUME NEW v \in Checkers, RenameRegistry(v)
      PROVE  v = u
  <2>1. PICK c : checker' = [checker EXCEPT ![v] = c]
    BY <1>5 DEF RenameRegistry, MoveTo, Fails, Step
  <2> QED
    BY <1>2, <2>1
<1>6. ASSUME ChangeTree \/ (\E e \in Records(disk[RegistryPath]) : FillIn(e) \/ DeleteRecord(e) \/ DamageRecord(e))
      PROVE  FALSE
  BY <1>6 DEF ChangeTree, FillIn, DeleteRecord, DamageRecord, Edit
<1> QED
  BY <1>3, <1>4, <1>5, <1>6 DEF RegistryNext

(* What is persisted has all of what was loaded.                           *)
LEMMA PersistsLoaded ==
  ASSUME NEW u \in Checkers, ReconciledOK(u), ToPersist(u) # Absent
  PROVE  Records(checker[u].loaded) \subseteq Records(ToPersist(u))
<1>1. Records(checker[u].loaded) \subseteq checker[u].records
  BY DEF ReconciledOK, Reconcile
<1>2. Records(checker[u].loaded) \subseteq ToPersist(u).entries
  BY <1>1 DEF ToPersist, Registry
<1> QED
  BY <1>2 DEF Records

(* Nothing is lost but to a race: what prune removes was beyond the limits *)
(* as it read it (file-cache-store.ts), and a registry that nobody touched *)
(* keeps every record (reconcile-exceptions.ts).                           *)
THEOREM OnlyRaces == Spec => OnlyRacesLose
<1>1. IInv => PruneLosesNothing
  BY DEF IInv, KeepersOK, KeeperOK, PruneLosesNothing
<1>2. IInv /\ Next => RewriteLosesNothing
  <2> SUFFICES ASSUME IInv, Next, NEW u \in Checkers, checker[u].at = "renaming", checker'[u].at = "judging",
                      ~checker'[u].registryError, disk[RegistryPath] = checker[u].loaded
               PROVE  Records(disk[RegistryPath]) \subseteq Records(disk'[RegistryPath])
    BY DEF RewriteLosesNothing
  <2>1. RegistryContext /\ RegistryNext
    <3>1. kind # CacheScene
      BY NoCheckFacts DEF IInv
    <3> QED
      BY <3>1 DEF Next, RegistryContext
  <2>2. RenameRegistry(u)
    BY <2>1, OwnRename
  <2>3. ~ Fails(u)
    <3> SUFFICES ASSUME Fails(u)
                 PROVE  checker'[u].registryError
      OBVIOUS
    <3>1. checker[u] \in CheckerType /\ checker \in [Checkers -> CheckerType]
      BY <2>1, CheckerFacts DEF RegistryOK
    <3> QED
      BY <3>1 DEF Fails, Step, CheckerType
  <2>4. Rename(u)
    BY <2>2, <2>3 DEF RenameRegistry
  <2>5. disk'[RegistryPath] = disk[RegistryPath] \/ disk'[RegistryPath] = ToPersist(u)
    <3>1. \A t \in TempOf(u) : t.content = ToPersist(u) /\ t.content # Partial
      BY <2>1, CheckerFacts, PersistType, FileMarks DEF HoldsOK
    <3> QED
      BY <2>1, <2>4, <3>1, CheckerFacts, RenameStep
  <2>6. Records(disk[RegistryPath]) \subseteq Records(ToPersist(u))
    <3>1. ReconciledOK(u) /\ ToPersist(u) # Absent
      BY <2>1, CheckerFacts, PersistType DEF CheckerOK
    <3> QED
      BY <3>1, PersistsLoaded
  <2> QED
    BY <2>5, <2>6
<1>3. IInv /\ [Next]_vars => [PruneLosesNothing /\ RewriteLosesNothing]_vars
  BY <1>1, <1>2
<1> QED
  BY Inductive, <1>3, PTL DEF Spec, OnlyRacesLose

=============================================================================
