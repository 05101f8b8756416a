------------------------- MODULE AffectedRun_proofs -------------------------
(***************************************************************************)
(* The affected analysis and the sharding of its targets are correct for   *)
(* every repository: the worklist ends with every fact at its shortest     *)
(* distance, the chains of causes lead from each test to the change, no    *)
(* shard is lost in a merge, and a narrow result leaves out nothing that a *)
(* change reaches but where the analysis is shown not to follow it.        *)
(***************************************************************************)
EXTENDS AffectedRun, FiniteSetTheorems, TLAPS

Entries == [hops : Nat, cause : Event \cup Origin]
Items == [event : Event, hops : Nat]
Batches == (SUBSET Items) \ {{}}
Queued(q, w) == \E i \in DOMAIN q : w \in q[i]

\* Where a chain of causes may end.
Rooted(o) ==
    /\ o \in Origin
    /\ \/ o.kind = "changed" /\ \E c \in call.changed : o.file \in PathsOf(c)
       \/ o.kind = "opaque" /\ o.file \in OpaqueFiles

\* The types of the graph's variables, in full.
GraphTypes ==
    /\ call \in Input
    /\ pass \in {"idle", "seeded", "widened", "done"}
    /\ known \in [DOMAIN known -> Entries] /\ DOMAIN known \subseteq Event
    /\ work \in Seq(Batches)
    /\ reached \in [DOMAIN reached -> Entries] /\ DOMAIN reached \subseteq Files

\* A fact is as far as the one it was found by puts it, or further: the other
\* may have come nearer since.
FoundBy(e, led) ==
    /\ led \in DOMAIN known
    /\ \/ e \in Within(led) /\ known[led].hops <= known[e].hops
       \/ e \in Across(led) /\ known[led].hops + 1 <= known[e].hops

KnownOK == \A e \in DOMAIN known : Rooted(known[e].cause) \/ FoundBy(e, known[e].cause)

\* An item is queued at the distance at which its fact was once known.
WorkOK == \A w : Queued(work, w) => w.event \in DOMAIN known /\ known[w.event].hops <= w.hops

ReachedBy(f, led) ==
    /\ led \in DOMAIN known /\ known[led].hops + 1 <= reached[f].hops
    /\ \E g \in Across(led) : g.file = f

ReachedOK == \A f \in DOMAIN reached : Rooted(reached[f].cause) \/ ReachedBy(f, reached[f].cause)

\* The facts at one distance can be put in the order in which they got there,
\* and a cause got there before what it led to.
RankOK ==
    \E rank \in [DOMAIN known -> Nat], bound \in Nat :
        \A e \in DOMAIN known :
            /\ rank[e] < bound
            /\ known[e].cause \in DOMAIN known /\ known[known[e].cause].hops = known[e].hops =>
                  rank[known[e].cause] < rank[e]

\* What follows from e has been found.
Closed(e) ==
    /\ \A g \in Within(e) : IsKnown(g, known[e].hops)
    /\ \A g \in Across(e) : IsKnown(g, known[e].hops + 1) /\ IsReached(g.file, known[e].hops + 1)

ClosedOK ==
    \A e \in DOMAIN known : Queued(work, [event |-> e, hops |-> known[e].hops]) \/ Closed(e)

Seeded == \A m \in ChangedModules : \A e \in SeedFacts(m) : IsKnown(e, 0)
Widened == \A f \in OpaqueSources : IsKnown(AllFact(f), 1)

SpreadOK == KnownOK /\ WorkOK /\ ReachedOK /\ RankOK /\ ClosedOK

--------------------------------------------------------------------------
(* What the handlers may offer.                                            *)

LEMMA EmptyTyped == EmptyModule \in Module
BY DEF EmptyModule, Module

LEMMA CallTyped ==
  ASSUME call \in Input
  PROVE  /\ call.repo \in Repos /\ call.supplied \subseteq Files /\ call.baseSupplied \subseteq Files
         /\ call.changed \subseteq Change
         /\ call.repo.tree \in [Files -> Module] /\ call.repo.base \in [Files -> Module]
<1>1. call.repo \in Repos /\ call.supplied \subseteq Files /\ call.baseSupplied \subseteq Files
      /\ call.changed \subseteq Change
  BY DEF Input
<1>2. {call.repo.tree, call.repo.base} \subseteq [Files -> Module]
  BY <1>1, ReposAssumption
<1> QED
  BY <1>1, <1>2

LEMMA InfoTyped ==
  ASSUME call \in Input
  PROVE  \A f : Info(f) \in Module
BY CallTyped, EmptyTyped DEF Info

LEMMA Fields ==
  ASSUME NEW m \in Module
  PROVE  /\ \A d \in m.decls : d.name \in Names
         /\ \A r \in m.refs : r.name \in Names
         /\ \A x \in m.exports : x.as \in Names
         /\ \A b \in m.bindings : b.local \in Names
BY DEF Module

LEMMA FactsTyped ==
  ASSUME NEW f \in Files, NEW n \in Names \cup {None}
  PROVE  {LocalFact(f, n), ExportFact(f, n), AllFact(f), AnyFact(f)} \subseteq Event
BY DEF LocalFact, ExportFact, AllFact, AnyFact, Event

LEMMA EdgesTyped ==
  ASSUME call \in Input, NEW f, NEW n
  PROVE  /\ BindEdges(f, n) \subseteq Event /\ NsEdges(f) \subseteq Event /\ StarEdges(f) \subseteq Files
         /\ \A g \in BindEdges(f, n) : g.kind \in {"local", "export"}
         /\ \A g \in NsEdges(f) : g.kind # "any"
<1>1. call.supplied \subseteq Files
  BY CallTyped
<1>2. ASSUME NEW g \in BindEdges(f, n)
      PROVE  g \in Event /\ g.kind \in {"local", "export"}
  <2>1. PICK h \in call.supplied :
          \/ \E b \in Info(h).bindings : g = LocalFact(h, b.local)
          \/ \E x \in Info(h).exports : g = ExportFact(h, x.as)
    BY <1>2 DEF BindEdges
  <2>2. h \in Files /\ Info(h) \in Module
    BY <1>1, InfoTyped
  <2>3. CASE \E b \in Info(h).bindings : g = LocalFact(h, b.local)
    <3>1. PICK b \in Info(h).bindings : g = LocalFact(h, b.local)
      BY <2>3
    <3>2. b.local \in Names
      BY <2>2, Fields
    <3> QED
      BY <2>2, <3>1, <3>2, FactsTyped DEF LocalFact
  <2>4. CASE \E x \in Info(h).exports : g = ExportFact(h, x.as)
    <3>1. PICK x \in Info(h).exports : g = ExportFact(h, x.as)
      BY <2>4
    <3>2. x.as \in Names
      BY <2>2, Fields
    <3> QED
      BY <2>2, <3>1, <3>2, FactsTyped DEF ExportFact
  <2> QED
    BY <2>1, <2>3, <2>4
<1>3. ASSUME NEW g \in NsEdges(f)
      PROVE  g \in Event /\ g.kind # "any"
  <2>1. PICK h \in call.supplied :
          \/ \E b \in Info(h).bindings : g = LocalFact(h, b.local)
          \/ \E x \in Info(h).exports : g = ExportFact(h, x.as)
          \/ g = AllFact(h)
    BY <1>3 DEF NsEdges
  <2>2. h \in Files /\ Info(h) \in Module
    BY <1>1, InfoTyped
  <2>3. CASE \E b \in Info(h).bindings : g = LocalFact(h, b.local)
    <3>1. PICK b \in Info(h).bindings : g = LocalFact(h, b.local)
      BY <2>3
    <3>2. b.local \in Names
      BY <2>2, Fields
    <3> QED
      BY <2>2, <3>1, <3>2, FactsTyped DEF LocalFact
  <2>4. CASE \E x \in Info(h).exports : g = ExportFact(h, x.as)
    <3>1. PICK x \in Info(h).exports : g = ExportFact(h, x.as)
      BY <2>4
    <3>2. x.as \in Names
      BY <2>2, Fields
    <3> QED
      BY <2>2, <3>1, <3>2, FactsTyped DEF ExportFact
  <2>5. CASE g = AllFact(h)
    BY <2>2, <2>5, FactsTyped DEF AllFact
  <2> QED
    BY <2>1, <2>3, <2>4, <2>5
<1>4. StarEdges(f) \subseteq Files
  BY <1>1 DEF StarEdges
<1> QED
  BY <1>2, <1>3, <1>4

LEMMA WithinTyped ==
  ASSUME call \in Input, NEW e \in Event
  PROVE  Within(e) \subseteq Event /\ (e.kind = "export" => Within(e) = {AnyFact(e.file)})
         /\ (e.kind = "any" => Within(e) = {})
<1>1. e.kind \in {"local", "export", "all", "any"} /\ e.file \in Files /\ e.name \in Names \cup {None}
  BY DEF Event
<1>2. Info(e.file) \in Module
  BY InfoTyped
<1>3. CASE e.kind = "local"
  <2>1. Within(e) = OnLocal(e.file, e.name)
    BY <1>3 DEF Within
  <2>2. ASSUME NEW g \in OnLocal(e.file, e.name)
        PROVE  g \in Event
    <3>1. \/ \E r \in Info(e.file).refs : g = LocalFact(e.file, r.name)
          \/ g = AllFact(e.file)
          \/ \E x \in Info(e.file).exports : g = ExportFact(e.file, x.as)
      BY <2>2 DEF OnLocal
    <3> QED
      BY <1>1, <1>2, <3>1, Fields, FactsTyped
  <2> QED
    BY <1>3, <2>1, <2>2
<1>4. CASE e.kind = "export"
  <2>1. Within(e) = {AnyFact(e.file)}
    BY <1>4 DEF Within
  <2> QED
    BY <1>1, <1>4, <2>1, FactsTyped
<1>5. CASE e.kind = "all"
  <2>1. Within(e) = {ExportFact(e.file, x.as) : x \in Info(e.file).exports} \cup {AnyFact(e.file)}
    BY <1>5 DEF Within
  <2> QED
    BY <1>1, <1>2, <1>5, <2>1, Fields, FactsTyped
<1>6. CASE e.kind = "any"
  BY <1>6 DEF Within
<1> QED
  BY <1>1, <1>3, <1>4, <1>5, <1>6

LEMMA AcrossTyped ==
  ASSUME call \in Input, NEW e \in Event
  PROVE  /\ Across(e) \subseteq Event /\ \A g \in Across(e) : g.kind # "any"
         /\ e.kind \in {"local", "all"} => Across(e) = {}
<1>1. e.kind \in {"local", "export", "all", "any"} /\ e.file \in Files /\ e.name \in Names \cup {None}
  BY DEF Event
<1>2. CASE e.kind = "export"
  <2>1. Across(e) = ExportFollows(e.file, e.name)
    BY <1>2 DEF Across
  <2>2. ASSUME NEW g \in ExportFollows(e.file, e.name)
        PROVE  g \in Event /\ g.kind # "any"
    <3>1. g \in BindEdges(e.file, e.name) \/ \E h \in StarEdges(e.file) : g = ExportFact(h, e.name)
      BY <2>2 DEF ExportFollows
    <3>2. CASE g \in BindEdges(e.file, e.name)
      BY <3>2, EdgesTyped
    <3>3. CASE \E h \in StarEdges(e.file) : g = ExportFact(h, e.name)
      BY <1>1, <3>3, EdgesTyped, FactsTyped DEF ExportFact
    <3> QED
      BY <3>1, <3>2, <3>3
  <2> QED
    BY <1>2, <2>1, <2>2
<1>3. CASE e.kind = "any"
  <2>1. Across(e) = NsEdges(e.file)
    BY <1>3 DEF Across
  <2> QED
    BY <1>3, <2>1, EdgesTyped
<1>4. CASE e.kind \in {"local", "all"}
  BY <1>4 DEF Across
<1> QED
  BY <1>1, <1>2, <1>3, <1>4

\* A handler offers a fact once, at one distance.
LEMMA NotBoth ==
  ASSUME call \in Input, NEW e \in Event
  PROVE  Within(e) \cap Across(e) = {}
<1>1. e.kind \in {"local", "export", "all", "any"}
  BY DEF Event
<1> QED
  BY <1>1, WithinTyped, AcrossTyped DEF AnyFact

--------------------------------------------------------------------------
(* The queue.                                                              *)

LEMMA AppendQueues ==
  ASSUME NEW q \in Seq(Batches), NEW batch \in Batches
  PROVE  /\ Append(q, batch) \in Seq(Batches)
         /\ \A w : Queued(Append(q, batch), w) <=> Queued(q, w) \/ w \in batch
<1> DEFINE s == Append(q, batch)
<1>1. /\ s \in Seq(Batches) /\ Len(q) \in Nat /\ DOMAIN q = 1..Len(q) /\ DOMAIN s = 1..(Len(q) + 1)
      /\ s[Len(q) + 1] = batch /\ \A i \in 1..Len(q) : s[i] = q[i]
  OBVIOUS
<1> HIDE DEF s
<1>2. ASSUME NEW w PROVE Queued(s, w) <=> Queued(q, w) \/ w \in batch
  <2>1. ASSUME NEW i \in DOMAIN s, w \in s[i] PROVE Queued(q, w) \/ w \in batch
    BY <1>1, <2>1 DEF Queued
  <2>2. ASSUME NEW i \in DOMAIN q, w \in q[i] PROVE Queued(s, w)
    BY <1>1, <2>2 DEF Queued
  <2>3. w \in batch => Queued(s, w)
    BY <1>1 DEF Queued
  <2> QED
    BY <2>1, <2>2, <2>3 DEF Queued
<1> QED
  BY <1>1, <1>2 DEF s

\* Taking an item off the queue leaves every other one.
LEMMA RestQueues ==
  ASSUME work \in Seq(Batches), work # <<>>, NEW item \in Head(work)
  PROVE  /\ Rest(item) \in Seq(Batches) /\ item \in Items /\ Queued(work, item)
         /\ \A w : Queued(Rest(item), w) => Queued(work, w)
         /\ \A w : Queued(work, w) /\ w # item => Queued(Rest(item), w)
<1>1. /\ Len(work) \in Nat /\ DOMAIN work = 1..Len(work) /\ Len(work) # 0 /\ Head(work) = work[1]
      /\ \A i \in 1..Len(work) : work[i] \in Batches
  OBVIOUS
<1>2. /\ Tail(work) \in Seq(Batches) /\ Len(Tail(work)) = Len(work) - 1
      /\ DOMAIN Tail(work) = 1..(Len(work) - 1) /\ \A i \in 1..(Len(work) - 1) : Tail(work)[i] = work[i + 1]
  BY <1>1
<1>3. item \in Items /\ Queued(work, item)
  BY <1>1 DEF Queued, Batches
<1> DEFINE t == Tail(work)
<1> HIDE DEF t
<1>4. \A w : Queued(t, w) => Queued(work, w)
  <2> SUFFICES ASSUME NEW w, NEW i \in DOMAIN t, w \in t[i] PROVE Queued(work, w)
    BY DEF Queued
  <2>1. i + 1 \in DOMAIN work /\ w \in work[i + 1]
    BY <1>1, <1>2 DEF t
  <2> QED
    BY <2>1 DEF Queued
<1>5. \A w : Queued(work, w) => w \in Head(work) \/ Queued(t, w)
  <2> SUFFICES ASSUME NEW w, NEW i \in DOMAIN work, w \in work[i] PROVE w \in Head(work) \/ Queued(t, w)
    BY DEF Queued
  <2>1. CASE i = 1
    BY <1>1, <2>1
  <2>2. CASE i # 1
    <3>1. i - 1 \in 1..(Len(work) - 1) /\ t[i - 1] = work[(i - 1) + 1] /\ (i - 1) + 1 = i
      BY <1>1, <1>2, <2>2 DEF t
    <3> QED
      BY <1>2, <3>1 DEF Queued, t
  <2> QED
    BY <2>1, <2>2
<1>6. CASE Head(work) = {item}
  <2>1. Rest(item) = t
    BY <1>6 DEF Rest, t
  <2> QED
    BY <1>2, <1>3, <1>4, <1>5, <1>6, <2>1 DEF t
<1>7. CASE Head(work) # {item}
  <2> DEFINE head == Head(work) \ {item}
             r == <<head>> \o t
  <2>1. head \in Batches /\ t \in Seq(Batches) /\ Rest(item) = r
    BY <1>1, <1>2, <1>7 DEF Rest, t, Batches
  <2>2. /\ r \in Seq(Batches) /\ Len(t) \in Nat /\ DOMAIN t = 1..Len(t) /\ DOMAIN r = 1..(Len(t) + 1)
        /\ r[1] = head /\ \A i \in 1..Len(t) : r[i + 1] = t[i]
    <3> HIDE DEF head
    <3> QED
      BY <2>1
  <2> HIDE DEF r
  <2>3. \A w : Queued(r, w) => w \in head \/ Queued(t, w)
    <3> SUFFICES ASSUME NEW w, NEW i \in DOMAIN r, w \in r[i] PROVE w \in head \/ Queued(t, w)
      BY DEF Queued
    <3>1. CASE i = 1
      BY <2>2, <3>1
    <3>2. CASE i # 1
      <4>1. i - 1 \in 1..Len(t) /\ r[(i - 1) + 1] = t[i - 1] /\ (i - 1) + 1 = i
        BY <2>2, <3>2
      <4> QED
        BY <2>2, <4>1 DEF Queued
    <3> QED
      BY <3>1, <3>2
  <2>4. \A w : w \in head \/ Queued(t, w) => Queued(r, w)
    <3>1. ASSUME NEW w, w \in head PROVE Queued(r, w)
      BY <2>2, <3>1 DEF Queued
    <3>2. ASSUME NEW w, NEW i \in DOMAIN t, w \in t[i] PROVE Queued(r, w)
      <4>1. i + 1 \in DOMAIN r /\ w \in r[i + 1]
        BY <2>2, <3>2
      <4> QED
        BY <4>1 DEF Queued
    <3> QED
      BY <3>1, <3>2 DEF Queued
  <2>5. \A w \in head : Queued(work, w)
    BY <1>1 DEF Queued
  <2> QED
    BY <1>3, <1>4, <1>5, <2>1, <2>2, <2>3, <2>4, <2>5
<1> QED
  BY <1>6, <1>7

--------------------------------------------------------------------------
(* Emitting.                                                               *)

Offered == [event : Event, hops : Nat, cause : Event \cup Origin]

\* What is known, and queued, after a step has made its offers.
LEMMA EmitFacts ==
  ASSUME NEW offers \in SUBSET Offered, NEW rest \in Seq(Batches),
         known \in [DOMAIN known -> Entries], DOMAIN known \subseteq Event,
         \A o, p \in offers : o.event = p.event => o = p,
         Emit(offers, rest)
  PROVE  /\ known' \in [DOMAIN known' -> Entries] /\ DOMAIN known' \subseteq Event
         /\ DOMAIN known' = DOMAIN known \cup {o.event : o \in offers}
         /\ \A o \in offers : Fresh(o) => known'[o.event] = [hops |-> o.hops, cause |-> o.cause]
         /\ \A e \in DOMAIN known : (\A o \in offers : Fresh(o) => o.event # e) => known'[e] = known[e]
         /\ \A o \in offers : known'[o.event].hops <= o.hops
         /\ \A e \in DOMAIN known : known'[e].hops <= known[e].hops
         /\ work' \in Seq(Batches)
         /\ \A w : Queued(work', w) <=>
              Queued(rest, w) \/ \E o \in offers : Fresh(o) /\ w = [event |-> o.event, hops |-> o.hops]
<1> DEFINE accepted == {o \in offers : Fresh(o)}
           events == {o.event : o \in accepted}
           Of(e) == CHOOSE o \in accepted : o.event = e
           batch == {[event |-> o.event, hops |-> o.hops] : o \in accepted}
<1>1. /\ known' = [e \in DOMAIN known \cup events |->
                     IF e \in events THEN [hops |-> Of(e).hops, cause |-> Of(e).cause] ELSE known[e]]
      /\ work' = IF accepted = {} THEN rest ELSE Append(rest, batch)
  BY DEF Emit
<1>2. \A o \in accepted : Of(o.event) = o
  <2> TAKE o \in accepted
  <2>1. Of(o.event) \in accepted /\ Of(o.event).event = o.event
    OBVIOUS
  <2> QED
    BY <2>1
<1>3. \A o \in offers : /\ o.event \in Event /\ o.hops \in Nat /\ o.cause \in Event \cup Origin
                        /\ [hops |-> o.hops, cause |-> o.cause] \in Entries
                        /\ [event |-> o.event, hops |-> o.hops] \in Items
  BY DEF Offered, Entries, Items
<1>4. \A o \in offers : ~Fresh(o) => o.event \in DOMAIN known /\ known[o.event].hops <= o.hops
  <2> TAKE o \in offers
  <2> HAVE ~Fresh(o)
  <2>1. o.event \in DOMAIN known /\ ~(o.hops < known[o.event].hops)
    BY DEF Fresh
  <2>2. known[o.event].hops \in Nat /\ o.hops \in Nat
    BY <1>3, <2>1 DEF Entries
  <2> QED
    BY <2>1, <2>2
<1>5. \A o \in accepted : o.event \in DOMAIN known => o.hops < known[o.event].hops
  BY DEF Fresh
<1> HIDE DEF Of
<1>6. \A o \in accepted : o.event \in DOMAIN known' /\ known'[o.event] = [hops |-> o.hops, cause |-> o.cause]
  BY <1>1, <1>2
<1>7. \A e \in DOMAIN known : e \notin events => known'[e] = known[e]
  BY <1>1
<1>8. DOMAIN known' = DOMAIN known \cup events
  BY <1>1
<1>9. \A e \in events : \E o \in accepted : e = o.event
  OBVIOUS
<1>10. DOMAIN known' = DOMAIN known \cup {o.event : o \in offers}
  BY <1>4, <1>8
<1>11. \A e \in DOMAIN known' : known'[e] \in Entries
  <2> TAKE e \in DOMAIN known'
  <2>1. CASE e \in events
    <3>1. PICK o \in accepted : e = o.event
      BY <2>1
    <3>2. known'[e] = [hops |-> o.hops, cause |-> o.cause] /\ [hops |-> o.hops, cause |-> o.cause] \in Entries
      BY <1>3, <1>6, <3>1
    <3> QED
      BY ONLY <3>2
  <2>2. CASE e \notin events
    BY <1>7, <1>8, <2>2
  <2> QED
    BY <2>1, <2>2
<1>12. known' \in [DOMAIN known' -> Entries]
  BY <1>1, <1>11
<1>13. DOMAIN known' \subseteq Event
  BY <1>3, <1>10
<1>14. \A e \in DOMAIN known : known'[e].hops <= known[e].hops
  <2> TAKE e \in DOMAIN known
  <2>1. known[e].hops \in Nat
    BY DEF Entries
  <2>2. CASE e \in events
    <3>1. PICK o \in accepted : e = o.event
      BY <2>2
    <3>2. known'[e] = [hops |-> o.hops, cause |-> o.cause]
      BY <1>6, <3>1
    <3>3. known'[e].hops = o.hops
      BY ONLY <3>2
    <3>4. o.hops < known[e].hops /\ o.hops \in Nat
      BY <1>3, <1>5, <3>1
    <3> QED
      BY <2>1, <3>3, <3>4
  <2>3. CASE e \notin events
    BY <1>7, <2>1, <2>3
  <2> QED
    BY <2>2, <2>3
<1>15. \A o \in offers : known'[o.event].hops <= o.hops
  <2> TAKE o \in offers
  <2>1. CASE Fresh(o)
    <3>1. known'[o.event] = [hops |-> o.hops, cause |-> o.cause] /\ o.hops \in Nat
      BY <1>3, <1>6, <2>1
    <3> QED
      BY ONLY <3>1
  <2>2. CASE ~Fresh(o)
    <3>1. /\ o.event \in DOMAIN known /\ known[o.event].hops <= o.hops
          /\ known'[o.event].hops <= known[o.event].hops
      BY <1>4, <1>14, <2>2
    <3>2. known[o.event].hops \in Nat /\ known'[o.event].hops \in Nat /\ o.hops \in Nat
      BY <1>3, <1>8, <1>11, <3>1 DEF Entries
    <3> QED
      BY <3>1, <3>2
  <2> QED
    BY <2>1, <2>2
<1>16. /\ work' \in Seq(Batches)
       /\ \A w : Queued(work', w) <=>
            Queued(rest, w) \/ \E o \in offers : Fresh(o) /\ w = [event |-> o.event, hops |-> o.hops]
  <2>1. CASE accepted = {}
    BY <1>1, <2>1
  <2>2. CASE accepted # {}
    <3>1. work' = Append(rest, batch)
      BY <1>1, <2>2
    <3>2. batch \in Batches
      <4>1. ASSUME NEW x \in batch PROVE x \in Items
        <5>1. PICK o \in accepted : x = [event |-> o.event, hops |-> o.hops]
          BY <4>1
        <5>2. o.event \in Event /\ o.hops \in Nat
          BY <1>3
        <5> QED
          BY ONLY <5>1, <5>2 DEF Items
      <4>2. batch # {}
        <5>1. PICK o \in accepted : TRUE
          BY <2>2
        <5>2. [event |-> o.event, hops |-> o.hops] \in batch
          OBVIOUS
        <5> QED
          BY ONLY <5>2
      <4> HIDE DEF batch
      <4> QED
        BY <4>1, <4>2 DEF Batches
    <3>3. \A w : w \in batch <=> \E o \in offers : Fresh(o) /\ w = [event |-> o.event, hops |-> o.hops]
      OBVIOUS
    <3> HIDE DEF batch
    <3> QED
      BY <3>1, <3>2, <3>3, AppendQueues
  <2> QED
    BY <2>1, <2>2
<1>17. \A e \in DOMAIN known : (\A o \in offers : Fresh(o) => o.event # e) => known'[e] = known[e]
  BY <1>7, <1>9
<1> QED
  BY <1>6, <1>10, <1>12, <1>13, <1>14, <1>15, <1>16, <1>17

--------------------------------------------------------------------------
(* What every step that emits preserves.                                   *)

LEMMA SameGraph ==
  ASSUME call' = call
  PROVE  /\ \A e : Within(e)' = Within(e) /\ Across(e)' = Across(e)
         /\ \A o : Rooted(o)' <=> Rooted(o)
         /\ ChangedModules' = ChangedModules /\ \A m : SeedFacts(m)' = SeedFacts(m)
         /\ OpaqueFiles' = OpaqueFiles /\ OpaqueSources' = OpaqueSources /\ OpaqueTests' = OpaqueTests
         /\ LinkedChanges' = LinkedChanges
<1>1. \A f : Info(f)' = Info(f)
  BY DEF Info
<1>2. \A f, n : BindEdges(f, n)' = BindEdges(f, n) /\ NsEdges(f)' = NsEdges(f) /\ StarEdges(f)' = StarEdges(f)
  BY <1>1 DEF BindEdges, NsEdges, StarEdges
<1>3. \A e : Within(e)' = Within(e) /\ Across(e)' = Across(e)
  BY <1>1, <1>2 DEF Within, Across, OnLocal, ExportFollows
<1>4. OpaqueFiles' = OpaqueFiles
  BY <1>1 DEF OpaqueFiles
<1>5. ChangedModules' = ChangedModules /\ LinkedChanges' = LinkedChanges
  BY DEF ChangedModules, LinkedChanges
<1>6. \A m : SeedFacts(m)' = SeedFacts(m)
  BY <1>1, <1>5 DEF SeedFacts, BaseOf, Current
<1>7. OpaqueSources' = OpaqueSources /\ OpaqueTests' = OpaqueTests
  BY <1>4, <1>5 DEF OpaqueSources, OpaqueTests
<1>8. \A o : Rooted(o)' <=> Rooted(o)
  BY <1>4 DEF Rooted
<1> QED
  BY <1>3, <1>4, <1>5, <1>6, <1>7, <1>8

\* A fact is no origin.
LEMMA KindsDiffer ==
  ASSUME NEW o, Rooted(o)
  PROVE  o \notin Event
BY DEF Rooted, Origin, Event

\* What an offer may rest on: an origin, or a known fact that the step leaves
\* as it is.
Grounded(o, offers) ==
    \/ Rooted(o.cause)
    \/ /\ o.cause \in DOMAIN known /\ \A p \in offers : Fresh(p) => p.event # o.cause
       /\ \/ o.event \in Within(o.cause) /\ known[o.cause].hops <= o.hops
          \/ o.event \in Across(o.cause) /\ known[o.cause].hops + 1 <= o.hops

LEMMA EmitKeepsCauses ==
  ASSUME NEW offers \in SUBSET Offered, NEW rest \in Seq(Batches), call' = call,
         known \in [DOMAIN known -> Entries], DOMAIN known \subseteq Event,
         \A o, p \in offers : o.event = p.event => o = p,
         \A o \in offers : Grounded(o, offers),
         Emit(offers, rest), KnownOK, RankOK
  PROVE  KnownOK' /\ RankOK'
<1>1. /\ known' \in [DOMAIN known' -> Entries] /\ DOMAIN known' \subseteq Event
      /\ DOMAIN known' = DOMAIN known \cup {o.event : o \in offers}
      /\ \A o \in offers : Fresh(o) => known'[o.event] = [hops |-> o.hops, cause |-> o.cause]
      /\ \A e \in DOMAIN known : (\A o \in offers : Fresh(o) => o.event # e) => known'[e] = known[e]
      /\ \A e \in DOMAIN known : known'[e].hops <= known[e].hops
  BY EmitFacts
<1>2. \A e \in DOMAIN known : known[e].hops \in Nat
  BY DEF Entries
<1>3. \A e \in DOMAIN known' : known'[e].hops \in Nat
  BY <1>1 DEF Entries
<1> DEFINE New(e) == \E o \in offers : Fresh(o) /\ o.event = e
<1>4. \A e \in DOMAIN known' : ~New(e) => e \in DOMAIN known /\ known'[e] = known[e]
  BY <1>1 DEF Fresh
<1>5. \A e : New(e) =>
        \E o \in offers : /\ Fresh(o) /\ o.event = e /\ Grounded(o, offers)
                          /\ known'[e].hops = o.hops /\ known'[e].cause = o.cause
  <2> SUFFICES ASSUME NEW o \in offers, Fresh(o)
               PROVE  known'[o.event].hops = o.hops /\ known'[o.event].cause = o.cause
    OBVIOUS
  <2>1. known'[o.event] = [hops |-> o.hops, cause |-> o.cause]
    BY <1>1
  <2> QED
    BY ONLY <2>1
<1>6. \A e \in DOMAIN known : New(e) => known'[e].hops < known[e].hops
  BY <1>5 DEF Fresh
<1> HIDE DEF New
<1>7. \A o \in offers : Grounded(o, offers) =>
        Rooted(o.cause) \/ (o.cause \in DOMAIN known /\ ~New(o.cause))
  BY DEF Grounded, New
<1>8. KnownOK'
  <2> SUFFICES ASSUME NEW e \in DOMAIN known'
               PROVE  Rooted(known'[e].cause) \/ FoundBy(e, known[e].cause)'
    BY SameGraph DEF KnownOK
  <2>1. CASE New(e)
    <3>1. PICK o \in offers : /\ Fresh(o) /\ o.event = e /\ Grounded(o, offers)
                              /\ known'[e].hops = o.hops /\ known'[e].cause = o.cause
      BY <1>5, <2>1
    <3>2. CASE Rooted(o.cause)
      BY <3>1, <3>2
    <3>3. CASE ~Rooted(o.cause)
      <4>1. o.cause \in DOMAIN known /\ known'[o.cause] = known[o.cause] /\ o.cause \in DOMAIN known'
        BY <1>1, <1>4, <1>7, <3>1, <3>3
      <4>2. \/ e \in Within(o.cause) /\ known[o.cause].hops <= o.hops
            \/ e \in Across(o.cause) /\ known[o.cause].hops + 1 <= o.hops
        BY <3>1, <3>3 DEF Grounded
      <4> QED
        BY <3>1, <4>1, <4>2, SameGraph DEF FoundBy
    <3> QED
      BY <3>2, <3>3
  <2>2. CASE ~New(e)
    <3>1. e \in DOMAIN known /\ known'[e] = known[e]
      BY <1>4, <2>2
    <3>2. CASE Rooted(known[e].cause)
      BY <3>1, <3>2
    <3>3. CASE FoundBy(e, known[e].cause)
      <4> DEFINE led == known[e].cause
      <4>1. /\ led \in DOMAIN known /\ led \in DOMAIN known' /\ known'[led].hops <= known[led].hops
            /\ known[led].hops \in Nat /\ known'[led].hops \in Nat /\ known[e].hops \in Nat
        BY <1>1, <1>2, <1>3, <3>1, <3>3 DEF FoundBy
      <4>2. \/ e \in Within(led) /\ known'[led].hops <= known'[e].hops
            \/ e \in Across(led) /\ known'[led].hops + 1 <= known'[e].hops
        BY <3>1, <3>3, <4>1 DEF FoundBy
      <4> QED
        BY <3>1, <4>1, <4>2, SameGraph DEF FoundBy
    <3> QED
      BY <3>1, <3>2, <3>3 DEF KnownOK
  <2> QED
    BY <2>1, <2>2
<1>9. RankOK'
  <2>1. PICK rank \in [DOMAIN known -> Nat], bound \in Nat :
          \A e \in DOMAIN known :
            /\ rank[e] < bound
            /\ known[e].cause \in DOMAIN known /\ known[known[e].cause].hops = known[e].hops =>
                  rank[known[e].cause] < rank[e]
    BY DEF RankOK
  <2> DEFINE later == [e \in DOMAIN known' |-> IF New(e) THEN bound ELSE rank[e]]
  <2>2. later \in [DOMAIN known' -> Nat] /\ \A e \in DOMAIN known' : later[e] < bound + 1
    BY <1>4, <2>1
  <2>3. ASSUME NEW e \in DOMAIN known', known'[e].cause \in DOMAIN known',
               known'[known'[e].cause].hops = known'[e].hops
        PROVE  later[known'[e].cause] < later[e]
    <3> DEFINE led == known'[e].cause
    <3>1. CASE New(e)
      <4>1. PICK o \in offers : Grounded(o, offers) /\ known'[e].cause = o.cause
        BY <1>5, <3>1
      <4>2. ~Rooted(led)
        BY <1>1, <2>3, KindsDiffer
      <4>3. led \in DOMAIN known /\ ~New(led)
        BY <1>7, <4>1, <4>2
      <4>4. later[led] = rank[led] /\ later[e] = bound
        BY <2>3, <3>1, <4>3
      <4> QED
        BY <2>1, <4>3, <4>4
    <3>2. CASE ~New(e)
      <4>1. e \in DOMAIN known /\ known'[e] = known[e]
        BY <1>4, <3>2
      <4>2. ~Rooted(led)
        BY <1>1, <2>3, KindsDiffer
      <4>3. FoundBy(e, led)
        BY <4>1, <4>2 DEF KnownOK
      <4>4. led \in DOMAIN known /\ known[led].hops <= known[e].hops
        <5>1. led \in DOMAIN known
          BY <4>3 DEF FoundBy
        <5>2. known[led].hops \in Nat /\ known[e].hops \in Nat
          BY <1>2, <4>1, <5>1
        <5> QED
          BY <4>3, <5>1, <5>2 DEF FoundBy
      <4>5. ~New(led)
        <5> SUFFICES ASSUME New(led) PROVE FALSE
          OBVIOUS
        <5>1. known'[led].hops < known[led].hops /\ known'[led].hops = known[e].hops
          BY <1>6, <2>3, <4>1, <4>4
        <5>2. known[led].hops \in Nat /\ known[e].hops \in Nat
          BY <1>2, <4>1, <4>4
        <5> QED
          BY <4>4, <5>1, <5>2
      <4>6. known'[led] = known[led]
        BY <1>4, <2>3, <4>5
      <4>7. rank[led] < rank[e]
        BY <2>1, <2>3, <4>1, <4>4, <4>6
      <4> QED
        BY <2>3, <3>2, <4>5, <4>7
    <3> QED
      BY <3>1, <3>2
  <2> HIDE DEF later
  <2>4. bound + 1 \in Nat
    OBVIOUS
  <2> QED
    BY <2>2, <2>3, <2>4 DEF RankOK
<1> QED
  BY <1>8, <1>9

LEMMA EmitKeepsQueue ==
  ASSUME NEW offers \in SUBSET Offered, NEW rest \in Seq(Batches),
         known \in [DOMAIN known -> Entries], DOMAIN known \subseteq Event,
         \A o, p \in offers : o.event = p.event => o = p,
         Emit(offers, rest), WorkOK, \A w : Queued(rest, w) => Queued(work, w) /\ w \in Items
  PROVE  WorkOK'
<1>1. /\ known' \in [DOMAIN known' -> Entries]
      /\ DOMAIN known' = DOMAIN known \cup {o.event : o \in offers}
      /\ \A o \in offers : known'[o.event].hops <= o.hops
      /\ \A e \in DOMAIN known : known'[e].hops <= known[e].hops
      /\ \A w : Queued(work', w) <=>
           Queued(rest, w) \/ \E o \in offers : Fresh(o) /\ w = [event |-> o.event, hops |-> o.hops]
  BY EmitFacts
<1> SUFFICES ASSUME NEW w, Queued(work', w)
             PROVE  w.event \in DOMAIN known' /\ known'[w.event].hops <= w.hops
  BY DEF WorkOK, Queued
<1>2. CASE Queued(rest, w)
  <2>1. w.event \in DOMAIN known /\ known[w.event].hops <= w.hops /\ w.hops \in Nat
    BY <1>2 DEF WorkOK, Items
  <2>2. known[w.event].hops \in Nat /\ known'[w.event].hops \in Nat
    BY <1>1, <2>1 DEF Entries
  <2>3. known'[w.event].hops <= known[w.event].hops
    BY <1>1, <2>1
  <2> QED
    BY <1>1, <2>1, <2>2, <2>3
<1>3. CASE \E o \in offers : Fresh(o) /\ w = [event |-> o.event, hops |-> o.hops]
  <2>1. PICK o \in offers : w = [event |-> o.event, hops |-> o.hops]
    BY <1>3
  <2>2. w.event = o.event /\ w.hops = o.hops
    BY ONLY <2>1
  <2> QED
    BY <1>1, <2>2
<1> QED
  BY <1>1, <1>2, <1>3

--------------------------------------------------------------------------
(* Seeding.                                                                *)

LEMMA OriginsTyped ==
  ASSUME NEW f \in Files \cup Others
  PROVE  ChangedOrigin(f) \in Origin /\ OpaqueOrigin(f) \in Origin
BY DEF ChangedOrigin, OpaqueOrigin, Origin

LEMMA ModulesTyped ==
  ASSUME call \in Input, NEW m \in ChangedModules
  PROVE  m.path \in Files /\ Rooted(ChangedOrigin(m.path))
<1>1. PICK c \in call.changed : m \in ModulesOf(c)
  BY DEF ChangedModules
<1>2. None \notin Files
  BY GraphAssumption
<1>3. m.path \in Files /\ m.path \in PathsOf(c)
  BY <1>1, <1>2 DEF ModulesOf, PathsOf
<1>4. ChangedOrigin(m.path).kind = "changed" /\ ChangedOrigin(m.path).file = m.path
  BY DEF ChangedOrigin
<1>5. ChangedOrigin(m.path) \in Origin
  BY <1>3, OriginsTyped
<1> QED
  BY <1>3, <1>4, <1>5 DEF Rooted

LEMMA SeedsTyped ==
  ASSUME call \in Input, NEW m \in ChangedModules
  PROVE  \A e \in SeedFacts(m) : e \in Event /\ e.file = m.path
<1>1. m.path \in Files
  BY ModulesTyped
<1>2. BaseOf(m.path) \in Module /\ Current(m) \in Module
  BY <1>1, CallTyped, InfoTyped, EmptyTyped DEF BaseOf, Current
<1>3. ASSUME NEW e \in SeedFacts(m) PROVE e \in Event /\ e.file = m.path
  <2>1. \/ \E d \in BaseOf(m.path).decls \cup Current(m).decls : e = LocalFact(m.path, d.name)
        \/ \E x \in BaseOf(m.path).exports \cup Current(m).exports : e = ExportFact(m.path, x.as)
        \/ e = AllFact(m.path)
    BY <1>3 DEF SeedFacts, Differing
  <2>2. CASE \E d \in BaseOf(m.path).decls \cup Current(m).decls : e = LocalFact(m.path, d.name)
    <3>1. PICK n \in Names : e = LocalFact(m.path, n)
      BY <1>2, <2>2, Fields
    <3> QED
      BY <1>1, <3>1, FactsTyped DEF LocalFact
  <2>3. CASE \E x \in BaseOf(m.path).exports \cup Current(m).exports : e = ExportFact(m.path, x.as)
    <3>1. PICK n \in Names : e = ExportFact(m.path, n)
      BY <1>2, <2>3, Fields
    <3> QED
      BY <1>1, <3>1, FactsTyped DEF ExportFact
  <2>4. CASE e = AllFact(m.path)
    BY <1>1, <2>4, FactsTyped DEF AllFact
  <2> QED
    BY <2>1, <2>2, <2>3, <2>4
<1> QED
  BY <1>3

SeedOffers == UNION {Offers(SeedFacts(m), 0, ChangedOrigin(m.path)) : m \in ChangedModules}

LEMMA SeedOfferFacts ==
  ASSUME call \in Input
  PROVE  /\ SeedOffers \in SUBSET Offered
         /\ \A o \in SeedOffers : o.hops = 0 /\ Rooted(o.cause)
         /\ \A o, p \in SeedOffers : o.event = p.event => o = p
         /\ \A m \in ChangedModules : \A e \in SeedFacts(m) : \E o \in SeedOffers : o.event = e
<1>1. ASSUME NEW o \in SeedOffers
      PROVE  /\ o \in Offered /\ o.hops = 0 /\ Rooted(o.cause)
             /\ o = [event |-> o.event, hops |-> 0, cause |-> ChangedOrigin(o.event.file)]
  <2>0. PICK m \in ChangedModules : o \in Offers(SeedFacts(m), 0, ChangedOrigin(m.path))
    BY <1>1 DEF SeedOffers
  <2>1. PICK e \in SeedFacts(m) : o = [event |-> e, hops |-> 0, cause |-> ChangedOrigin(m.path)]
    BY <2>0 DEF Offers
  <2>2. e \in Event /\ e.file = m.path /\ m.path \in Files /\ Rooted(ChangedOrigin(m.path))
    BY ModulesTyped, SeedsTyped
  <2>3. ChangedOrigin(m.path) \in Origin
    BY <2>2 DEF Rooted
  <2>4. o.event = e /\ o.hops = 0 /\ o.cause = ChangedOrigin(m.path)
    BY <2>1
  <2>5. o \in Offered
    BY <2>1, <2>2, <2>3 DEF Offered
  <2>6. o = [event |-> o.event, hops |-> 0, cause |-> ChangedOrigin(o.event.file)]
    BY <2>1, <2>2, <2>4
  <2> QED
    BY <2>2, <2>4, <2>5, <2>6
<1>2. ASSUME NEW m \in ChangedModules, NEW e \in SeedFacts(m)
      PROVE  \E o \in SeedOffers : o.event = e
  <2> DEFINE o == [event |-> e, hops |-> 0, cause |-> ChangedOrigin(m.path)]
  <2>1. o \in Offers(SeedFacts(m), 0, ChangedOrigin(m.path))
    BY DEF Offers
  <2>2. o \in SeedOffers /\ o.event = e
    BY <2>1 DEF SeedOffers
  <2> QED
    BY <2>2
<1>3. \A o, p \in SeedOffers : o.event = p.event => o = p
  <2> TAKE o, p \in SeedOffers
  <2> HAVE o.event = p.event
  <2>1. /\ o = [event |-> o.event, hops |-> 0, cause |-> ChangedOrigin(o.event.file)]
        /\ p = [event |-> p.event, hops |-> 0, cause |-> ChangedOrigin(p.event.file)]
    BY <1>1
  <2>2. o.event = p.event
    OBVIOUS
  <2> DEFINE of(e) == [event |-> e, hops |-> 0, cause |-> ChangedOrigin(e.file)]
  <2>3. o = of(o.event) /\ p = of(p.event)
    BY <2>1
  <2> HIDE DEF of
  <2> QED
    BY ONLY <2>2, <2>3
<1> QED
  BY <1>1, <1>2, <1>3

LEMMA SeedOK ==
  ASSUME GraphTypes, known = <<>>, Seed, call' = call, pass' = "seeded"
  PROVE  GraphTypes' /\ SpreadOK' /\ Seeded'
<1>1. call \in Input /\ DOMAIN known = {} /\ Emit(SeedOffers, <<>>) /\ <<>> \in Seq(Batches)
  BY DEF GraphTypes, Seed, SeedOffers
<1>2. /\ known \in [DOMAIN known -> Entries] /\ DOMAIN known \subseteq Event
      /\ \A w : ~Queued(<<>>, w)
  BY <1>1 DEF GraphTypes, Queued
<1>3. /\ SeedOffers \in SUBSET Offered
      /\ \A o \in SeedOffers : o.hops = 0 /\ Rooted(o.cause)
      /\ \A o, p \in SeedOffers : o.event = p.event => o = p
      /\ \A m \in ChangedModules : \A e \in SeedFacts(m) : \E o \in SeedOffers : o.event = e
  BY <1>1, SeedOfferFacts
<1>4. \A o \in SeedOffers : Fresh(o)
  BY <1>1 DEF Fresh
<1>5. /\ known' \in [DOMAIN known' -> Entries] /\ DOMAIN known' \subseteq Event
      /\ DOMAIN known' = DOMAIN known \cup {o.event : o \in SeedOffers}
      /\ \A o \in SeedOffers : Fresh(o) => known'[o.event] = [hops |-> o.hops, cause |-> o.cause]
      /\ \A o \in SeedOffers : known'[o.event].hops <= o.hops
      /\ work' \in Seq(Batches)
      /\ \A w : Queued(work', w) <=>
           Queued(<<>>, w) \/ \E o \in SeedOffers : Fresh(o) /\ w = [event |-> o.event, hops |-> o.hops]
  <2>1. SeedOffers \in SUBSET Offered /\ <<>> \in Seq(Batches) /\ Emit(SeedOffers, <<>>)
    BY <1>1, <1>3
  <2>2. \A o, p \in SeedOffers : o.event = p.event => o = p
    BY <1>3
  <2>3. known \in [DOMAIN known -> Entries] /\ DOMAIN known \subseteq Event
    BY <1>2
  <2> QED
    BY ONLY <2>1, <2>2, <2>3, EmitFacts
<1>6. KnownOK' /\ RankOK'
  <2>1. KnownOK
    BY <1>1 DEF KnownOK
  <2>2. RankOK
    <3>1. <<>> \in [DOMAIN known -> Nat] /\ 0 \in Nat
      BY <1>1
    <3> QED
      BY <1>1, <3>1 DEF RankOK
  <2>3. \A o \in SeedOffers : Grounded(o, SeedOffers)
    BY <1>3 DEF Grounded
  <2> QED
    BY <1>1, <1>2, <1>3, <2>1, <2>2, <2>3, EmitKeepsCauses
<1>7. ASSUME NEW e \in DOMAIN known'
      PROVE  e \in Event /\ known'[e].hops = 0 /\ Queued(work', [event |-> e, hops |-> 0])
  <2>1. PICK o \in SeedOffers : o.event = e /\ o.hops = 0
    BY <1>1, <1>3, <1>5
  <2>2. known'[e] = [hops |-> 0, cause |-> o.cause]
    BY <1>4, <1>5, <2>1
  <2>3. known'[e].hops = 0
    BY ONLY <2>2
  <2> QED
    BY <1>4, <1>5, <2>1, <2>3
<1>8. WorkOK'
  <2> SUFFICES ASSUME NEW w, Queued(work', w)
               PROVE  w.event \in DOMAIN known' /\ known'[w.event].hops <= w.hops
    BY DEF WorkOK, Queued
  <2>1. PICK o \in SeedOffers : w = [event |-> o.event, hops |-> o.hops]
    BY <1>2, <1>5
  <2>2. w.event = o.event /\ w.hops = o.hops
    BY ONLY <2>1
  <2> QED
    BY <1>5, <2>2
<1>9. ClosedOK'
  <2>1. \A e \in DOMAIN known' : Queued(work', [event |-> e, hops |-> known'[e].hops])
    BY <1>7
  <2> QED
    BY <2>1 DEF ClosedOK, Queued
<1>10. Seeded'
  <2>1. \A m \in ChangedModules : \A e \in SeedFacts(m) : e \in DOMAIN known' /\ known'[e].hops <= 0
    BY <1>3, <1>5, <1>7
  <2> QED
    BY <2>1, SameGraph DEF Seeded, IsKnown
<1>11. /\ reached' \in [DOMAIN reached' -> Entries] /\ DOMAIN reached' \subseteq Files
       /\ \A f \in DOMAIN reached' : Rooted(reached'[f].cause)
  <2>1. reached' = [p \in {m.path : m \in {m \in ChangedModules : m.current}} |->
                      [hops |-> 0, cause |-> ChangedOrigin(p)]]
    BY DEF Seed
  <2>2. \A p \in DOMAIN reached' :
          p \in Files /\ Rooted(ChangedOrigin(p)) /\ reached'[p] = [hops |-> 0, cause |-> ChangedOrigin(p)]
    BY <1>1, <2>1, ModulesTyped
  <2>3. \A p \in DOMAIN reached' : reached'[p] \in Entries /\ reached'[p].cause = ChangedOrigin(p)
    BY <2>2 DEF Rooted, Entries
  <2> QED
    BY <2>1, <2>2, <2>3
<1>12. ReachedOK'
  BY <1>11, SameGraph DEF ReachedOK
<1>13. GraphTypes'
  BY <1>1, <1>5, <1>11 DEF GraphTypes, Input
<1> QED
  BY <1>6, <1>8, <1>9, <1>10, <1>12, <1>13 DEF SpreadOK

--------------------------------------------------------------------------
(* What has been found stays found.                                        *)

Nearer == \A f \in DOMAIN reached : f \in DOMAIN reached' /\ reached'[f].hops <= reached[f].hops

LEMMA EmitKeepsFindings ==
  ASSUME NEW offers \in SUBSET Offered, NEW rest \in Seq(Batches), call' = call, GraphTypes,
         \A o, p \in offers : o.event = p.event => o = p,
         Emit(offers, rest), reached' \in [DOMAIN reached' -> Entries], Nearer
  PROVE  /\ \A e, n : n \in Nat /\ IsKnown(e, n) => IsKnown(e, n)'
         /\ \A f, n : n \in Nat /\ IsReached(f, n) => IsReached(f, n)'
         /\ \A e \in DOMAIN known : known'[e] = known[e] /\ Closed(e) => Closed(e)'
         /\ \A e \in DOMAIN known' : \/ Queued(work', [event |-> e, hops |-> known'[e].hops])
                                     \/ e \in DOMAIN known /\ known'[e] = known[e]
<1>1. known \in [DOMAIN known -> Entries] /\ DOMAIN known \subseteq Event
      /\ reached \in [DOMAIN reached -> Entries]
  BY DEF GraphTypes
<1>2. /\ known' \in [DOMAIN known' -> Entries] /\ DOMAIN known' \subseteq Event
      /\ DOMAIN known' = DOMAIN known \cup {o.event : o \in offers}
      /\ \A o \in offers : Fresh(o) => known'[o.event] = [hops |-> o.hops, cause |-> o.cause]
      /\ \A e \in DOMAIN known : (\A o \in offers : Fresh(o) => o.event # e) => known'[e] = known[e]
      /\ \A e \in DOMAIN known : known'[e].hops <= known[e].hops
      /\ \A w : Queued(work', w) <=>
           Queued(rest, w) \/ \E o \in offers : Fresh(o) /\ w = [event |-> o.event, hops |-> o.hops]
  BY <1>1, EmitFacts
<1>3. ASSUME NEW e, NEW n \in Nat, IsKnown(e, n)
      PROVE  e \in DOMAIN known' /\ known'[e].hops <= n
  <2>1. e \in DOMAIN known /\ known[e].hops <= n
    BY <1>3 DEF IsKnown
  <2>2. known[e].hops \in Nat /\ known'[e].hops \in Nat /\ e \in DOMAIN known'
        /\ known'[e].hops <= known[e].hops
    BY <1>1, <1>2, <2>1 DEF Entries
  <2> QED
    BY <2>1, <2>2
<1>4. ASSUME NEW f, NEW n \in Nat, IsReached(f, n)
      PROVE  f \in DOMAIN reached' /\ reached'[f].hops <= n
  <2>1. f \in DOMAIN reached /\ reached[f].hops <= n
    BY <1>4 DEF IsReached
  <2>2. reached[f].hops \in Nat /\ f \in DOMAIN reached' /\ reached'[f].hops <= reached[f].hops
    BY <1>1, <2>1 DEF Entries, Nearer
  <2>3. reached'[f].hops \in Nat
    BY <2>2 DEF Entries
  <2> QED
    BY <2>1, <2>2, <2>3
<1>5. ASSUME NEW e \in DOMAIN known, known'[e] = known[e], Closed(e)
      PROVE  Closed(e)'
  <2>1. known[e].hops \in Nat /\ known[e].hops + 1 \in Nat
    BY <1>1 DEF Entries
  <2>2. /\ \A g \in Within(e) : IsKnown(g, known[e].hops)
        /\ \A g \in Across(e) : IsKnown(g, known[e].hops + 1) /\ IsReached(g.file, known[e].hops + 1)
    BY <1>5 DEF Closed
  <2>3. ASSUME NEW g \in Within(e)
        PROVE  g \in DOMAIN known' /\ known'[g].hops <= known'[e].hops
    BY <1>3, <1>5, <2>1, <2>2
  <2>4. ASSUME NEW g \in Across(e)
        PROVE  /\ g \in DOMAIN known' /\ known'[g].hops <= known'[e].hops + 1
               /\ g.file \in DOMAIN reached' /\ reached'[g.file].hops <= known'[e].hops + 1
    BY <1>3, <1>4, <1>5, <2>1, <2>2
  <2> QED
    BY <2>3, <2>4, SameGraph DEF Closed, IsKnown, IsReached
<1>6. ASSUME NEW e \in DOMAIN known', ~(e \in DOMAIN known /\ known'[e] = known[e])
      PROVE  Queued(work', [event |-> e, hops |-> known'[e].hops])
  <2>1. PICK o \in offers : Fresh(o) /\ o.event = e
    BY <1>2, <1>6 DEF Fresh
  <2>2. known'[e] = [hops |-> o.hops, cause |-> o.cause]
    BY <1>2, <2>1
  <2>3. known'[e].hops = o.hops
    BY ONLY <2>2
  <2> QED
    BY <1>2, <2>1, <2>3
<1> QED
  BY <1>3, <1>4, <1>5, <1>6 DEF IsKnown, IsReached

LEMMA WidenOK ==
  ASSUME GraphTypes, SpreadOK, Seeded, work = <<>>, Widen,
         call' = call, reached' = reached, pass' = "widened"
  PROVE  GraphTypes' /\ SpreadOK' /\ Seeded' /\ Widened'
<1> DEFINE offers == UNION {Offers({AllFact(f)}, 1, OpaqueOrigin(f)) : f \in OpaqueSources}
<1>1. /\ call \in Input /\ known \in [DOMAIN known -> Entries] /\ DOMAIN known \subseteq Event
      /\ reached \in [DOMAIN reached -> Entries] /\ DOMAIN reached \subseteq Files
      /\ <<>> \in Seq(Batches) /\ \A w : ~Queued(<<>>, w)
  BY DEF GraphTypes, Queued
<1>2. Emit(offers, <<>>)
  BY DEF Widen
<1>3. \A f \in OpaqueSources : f \in Files /\ Rooted(OpaqueOrigin(f))
  <2> TAKE f \in OpaqueSources
  <2>1. f \in OpaqueFiles /\ f \in Files
    BY <1>1, CallTyped DEF OpaqueSources, OpaqueFiles
  <2>2. OpaqueOrigin(f) \in Origin /\ OpaqueOrigin(f).kind = "opaque" /\ OpaqueOrigin(f).file = f
    BY <2>1, OriginsTyped DEF OpaqueOrigin
  <2> QED
    BY <2>1, <2>2 DEF Rooted
<1>4. ASSUME NEW o \in offers
      PROVE  /\ o.hops = 1 /\ o \in Offered /\ Rooted(o.cause)
             /\ \E f \in OpaqueSources : o = [event |-> AllFact(f), hops |-> 1, cause |-> OpaqueOrigin(f)]
                                         /\ o.event.file = f
  <2>1. PICK f \in OpaqueSources : o \in Offers({AllFact(f)}, 1, OpaqueOrigin(f))
    OBVIOUS
  <2>2. o = [event |-> AllFact(f), hops |-> 1, cause |-> OpaqueOrigin(f)]
    BY <2>1 DEF Offers
  <2>3. AllFact(f) \in Event /\ OpaqueOrigin(f) \in Origin /\ AllFact(f).file = f
    BY <1>3, FactsTyped, OriginsTyped DEF AllFact
  <2>4. o.event = AllFact(f) /\ o.hops = 1 /\ o.cause = OpaqueOrigin(f)
    BY ONLY <2>2
  <2>5. o \in Offered
    BY ONLY <2>2, <2>3 DEF Offered
  <2> QED
    BY <1>3, <2>2, <2>3, <2>4, <2>5
<1>5. ASSUME NEW f \in OpaqueSources
      PROVE  \E o \in offers : o.event = AllFact(f) /\ o.hops = 1
  <2> DEFINE o == [event |-> AllFact(f), hops |-> 1, cause |-> OpaqueOrigin(f)]
  <2>1. o \in offers /\ o.event = AllFact(f) /\ o.hops = 1
    BY DEF Offers
  <2> QED
    BY <2>1
<1> HIDE DEF offers
<1>6. \A o, p \in offers : o.event = p.event => o = p
  <2> TAKE o, p \in offers
  <2> HAVE o.event = p.event
  <2>1. \E f \in OpaqueSources : o = [event |-> AllFact(f), hops |-> 1, cause |-> OpaqueOrigin(f)]
                                 /\ o.event.file = f
    BY <1>4
  <2>2. \E f \in OpaqueSources : p = [event |-> AllFact(f), hops |-> 1, cause |-> OpaqueOrigin(f)]
                                 /\ p.event.file = f
    BY <1>4
  <2> QED
    BY <2>1, <2>2
<1>7. offers \in SUBSET Offered
  BY <1>4
<1>8. /\ known' \in [DOMAIN known' -> Entries] /\ DOMAIN known' \subseteq Event
      /\ DOMAIN known' = DOMAIN known \cup {o.event : o \in offers}
      /\ \A o \in offers : known'[o.event].hops <= o.hops
      /\ work' \in Seq(Batches)
  BY <1>1, <1>2, <1>6, <1>7, EmitFacts
<1>9. Nearer /\ reached' \in [DOMAIN reached' -> Entries]
  BY <1>1 DEF Nearer, Entries
<1>10. GraphTypes'
  BY <1>1, <1>8, <1>9 DEF GraphTypes, Input
<1>11. KnownOK' /\ RankOK'
  <2>1. \A o \in offers : Grounded(o, offers)
    BY <1>4 DEF Grounded
  <2>2. KnownOK /\ RankOK
    BY DEF SpreadOK
  <2> QED
    BY <1>1, <1>2, <1>6, <1>7, <2>1, <2>2, EmitKeepsCauses
<1>12. WorkOK'
  <2>1. WorkOK /\ \A w : Queued(<<>>, w) => Queued(work, w) /\ w \in Items
    BY <1>1 DEF SpreadOK
  <2> QED
    BY <1>1, <1>2, <1>6, <1>7, <2>1, EmitKeepsQueue
<1>13. /\ \A e, n : n \in Nat /\ IsKnown(e, n) => IsKnown(e, n)'
       /\ \A e \in DOMAIN known : known'[e] = known[e] /\ Closed(e) => Closed(e)'
       /\ \A e \in DOMAIN known' : \/ Queued(work', [event |-> e, hops |-> known'[e].hops])
                                   \/ e \in DOMAIN known /\ known'[e] = known[e]
  BY <1>1, <1>2, <1>6, <1>7, <1>9, EmitKeepsFindings
<1>14. ClosedOK'
  <2>1. \A e \in DOMAIN known : Closed(e)
    BY <1>1 DEF SpreadOK, ClosedOK
  <2>2. \A e \in DOMAIN known' : Queued(work', [event |-> e, hops |-> known'[e].hops]) \/ Closed(e)'
    BY <1>13, <2>1
  <2> QED
    BY <2>2 DEF ClosedOK, Queued
<1>15. ReachedOK'
  <2> SUFFICES ASSUME NEW f \in DOMAIN reached'
               PROVE  Rooted(reached'[f].cause) \/ ReachedBy(f, reached[f].cause)'
    BY SameGraph DEF ReachedOK
  <2> DEFINE led == reached[f].cause
  <2>1. Rooted(led) \/ ReachedBy(f, led)
    BY DEF SpreadOK, ReachedOK
  <2>2. CASE ReachedBy(f, led)
    <3>1. led \in DOMAIN known /\ known[led].hops + 1 <= reached[f].hops /\ \E g \in Across(led) : g.file = f
      BY <2>2 DEF ReachedBy
    <3>2. known[led].hops \in Nat /\ reached[f].hops \in Nat /\ IsKnown(led, known[led].hops)
      BY <1>1, <3>1 DEF Entries, IsKnown
    <3>3. led \in DOMAIN known' /\ known'[led].hops <= known[led].hops /\ known'[led].hops \in Nat
      BY <1>8, <1>13, <3>2 DEF IsKnown, Entries
    <3> QED
      BY <3>1, <3>2, <3>3, SameGraph DEF ReachedBy
  <2> QED
    BY <2>1, <2>2
<1>16. Seeded'
  BY <1>13, SameGraph DEF Seeded
<1>17. Widened'
  <2>1. ASSUME NEW f \in OpaqueSources
        PROVE  AllFact(f) \in DOMAIN known' /\ known'[AllFact(f)].hops <= 1
    BY <1>5, <1>8
  <2> QED
    BY <2>1, SameGraph DEF Widened, IsKnown, AllFact
<1> QED
  BY <1>10, <1>11, <1>12, <1>14, <1>15, <1>16, <1>17 DEF SpreadOK

--------------------------------------------------------------------------
(* Spreading one item.                                                     *)

SpreadOffers(item) ==
    Offers(Within(item.event), item.hops, item.event)
    \cup Offers(Across(item.event), item.hops + 1, item.event)

\* Every offer is made by the item's fact, inside its module or beyond it.
LEMMA SpreadOfferFacts ==
  ASSUME call \in Input, NEW item \in Items
  PROVE  /\ SpreadOffers(item) \in SUBSET Offered
         /\ \A o \in SpreadOffers(item) :
               /\ o.cause = item.event
               /\ \/ o.event \in Within(item.event) /\ o.hops = item.hops
                  \/ o.event \in Across(item.event) /\ o.hops = item.hops + 1
         /\ \A o, p \in SpreadOffers(item) : o.event = p.event => o = p
         /\ \A g \in Within(item.event) :
               \E o \in SpreadOffers(item) : o.event = g /\ o.hops = item.hops
         /\ \A g \in Across(item.event) :
               \E o \in SpreadOffers(item) : o.event = g /\ o.hops = item.hops + 1
<1> DEFINE e == item.event
           n == item.hops
           of(g, k) == [event |-> g, hops |-> k, cause |-> e]
<1>1. e \in Event /\ n \in Nat /\ n + 1 \in Nat
  BY DEF Items
<1>2. /\ Within(e) \subseteq Event /\ Across(e) \subseteq Event /\ Within(e) \cap Across(e) = {}
  BY <1>1, WithinTyped, AcrossTyped, NotBoth
<1>3. SpreadOffers(item) = {of(g, n) : g \in Within(e)} \cup {of(g, n + 1) : g \in Across(e)}
  BY DEF SpreadOffers, Offers
<1>4. \A g, k : of(g, k).event = g /\ of(g, k).hops = k /\ of(g, k).cause = e
  OBVIOUS
<1>5. \A g \in Event, k \in Nat : of(g, k) \in Offered
  BY <1>1 DEF Offered
<1> HIDE DEF e, n, of
<1>6. ASSUME NEW o \in SpreadOffers(item)
      PROVE  /\ o \in Offered /\ o.cause = e
             /\ \/ o.event \in Within(e) /\ o.hops = n /\ o = of(o.event, n)
                \/ o.event \in Across(e) /\ o.hops = n + 1 /\ o = of(o.event, n + 1)
  <2>1. CASE \E g \in Within(e) : o = of(g, n)
    <3>1. PICK g \in Within(e) : o = of(g, n)
      BY <2>1
    <3> QED
      BY <1>1, <1>2, <1>4, <1>5, <3>1
  <2>2. CASE \E g \in Across(e) : o = of(g, n + 1)
    <3>1. PICK g \in Across(e) : o = of(g, n + 1)
      BY <2>2
    <3> QED
      BY <1>1, <1>2, <1>4, <1>5, <3>1
  <2> QED
    BY <1>3, <2>1, <2>2
<1>7. \A o, p \in SpreadOffers(item) : o.event = p.event => o = p
  <2> TAKE o, p \in SpreadOffers(item)
  <2> HAVE o.event = p.event
  <2>1. /\ \/ o.event \in Within(e) /\ o = of(o.event, n)
           \/ o.event \in Across(e) /\ o = of(o.event, n + 1)
        /\ \/ p.event \in Within(e) /\ p = of(p.event, n)
           \/ p.event \in Across(e) /\ p = of(p.event, n + 1)
    BY <1>6
  <2>2. o.event = p.event
    OBVIOUS
  <2> QED
    BY ONLY <1>2, <2>1, <2>2
<1>8. ASSUME NEW g \in Within(e)
      PROVE  \E o \in SpreadOffers(item) : o.event = g /\ o.hops = n
  BY <1>3, <1>4
<1>9. ASSUME NEW g \in Across(e)
      PROVE  \E o \in SpreadOffers(item) : o.event = g /\ o.hops = n + 1
  BY <1>3, <1>4
<1> QED
  BY <1>6, <1>7, <1>8, <1>9 DEF e, n

LEMMA SpreadStepOK ==
  ASSUME GraphTypes, SpreadOK, work # <<>>, Spread, call' = call, pass' = pass
  PROVE  /\ GraphTypes' /\ SpreadOK'
         /\ Seeded => Seeded'
         /\ Widened => Widened'
<1>1. /\ call \in Input /\ known \in [DOMAIN known -> Entries] /\ DOMAIN known \subseteq Event
      /\ reached \in [DOMAIN reached -> Entries] /\ DOMAIN reached \subseteq Files
      /\ work \in Seq(Batches)
  BY DEF GraphTypes
<1>2. KnownOK /\ WorkOK /\ ReachedOK /\ RankOK /\ ClosedOK
  BY DEF SpreadOK
<1>3. PICK item \in Oldest :
        /\ Emit(Offers(Within(item.event), item.hops, item.event)
                \cup Offers(Across(item.event), item.hops + 1, item.event), Rest(item))
        /\ Affect({g.file : g \in Across(item.event)}, item.hops + 1, item.event)
  BY DEF Spread
<1>4. item \in Head(work)
  <2>1. Head(work) \in Batches
    BY <1>1
  <2>2. Head(work) # {}
    BY <2>1 DEF Batches
  <2> QED
    BY <1>3, <2>2 DEF Oldest
<1>5. /\ Rest(item) \in Seq(Batches) /\ item \in Items /\ Queued(work, item)
      /\ \A w : Queued(Rest(item), w) => Queued(work, w)
      /\ \A w : Queued(work, w) /\ w # item => Queued(Rest(item), w)
  BY <1>1, <1>4, RestQueues
<1> DEFINE e == item.event
           n == item.hops
           offers == SpreadOffers(item)
           rest == Rest(item)
<1>6. Emit(offers, rest)
  BY <1>3 DEF SpreadOffers
<1>7. /\ e \in Event /\ n \in Nat /\ n + 1 \in Nat /\ item = [event |-> e, hops |-> n]
      /\ e \in DOMAIN known /\ known[e].hops <= n /\ known[e].hops \in Nat
  <2>1. e \in Event /\ n \in Nat /\ item = [event |-> e, hops |-> n]
    BY <1>5 DEF Items
  <2>2. e \in DOMAIN known /\ known[e].hops <= n
    BY <1>2, <1>5 DEF WorkOK
  <2> QED
    BY <1>1, <2>1, <2>2 DEF Entries
<1>8. /\ offers \in SUBSET Offered
      /\ \A o \in offers : /\ o.cause = e
                           /\ \/ o.event \in Within(e) /\ o.hops = n
                              \/ o.event \in Across(e) /\ o.hops = n + 1
      /\ \A o, p \in offers : o.event = p.event => o = p
      /\ \A g \in Within(e) : \E o \in offers : o.event = g /\ o.hops = n
      /\ \A g \in Across(e) : \E o \in offers : o.event = g /\ o.hops = n + 1
  BY <1>1, <1>5, SpreadOfferFacts
<1>9. Affect({g.file : g \in Across(e)}, n + 1, e)
  BY <1>3
<1>10. Across(e) \subseteq Event
  BY <1>1, <1>7, AcrossTyped
<1> HIDE DEF e, n, offers, rest
<1>11. /\ known' \in [DOMAIN known' -> Entries] /\ DOMAIN known' \subseteq Event
       /\ DOMAIN known' = DOMAIN known \cup {o.event : o \in offers}
       /\ \A o \in offers : known'[o.event].hops <= o.hops
       /\ \A f \in DOMAIN known : known'[f].hops <= known[f].hops
       /\ work' \in Seq(Batches)
       /\ \A w : Queued(work', w) <=>
            Queued(rest, w) \/ \E o \in offers : Fresh(o) /\ w = [event |-> o.event, hops |-> o.hops]
  <2>1. rest \in Seq(Batches) /\ offers \in SUBSET Offered /\ Emit(offers, rest)
    BY <1>5, <1>6, <1>8 DEF rest
  <2>2. \A o, p \in offers : o.event = p.event => o = p
    BY <1>8
  <2> QED
    BY ONLY <1>1, <2>1, <2>2, EmitFacts
<1>12. \A o \in offers : Fresh(o) => o.event # e
  <2> SUFFICES ASSUME NEW o \in offers, Fresh(o), o.event = e
               PROVE  FALSE
    OBVIOUS
  <2>1. o.hops < known[e].hops /\ (o.hops = n \/ o.hops = n + 1)
    BY <1>7, <1>8 DEF Fresh
  <2> QED
    BY <1>7, <2>1
<1>13. KnownOK' /\ RankOK'
  <2>1. \A o \in offers : Grounded(o, offers)
    <3> TAKE o \in offers
    <3>1. \/ o.event \in Within(e) /\ o.hops = n
          \/ o.event \in Across(e) /\ o.hops = n + 1
      BY <1>8
    <3>2. \/ o.event \in Within(e) /\ known[e].hops <= o.hops
          \/ o.event \in Across(e) /\ known[e].hops + 1 <= o.hops
      BY <1>7, <3>1
    <3>3. o.cause = e
      BY <1>8
    <3> QED
      BY <1>7, <1>12, <3>2, <3>3 DEF Grounded
  <2>2. rest \in Seq(Batches)
    BY <1>5 DEF rest
  <2> QED
    BY <1>1, <1>2, <1>6, <1>8, <2>1, <2>2, EmitKeepsCauses
<1>14. WorkOK'
  <2>1. rest \in Seq(Batches) /\ \A w : Queued(rest, w) => Queued(work, w)
    BY <1>5 DEF rest
  <2>2. \A w : Queued(work, w) => w \in Items
    <3> SUFFICES ASSUME NEW i \in DOMAIN work PROVE work[i] \subseteq Items
      BY DEF Queued
    <3>1. work[i] \in Batches
      BY <1>1
    <3> QED
      BY <3>1 DEF Batches
  <2> QED
    BY <1>1, <1>2, <1>6, <1>8, <2>1, <2>2, EmitKeepsQueue
<1>15. DEFINE files == {g.file : g \in Across(e)}
              nearer(f) == f \in files /\ (f \in DOMAIN reached => n + 1 < reached[f].hops)
<1>16. /\ DOMAIN reached' = DOMAIN reached \cup files /\ files \subseteq Files
       /\ \A f \in DOMAIN reached' :
            reached'[f] = IF nearer(f) THEN [hops |-> n + 1, cause |-> e] ELSE reached[f]
  <2>1. files \subseteq Files
    BY <1>10 DEF Event
  <2> HIDE DEF files
  <2>2. reached' = [f \in DOMAIN reached \cup files |->
                      IF nearer(f) THEN [hops |-> n + 1, cause |-> e] ELSE reached[f]]
    BY <1>9 DEF Affect, files
  <2> HIDE DEF nearer
  <2> QED
    BY <2>1, <2>2
<1>17. \A f \in DOMAIN reached' : ~nearer(f) => f \in DOMAIN reached /\ reached'[f] = reached[f]
  BY <1>16
<1>18. \A f \in DOMAIN reached' : nearer(f) => reached'[f].hops = n + 1 /\ reached'[f].cause = e
  <2> SUFFICES ASSUME NEW f \in DOMAIN reached', nearer(f)
               PROVE  reached'[f].hops = n + 1 /\ reached'[f].cause = e
    OBVIOUS
  <2>1. reached'[f] = [hops |-> n + 1, cause |-> e]
    BY <1>16
  <2> QED
    BY ONLY <2>1
<1>19. \A f \in DOMAIN reached : reached[f] \in Entries /\ reached[f].hops \in Nat
  BY <1>1 DEF Entries
<1>20. reached' \in [DOMAIN reached' -> Entries] /\ DOMAIN reached' \subseteq Files
  <2>1. [hops |-> n + 1, cause |-> e] \in Entries
    BY <1>7 DEF Entries
  <2>2. \A f \in DOMAIN reached' : reached'[f] \in Entries
    BY <1>16, <1>17, <1>19, <2>1
  <2>3. reached' = [f \in DOMAIN reached' |-> reached'[f]]
    BY <1>9 DEF Affect
  <2> HIDE DEF files, nearer
  <2> QED
    BY <1>1, <1>16, <2>2, <2>3
<1>21. Nearer
  <2> SUFFICES ASSUME NEW f \in DOMAIN reached
               PROVE  f \in DOMAIN reached' /\ reached'[f].hops <= reached[f].hops
    BY DEF Nearer
  <2>1. f \in DOMAIN reached'
    BY <1>16
  <2>2. CASE nearer(f)
    BY <1>7, <1>18, <1>19, <2>1, <2>2
  <2>3. CASE ~nearer(f)
    BY <1>17, <1>19, <2>1, <2>3
  <2> QED
    BY <2>1, <2>2, <2>3
<1>22. \A f \in files : f \in DOMAIN reached' /\ reached'[f].hops <= n + 1
  <2> TAKE f \in files
  <2>1. f \in DOMAIN reached'
    BY <1>16
  <2>2. CASE nearer(f)
    BY <1>7, <1>18, <2>1, <2>2
  <2>3. CASE ~nearer(f)
    BY <1>7, <1>17, <1>19, <2>1, <2>3
  <2> QED
    BY <2>1, <2>2, <2>3
<1>23. /\ \A g, k : k \in Nat /\ IsKnown(g, k) => IsKnown(g, k)'
       /\ \A g \in DOMAIN known : known'[g] = known[g] /\ Closed(g) => Closed(g)'
       /\ \A g \in DOMAIN known' : \/ Queued(work', [event |-> g, hops |-> known'[g].hops])
                                   \/ g \in DOMAIN known /\ known'[g] = known[g]
  <2>1. rest \in Seq(Batches)
    BY <1>5 DEF rest
  <2> QED
    BY <1>6, <1>8, <1>20, <1>21, <2>1, EmitKeepsFindings
<1>24. GraphTypes'
  BY <1>1, <1>11, <1>20 DEF GraphTypes, Input
<1>25. ClosedOK'
  <2> SUFFICES ASSUME NEW g \in DOMAIN known', g \in DOMAIN known, known'[g] = known[g]
               PROVE  Queued(work', [event |-> g, hops |-> known'[g].hops]) \/ Closed(g)'
    BY <1>23 DEF ClosedOK, Queued
  <2> DEFINE w == [event |-> g, hops |-> known[g].hops]
  <2>1. Queued(work, w) \/ Closed(g)
    BY <1>2 DEF ClosedOK
  <2>2. CASE Closed(g)
    BY <1>23, <2>2
  <2>3. CASE Queued(work, w) /\ w # item
    <3>1. Queued(rest, w)
      BY <1>5, <2>3 DEF rest
    <3> QED
      BY <1>11, <3>1
  <2>4. CASE w = item
    <3>1. g = e /\ known[g].hops = n
      BY ONLY <1>7, <2>4
    <3>2. \A h \in Within(e) : h \in DOMAIN known' /\ known'[h].hops <= n
      BY <1>8, <1>11
    <3>3. \A h \in Across(e) : h \in DOMAIN known' /\ known'[h].hops <= n + 1
      BY <1>8, <1>11
    <3>4. \A h \in Across(e) : h.file \in DOMAIN reached' /\ reached'[h.file].hops <= n + 1
      BY <1>22
    <3>5. known'[e].hops = n
      BY <3>1
    <3> QED
      BY <3>1, <3>2, <3>3, <3>4, <3>5, SameGraph DEF Closed, IsKnown, IsReached
  <2> QED
    BY <2>1, <2>2, <2>3, <2>4
<1>26. ReachedOK'
  <2> SUFFICES ASSUME NEW f \in DOMAIN reached'
               PROVE  Rooted(reached'[f].cause) \/ ReachedBy(f, reached[f].cause)'
    BY SameGraph DEF ReachedOK
  <2>1. \A g \in DOMAIN known : /\ g \in DOMAIN known' /\ known'[g].hops <= known[g].hops
                                /\ known[g].hops \in Nat /\ known'[g].hops \in Nat
    BY <1>1, <1>11 DEF Entries
  <2>2. CASE nearer(f)
    <3>1. reached'[f].hops = n + 1 /\ reached'[f].cause = e
      BY <1>18, <2>2
    <3>2. e \in DOMAIN known' /\ known'[e].hops + 1 <= reached'[f].hops
      BY <1>7, <2>1, <3>1
    <3>3. \E g \in Across(e) : g.file = f
      BY <2>2
    <3> QED
      BY <3>1, <3>2, <3>3, SameGraph DEF ReachedBy
  <2>3. CASE ~nearer(f)
    <3>1. f \in DOMAIN reached /\ reached'[f] = reached[f] /\ reached[f].hops \in Nat
      BY <1>17, <1>19, <2>3
    <3> DEFINE led == reached[f].cause
    <3>2. Rooted(led) \/ ReachedBy(f, led)
      BY <1>2, <3>1 DEF ReachedOK
    <3>3. CASE ReachedBy(f, led)
      <4>1. led \in DOMAIN known /\ known[led].hops + 1 <= reached[f].hops /\ \E g \in Across(led) : g.file = f
        BY <3>3 DEF ReachedBy
      <4>2. led \in DOMAIN known' /\ known'[led].hops + 1 <= reached'[f].hops
        BY <2>1, <3>1, <4>1
      <4> QED
        BY <3>1, <4>1, <4>2, SameGraph DEF ReachedBy
    <3> QED
      BY <3>1, <3>2, <3>3
  <2> QED
    BY <2>2, <2>3
<1>27. Seeded => Seeded'
  BY <1>23, SameGraph DEF Seeded
<1>28. Widened => Widened'
  BY <1>23, SameGraph DEF Widened, AllFact
<1> QED
  BY <1>13, <1>14, <1>24, <1>25, <1>26, <1>27, <1>28 DEF SpreadOK

--------------------------------------------------------------------------
(* Counting, and what a recursive definition defines.                      *)

Less == {ss \in Nat \X Nat : ss[1] < ss[2]}

\* A set of numbers that is not empty has a least one.
LEMMA LeastNumber ==
  ASSUME NEW S \in SUBSET Nat, S # {}
  PROVE  \E n \in S : \A m \in S : n <= m
<1>1. IsWellFoundedOn(Less, Nat)
  <2>1. IsWellFoundedOn({ss \in Nat \X Nat : ss[1] < ss[2]}, Nat)
    BY NatLessThanWellFounded DEF OpToRel
  <2> QED
    BY <2>1 DEF Less
<1>2. PICK n \in S : \A m \in S : ~ (<<m, n>> \in Less)
  BY <1>1, WFMin
<1>3. \A m \in S : n <= m
  <2> SUFFICES ASSUME NEW m \in S, ~(n <= m) PROVE FALSE
    OBVIOUS
  <2>1. m \in Nat /\ n \in Nat /\ m < n
    OBVIOUS
  <2> QED
    BY <1>2, <2>1 DEF Less
<1> QED
  BY <1>3

\* Induction, for a set of numbers.
LEMMA Counting ==
  ASSUME NEW S, 0 \in S, \A k \in Nat : k \in S => k + 1 \in S
  PROVE  \A k \in Nat : k \in S
<1> SUFFICES ASSUME Nat \ S # {} PROVE FALSE
  OBVIOUS
<1>1. PICK n \in Nat \ S : \A m \in Nat \ S : n <= m
  BY LeastNumber
<1>2. n # 0 /\ n - 1 \in Nat /\ n = (n - 1) + 1 /\ ~(n <= n - 1)
  BY <1>1
<1> QED
  BY <1>1, <1>2

Recursion(g, n, start, step) ==
    g = [k \in 0..n |-> IF k = 0 THEN start ELSE step[g[k - 1]]]

\* A recursive definition that steps within a set has a solution there, and no
\* other.
LEMMA RecursionTyped ==
  ASSUME NEW V, NEW start \in V, NEW step \in [V -> V], NEW n \in Nat,
         NEW g, Recursion(g, n, start, step)
  PROVE  \A k \in 0..n : g[k] \in V /\ (k # 0 => g[k] = step[g[k - 1]])
<1>1. g[0] = start /\ \A k \in 0..n : k # 0 => g[k] = step[g[k - 1]]
  BY DEF Recursion
<1> DEFINE Good == {k \in Nat : k <= n => g[k] \in V}
<1>2. 0 \in Good
  BY <1>1
<1>3. \A k \in Nat : k \in Good => k + 1 \in Good
  <2> SUFFICES ASSUME NEW k \in Nat, k \in Good, k + 1 <= n PROVE g[k + 1] \in V
    OBVIOUS
  <2>1. k + 1 \in 0..n /\ k + 1 # 0 /\ (k + 1) - 1 = k /\ g[k] \in V
    OBVIOUS
  <2> QED
    BY <1>1, <2>1
<1>4. \A k \in Nat : k \in Good
  <2> HIDE DEF Good
  <2> QED
    BY <1>2, <1>3, Counting
<1> QED
  BY <1>1, <1>4

LEMMA RecursionExists ==
  ASSUME NEW V, NEW start \in V, NEW step \in [V -> V], NEW n \in Nat
  PROVE  \E g : Recursion(g, n, start, step)
<1> DEFINE Good == {m \in Nat : \E g : Recursion(g, m, start, step)}
<1>1. 0 \in Good
  <2>1. Recursion([k \in 0..0 |-> start], 0, start, step)
    BY DEF Recursion
  <2> QED
    BY <2>1
<1>2. ASSUME NEW m \in Nat, m \in Good PROVE m + 1 \in Good
  <2>1. PICK g : Recursion(g, m, start, step)
    BY <1>2
  <2>2. g[0] = start /\ \A k \in 0..m : k # 0 => g[k] = step[g[k - 1]]
    BY <2>1 DEF Recursion
  <2> DEFINE h == [k \in 0..(m + 1) |-> IF k = m + 1 THEN step[g[m]] ELSE g[k]]
  <2>3. \A k \in 0..(m + 1) : h[k] = IF k = 0 THEN start ELSE step[h[k - 1]]
    <3> TAKE k \in 0..(m + 1)
    <3>1. CASE k = 0
      BY <2>2, <3>1
    <3>2. CASE k = m + 1
      <4>1. h[k] = step[g[m]] /\ k # 0 /\ k - 1 = m /\ m \in 0..(m + 1) /\ m # m + 1
        BY <3>2
      <4>2. h[m] = g[m]
        BY <4>1
      <4> HIDE DEF h
      <4> QED
        BY <4>1, <4>2
    <3>3. CASE k # 0 /\ k # m + 1
      <4>1. k \in 0..m /\ k - 1 \in 0..(m + 1) /\ k - 1 # m + 1
        BY <3>3
      <4>2. h[k] = g[k] /\ h[k - 1] = g[k - 1]
        BY <3>3, <4>1
      <4> HIDE DEF h
      <4> QED
        BY <2>2, <3>3, <4>1, <4>2
    <3> QED
      BY <3>1, <3>2, <3>3
  <2>4. h = [k \in 0..(m + 1) |-> h[k]]
    OBVIOUS
  <2> HIDE DEF h
  <2>5. Recursion(h, m + 1, start, step)
    BY <2>3, <2>4 DEF Recursion
  <2> QED
    BY <2>5
<1>3. n \in Good
  <2> HIDE DEF Good
  <2> QED
    BY <1>1, <1>2, Counting
<1> QED
  BY <1>3

--------------------------------------------------------------------------
(* Weights.                                                                *)

\* The element a fold takes next.
Pick(s) == CHOOSE x \in s : TRUE

Sums(S, value, it) ==
    it = [s \in SUBSET S |-> IF s = {} THEN 0 ELSE value[Pick(s)] + it[s \ {Pick(s)}]]

\* What is left of a finite set once the next element is taken.
LEMMA PickTakes ==
  ASSUME NEW S, IsFiniteSet(S), NEW s \in SUBSET S
  PROVE  /\ Cardinality(s) \in Nat /\ Cardinality(s) <= Cardinality(S) /\ (Cardinality(s) = 0 <=> s = {})
         /\ s # {} => /\ Pick(s) \in s /\ s \ {Pick(s)} \in SUBSET S
                      /\ Cardinality(s \ {Pick(s)}) = Cardinality(s) - 1
<1>1. IsFiniteSet(s) /\ Cardinality(s) \in Nat /\ Cardinality(s) <= Cardinality(S)
  BY FS_Subset, FS_CardinalityType
<1>2. Cardinality(s) = 0 <=> s = {}
  BY <1>1, FS_EmptySet
<1>3. s # {} => Pick(s) \in s
  BY DEF Pick
<1>4. s # {} => Cardinality(s \ {Pick(s)}) = Cardinality(s) - 1
  BY <1>1, <1>3, FS_RemoveElement
<1> QED
  BY <1>1, <1>2, <1>3, <1>4

LEMMA SumsExist ==
  ASSUME NEW S, IsFiniteSet(S), NEW value, \A f \in S : value[f] \in Nat
  PROVE  \E it : Sums(S, value, it)
<1> DEFINE V == [SUBSET S -> Nat]
           next(v) == [s \in SUBSET S |-> IF s = {} THEN 0 ELSE value[Pick(s)] + v[s \ {Pick(s)}]]
           start == [s \in SUBSET S |-> 0]
           step == [v \in V |-> next(v)]
           n == Cardinality(S)
<1>1. start \in V
  OBVIOUS
<1>2. step \in [V -> V]
  <2> SUFFICES ASSUME NEW v \in V PROVE next(v) \in V
    OBVIOUS
  <2> SUFFICES ASSUME NEW s \in SUBSET S, s # {} PROVE value[Pick(s)] + v[s \ {Pick(s)}] \in Nat
    OBVIOUS
  <2>1. Pick(s) \in S /\ s \ {Pick(s)} \in SUBSET S
    BY PickTakes
  <2> QED
    BY <2>1
<1>3. n \in Nat
  BY FS_CardinalityType
<1>4. PICK g : Recursion(g, n, start, step)
  <2> HIDE DEF V, start, step, n
  <2> QED
    BY <1>1, <1>2, <1>3, RecursionExists
<1>5. g[0] = start /\ \A k \in 0..n : g[k] \in V /\ (k # 0 => g[k] = step[g[k - 1]])
  <2>1. g[0] = start
    BY <1>3, <1>4 DEF Recursion
  <2> HIDE DEF V, start, step, n
  <2> QED
    BY <1>1, <1>2, <1>3, <1>4, <2>1, RecursionTyped
<1> DEFINE it == [s \in SUBSET S |-> g[Cardinality(s)][s]]
<1>6. ASSUME NEW s \in SUBSET S
      PROVE  it[s] = IF s = {} THEN 0 ELSE value[Pick(s)] + it[s \ {Pick(s)}]
  <2>1. CASE s = {}
    <3>1. Cardinality(s) = 0
      BY <2>1, PickTakes
    <3>2. it[s] = start[s]
      BY <1>5, <3>1
    <3> QED
      BY <2>1, <3>2
  <2>2. CASE s # {}
    <3> DEFINE c == Cardinality(s)
               t == s \ {Pick(s)}
    <3>1. c \in 0..n /\ c - 1 \in 0..n /\ c # 0 /\ Cardinality(t) = c - 1 /\ t \in SUBSET S
      <4>1. c \in Nat /\ c <= n /\ c # 0 /\ Cardinality(t) = c - 1 /\ t \in SUBSET S
        BY <2>2, PickTakes
      <4> QED
        BY ONLY <1>3, <4>1
    <3>2. it[s] = g[c][s] /\ it[t] = g[c - 1][t]
      BY <3>1
    <3>3. g[c] = step[g[c - 1]] /\ g[c - 1] \in V
      BY <1>5, <3>1
    <3> HIDE DEF c, t
    <3>4. g[c] = next(g[c - 1])
      BY <3>3
    <3>5. g[c][s] = value[Pick(s)] + g[c - 1][t]
      BY <2>2, <3>4 DEF t
    <3> QED
      BY <2>2, <3>2, <3>5 DEF t
  <2> QED
    BY <2>1, <2>2
<1>7. it = [s \in SUBSET S |-> it[s]]
  OBVIOUS
<1> HIDE DEF it
<1>8. Sums(S, value, it)
  BY <1>6, <1>7 DEF Sums
<1> QED
  BY <1>8

LEMMA SumTyped ==
  ASSUME NEW S, IsFiniteSet(S), NEW value, \A f \in S : value[f] \in Nat
  PROVE  SumFunctionOnSet(value, S) \in Nat
<1> DEFINE it == CHOOSE g : Sums(S, value, g)
<1>1. Sums(S, value, it)
  BY SumsExist
<1>2. SumFunctionOnSet(value, S) = it[S]
  BY DEF SumFunctionOnSet, FoldFunctionOnSet, MapThenFoldSet, Sums, Pick
<1> HIDE DEF it
<1> DEFINE Good == {k \in Nat : \A s \in SUBSET S : Cardinality(s) = k => it[s] \in Nat}
<1>3. \A s \in SUBSET S : it[s] = IF s = {} THEN 0 ELSE value[Pick(s)] + it[s \ {Pick(s)}]
  BY <1>1 DEF Sums
<1>4. 0 \in Good
  <2> SUFFICES ASSUME NEW s \in SUBSET S, Cardinality(s) = 0 PROVE it[s] \in Nat
    OBVIOUS
  <2>1. s = {}
    BY PickTakes
  <2>2. it[s] = 0
    BY <1>3, <2>1
  <2> QED
    BY <2>2
<1>5. ASSUME NEW k \in Nat, k \in Good PROVE k + 1 \in Good
  <2> SUFFICES ASSUME NEW s \in SUBSET S, Cardinality(s) = k + 1 PROVE it[s] \in Nat
    OBVIOUS
  <2>1. s # {} /\ Pick(s) \in S /\ s \ {Pick(s)} \in SUBSET S /\ Cardinality(s \ {Pick(s)}) = k
    BY PickTakes
  <2>2. it[s \ {Pick(s)}] \in Nat /\ value[Pick(s)] \in Nat
    BY <1>5, <2>1
  <2>3. it[s] = value[Pick(s)] + it[s \ {Pick(s)}]
    BY <1>3, <2>1
  <2> QED
    BY ONLY <2>2, <2>3
<1>6. \A k \in Nat : k \in Good
  <2> HIDE DEF Good
  <2> QED
    BY <1>4, <1>5, Counting
<1>7. Cardinality(S) \in Nat
  BY FS_CardinalityType
<1> QED
  BY <1>2, <1>6, <1>7

LEMMA WeightTyped ==
  ASSUME NEW targets \in SUBSET Files, NEW costs,
         DOMAIN costs \subseteq Files /\ \A f \in DOMAIN costs : costs[f] \in Nat,
         NEW f \in targets
  PROVE  Weight(costs, targets, f) \in Nat
<1> DEFINE timed == DOMAIN costs \cap targets
<1>1. IsFiniteSet(timed)
  BY GraphAssumption, FS_Subset
<1>2. Cardinality(timed) \in Nat /\ SumFunctionOnSet(costs, timed) \in Nat
  BY <1>1, SumTyped, FS_CardinalityType
<1>3. \A a, b \in Nat : a * b \in Nat
  OBVIOUS
<1>4. f \in timed => costs[f] * Cardinality(timed) \in Nat
  BY <1>2, <1>3
<1>5. Weight(costs, targets, f) =
        IF timed = {} THEN 1
        ELSE IF f \in timed THEN costs[f] * Cardinality(timed) ELSE SumFunctionOnSet(costs, timed)
  BY DEF Weight
<1> HIDE DEF timed
<1> QED
  BY <1>2, <1>4, <1>5

LEMMA PositionFacts ==
  /\ \A f \in Files : Position(f) \in Nat
  /\ \A f, g \in Files : Position(f) = Position(g) => f = g
<1>1. NameOrder \in Seq(Files) /\ \A f \in Files : \E i \in DOMAIN NameOrder : NameOrder[i] = f
  BY RunAssumption DEF Range
<1>2. \A f \in Files : Position(f) \in DOMAIN NameOrder /\ NameOrder[Position(f)] = f
  <2> TAKE f \in Files
  <2>1. \E i \in DOMAIN NameOrder : NameOrder[i] = f
    BY <1>1
  <2> QED
    BY <2>1 DEF Position
<1>3. DOMAIN NameOrder \subseteq Nat
  BY <1>1
<1>4. \A f \in Files : Position(f) \in Nat
  BY <1>2, <1>3
<1>5. \A f, g \in Files : Position(f) = Position(g) => f = g
  BY <1>2
<1> QED
  BY <1>4, <1>5

\* The order in which the files are placed has a first among any of them: the
\* one that the fewest precede.
LEMMA HeaviestIsOne ==
  ASSUME NEW files \in SUBSET Files, files # {}, NEW weight, \A f \in files : weight[f] \in Nat
  PROVE  Heaviest(weight, files) \in files
<1> DEFINE before(f) == {g \in files : Precedes(weight, g, f)}
           numbers == {Cardinality(before(f)) : f \in files}
<1>1. \A f \in files : /\ IsFiniteSet(before(f)) /\ Cardinality(before(f)) \in Nat
                       /\ before(f) \subseteq files
  <2> TAKE f \in files
  <2>1. before(f) \in SUBSET Files
    OBVIOUS
  <2> HIDE DEF before
  <2>2. IsFiniteSet(before(f))
    BY <2>1, GraphAssumption, FS_Subset
  <2>3. before(f) \subseteq files
    BY DEF before
  <2> QED
    BY <2>2, <2>3, FS_CardinalityType
<1>2. PICK f \in files : \A g \in files : Cardinality(before(f)) <= Cardinality(before(g))
  <2> HIDE DEF before
  <2>1. numbers \in SUBSET Nat /\ numbers # {}
    BY <1>1
  <2>2. PICK n \in numbers : \A m \in numbers : n <= m
    BY <2>1, LeastNumber
  <2>3. PICK f \in files : n = Cardinality(before(f))
    BY <2>2
  <2> QED
    BY <2>2, <2>3
<1>3. \A a, b, c \in files :
        /\ ~Precedes(weight, a, a)
        /\ Precedes(weight, a, b) /\ Precedes(weight, b, c) => Precedes(weight, a, c)
        /\ a # b => Precedes(weight, a, b) \/ Precedes(weight, b, a)
  <2> TAKE a, b, c \in files
  <2>1. /\ weight[a] \in Nat /\ weight[b] \in Nat /\ weight[c] \in Nat
        /\ Position(a) \in Nat /\ Position(b) \in Nat /\ Position(c) \in Nat
        /\ a # b => Position(a) # Position(b)
    BY PositionFacts
  <2> QED
    BY <2>1 DEF Precedes
<1>4. before(f) = {}
  <2> SUFFICES ASSUME NEW g \in before(f) PROVE FALSE
    OBVIOUS
  <2>1. g \in files /\ before(g) \subseteq before(f) /\ g \notin before(g)
    BY <1>3
  <2>2. g \in before(f)
    OBVIOUS
  <2> HIDE DEF before
  <2>3. before(g) \in SUBSET before(f) /\ before(g) # before(f)
    BY <2>1, <2>2
  <2>4. /\ IsFiniteSet(before(f)) /\ Cardinality(before(g)) \in Nat /\ Cardinality(before(f)) \in Nat
        /\ Cardinality(before(f)) <= Cardinality(before(g))
    BY <1>1, <1>2, <2>1
  <2>5. /\ Cardinality(before(g)) <= Cardinality(before(f))
        /\ Cardinality(before(f)) = Cardinality(before(g)) => before(f) = before(g)
    BY <2>3, <2>4, FS_Subset
  <2> QED
    BY <2>3, <2>4, <2>5
<1>5. \A g \in files \ {f} : Precedes(weight, f, g)
  BY <1>3, <1>4
<1> QED
  BY <1>5 DEF Heaviest

--------------------------------------------------------------------------
(* Shards.                                                                 *)

Bins(targets, n) == [1..n -> [files : SUBSET targets, weight : Nat]]

\* One bin has one more file, and the others are as they were.
Added(bins, placed, n, f) ==
    \E i \in 1..n : /\ placed[i].files = bins[i].files \cup {f}
                    /\ \A j \in 1..n \ {i} : placed[j] = bins[j]

LEMMA PlaceFacts ==
  ASSUME NEW targets, NEW n \in Nat \ {0}, NEW bins \in Bins(targets, n), NEW f \in targets, NEW w \in Nat
  PROVE  /\ Place(bins, f, w) \in Bins(targets, n)
         /\ Added(bins, Place(bins, f, w), n, f)
<1>1. /\ DOMAIN bins = 1..n
      /\ \A i \in 1..n : bins[i] \in [files : SUBSET targets, weight : Nat]
  BY DEF Bins
<1>2. \A i \in 1..n : bins[i].weight \in Nat /\ bins[i].files \subseteq targets
  BY <1>1
<1> DEFINE least(i) == \A j \in DOMAIN bins : bins[i].weight < bins[j].weight
                                              \/ (bins[i].weight = bins[j].weight /\ i <= j)
           lightest == CHOOSE i \in DOMAIN bins : least(i)
<1>3. lightest \in 1..n
  <2> DEFINE weights == {bins[i].weight : i \in 1..n}
  <2>1. weights \in SUBSET Nat /\ weights # {}
    <3>1. 1 \in 1..n
      OBVIOUS
    <3>2. bins[1].weight \in weights
      BY <3>1
    <3>3. \A x \in weights : x \in Nat
      BY <1>2
    <3> HIDE DEF weights
    <3> QED
      BY <3>2, <3>3
  <2>2. PICK m \in weights : \A k \in weights : m <= k
    <3> HIDE DEF weights
    <3> QED
      BY <2>1, LeastNumber
  <2> DEFINE places == {i \in 1..n : bins[i].weight = m}
  <2>3. places \in SUBSET Nat /\ places # {}
    BY <2>2
  <2>4. PICK i \in places : \A k \in places : i <= k
    <3> HIDE DEF places
    <3> QED
      BY <2>3, LeastNumber
  <2>5. i \in 1..n /\ bins[i].weight = m /\ m \in Nat
    BY <1>2, <2>4
  <2>6. ASSUME NEW j \in 1..n
        PROVE  bins[i].weight < bins[j].weight \/ (bins[i].weight = bins[j].weight /\ i <= j)
    <3>1. m <= bins[j].weight /\ bins[j].weight \in Nat
      BY <1>2, <2>2
    <3>2. bins[j].weight = m => i <= j
      BY <2>4
    <3> QED
      BY <2>5, <3>1, <3>2
  <2>7. i \in DOMAIN bins /\ least(i)
    BY <1>1, <2>5, <2>6
  <2> HIDE DEF least
  <2> QED
    BY <1>1, <2>7
<1> DEFINE it == [bins EXCEPT ![lightest].files = @ \cup {f}, ![lightest].weight = @ + w]
<1>4. Place(bins, f, w) = it
  BY DEF Place
<1> HIDE DEF lightest
<1>5. /\ it \in Bins(targets, n) /\ it[lightest].files = bins[lightest].files \cup {f}
      /\ \A j \in 1..n \ {lightest} : it[j] = bins[j]
  <2>1. bins[lightest].files \cup {f} \in SUBSET targets /\ bins[lightest].weight + w \in Nat
    BY <1>2, <1>3
  <2>2. /\ it \in [1..n -> [files : SUBSET targets, weight : Nat]]
        /\ it[lightest].files = bins[lightest].files \cup {f}
        /\ \A j \in 1..n \ {lightest} : it[j] = bins[j]
    BY <1>1, <1>3, <2>1
  <2> QED
    BY <2>2 DEF Bins
<1> QED
  BY <1>3, <1>4, <1>5 DEF Added

\* Some files are left, and every other one is in exactly one bin.
Placing(targets, n, given) ==
    /\ given \in [left : SUBSET targets, bins : Bins(targets, n)]
    /\ \A i \in 1..n : given.bins[i].files \cap given.left = {}
    /\ \A i, j \in 1..n : i # j => given.bins[i].files \cap given.bins[j].files = {}
    /\ \A f \in targets \ given.left : \E i \in 1..n : f \in given.bins[i].files

LEMMA PlaceOK ==
  ASSUME NEW targets \in SUBSET Files, NEW n \in Nat \ {0}, NEW weight \in [targets -> Nat],
         NEW given, Placing(targets, n, given), given.left # {}
  PROVE  /\ Placing(targets, n, PlaceHeaviest(weight, given))
         /\ Cardinality(PlaceHeaviest(weight, given).left) = Cardinality(given.left) - 1
<1> DEFINE f == Heaviest(weight, given.left)
           placed == Place(given.bins, f, weight[f])
           then == PlaceHeaviest(weight, given)
<1>1. /\ given.left \in SUBSET targets /\ given.left \in SUBSET Files /\ given.bins \in Bins(targets, n)
      /\ \A g \in given.left : weight[g] \in Nat
  BY DEF Placing
<1>2. f \in given.left /\ f \in targets /\ weight[f] \in Nat
  BY <1>1, HeaviestIsOne
<1>3. then.left = given.left \ {f} /\ then.bins = placed
      /\ then = [left |-> given.left \ {f}, bins |-> placed]
  BY DEF PlaceHeaviest
<1> HIDE DEF f
<1>4. placed \in Bins(targets, n)
  BY <1>1, <1>2, PlaceFacts
<1>5. PICK i \in 1..n : /\ placed[i].files = given.bins[i].files \cup {f}
                        /\ \A j \in 1..n \ {i} : placed[j] = given.bins[j]
  <2>1. Added(given.bins, placed, n, f)
    BY <1>1, <1>2, PlaceFacts
  <2> QED
    BY <2>1 DEF Added
<1> HIDE DEF placed, then
<1>6. \A j \in 1..n : placed[j].files = IF j = i THEN given.bins[j].files \cup {f} ELSE given.bins[j].files
  BY <1>5
<1>7. Cardinality(then.left) = Cardinality(given.left) - 1
  <2>1. IsFiniteSet(given.left)
    BY <1>1, GraphAssumption, FS_Subset
  <2>2. Cardinality(given.left \ {f}) = Cardinality(given.left) - 1
    BY ONLY <1>2, <2>1, FS_RemoveElement
  <2> QED
    BY <1>3, <2>2
<1>8. then \in [left : SUBSET targets, bins : Bins(targets, n)]
  BY <1>1, <1>3, <1>4
<1>9. \A j \in 1..n : then.bins[j].files \cap then.left = {}
  <2> TAKE j \in 1..n
  <2>1. given.bins[j].files \cap given.left = {}
    BY DEF Placing
  <2> QED
    BY <1>3, <1>6, <2>1
<1>10. \A j, k \in 1..n : j # k => then.bins[j].files \cap then.bins[k].files = {}
  <2> TAKE j, k \in 1..n
  <2> HAVE j # k
  <2>1. given.bins[j].files \cap given.bins[k].files = {} /\ f \notin given.bins[j].files
        /\ f \notin given.bins[k].files
    BY <1>2 DEF Placing
  <2> QED
    BY <1>3, <1>6, <2>1
<1>11. \A g \in targets \ then.left : \E j \in 1..n : g \in then.bins[j].files
  <2> TAKE g \in targets \ then.left
  <2>1. CASE g = f
    BY <1>3, <1>6, <2>1
  <2>2. CASE g # f
    <3>1. g \in targets \ given.left
      BY <1>3, <2>2
    <3>2. PICK j \in 1..n : g \in given.bins[j].files
      BY <3>1 DEF Placing
    <3> QED
      BY <1>3, <1>6, <3>2
  <2> QED
    BY <2>1, <2>2
<1> QED
  BY <1>7, <1>8, <1>9, <1>10, <1>11 DEF Placing, then

LEMMA ShardCountTyped ==
  ASSUME NEW targets \in SUBSET Files, NEW wanted \in Nat
  PROVE  /\ ShardCount(wanted, targets) \in Nat \ {0}
         /\ wanted # 0 => ShardCount(wanted, targets) <= wanted
         /\ ShardCount(ShardCount(wanted, targets), targets) = ShardCount(wanted, targets)
<1>1. Cardinality(targets) \in Nat
  BY GraphAssumption, FS_Subset, FS_CardinalityType
<1> QED
  BY <1>1 DEF ShardCount

\* Every target is in exactly one shard of a plan.
LEMMA PlanFacts ==
  ASSUME NEW targets \in SUBSET Files, NEW costs, NEW wanted \in Nat,
         DOMAIN costs \subseteq Files /\ \A f \in DOMAIN costs : costs[f] \in Nat
  PROVE  LET n == ShardCount(wanted, targets)
             bins == PlanShards(targets, costs, wanted)
         IN  /\ bins \in Bins(targets, n)
             /\ \A i, j \in 1..n : i # j => bins[i].files \cap bins[j].files = {}
             /\ \A f \in targets : \E i \in 1..n : f \in bins[i].files
<1> DEFINE n == ShardCount(wanted, targets)
           weight == [f \in targets |-> Weight(costs, targets, f)]
           empty == [i \in 1..n |-> [files |-> {}, weight |-> 0]]
           start == [left |-> targets, bins |-> empty]
           N == Cardinality(targets)
           Rec(g) == g = [k \in 0..N |-> IF k = 0 THEN start ELSE PlaceHeaviest(weight, g[k - 1])]
           V == {v \in [left : SUBSET targets, bins : Bins(targets, n)] : Placing(targets, n, v)}
           step == [v \in V |-> IF v.left = {} THEN v ELSE PlaceHeaviest(weight, v)]
<1>1. n \in Nat \ {0} /\ N \in Nat /\ IsFiniteSet(targets)
  BY ShardCountTyped, GraphAssumption, FS_Subset, FS_CardinalityType
<1>2. weight \in [targets -> Nat]
  BY WeightTyped
<1>3. Placing(targets, n, start) /\ Cardinality(start.left) = N
  <2>1. empty \in Bins(targets, n)
    BY DEF Bins
  <2>2. \A i \in 1..n : start.bins[i].files = {}
    OBVIOUS
  <2>3. start \in [left : SUBSET targets, bins : Bins(targets, n)] /\ start.left = targets
    <3> HIDE DEF empty
    <3> QED
      BY <2>1
  <2> HIDE DEF start
  <2> QED
    BY <2>2, <2>3 DEF Placing
<1>4. \A v \in V : Placing(targets, n, v)
  OBVIOUS
<1>5. \A v : Placing(targets, n, v) => v \in V
  BY DEF Placing
<1>6. start \in V /\ step \in [V -> V]
  <2> HIDE DEF n, weight, start, V
  <2>1. start \in V
    BY <1>3, <1>5
  <2>2. ASSUME NEW v \in V, v.left # {} PROVE PlaceHeaviest(weight, v) \in V
    BY <1>1, <1>2, <1>4, <1>5, <2>2, PlaceOK
  <2> QED
    BY <2>1, <2>2
<1> HIDE DEF n, weight, start, V, N
<1>7. ASSUME NEW g, g[0] = start,
             \A k \in 0..N : k # 0 /\ g[k - 1].left # {} => g[k] = PlaceHeaviest(weight, g[k - 1])
      PROVE  \A k \in 0..N : Placing(targets, n, g[k]) /\ Cardinality(g[k].left) = N - k
  <2> DEFINE Good == {k \in Nat : k <= N => Placing(targets, n, g[k]) /\ Cardinality(g[k].left) = N - k}
  <2>1. 0 \in Good
    BY <1>1, <1>3, <1>7
  <2>2. ASSUME NEW k \in Nat, k \in Good PROVE k + 1 \in Good
    <3> SUFFICES ASSUME k + 1 <= N
                 PROVE  Placing(targets, n, g[k + 1]) /\ Cardinality(g[k + 1].left) = N - (k + 1)
      OBVIOUS
    <3>1. k <= N /\ k + 1 \in 0..N /\ k + 1 # 0 /\ (k + 1) - 1 = k /\ N - k # 0
      BY <1>1
    <3>2. Placing(targets, n, g[k]) /\ Cardinality(g[k].left) = N - k
      BY <2>2, <3>1
    <3>3. g[k].left # {}
      BY <3>1, <3>2, FS_EmptySet
    <3>4. g[k + 1] = PlaceHeaviest(weight, g[k])
      BY <1>7, <3>1, <3>3
    <3>5. /\ Placing(targets, n, PlaceHeaviest(weight, g[k]))
          /\ Cardinality(PlaceHeaviest(weight, g[k]).left) = Cardinality(g[k].left) - 1
      BY <1>1, <1>2, <3>2, <3>3, PlaceOK
    <3>6. (N - k) - 1 = N - (k + 1)
      BY <1>1
    <3> QED
      BY <3>2, <3>4, <3>5, <3>6
  <2>3. \A k \in Nat : k \in Good
    <3> HIDE DEF Good
    <3> QED
      BY <2>1, <2>2, Counting
  <2> QED
    BY <2>3
<1>8. PICK h : Recursion(h, N, start, step)
  <2> HIDE DEF step
  <2> QED
    BY <1>1, <1>6, RecursionExists
<1>9. Rec(h)
  <2>1. /\ h[0] = start /\ \A k \in 0..N : h[k] \in V /\ (k # 0 => h[k] = step[h[k - 1]])
        /\ h = [k \in 0..N |-> h[k]]
    <3>1. h[0] = start /\ h = [k \in 0..N |-> h[k]]
      BY <1>1, <1>8 DEF Recursion
    <3> HIDE DEF step
    <3> QED
      BY <1>1, <1>6, <1>8, <3>1, RecursionTyped
  <2>2. \A k \in 0..N : k # 0 => k - 1 \in 0..N
    BY <1>1
  <2>3. \A k \in 0..N : k # 0 =>
          h[k] = IF h[k - 1].left = {} THEN h[k - 1] ELSE PlaceHeaviest(weight, h[k - 1])
    BY <2>1, <2>2
  <2>4. \A k \in 0..N : Placing(targets, n, h[k]) /\ Cardinality(h[k].left) = N - k
    BY <1>7, <2>1, <2>3
  <2>5. \A k \in 0..N : k # 0 => h[k - 1].left # {}
    <3> TAKE k \in 0..N
    <3> HAVE k # 0
    <3>1. Cardinality(h[k - 1].left) = N - (k - 1) /\ N - (k - 1) # 0
      BY <1>1, <2>2, <2>4
    <3> QED
      BY <3>1, FS_EmptySet
  <2>6. \A k \in 0..N : h[k] = IF k = 0 THEN start ELSE PlaceHeaviest(weight, h[k - 1])
    BY <2>1, <2>3, <2>5
  <2> QED
    BY <2>1, <2>6
<1> DEFINE given == CHOOSE g : Rec(g)
<1>10. Rec(given)
  <2> HIDE DEF Rec
  <2> QED
    BY <1>9
<1>11. PlanShards(targets, costs, wanted) = given[N].bins
  BY DEF PlanShards, n, weight, start, N
<1> HIDE DEF given
<1>12. given[0] = start /\ \A k \in 0..N : k # 0 => given[k] = PlaceHeaviest(weight, given[k - 1])
  BY <1>1, <1>10
<1>13. Placing(targets, n, given[N]) /\ given[N].left = {}
  <2>1. N \in 0..N /\ Placing(targets, n, given[N]) /\ Cardinality(given[N].left) = N - N /\ N - N = 0
    BY <1>1, <1>7, <1>12
  <2>2. given[N].left \in SUBSET targets
    BY <2>1 DEF Placing
  <2>3. IsFiniteSet(given[N].left)
    BY <1>1, <2>2, FS_Subset
  <2> QED
    BY <2>1, <2>3, FS_EmptySet
<1> QED
  BY <1>11, <1>13 DEF Placing, n

--------------------------------------------------------------------------
(* The run.                                                                *)

PhaseOK ==
    /\ pass = "idle" => known = <<>> /\ work = <<>> /\ reached = <<>>
    /\ pass \in {"seeded", "widened"} => Seeded
    /\ pass = "widened" => Widened
    /\ pass # "done" => result = NoResult
    /\ pass = "done" => \/ result = FullResult
                        \/ result = Assembled /\ work = <<>> /\ Seeded /\ Widened

GraphOK == GraphTypes /\ SpreadOK /\ PhaseOK

Costs == UNION {repo.costs : repo \in Repos}
Plans == [total : 1..MaxShards, costs : Costs, targets : SUBSET Files]
Shares == [shard : 1..MaxShards, files : SUBSET Files, from : Plans]

StageOK ==
    /\ stage \in {"collect", "analyse", "jobs", "merged"}
    /\ stage = "collect" => pass = "idle"
    /\ stage \in {"jobs", "merged"} =>
          pass = "done" /\ plan \in Plans /\ ShardCount(plan.total, plan.targets) = plan.total

\* A report is the share of the list and the timings that its job had.
ReportsOK ==
    /\ reports \in Seq(Shares) /\ Len(reports) <= MaxReports
    /\ \A i \in DOMAIN reports :
          LET r == reports[i]
          IN r.files = ShardOf(r.from.targets, r.from.costs, r.shard, r.from.total)

MergedOK ==
    merged.ok => /\ stage = "merged"
                 /\ \E forms \in [DOMAIN reports -> Forms] :
                       merged = MergeMutationReports(reports, forms, plan.total)

IInv == GraphOK /\ StageOK /\ ReportsOK /\ MergedOK

Blank ==
    /\ call \in Input /\ pass = "idle"
    /\ known = <<>> /\ work = <<>> /\ reached = <<>> /\ result = NoResult

LEMMA BlankOK == Blank => GraphOK
<1> SUFFICES ASSUME Blank PROVE GraphOK
  OBVIOUS
<1>1. /\ call \in Input /\ pass = "idle" /\ result = NoResult
      /\ known = <<>> /\ work = <<>> /\ reached = <<>> /\ DOMAIN known = {} /\ DOMAIN reached = {}
      /\ work \in Seq(Batches) /\ DOMAIN work = {}
  BY DEF Blank
<1>2. GraphTypes
  BY <1>1 DEF GraphTypes
<1>3. KnownOK /\ WorkOK /\ ReachedOK /\ ClosedOK
  BY <1>1 DEF KnownOK, WorkOK, ReachedOK, ClosedOK, Queued
<1>4. RankOK
  <2>1. <<>> \in [DOMAIN known -> Nat] /\ 0 \in Nat
    BY <1>1
  <2> QED
    BY <1>1, <2>1 DEF RankOK
<1>5. PhaseOK
  BY <1>1 DEF PhaseOK
<1> QED
  BY <1>2, <1>3, <1>4, <1>5 DEF GraphOK, SpreadOK

LEMMA GraphStays ==
  ASSUME UNCHANGED <<call, known, work, reached>>
  PROVE  /\ SpreadOK <=> SpreadOK'
         /\ Seeded <=> Seeded'
         /\ Widened <=> Widened'
         /\ Assembled' = Assembled /\ FullResult' = FullResult
<1>1. /\ \A e : Within(e)' = Within(e) /\ Across(e)' = Across(e)
      /\ \A o : Rooted(o)' <=> Rooted(o)
      /\ ChangedModules' = ChangedModules /\ \A m : SeedFacts(m)' = SeedFacts(m)
      /\ OpaqueFiles' = OpaqueFiles /\ OpaqueSources' = OpaqueSources /\ OpaqueTests' = OpaqueTests
      /\ LinkedChanges' = LinkedChanges
  BY SameGraph
<1>2. KnownOK <=> KnownOK'
  BY <1>1 DEF KnownOK, FoundBy
<1>3. WorkOK <=> WorkOK'
  BY DEF WorkOK, Queued
<1>4. ReachedOK <=> ReachedOK'
  BY <1>1 DEF ReachedOK, ReachedBy
<1>5. RankOK <=> RankOK'
  BY DEF RankOK
<1>6. ClosedOK <=> ClosedOK'
  BY <1>1 DEF ClosedOK, Closed, Queued, IsKnown, IsReached
<1>7. (Seeded <=> Seeded') /\ (Widened <=> Widened')
  BY <1>1 DEF Seeded, Widened, IsKnown, AllFact
<1>8. \A t : TestCause(t)' = TestCause(t)
  BY <1>1 DEF TestCause, LinkedTests
<1>9. Assembled' = Assembled
  <2> DEFINE tests == (DOMAIN reached \cap Tests) \cup OpaqueTests
                      \cup UNION {LinkedTests(c) : c \in LinkedChanges}
             entries == {[test |-> t, cause |-> TestCause(t)] : t \in tests}
             targets == ({f \in DOMAIN reached \ Tests : reached[f].hops = 1} \cup ChangedSources)
                        \cap Mutable
  <2>1. (\A c : LinkedTests(c)' = LinkedTests(c)) /\ ChangedSources' = ChangedSources
    BY <1>1 DEF LinkedTests, ChangedSources
  <2>2. tests' = tests /\ targets' = targets
    BY <1>1, <2>1
  <2>3. entries' = entries
    <3> HIDE DEF tests
    <3> QED
      BY <1>8, <2>2
  <2>4. Assembled = [scope |-> "affected", tests |-> entries, targets |-> targets]
    BY DEF Assembled
  <2>5. Assembled' = [scope |-> "affected", tests |-> entries', targets |-> targets']
    BY DEF Assembled
  <2> QED
    BY ONLY <2>2, <2>3, <2>4, <2>5
<1>10. FullResult' = FullResult
  BY DEF FullResult
<1> QED
  BY <1>2, <1>3, <1>4, <1>5, <1>6, <1>7, <1>9, <1>10 DEF SpreadOK

LEMMA UnchangedOK == GraphOK /\ UNCHANGED graphVars => GraphOK'
<1> SUFFICES ASSUME GraphOK, UNCHANGED graphVars PROVE GraphOK'
  OBVIOUS
<1>1. UNCHANGED <<call, known, work, reached>> /\ pass' = pass /\ result' = result
  BY DEF graphVars
<1>2. SpreadOK' /\ PhaseOK'
  BY <1>1, GraphStays DEF GraphOK, PhaseOK
<1>3. GraphTypes'
  BY <1>1 DEF GraphOK, GraphTypes, Input
<1> QED
  BY <1>2, <1>3 DEF GraphOK

LEMMA GraphNextOK == GraphOK /\ GraphNext => GraphOK'
<1> SUFFICES ASSUME GraphOK, GraphNext PROVE GraphOK'
  OBVIOUS
<1>0. GraphTypes /\ SpreadOK /\ PhaseOK
  BY DEF GraphOK
<1>1. CASE GoFull
  <2>1. UNCHANGED <<call, known, work, reached>> /\ pass' = "done" /\ result' = FullResult
    BY <1>1 DEF GoFull
  <2>2. SpreadOK' /\ result' = FullResult'
    BY <1>0, <2>1, GraphStays
  <2>3. GraphTypes'
    BY <1>0, <2>1 DEF GraphTypes, Input
  <2> QED
    BY <2>1, <2>2, <2>3 DEF GraphOK, PhaseOK
<1>2. CASE SeedChanges
  <2>1. pass = "idle" /\ pass' = "seeded" /\ Seed /\ call' = call /\ result' = result
    BY <1>2 DEF SeedChanges
  <2>2. known = <<>> /\ result' = NoResult
    BY <1>0, <2>1 DEF PhaseOK
  <2>3. GraphTypes' /\ SpreadOK' /\ Seeded'
    BY <1>0, <2>1, <2>2, SeedOK
  <2> QED
    BY <2>1, <2>2, <2>3 DEF GraphOK, PhaseOK
<1>3. CASE SpreadNext
  <2>1. pass \in {"seeded", "widened"} /\ work # <<>> /\ Spread
        /\ call' = call /\ pass' = pass /\ result' = result
    BY <1>3 DEF SpreadNext
  <2>2. GraphTypes' /\ SpreadOK' /\ (Seeded => Seeded') /\ (Widened => Widened')
    BY <1>0, <2>1, SpreadStepOK
  <2> QED
    BY <1>0, <2>1, <2>2 DEF GraphOK, PhaseOK
<1>4. CASE WidenForDynamicLoads
  <2>1. pass = "seeded" /\ work = <<>> /\ pass' = "widened" /\ Widen
        /\ call' = call /\ reached' = reached /\ result' = result
    BY <1>4 DEF WidenForDynamicLoads
  <2>2. Seeded /\ result' = NoResult
    BY <1>0, <2>1 DEF PhaseOK
  <2>3. GraphTypes' /\ SpreadOK' /\ Seeded' /\ Widened'
    BY <1>0, <2>1, <2>2, WidenOK
  <2> QED
    BY <2>1, <2>2, <2>3 DEF GraphOK, PhaseOK
<1>5. CASE Assemble
  <2>1. pass = "widened" /\ work = <<>> /\ UNCHANGED <<call, known, work, reached>> /\ pass' = "done"
        /\ result' = Assembled
    BY <1>5 DEF Assemble
  <2>2. Seeded /\ Widened
    BY <1>0, <2>1 DEF PhaseOK
  <2>3. SpreadOK' /\ result' = Assembled' /\ Seeded' /\ Widened' /\ work' = <<>>
    BY <1>0, <2>1, <2>2, GraphStays
  <2>4. GraphTypes'
    BY <1>0, <2>1 DEF GraphTypes, Input
  <2> QED
    BY <2>1, <2>3, <2>4 DEF GraphOK, PhaseOK
<1> QED
  BY <1>1, <1>2, <1>3, <1>4, <1>5 DEF GraphNext

LEMMA CollectOK == IInv /\ Collect => IInv'
<1> SUFFICES ASSUME IInv, Collect PROVE IInv'
  OBVIOUS
<1>1. /\ stage = "collect" /\ stage' = "analyse"
      /\ call' = [repo |-> call.repo, supplied |-> Readable,
                  baseSupplied |-> IF world.fault = "none" THEN BasesRead ELSE {},
                  changed |-> IF world.fault = "none" THEN world.changed ELSE {},
                  full |-> world.fault # "none"]
      /\ UNCHANGED <<pass, known, work, reached, result, plan, reports, merged>>
  BY DEF Collect
<1>2. /\ pass = "idle" /\ known = <<>> /\ work = <<>> /\ reached = <<>> /\ result = NoResult
      /\ call \in Input
  BY <1>1 DEF IInv, StageOK, GraphOK, PhaseOK, GraphTypes
<1>3. call' \in Input
  <2>1. call.repo \in Repos /\ world = call.repo
    BY <1>2, CallTyped DEF world
  <2>2. UNION {world.listed, world.unreadable, world.atBase, world.missing} \subseteq Files
        /\ world.changed \subseteq Change
    BY <2>1, ReposAssumption
  <2>3. world.listed \subseteq Files /\ world.atBase \subseteq Files
    BY <2>2
  <2>4. Readable \subseteq Files /\ BasesRead \subseteq Files
    BY <2>3 DEF Readable, BasesRead
  <2> QED
    BY ONLY <1>1, <2>1, <2>2, <2>4 DEF Input
<1>4. GraphOK'
  <2>1. Blank'
    BY <1>1, <1>2, <1>3 DEF Blank, NoResult
  <2>2. Blank' => GraphOK'
    BY BlankOK, PTL
  <2> QED
    BY <2>1, <2>2
<1>5. StageOK'
  BY <1>1 DEF StageOK
<1>6. ReportsOK'
  BY <1>1 DEF IInv, ReportsOK
<1>7. MergedOK'
  BY <1>1 DEF IInv, MergedOK
<1> QED
  BY <1>4, <1>5, <1>6, <1>7 DEF IInv

LEMMA AnalyseOK == IInv /\ Analyse => IInv'
<1> SUFFICES ASSUME IInv, Analyse PROVE IInv'
  OBVIOUS
<1>1. stage = "analyse" /\ GraphNext /\ UNCHANGED <<stage, plan, reports, merged>>
  BY DEF Analyse
<1>2. GraphOK'
  BY <1>1, GraphNextOK DEF IInv
<1>3. StageOK'
  BY <1>1 DEF StageOK
<1>4. ReportsOK'
  BY <1>1 DEF IInv, ReportsOK
<1>5. MergedOK'
  BY <1>1 DEF IInv, MergedOK
<1> QED
  BY <1>2, <1>3, <1>4, <1>5 DEF IInv

\* The targets of a result, and what a job may come to, are files.
LEMMA TargetsTyped ==
  ASSUME GraphOK, pass = "done"
  PROVE  result.targets \in SUBSET Files /\ JobTargets \subseteq SUBSET Files /\ world.costs \subseteq Costs
<1>1. Mutable \subseteq Files
  BY GraphAssumption
<1>2. result = FullResult \/ result = Assembled
  BY DEF GraphOK, PhaseOK
<1>3. FullResult.targets \subseteq Files /\ Assembled.targets \subseteq Files
  BY <1>1 DEF FullResult, Assembled
<1>4. JobTargets \subseteq SUBSET Files
  BY <1>1, <1>2, <1>3 DEF JobTargets
<1>5. call.repo \in Repos
  BY CallTyped DEF GraphOK, GraphTypes
<1> QED
  BY <1>2, <1>3, <1>4, <1>5 DEF world, Costs

LEMMA CostsTyped ==
  ASSUME NEW costs \in Costs
  PROVE  DOMAIN costs \subseteq Files /\ \A f \in DOMAIN costs : costs[f] \in Nat
BY ReposAssumption DEF Costs

LEMMA PlanJobOK == IInv /\ PlanJob => IInv'
<1> SUFFICES ASSUME IInv, PlanJob PROVE IInv'
  OBVIOUS
<1>1. /\ pass = "done" /\ stage \in {"analyse", "jobs"} /\ stage' = "jobs"
      /\ UNCHANGED <<graphVars, reports, merged>>
  BY DEF PlanJob
<1>2. PICK wanted \in 1..MaxShards, costs \in world.costs :
        plan' = [total |-> ShardCount(wanted, result.targets), costs |-> costs,
                 targets |-> result.targets]
  BY DEF PlanJob
<1>3. result.targets \in SUBSET Files /\ costs \in Costs /\ wanted \in Nat \ {0} /\ wanted <= MaxShards
  BY <1>1, TargetsTyped, RunAssumption DEF IInv
<1>4. LET n == ShardCount(wanted, result.targets)
      IN  n \in 1..MaxShards /\ ShardCount(n, result.targets) = n
  BY <1>3, ShardCountTyped, RunAssumption
<1>5. plan' \in Plans /\ ShardCount(plan'.total, plan'.targets) = plan'.total
  BY <1>2, <1>3, <1>4 DEF Plans
<1>6. GraphOK'
  BY <1>1, UnchangedOK DEF IInv
<1>7. StageOK'
  BY <1>1, <1>5 DEF StageOK, graphVars
<1>8. ReportsOK'
  BY <1>1 DEF IInv, ReportsOK
<1>9. MergedOK'
  BY <1>1 DEF IInv, MergedOK
<1> QED
  BY <1>6, <1>7, <1>8, <1>9 DEF IInv

LEMMA ShardTyped ==
  ASSUME NEW targets \in SUBSET Files, NEW costs \in Costs, NEW i, NEW n \in Nat
  PROVE  ShardOf(targets, costs, i, n) \in SUBSET Files
<1> DEFINE bins == PlanShards(targets, costs, n)
           m == ShardCount(n, targets)
<1>1. bins \in Bins(targets, m)
  BY CostsTyped, PlanFacts
<1> HIDE DEF bins, m
<1>2. \A j \in DOMAIN bins : bins[j].files \subseteq Files
  BY <1>1 DEF Bins
<1> QED
  BY <1>2 DEF ShardOf, bins

LEMMA ShardJobOK == IInv /\ ShardJob => IInv'
<1> SUFFICES ASSUME IInv, ShardJob PROVE IInv'
  OBVIOUS
<1>1. stage = "jobs" /\ Len(reports) < MaxReports /\ UNCHANGED <<graphVars, stage, plan, merged>>
  BY DEF ShardJob
<1>2. PICK i \in 1..plan.total, targets \in JobTargets, costs \in world.costs :
        reports' = Append(reports,
                     [shard |-> i, files |-> ShardOf(targets, costs, i, plan.total),
                      from |-> [plan EXCEPT !.costs = costs, !.targets = targets]])
  BY DEF ShardJob
<1> DEFINE from == [plan EXCEPT !.costs = costs, !.targets = targets]
           r == [shard |-> i, files |-> ShardOf(targets, costs, i, plan.total), from |-> from]
<1>3. plan \in Plans /\ plan.total \in 1..MaxShards /\ pass = "done"
  BY <1>1 DEF IInv, StageOK, Plans
<1>4. targets \in SUBSET Files /\ costs \in Costs
  BY <1>3, TargetsTyped DEF IInv
<1>5. from \in Plans /\ from.total = plan.total /\ from.costs = costs /\ from.targets = targets
  BY <1>3, <1>4 DEF Plans
<1>6. i \in 1..MaxShards /\ plan.total \in Nat
  BY <1>3, RunAssumption
<1>7. ShardOf(targets, costs, i, plan.total) \in SUBSET Files
  BY <1>4, <1>6, ShardTyped
<1> HIDE DEF from
<1>8. r \in Shares
  BY <1>5, <1>6, <1>7 DEF Shares
<1>9. /\ r.shard = i /\ r.files = ShardOf(targets, costs, i, plan.total) /\ r.from = from
      /\ reports' = Append(reports, r)
  BY <1>2 DEF from
<1> HIDE DEF r
<1>10. r.files = ShardOf(r.from.targets, r.from.costs, r.shard, r.from.total)
  BY <1>5, <1>9
<1>11. ReportsOK'
  <2>1. reports \in Seq(Shares) /\ Len(reports) \in Nat /\ DOMAIN reports = 1..Len(reports)
    BY DEF IInv, ReportsOK
  <2>2. /\ reports' \in Seq(Shares) /\ Len(reports') = Len(reports) + 1 /\ DOMAIN reports' = 1..(Len(reports) + 1)
        /\ reports'[Len(reports) + 1] = r /\ \A j \in 1..Len(reports) : reports'[j] = reports[j]
    BY <1>8, <1>9, <2>1
  <2>3. Len(reports') <= MaxReports
    BY <1>1, <2>1, <2>2, RunAssumption
  <2>4. \A j \in DOMAIN reports : LET s == reports[j]
                                  IN s.files = ShardOf(s.from.targets, s.from.costs, s.shard, s.from.total)
    BY DEF IInv, ReportsOK
  <2>5. \A j \in DOMAIN reports' : LET s == reports'[j]
                                   IN s.files = ShardOf(s.from.targets, s.from.costs, s.shard, s.from.total)
    <3> TAKE j \in DOMAIN reports'
    <3>1. CASE j = Len(reports) + 1
      BY <1>10, <2>2, <3>1
    <3>2. CASE j # Len(reports) + 1
      <4>1. j \in DOMAIN reports /\ reports'[j] = reports[j]
        BY <2>1, <2>2, <3>2
      <4> QED
        BY <2>4, <4>1
    <3> QED
      BY <3>1, <3>2
  <2> QED
    BY <2>2, <2>3, <2>5 DEF ReportsOK
<1>12. GraphOK'
  BY <1>1, UnchangedOK DEF IInv
<1>13. StageOK'
  BY <1>1 DEF IInv, StageOK, graphVars
<1>14. MergedOK'
  BY <1>1 DEF IInv, MergedOK
<1> QED
  BY <1>11, <1>12, <1>13, <1>14 DEF IInv

LEMMA MergeOK == IInv /\ Merge => IInv'
<1> SUFFICES ASSUME IInv, Merge PROVE IInv'
  OBVIOUS
<1>1. /\ stage = "jobs" /\ stage' = "merged"
      /\ \E forms \in [DOMAIN reports -> Forms] :
            merged' = MergeMutationReports(reports, forms, plan.total)
      /\ UNCHANGED <<graphVars, plan, reports>>
  BY DEF Merge
<1>2. GraphOK'
  BY <1>1, UnchangedOK DEF IInv
<1>3. StageOK'
  BY <1>1 DEF IInv, StageOK, graphVars
<1>4. ReportsOK'
  BY <1>1 DEF IInv, ReportsOK
<1>5. MergedOK'
  BY <1>1 DEF MergedOK
<1> QED
  BY <1>2, <1>3, <1>4, <1>5 DEF IInv

LEMMA InitOK == Init => IInv
<1> SUFFICES ASSUME Init PROVE IInv
  OBVIOUS
<1>1. PICK repo \in Repos : call = NoCall(repo)
  BY DEF Init
<1>2. call \in Input
  BY <1>1 DEF NoCall, Input
<1>3. GraphOK
  BY <1>2, BlankOK DEF Init, GraphInit, Blank
<1>4. StageOK
  BY DEF Init, GraphInit, StageOK
<1>5. ReportsOK
  <2>1. reports = <<>> /\ MaxReports \in Nat
    BY RunAssumption DEF Init
  <2> QED
    BY <2>1 DEF ReportsOK
<1>6. MergedOK
  BY DEF Init, NotMerged, MergedOK
<1> QED
  BY <1>3, <1>4, <1>5, <1>6 DEF IInv

LEMMA NextOK == IInv /\ [Next]_runVars => IInv'
<1> SUFFICES ASSUME IInv, [Next]_runVars PROVE IInv'
  OBVIOUS
<1>1. CASE Collect
  BY <1>1, CollectOK
<1>2. CASE Analyse
  BY <1>2, AnalyseOK
<1>3. CASE PlanJob
  BY <1>3, PlanJobOK
<1>4. CASE ShardJob
  BY <1>4, ShardJobOK
<1>5. CASE Merge
  BY <1>5, MergeOK
<1>6. CASE UNCHANGED runVars
  <2>1. UNCHANGED graphVars /\ UNCHANGED <<stage, plan, reports, merged>> /\ pass' = pass
    BY <1>6 DEF runVars, graphVars
  <2>2. GraphOK'
    BY <2>1, UnchangedOK DEF IInv
  <2>3. StageOK' /\ ReportsOK' /\ MergedOK'
    BY <2>1 DEF IInv, StageOK, ReportsOK, MergedOK
  <2> QED
    BY <2>2, <2>3 DEF IInv
<1> QED
  BY <1>1, <1>2, <1>3, <1>4, <1>5, <1>6 DEF Next

\* Every state of every run of every repository satisfies the invariant.
THEOREM Inductive == Spec => []IInv
<1> QED
  BY InitOK, NextOK, PTL DEF Spec

--------------------------------------------------------------------------
(* What the invariant shows.                                               *)

LEMMA TypeImplied == IInv => TypeOK
<1> SUFFICES ASSUME IInv PROVE TypeOK
  OBVIOUS
<1>1. GraphTypes /\ WorkOK /\ PhaseOK
  BY DEF IInv, GraphOK, SpreadOK
<1>2. \A e \in DOMAIN known : known[e].hops \in Nat /\ known[e].cause \in Event \cup Origin
  BY <1>1 DEF GraphTypes, Entries
<1>3. ASSUME NEW i \in DOMAIN work
      PROVE  work[i] # {} /\ {w.event : w \in work[i]} \subseteq DOMAIN known
  <2>1. work[i] \in Batches
    BY <1>1 DEF GraphTypes
  <2>2. \A w \in work[i] : w.event \in DOMAIN known
    BY <1>1 DEF WorkOK, Queued
  <2> QED
    BY <2>1, <2>2 DEF Batches
<1>4. (pass = "done") = (result # NoResult)
  <2>1. FullResult # NoResult
    <3>1. FullResult.scope = "full" /\ NoResult.scope = "none"
      BY DEF FullResult, NoResult
    <3> QED
      BY <3>1
  <2>2. Assembled # NoResult
    <3>1. Assembled.scope = "affected" /\ NoResult.scope = "none"
      BY DEF Assembled, NoResult
    <3> QED
      BY <3>1
  <2> QED
    BY <1>1, <2>1, <2>2 DEF PhaseOK
<1>5. GraphTypeOK
  BY <1>1, <1>2, <1>3, <1>4 DEF GraphTypeOK, GraphTypes
<1> QED
  BY <1>5 DEF IInv, StageOK, ReportsOK, Plans, TypeOK

\* The state always has its types.
THEOREM TypeCorrect == Spec => []TypeOK
BY Inductive, TypeImplied, PTL

\* A result that is not full was put together from what the worklist left.
LEMMA NarrowResult ==
  ASSUME IInv, pass = "done", result.scope = "affected"
  PROVE  result = Assembled /\ work = <<>> /\ Seeded /\ Widened /\ GraphTypes /\ SpreadOK
<1>1. FullResult.scope = "full"
  BY DEF FullResult
<1> QED
  BY <1>1 DEF IInv, GraphOK, PhaseOK

LEMMA ShortestImplied == IInv => DistancesAreShortest
<1> SUFFICES ASSUME IInv, pass = "done", result.scope = "affected"
             PROVE  DistancesAreShortest
  BY DEF DistancesAreShortest
<1>1. work = <<>> /\ Seeded /\ Widened /\ GraphTypes /\ SpreadOK
  BY NarrowResult
<1>2. /\ call \in Input /\ DOMAIN known \subseteq Event
      /\ \A e \in DOMAIN known : known[e].hops \in Nat
      /\ \A f \in DOMAIN reached : reached[f].hops \in Nat
  BY <1>1 DEF GraphTypes, Entries
<1>3. \A e \in DOMAIN known : Closed(e)
  BY <1>1 DEF SpreadOK, ClosedOK, Queued
<1>4. ASSUME NEW e \in DOMAIN known
      PROVE  /\ \A g \in Within(e) : IsKnown(g, known[e].hops)
             /\ \A g \in Across(e) :
                   IsKnown(g, known[e].hops + 1) /\ IsReached(g.file, known[e].hops + 1)
  BY <1>3 DEF Closed
<1>5. ASSUME NEW e \in DOMAIN known, known[e].cause \in DOMAIN known
      PROVE  LET led == known[e].cause
             IN  known[e].hops = known[led].hops + IF e \in Within(led) THEN 0 ELSE 1
  <2> DEFINE led == known[e].cause
  <2>1. ~Rooted(led) /\ led \in Event
    BY <1>2, <1>5, KindsDiffer
  <2>2. FoundBy(e, led)
    BY <1>1, <2>1 DEF SpreadOK, KnownOK
  <2>3. Within(led) \cap Across(led) = {}
    BY <1>2, <2>1, NotBoth
  <2>4. known[e].hops \in Nat /\ known[led].hops \in Nat
    BY <1>2, <1>5
  <2>5. CASE e \in Within(led)
    <3>1. known[led].hops <= known[e].hops
      BY <2>2, <2>3, <2>5 DEF FoundBy
    <3>2. known[e].hops <= known[led].hops
      BY <1>4, <1>5, <2>5 DEF IsKnown
    <3> QED
      BY <2>4, <2>5, <3>1, <3>2
  <2>6. CASE e \notin Within(led)
    <3>1. e \in Across(led) /\ known[led].hops + 1 <= known[e].hops
      BY <2>2, <2>6 DEF FoundBy
    <3>2. known[e].hops <= known[led].hops + 1
      BY <1>4, <1>5, <3>1 DEF IsKnown
    <3> QED
      BY <2>4, <2>6, <3>1, <3>2
  <2> QED
    BY <2>5, <2>6
<1>6. ASSUME NEW f \in DOMAIN reached, reached[f].cause \in DOMAIN known
      PROVE  LET led == reached[f].cause
             IN  reached[f].hops = known[led].hops + 1 /\ \E g \in Across(led) : g.file = f
  <2> DEFINE led == reached[f].cause
  <2>1. ~Rooted(led)
    BY <1>2, <1>6, KindsDiffer
  <2>2. ReachedBy(f, led)
    BY <1>1, <2>1 DEF SpreadOK, ReachedOK
  <2>3. PICK g \in Across(led) : g.file = f
    BY <2>2 DEF ReachedBy
  <2>4. known[led].hops + 1 <= reached[f].hops
    BY <2>2 DEF ReachedBy
  <2>5. reached[f].hops <= known[led].hops + 1
    BY <1>4, <1>6, <2>3 DEF IsReached
  <2>6. known[led].hops \in Nat /\ reached[f].hops \in Nat
    BY <1>2, <1>6
  <2> QED
    BY <2>3, <2>4, <2>5, <2>6
<1>7. /\ \A m \in ChangedModules : \A e \in SeedFacts(m) : IsKnown(e, 0)
      /\ \A f \in OpaqueSources : IsKnown(AllFact(f), 1)
  BY <1>1 DEF Seeded, Widened
<1> QED
  BY <1>4, <1>5, <1>6, <1>7 DEF DistancesAreShortest

\* Every fact and file ends at its shortest distance from the change, in every
\* order in which the queue may be worked.
THEOREM Shortest == Spec => []DistancesAreShortest
BY Inductive, ShortestImplied, PTL

\* As many reports as shards, each of a different one, are one of each.
LEMMA OneOfEach ==
  ASSUME NEW n \in Nat, NEW s \in Seq(Shares), Len(s) = n, InRange(s, n), NoneRepeated(s)
  PROVE  \A k \in 1..n : \E i \in DOMAIN s : s[i].shard = k
<1> DEFINE shard == [i \in 1..n |-> s[i].shard]
<1>1. DOMAIN s = 1..n
  OBVIOUS
<1>2. shard \in [1..n -> 1..n] /\ \A i, j \in 1..n : shard[i] = shard[j] => i = j
  BY <1>1 DEF InRange, NoneRepeated
<1>3. \A i \in DOMAIN s : shard[i] = s[i].shard
  BY <1>1
<1> HIDE DEF shard
<1>4. IsFiniteSet(1..n)
  BY FS_Interval
<1>5. shard \in Injection(1..n, 1..n)
  BY <1>2 DEF Injection, IsInjective
<1>6. shard \in Surjection(1..n, 1..n)
  BY <1>4, <1>5, FS_Injection
<1>7. \A k \in 1..n : \E i \in 1..n : shard[i] = k
  BY <1>6 DEF Surjection
<1> QED
  BY <1>1, <1>3, <1>7

LEMMA NothingLost == IInv => ShardsLoseNothing
<1> SUFFICES ASSUME IInv, merged.ok, NEW from, \E r \in Range(reports) : r.from = from, OneList(from)
             PROVE  merged.files = from.targets
  BY DEF ShardsLoseNothing
<1> DEFINE n == from.total
           m == ShardCount(n, from.targets)
           bins == PlanShards(from.targets, from.costs, n)
<1>1. PICK forms \in [DOMAIN reports -> Forms] : merged = MergeMutationReports(reports, forms, n)
  BY DEF IInv, MergedOK, OneList
<1>2. /\ reports \in Seq(Shares) /\ from \in Plans
      /\ n \in Nat \ {0} /\ from.targets \in SUBSET Files /\ from.costs \in Costs
  <2>1. reports \in Seq(Shares)
    BY DEF IInv, ReportsOK
  <2>2. PICK i \in DOMAIN reports : reports[i].from = from
    BY DEF Range
  <2>3. reports[i] \in Shares
    BY <2>1
  <2>4. from \in Plans
    BY <2>2, <2>3 DEF Shares
  <2> QED
    BY <2>1, <2>4, RunAssumption DEF Plans
<1>3. /\ InRange(reports, n) /\ NoneRepeated(reports) /\ Len(reports) = n
      /\ merged.files = UNION {r.files : r \in Range(reports)}
  <2>1. InRange(reports, n) /\ NoneRepeated(reports) /\ NoneMissing(reports, n) /\ NoneShared(reports)
    BY <1>1 DEF MergeMutationReports
  <2> QED
    BY <1>1, <2>1 DEF MergeMutationReports, NoneMissing
<1>4. bins \in Bins(from.targets, m) /\ \A f \in from.targets : \E i \in 1..m : f \in bins[i].files
  <2>1. DOMAIN from.costs \subseteq Files /\ \A f \in DOMAIN from.costs : from.costs[f] \in Nat
    BY <1>2, CostsTyped
  <2>2. from.targets \in SUBSET Files /\ n \in Nat
    BY <1>2
  <2> HIDE DEF n
  <2> QED
    BY <2>1, <2>2, PlanFacts
<1>5. m \in 1..n
  BY <1>2, ShardCountTyped, GraphAssumption, FS_Subset, FS_CardinalityType DEF ShardCount
<1>6. \A i \in DOMAIN reports :
        /\ reports[i].shard \in 1..n
        /\ reports[i].files = IF reports[i].shard \in 1..m THEN bins[reports[i].shard].files ELSE {}
  <2> TAKE i \in DOMAIN reports
  <2>1. reports[i].shard \in 1..n
    BY <1>3 DEF InRange
  <2>2. reports[i].from = from
    BY DEF OneList, Range
  <2>3. reports[i].files = ShardOf(from.targets, from.costs, reports[i].shard, from.total)
    BY <2>2 DEF IInv, ReportsOK
  <2>4. DOMAIN bins = 1..m
    BY <1>4 DEF Bins
  <2> QED
    BY <2>1, <2>3, <2>4 DEF ShardOf
<1>7. \A k \in 1..n : \E i \in DOMAIN reports : reports[i].shard = k
  BY <1>2, <1>3, OneOfEach
<1> HIDE DEF bins, m, n
<1>8. ASSUME NEW f \in from.targets PROVE f \in merged.files
  <2>1. PICK k \in 1..m : f \in bins[k].files
    BY <1>4
  <2>2. k \in 1..n
    BY <1>2, <1>5
  <2>3. PICK i \in DOMAIN reports : reports[i].shard = k
    BY <1>7, <2>2
  <2>4. f \in reports[i].files /\ reports[i] \in Range(reports)
    BY <1>6, <2>1, <2>3 DEF Range
  <2> QED
    BY <1>3, <2>4
<1>9. ASSUME NEW f \in merged.files PROVE f \in from.targets
  <2>1. PICK i \in DOMAIN reports : f \in reports[i].files
    BY <1>3 DEF Range
  <2>2. \A k \in 1..m : bins[k].files \subseteq from.targets
    BY <1>4 DEF Bins
  <2> QED
    BY <1>6, <2>1, <2>2
<1> QED
  BY <1>8, <1>9

\* A merge that succeeds on shares of one list has every target of that list,
\* and nothing else, for any number of targets, shards and reports.
THEOREM NoShardLost == Spec => []ShardsLoseNothing
BY Inductive, NothingLost, PTL

--------------------------------------------------------------------------
(* Explanations.                                                           *)

\* There are only so many facts.
LEMMA EventsFinite == IsFiniteSet(Event)
<1> DEFINE K == {"local", "export", "all", "any"}
           M == Names \cup {None}
           pairs == K \X Files
           triples == pairs \X M
           fact == [p \in triples |-> [kind |-> p[1][1], file |-> p[1][2], name |-> p[2]]]
<1>1. IsFiniteSet(K) /\ IsFiniteSet(M)
  <2>1. IsFiniteSet({"local"}) /\ K = (({"local"} \cup {"export"}) \cup {"all"}) \cup {"any"}
    BY FS_Singleton
  <2>2. IsFiniteSet(K)
    <3>1. IsFiniteSet({"local"} \cup {"export"})
      BY <2>1, FS_AddElement
    <3>2. IsFiniteSet(({"local"} \cup {"export"}) \cup {"all"})
      BY <3>1, FS_AddElement
    <3>3. IsFiniteSet((({"local"} \cup {"export"}) \cup {"all"}) \cup {"any"})
      BY <3>2, FS_AddElement
    <3> QED
      BY <2>1, <3>3
  <2>3. IsFiniteSet(M)
    BY GraphAssumption, FS_AddElement
  <2> QED
    BY <2>2, <2>3
<1>2. IsFiniteSet(pairs)
  <2> HIDE DEF K
  <2> QED
    BY <1>1, GraphAssumption, FS_Product
<1>3. IsFiniteSet(triples)
  <2> HIDE DEF pairs, M
  <2> QED
    BY <1>1, <1>2, FS_Product
<1>4. fact \in Surjection(triples, Event)
  <2>1. fact \in [triples -> Event]
    <3> SUFFICES ASSUME NEW p \in triples
                 PROVE  [kind |-> p[1][1], file |-> p[1][2], name |-> p[2]] \in Event
      OBVIOUS
    <3>1. p[1][1] \in K /\ p[1][2] \in Files /\ p[2] \in M
      OBVIOUS
    <3> QED
      BY <3>1 DEF Event
  <2>2. \A e \in Event : \E p \in triples : fact[p] = e
    <3> TAKE e \in Event
    <3> DEFINE p == <<<<e.kind, e.file>>, e.name>>
    <3>1. e.kind \in K /\ e.file \in Files /\ e.name \in M /\ e = [kind |-> e.kind, file |-> e.file, name |-> e.name]
      BY DEF Event
    <3>2. p \in triples
      BY <3>1
    <3>3. fact[p] = e
      BY <3>1, <3>2
    <3> QED
      BY <3>2, <3>3
  <2> HIDE DEF fact
  <2> QED
    BY <2>1, <2>2 DEF Surjection
<1> HIDE DEF triples, fact
<1> QED
  BY <1>3, <1>4, FS_Surjection

\* Ranks that agree with the causes.
Ranked(rank) ==
    /\ rank \in [DOMAIN known -> Nat]
    /\ \A e \in DOMAIN known :
          known[e].cause \in DOMAIN known /\ known[known[e].cause].hops = known[e].hops =>
              rank[known[e].cause] < rank[e]

\* Nearer to the change, or as near and found before.
Lower(rank, a, b) ==
    known[a].hops < known[b].hops \/ (known[a].hops = known[b].hops /\ rank[a] < rank[b])

\* A chain of facts goes down, and may have an origin at its end.
Chain(rank, keys) ==
    /\ keys \in Seq(Event \cup Origin) /\ Len(keys) # 0
    /\ \A i \in 1..Len(keys) : keys[i] \in DOMAIN known \/ (i = Len(keys) /\ Rooted(keys[i]))
    /\ \A i, j \in 1..Len(keys) : i < j /\ keys[j] \in DOMAIN known => Lower(rank, keys[j], keys[i])

LEMMA LowerOrders ==
  ASSUME NEW rank, Ranked(rank), \A e \in DOMAIN known : known[e].hops \in Nat
  PROVE  /\ \A a \in DOMAIN known : ~Lower(rank, a, a)
         /\ \A a, b, c \in DOMAIN known : Lower(rank, a, b) /\ Lower(rank, b, c) => Lower(rank, a, c)
<1>1. \A a \in DOMAIN known : rank[a] \in Nat
  BY DEF Ranked
<1>2. ASSUME NEW a \in DOMAIN known PROVE ~Lower(rank, a, a)
  BY <1>1 DEF Lower
<1>3. ASSUME NEW a \in DOMAIN known, NEW b \in DOMAIN known, NEW c \in DOMAIN known,
             Lower(rank, a, b), Lower(rank, b, c)
      PROVE  Lower(rank, a, c)
  <2>1. /\ known[a].hops \in Nat /\ known[b].hops \in Nat /\ known[c].hops \in Nat
        /\ rank[a] \in Nat /\ rank[b] \in Nat /\ rank[c] \in Nat
    BY <1>1
  <2> QED
    BY <1>3, <2>1 DEF Lower
<1> QED
  BY <1>2, <1>3

\* The cause of a fact is an origin or a lower fact.
LEMMA CausesAreLower ==
  ASSUME GraphTypes, KnownOK, NEW rank, Ranked(rank), NEW e \in DOMAIN known
  PROVE  LET cause == known[e].cause
         IN  /\ cause \in Event \cup Origin
             /\ Rooted(cause) \/ (cause \in DOMAIN known /\ Lower(rank, cause, e))
<1> DEFINE cause == known[e].cause
<1>1. cause \in Event \cup Origin /\ \A f \in DOMAIN known : known[f].hops \in Nat
  BY DEF GraphTypes, Entries
<1>2. CASE FoundBy(e, cause)
  <2>1. cause \in DOMAIN known /\ (known[cause].hops <= known[e].hops \/ known[cause].hops + 1 <= known[e].hops)
    BY <1>2 DEF FoundBy
  <2>2. known[cause].hops \in Nat /\ known[e].hops \in Nat
    BY <1>1, <2>1
  <2>3. known[cause].hops = known[e].hops => rank[cause] < rank[e]
    BY <2>1 DEF Ranked
  <2> QED
    BY <1>1, <2>1, <2>2, <2>3 DEF Lower
<1> QED
  BY <1>1, <1>2 DEF KnownOK

\* A chain that has not come to an origin can be followed further down.
LEMMA FollowOK ==
  ASSUME GraphTypes, KnownOK, NEW rank, Ranked(rank), NEW keys, Chain(rank, keys)
  PROVE  /\ Chain(rank, Follow(keys))
         /\ Rooted(keys[Len(keys)]) => Follow(keys) = keys
         /\ ~Rooted(keys[Len(keys)]) => Len(Follow(keys)) = Len(keys) + 1
<1> DEFINE n == Len(keys)
           last == keys[n]
           cause == known[last].cause
<1>1. /\ keys \in Seq(Event \cup Origin) /\ n = Len(keys) /\ n \in Nat /\ n # 0 /\ DOMAIN keys = 1..n
      /\ \A i \in 1..n : keys[i] \in DOMAIN known \/ (i = n /\ Rooted(keys[i]))
      /\ \A i, j \in 1..n : i < j /\ keys[j] \in DOMAIN known => Lower(rank, keys[j], keys[i])
  BY DEF Chain
<1>2. n \in 1..n /\ DOMAIN known \subseteq Event /\ \A e \in DOMAIN known : known[e].hops \in Nat
  BY <1>1 DEF GraphTypes, Entries
<1> HIDE DEF n
<1>3. CASE Rooted(last)
  <2>1. last \notin DOMAIN known
    BY <1>2, <1>3, KindsDiffer
  <2>2. Follow(keys) = keys
    BY <2>1 DEF Follow, n
  <2> QED
    BY <1>1, <1>3, <2>2
<1>4. CASE ~Rooted(last)
  <2>1. last \in DOMAIN known /\ \A i \in 1..n : keys[i] \in DOMAIN known
    BY <1>1, <1>2, <1>4
  <2>2. cause \in Event \cup Origin /\ (Rooted(cause) \/ (cause \in DOMAIN known /\ Lower(rank, cause, last)))
    BY <2>1, CausesAreLower
  <2>3. cause \in DOMAIN known => \A i \in 1..n : Lower(rank, cause, keys[i])
    <3> SUFFICES ASSUME cause \in DOMAIN known, NEW i \in 1..n PROVE Lower(rank, cause, keys[i])
      OBVIOUS
    <3>1. ~Rooted(cause)
      BY <1>2, KindsDiffer
    <3>2. Lower(rank, cause, last)
      BY <2>2, <3>1
    <3>3. CASE i = n
      BY <3>2, <3>3
    <3>4. CASE i # n
      <4>1. Lower(rank, last, keys[i])
        BY <1>1, <1>2, <2>1, <3>4
      <4> QED
        BY <1>2, <2>1, <3>2, <4>1, LowerOrders
    <3> QED
      BY <3>3, <3>4
  <2>4. cause \notin Range(keys)
    <3> SUFFICES ASSUME NEW i \in 1..n, cause = keys[i] PROVE FALSE
      BY <1>1 DEF Range
    <3>1. cause \in DOMAIN known /\ Lower(rank, cause, cause)
      BY <2>1, <2>3
    <3> QED
      BY <1>2, <3>1, LowerOrders
  <2> DEFINE s == Append(keys, cause)
  <2>5. Follow(keys) = s
    BY <2>1, <2>4 DEF Follow, n
  <2>6. s \in Seq(Event \cup Origin) /\ Len(s) = n + 1 /\ s[n + 1] = cause /\ \A i \in 1..n : s[i] = keys[i]
    <3> HIDE DEF cause
    <3> QED
      BY ONLY <1>1, <2>2
  <2> HIDE DEF s, cause
  <2>7. \A i \in 1..(n + 1) : s[i] \in DOMAIN known \/ (i = n + 1 /\ Rooted(s[i]))
    <3> TAKE i \in 1..(n + 1)
    <3>1. CASE i = n + 1
      BY <2>2, <2>6, <3>1
    <3>2. CASE i # n + 1
      BY <1>1, <2>1, <2>6, <3>2
    <3> QED
      BY <3>1, <3>2
  <2>8. \A i, j \in 1..(n + 1) : i < j /\ s[j] \in DOMAIN known => Lower(rank, s[j], s[i])
    <3> SUFFICES ASSUME NEW i \in 1..(n + 1), NEW j \in 1..(n + 1), i < j, s[j] \in DOMAIN known
                 PROVE  Lower(rank, s[j], s[i])
      OBVIOUS
    <3>1. i \in 1..n /\ s[i] = keys[i]
      BY <1>1, <2>6
    <3>2. CASE j = n + 1
      BY <2>3, <2>6, <3>1, <3>2
    <3>3. CASE j # n + 1
      <4>1. j \in 1..n /\ s[j] = keys[j]
        BY <1>1, <2>6, <3>3
      <4> QED
        BY <1>1, <3>1, <4>1
    <3> QED
      BY <3>2, <3>3
  <2>9. Chain(rank, s)
    BY <1>1, <2>6, <2>7, <2>8 DEF Chain
  <2> QED
    BY <1>1, <1>4, <2>5, <2>6, <2>9
<1> QED
  BY <1>3, <1>4 DEF n

\* A chain cannot be longer than there are facts.
LEMMA ChainsEnd ==
  ASSUME GraphTypes, NEW rank, Ranked(rank), NEW keys, Chain(rank, keys),
         Len(keys) = Cardinality(DOMAIN known) + 1
  PROVE  Rooted(keys[Len(keys)])
<1> SUFFICES ASSUME ~Rooted(keys[Len(keys)]) PROVE FALSE
  OBVIOUS
<1> DEFINE n == Len(keys)
           at == [i \in 1..n |-> keys[i]]
<1>1. IsFiniteSet(DOMAIN known) /\ Cardinality(DOMAIN known) \in Nat
  BY EventsFinite, FS_Subset, FS_CardinalityType DEF GraphTypes
<1>2. n \in Nat /\ n = Cardinality(DOMAIN known) + 1 /\ \A i \in 1..n : keys[i] \in DOMAIN known
  BY DEF Chain
<1>3. \A i, j \in 1..n : i < j => keys[i] # keys[j]
  <2> TAKE i, j \in 1..n
  <2> HAVE i < j
  <2>1. Lower(rank, keys[j], keys[i]) /\ keys[j] \in DOMAIN known
    BY <1>2 DEF Chain
  <2>2. ~Lower(rank, keys[j], keys[j])
    BY <2>1, LowerOrders DEF GraphTypes, Entries
  <2> QED
    BY <2>1, <2>2
<1>4. \A i, j \in 1..n : i # j => keys[i] # keys[j]
  <2> TAKE i, j \in 1..n
  <2> HAVE i # j
  <2>1. i < j \/ j < i
    BY <1>2
  <2> QED
    BY <1>3, <2>1
<1>5. at \in [1..n -> DOMAIN known] /\ \A i \in 1..n : at[i] = keys[i]
  BY <1>2
<1> HIDE DEF n, at
<1>6. IsFiniteSet(1..n) /\ Cardinality(1..n) = n
  BY <1>1, <1>2, FS_Interval
<1>7. Cardinality(DOMAIN known) < Cardinality(1..n)
  BY <1>1, <1>2, <1>6
<1>8. \E i, j \in 1..n : i # j /\ at[i] = at[j]
  <2> DEFINE places == 1..n
             facts == DOMAIN known
  <2>1. /\ IsFiniteSet(places) /\ IsFiniteSet(facts) /\ Cardinality(facts) < Cardinality(places)
        /\ at \in [places -> facts]
    BY <1>1, <1>5, <1>6, <1>7
  <2> HIDE DEF places, facts
  <2>2. \E i, j \in places : i # j /\ at[i] = at[j]
    BY ONLY <2>1, FS_PigeonHole
  <2> QED
    BY <2>2 DEF places
<1> QED
  BY <1>4, <1>5, <1>8

\* An explanation that starts at a fact or an origin ends at an origin.
LEMMA ExplanationEnds ==
  ASSUME GraphTypes, KnownOK, RankOK, NEW entry,
         entry.cause \in DOMAIN known \/ Rooted(entry.cause)
  PROVE  LET keys == Explanation(entry) IN Rooted(keys[Len(keys)])
<1>1. PICK rank : Ranked(rank)
  BY DEF RankOK, Ranked
<1> DEFINE N == Cardinality(DOMAIN known)
           V == {keys \in Seq(Event \cup Origin) : Chain(rank, keys)}
           start == <<entry.cause>>
           step == [keys \in V |-> Follow(keys)]
           Rec(g) == g = [k \in 0..N |-> IF k = 0 THEN <<entry.cause>> ELSE Follow(g[k - 1])]
<1>2. N \in Nat
  BY EventsFinite, FS_Subset, FS_CardinalityType DEF GraphTypes
<1>3. \A keys : keys \in V <=> Chain(rank, keys)
  BY DEF Chain
<1>4. Chain(rank, start) /\ Len(start) = 1
  <2>1. entry.cause \in Event \cup Origin
    BY DEF GraphTypes, Rooted
  <2>2. start \in Seq(Event \cup Origin) /\ Len(start) = 1 /\ start[1] = entry.cause
    BY <2>1
  <2>3. \A i \in 1..1 : i = 1
    OBVIOUS
  <2>4. \A i, j \in 1..1 : ~(i < j)
    OBVIOUS
  <2> HIDE DEF start
  <2> QED
    BY <2>2, <2>3, <2>4 DEF Chain
<1> HIDE DEF V
<1>5. start \in V /\ step \in [V -> V]
  BY <1>1, <1>3, <1>4, FollowOK
<1>6. PICK h : Recursion(h, N, start, step)
  <2> HIDE DEF start, step, N
  <2> QED
    BY <1>2, <1>5, RecursionExists
<1>7. Rec(h)
  <2>1. /\ h[0] = start /\ h = [k \in 0..N |-> h[k]]
    BY <1>2, <1>6 DEF Recursion
  <2>2. \A k \in 0..N : h[k] \in V /\ (k # 0 => h[k] = step[h[k - 1]])
    <3> HIDE DEF start, step, N
    <3> QED
      BY <1>2, <1>5, <1>6, RecursionTyped
  <2>3. \A k \in 0..N : k # 0 => k - 1 \in 0..N
    BY <1>2
  <2>4. \A k \in 0..N : h[k] = IF k = 0 THEN start ELSE Follow(h[k - 1])
    BY <2>1, <2>2, <2>3
  <2> QED
    BY <2>1, <2>4
<1> DEFINE walk == CHOOSE g : Rec(g)
<1>8. Rec(walk)
  <2> HIDE DEF Rec
  <2> QED
    BY <1>7
<1>9. Explanation(entry) = walk[N]
  BY DEF Explanation
<1>10. walk[0] = start /\ \A k \in 0..N : k # 0 => walk[k] = Follow(walk[k - 1])
  <2> HIDE DEF walk
  <2> QED
    BY <1>2, <1>8
<1> HIDE DEF walk, start, N
<1> DEFINE ended(keys) == Rooted(keys[Len(keys)])
           Good == {k \in Nat : k <= N => /\ Chain(rank, walk[k])
                                          /\ ended(walk[k]) \/ Len(walk[k]) = k + 1}
<1>11. 0 \in Good
  BY <1>2, <1>4, <1>10
<1>12. ASSUME NEW k \in Nat, k \in Good PROVE k + 1 \in Good
  <2> SUFFICES ASSUME k + 1 <= N
               PROVE  /\ Chain(rank, walk[k + 1])
                      /\ ended(walk[k + 1]) \/ Len(walk[k + 1]) = (k + 1) + 1
    OBVIOUS
  <2>1. k <= N /\ k + 1 \in 0..N /\ k + 1 # 0 /\ (k + 1) - 1 = k
    BY <1>2
  <2>2. Chain(rank, walk[k]) /\ (ended(walk[k]) \/ Len(walk[k]) = k + 1)
    BY <1>12, <2>1
  <2>3. walk[k + 1] = Follow(walk[k])
    BY <1>10, <2>1
  <2>4. /\ Chain(rank, walk[k + 1])
        /\ ended(walk[k]) => walk[k + 1] = walk[k]
        /\ ~ended(walk[k]) => Len(walk[k + 1]) = Len(walk[k]) + 1
    BY <1>1, <2>2, <2>3, FollowOK
  <2> HIDE DEF ended
  <2> QED
    BY <2>2, <2>4
<1>13. Chain(rank, walk[N]) /\ (ended(walk[N]) \/ Len(walk[N]) = N + 1)
  <2>1. \A k \in Nat : k \in Good
    <3> HIDE DEF Good
    <3> QED
      BY <1>11, <1>12, Counting
  <2>2. N <= N
    BY <1>2
  <2> QED
    BY <1>2, <2>1, <2>2
<1>14. ended(walk[N])
  BY <1>1, <1>13, ChainsEnd DEF N
<1> QED
  BY <1>9, <1>14

\* What put a test into a narrow result is a fact or an origin.
LEMMA TestCauses ==
  ASSUME GraphTypes, ReachedOK, NEW entry \in Assembled.tests
  PROVE  entry.cause \in DOMAIN known \/ Rooted(entry.cause)
<1> DEFINE tests == (DOMAIN reached \cap Tests) \cup OpaqueTests
                    \cup UNION {LinkedTests(c) : c \in LinkedChanges}
<1>1. PICK t \in tests : entry = [test |-> t, cause |-> TestCause(t)]
  BY DEF Assembled
<1>2. entry.cause = TestCause(t)
  BY <1>1
<1>3. call \in Input /\ call.supplied \subseteq Files /\ call.changed \subseteq Change
  BY CallTyped DEF GraphTypes
<1>4. CASE t \in OpaqueTests
  <2>1. t \in OpaqueFiles /\ t \in Files
    BY <1>3, <1>4 DEF OpaqueTests, OpaqueFiles
  <2>2. OpaqueOrigin(t) \in Origin /\ OpaqueOrigin(t).kind = "opaque" /\ OpaqueOrigin(t).file = t
    BY <2>1, OriginsTyped DEF OpaqueOrigin
  <2>3. TestCause(t) = OpaqueOrigin(t)
    BY <1>4 DEF TestCause
  <2> QED
    BY <1>2, <2>1, <2>2, <2>3 DEF Rooted
<1>5. CASE t \notin OpaqueTests /\ t \in DOMAIN reached
  <2>1. TestCause(t) = reached[t].cause
    BY <1>5 DEF TestCause
  <2> QED
    BY <1>2, <1>5, <2>1 DEF ReachedOK, ReachedBy
<1>6. CASE t \notin OpaqueTests /\ t \notin DOMAIN reached
  <2> DEFINE c == CHOOSE c \in LinkedChanges : t \in LinkedTests(c)
  <2>1. \E d \in LinkedChanges : t \in LinkedTests(d)
    BY <1>6
  <2>2. c \in LinkedChanges
    BY <2>1
  <2>3. TestCause(t) = ChangedOrigin(c.path)
    BY <1>6 DEF TestCause
  <2> HIDE DEF c
  <2>4. c \in call.changed /\ c.path \in Files \cup Others /\ c.path \in PathsOf(c)
    BY <1>3, <2>2 DEF LinkedChanges, Change, PathsOf
  <2>5. /\ ChangedOrigin(c.path) \in Origin /\ ChangedOrigin(c.path).kind = "changed"
        /\ ChangedOrigin(c.path).file = c.path
    BY <2>4, OriginsTyped DEF ChangedOrigin
  <2> QED
    BY <1>2, <2>3, <2>4, <2>5 DEF Rooted
<1> QED
  BY <1>4, <1>5, <1>6

LEMMA ExplanationsImplied == IInv => ExplanationsReachTheChange
<1> SUFFICES ASSUME IInv, pass = "done", result.scope = "affected", NEW entry \in result.tests
             PROVE  LET keys == Explanation(entry)
                        origin == keys[Len(keys)]
                    IN  \/ origin.kind = "changed" /\ \E c \in call.changed : origin.file \in PathsOf(c)
                        \/ origin.kind = "opaque" /\ origin.file \in OpaqueFiles
  BY DEF ExplanationsReachTheChange
<1>1. result = Assembled /\ GraphTypes /\ KnownOK /\ RankOK /\ ReachedOK
  BY NarrowResult DEF SpreadOK
<1>2. entry.cause \in DOMAIN known \/ Rooted(entry.cause)
  BY <1>1, TestCauses
<1>3. LET keys == Explanation(entry) IN Rooted(keys[Len(keys)])
  BY <1>1, <1>2, ExplanationEnds
<1> QED
  BY <1>3 DEF Rooted

\* Every selected test is explained by a chain that ends at the change, however
\* many facts there are and in whatever order they were found.
THEOREM Explained == Spec => []ExplanationsReachTheChange
BY Inductive, ExplanationsImplied, PTL

--------------------------------------------------------------------------
(* What reads a set of facts: the least set that is closed.                *)

ClosedUnder(c, relation) == \A p \in relation : p[2] \in c => p[1] \in c

Growth(g, relation) ==
    g = [s \in SUBSET Facts |->
           IF WithReaders(s, relation) = s THEN s ELSE g[WithReaders(s, relation)]]

\* The least closed set, without a recursion.
Least(s, relation) ==
    {e \in Facts : \A c \in SUBSET Facts : s \subseteq c /\ ClosedUnder(c, relation) => e \in c}

LEMMA StepFacts ==
  ASSUME NEW relation, \A p \in relation : p[1] \in Facts, NEW s \in SUBSET Facts
  PROVE  /\ WithReaders(s, relation) \in SUBSET Facts /\ s \subseteq WithReaders(s, relation)
         /\ WithReaders(s, relation) = s <=> ClosedUnder(s, relation)
         /\ \A c : s \subseteq c /\ ClosedUnder(c, relation) => WithReaders(s, relation) \subseteq c
BY DEF WithReaders, ClosedUnder

LEMMA LeastFacts ==
  ASSUME NEW relation, \A p \in relation : p[1] \in Facts, NEW s \in SUBSET Facts
  PROVE  /\ s \subseteq Least(s, relation) /\ Least(s, relation) \in SUBSET Facts
         /\ ClosedUnder(Least(s, relation), relation)
         /\ \A c : s \subseteq c /\ ClosedUnder(c, relation) => Least(s, relation) \subseteq c
         /\ ClosedUnder(s, relation) => Least(s, relation) = s
         /\ Least(WithReaders(s, relation), relation) = Least(s, relation)
<1>1. s \subseteq Least(s, relation) /\ Least(s, relation) \in SUBSET Facts
  BY DEF Least
<1>2. ClosedUnder(Least(s, relation), relation)
  BY DEF Least, ClosedUnder
<1>3. ASSUME NEW c, s \subseteq c, ClosedUnder(c, relation) PROVE Least(s, relation) \subseteq c
  <2>1. c \cap Facts \in SUBSET Facts /\ s \subseteq c \cap Facts /\ ClosedUnder(c \cap Facts, relation)
    BY <1>3 DEF ClosedUnder
  <2> QED
    BY <2>1 DEF Least
<1>4. ClosedUnder(s, relation) => Least(s, relation) = s
  BY <1>1, <1>3
<1>5. \A c \in SUBSET Facts :
        ClosedUnder(c, relation) => (s \subseteq c <=> WithReaders(s, relation) \subseteq c)
  BY StepFacts
<1>6. Least(WithReaders(s, relation), relation) = Least(s, relation)
  BY <1>5 DEF Least
<1> QED
  BY <1>1, <1>2, <1>3, <1>4, <1>6

LEMMA FactsFinite == IsFiniteSet(Facts)
<1>1. None \notin Names /\ Facts \subseteq Event
  BY GraphAssumption DEF Facts, Event
<1> QED
  BY <1>1, EventsFinite, FS_Subset

\* The recursion has a solution, and on finitely many facts no other.
LEMMA GrowthSolved ==
  ASSUME NEW relation, \A p \in relation : p[1] \in Facts, NEW g, Growth(g, relation)
  PROVE  \A s \in SUBSET Facts : g[s] = Least(s, relation)
<1> DEFINE left(s) == Cardinality(Facts \ s)
           Good == {k \in Nat : \A s \in SUBSET Facts : left(s) <= k => g[s] = Least(s, relation)}
<1>1. \A s \in SUBSET Facts : left(s) \in Nat /\ (left(s) = 0 => s = Facts)
  <2> TAKE s \in SUBSET Facts
  <2>1. IsFiniteSet(Facts \ s)
    BY FactsFinite, FS_Subset
  <2>2. Cardinality(Facts \ s) \in Nat
    BY <2>1, FS_CardinalityType
  <2>3. Cardinality(Facts \ s) = 0 => Facts \ s = {}
    BY <2>1, FS_EmptySet
  <2> QED
    BY <2>2, <2>3
<1>2. \A s, t \in SUBSET Facts : s \subseteq t /\ s # t => left(t) < left(s)
  <2> TAKE s, t \in SUBSET Facts
  <2> HAVE s \subseteq t /\ s # t
  <2> DEFINE S == Facts \ s
             R == Facts \ t
  <2>1. IsFiniteSet(S)
    BY FactsFinite, FS_Subset
  <2>2. R \in SUBSET S /\ R # S
    OBVIOUS
  <2> HIDE DEF S, R
  <2>3. Cardinality(R) <= Cardinality(S) /\ Cardinality(R) # Cardinality(S)
    BY <2>1, <2>2, FS_Subset
  <2>4. Cardinality(R) \in Nat /\ Cardinality(S) \in Nat
    BY <2>1, <2>2, FS_Subset, FS_CardinalityType
  <2>5. Cardinality(R) < Cardinality(S)
    BY <2>3, <2>4
  <2> QED
    BY <2>5 DEF R, S
<1>3. \A s \in SUBSET Facts : ClosedUnder(s, relation) => g[s] = Least(s, relation)
  BY StepFacts, LeastFacts DEF Growth
<1>4. \A s \in SUBSET Facts : ~ClosedUnder(s, relation) => g[s] = g[WithReaders(s, relation)]
  BY StepFacts DEF Growth
<1>5. ClosedUnder(Facts, relation)
  BY DEF ClosedUnder
<1> HIDE DEF left
<1>6. 0 \in Good
  <2> SUFFICES ASSUME NEW s \in SUBSET Facts, left(s) <= 0 PROVE g[s] = Least(s, relation)
    OBVIOUS
  <2>1. s = Facts
    BY <1>1
  <2> QED
    BY <1>3, <1>5, <2>1
<1>7. ASSUME NEW k \in Nat, k \in Good PROVE k + 1 \in Good
  <2> SUFFICES ASSUME NEW s \in SUBSET Facts, left(s) <= k + 1 PROVE g[s] = Least(s, relation)
    OBVIOUS
  <2>1. CASE ClosedUnder(s, relation)
    BY <1>3, <2>1
  <2>2. CASE ~ClosedUnder(s, relation)
    <3> DEFINE more == WithReaders(s, relation)
    <3>1. more \in SUBSET Facts /\ s \subseteq more /\ s # more
      BY <2>2, StepFacts
    <3>2. left(more) < left(s) /\ left(more) \in Nat /\ left(s) \in Nat
      BY <1>1, <1>2, <3>1
    <3>3. left(more) <= k
      BY <3>2
    <3>4. g[more] = Least(more, relation)
      BY <1>7, <3>1, <3>3
    <3> QED
      BY <1>4, <2>2, <3>4, LeastFacts
  <2> QED
    BY <2>1, <2>2
<1> HIDE DEF Good
<1>8. \A k \in Nat : k \in Good
  BY <1>6, <1>7, Counting
<1> SUFFICES ASSUME NEW s \in SUBSET Facts PROVE g[s] = Least(s, relation)
  OBVIOUS
<1>9. left(s) \in Nat /\ left(s) <= left(s) /\ left(s) \in Good
  BY <1>1, <1>8
<1> QED
  BY <1>9 DEF Good

LEMMA GrowthExists ==
  ASSUME NEW relation, \A p \in relation : p[1] \in Facts
  PROVE  \E g : Growth(g, relation)
<1> DEFINE g == [s \in SUBSET Facts |-> Least(s, relation)]
<1>1. \A s \in SUBSET Facts :
        Least(s, relation) = IF WithReaders(s, relation) = s THEN s ELSE g[WithReaders(s, relation)]
  BY StepFacts, LeastFacts
<1>2. Growth(g, relation)
  BY <1>1 DEF Growth
<1> QED
  BY <1>2

LEMMA ReadersAre ==
  ASSUME NEW relation, \A p \in relation : p[1] \in Facts, NEW facts \in SUBSET Facts
  PROVE  Readers(facts, relation) = Least(facts, relation)
<1> DEFINE g == CHOOSE g : Growth(g, relation)
<1>1. Growth(g, relation)
  BY GrowthExists
<1>2. Readers(facts, relation) = g[facts]
  BY DEF Readers, Growth
<1> HIDE DEF g
<1> QED
  BY <1>1, <1>2, GrowthSolved

--------------------------------------------------------------------------
(* The analysis follows what reads a fact, and nothing else.               *)

LEMMA FormOfFacts ==
  ASSUME NEW e \in Facts
  PROVE  /\ e \in Event /\ e.file \in Files
         /\ \/ e.kind = "local" /\ e.name \in Names /\ e = LocalFact(e.file, e.name)
            \/ e.kind = "export" /\ e.name \in Names /\ e = ExportFact(e.file, e.name)
            \/ e.kind = "all" /\ e = AllFact(e.file)
            \/ e.kind = "any" /\ e = AnyFact(e.file)
<1>1. CASE e \in [kind : {"local", "export"}, file : Files, name : Names]
  <2>1. e = [kind |-> e.kind, file |-> e.file, name |-> e.name]
        /\ e.kind \in {"local", "export"} /\ e.file \in Files /\ e.name \in Names
    BY <1>1
  <2>2. e \in Event
    BY <2>1 DEF Event
  <2> QED
    BY <2>1, <2>2 DEF LocalFact, ExportFact
<1>2. CASE e \in [kind : {"all", "any"}, file : Files, name : {None}]
  <2>1. e = [kind |-> e.kind, file |-> e.file, name |-> None]
        /\ e.kind \in {"all", "any"} /\ e.file \in Files
    BY <1>2
  <2>2. e \in Event
    BY <2>1 DEF Event
  <2> QED
    BY <2>1, <2>2 DEF AllFact, AnyFact
<1> QED
  BY <1>1, <1>2 DEF Facts

LEMMA MakesFacts ==
  ASSUME NEW f \in Files, NEW n \in Names
  PROVE  {LocalFact(f, n), ExportFact(f, n), AllFact(f), AnyFact(f)} \subseteq Facts
BY DEF LocalFact, ExportFact, AllFact, AnyFact, Facts

LEMMA AllAndAny ==
  ASSUME NEW f \in Files
  PROVE  {AllFact(f), AnyFact(f)} \subseteq Facts
BY DEF AllFact, AnyFact, Facts

\* The parts of a fact.
LEMMA PartsOf ==
  ASSUME NEW f, NEW n
  PROVE  /\ LocalFact(f, n).kind = "local" /\ LocalFact(f, n).file = f /\ LocalFact(f, n).name = n
         /\ ExportFact(f, n).kind = "export" /\ ExportFact(f, n).file = f /\ ExportFact(f, n).name = n
         /\ AllFact(f).kind = "all" /\ AllFact(f).file = f
         /\ AnyFact(f).kind = "any" /\ AnyFact(f).file = f
BY DEF LocalFact, ExportFact, AllFact, AnyFact

\* Elements of OnLocal, one form at a time.
LEMMA OnLocalIs ==
  ASSUME NEW f, NEW n, NEW e
  PROVE  e \in OnLocal(f, n) <=>
           \/ \E r \in Info(f).refs : n \in r.mentions /\ e = LocalFact(f, r.name)
           \/ e = AllFact(f) /\ \E i \in DOMAIN Info(f).effects : n \in Info(f).effects[i].refs
           \/ \E x \in Info(f).exports : x.from = Here /\ x.name = n /\ e = ExportFact(f, x.as)
BY DEF OnLocal

LEMMA WithinIs ==
  ASSUME NEW r
  PROVE  /\ r.kind = "local" => Within(r) = OnLocal(r.file, r.name)
         /\ r.kind = "export" => Within(r) = {AnyFact(r.file)}
         /\ r.kind = "all" => Within(r) = {ExportFact(r.file, x.as) : x \in Info(r.file).exports}
                                          \cup {AnyFact(r.file)}
         /\ r.kind = "any" => Within(r) = {}
         /\ r.kind = "export" => Across(r) = ExportFollows(r.file, r.name)
         /\ r.kind = "any" => Across(r) = NsEdges(r.file)
         /\ r.kind \in {"local", "all"} => Across(r) = {}
<1>1. r.kind = "local" => Within(r) = OnLocal(r.file, r.name)
  BY DEF Within
<1>2. r.kind = "export" => Within(r) = {AnyFact(r.file)}
  BY DEF Within
<1>3. r.kind = "all" => Within(r) = {ExportFact(r.file, x.as) : x \in Info(r.file).exports}
                                    \cup {AnyFact(r.file)}
  BY DEF Within
<1>4. r.kind = "any" => Within(r) = {}
  BY DEF Within
<1>5. /\ r.kind = "export" => Across(r) = ExportFollows(r.file, r.name)
      /\ r.kind = "any" => Across(r) = NsEdges(r.file)
      /\ r.kind \in {"local", "all"} => Across(r) = {}
  BY DEF Across
<1> QED
  BY <1>1, <1>2, <1>3, <1>4, <1>5

LEMMA ReadsWithinIs ==
  ASSUME NEW e, NEW r
  PROVE  /\ e.kind = "local" =>
              (r \in ReadsWithin(e) <=>
                 \E x \in Info(e.file).refs : \E n \in x.mentions :
                    x.name = e.name /\ r = LocalFact(e.file, n))
         /\ e.kind = "export" =>
              (r \in ReadsWithin(e) <=>
                 \/ \E x \in Info(e.file).exports :
                       x.as = e.name /\ x.from = Here /\ r = LocalFact(e.file, x.name)
                 \/ r = AllFact(e.file) /\ MayExport(e.file, e.name))
         /\ e.kind = "all" =>
              (r \in ReadsWithin(e) <=>
                 \E i \in DOMAIN Info(e.file).effects : \E n \in Info(e.file).effects[i].refs :
                    r = LocalFact(e.file, n))
         /\ e.kind = "any" =>
              (r \in ReadsWithin(e) <=>
                 r = AllFact(e.file) \/ \E n \in Names : r = ExportFact(e.file, n))
<1>1. e.kind = "local" =>
        ReadsWithin(e) = {LocalFact(e.file, n) : n \in
                            UNION {r2.mentions : r2 \in {r2 \in Info(e.file).refs : r2.name = e.name}}}
  BY DEF ReadsWithin
<1>2. e.kind = "export" =>
        ReadsWithin(e) =
          {LocalFact(e.file, x.name) : x \in {x \in Info(e.file).exports : x.as = e.name /\ x.from = Here}}
          \cup {AllFact(g) : g \in IF MayExport(e.file, e.name) THEN {e.file} ELSE {}}
  BY DEF ReadsWithin
<1>3. e.kind = "all" =>
        ReadsWithin(e) = {LocalFact(e.file, n) : n \in
                            UNION {effect.refs : effect \in Range(Info(e.file).effects)}}
  BY DEF ReadsWithin
<1>4. e.kind = "any" =>
        ReadsWithin(e) = {ExportFact(e.file, n) : n \in Names} \cup {AllFact(e.file)}
  BY DEF ReadsWithin
<1>5. CASE e.kind = "local"
  BY <1>1, <1>5
<1>6. CASE e.kind = "export"
  BY <1>2, <1>6
<1>7. CASE e.kind = "all"
  BY <1>3, <1>7 DEF Range
<1>8. CASE e.kind = "any"
  BY <1>4, <1>8
<1> QED
  BY <1>5, <1>6, <1>7, <1>8

LEMMA WithinFacts ==
  ASSUME call \in Input, NEW r \in Facts
  PROVE  Within(r) \subseteq Facts /\ \A e \in Within(r) : e.file = r.file
<1>1. r.file \in Files /\ Info(r.file) \in Module /\ r.kind \in {"local", "export", "all", "any"}
  BY FormOfFacts, InfoTyped
<1>2. CASE r.kind = "local"
  <2>1. Within(r) = OnLocal(r.file, r.name)
    BY <1>2, WithinIs
  <2> SUFFICES ASSUME NEW e \in OnLocal(r.file, r.name) PROVE e \in Facts /\ e.file = r.file
    BY <2>1
  <2>2. CASE \E x \in Info(r.file).refs : e = LocalFact(r.file, x.name)
    <3>1. PICK n \in Names : e = LocalFact(r.file, n)
      BY <1>1, <2>2, Fields
    <3> QED
      BY <1>1, <3>1, MakesFacts, PartsOf
  <2>3. CASE e = AllFact(r.file)
    BY <1>1, <2>3, AllAndAny, PartsOf
  <2>4. CASE \E x \in Info(r.file).exports : e = ExportFact(r.file, x.as)
    <3>1. PICK n \in Names : e = ExportFact(r.file, n)
      BY <1>1, <2>4, Fields
    <3> QED
      BY <1>1, <3>1, MakesFacts, PartsOf
  <2> QED
    BY <2>2, <2>3, <2>4, OnLocalIs
<1>3. CASE r.kind = "export"
  <2>1. Within(r) = {AnyFact(r.file)}
    BY <1>3, WithinIs
  <2>2. AnyFact(r.file) \in Facts /\ AnyFact(r.file).file = r.file
    BY <1>1, AllAndAny, PartsOf
  <2> QED
    BY <2>1, <2>2
<1>4. CASE r.kind = "all"
  <2> SUFFICES ASSUME NEW e \in Within(r) PROVE e \in Facts /\ e.file = r.file
    OBVIOUS
  <2>1. CASE \E x \in Info(r.file).exports : e = ExportFact(r.file, x.as)
    <3>1. PICK n \in Names : e = ExportFact(r.file, n)
      BY <1>1, <2>1, Fields
    <3> QED
      BY <1>1, <3>1, MakesFacts, PartsOf
  <2>2. CASE e = AnyFact(r.file)
    BY <1>1, <2>2, AllAndAny, PartsOf
  <2> QED
    BY <1>4, <2>1, <2>2, WithinIs
<1>5. CASE r.kind = "any"
  BY <1>5, WithinIs
<1> QED
  BY <1>1, <1>2, <1>3, <1>4, <1>5

\* What is told inside a module does read what it is told of.
LEMMA WithinReads ==
  ASSUME call \in Input, NEW r \in Facts, NEW e \in Within(r)
  PROVE  e \in Facts /\ r \in ReadsWithin(e)
<1>1. e \in Facts /\ e.file = r.file /\ r.file \in Files
  BY WithinFacts, FormOfFacts
<1>2. CASE r.kind = "local"
  <2>1. r = LocalFact(r.file, r.name) /\ e \in OnLocal(r.file, r.name)
    BY <1>2, FormOfFacts, WithinIs, PartsOf
  <2>2. CASE \E x \in Info(r.file).refs : r.name \in x.mentions /\ e = LocalFact(r.file, x.name)
    <3>1. PICK x \in Info(r.file).refs : r.name \in x.mentions /\ e = LocalFact(r.file, x.name)
      BY <2>2
    <3>2. e.kind = "local" /\ e.file = r.file /\ e.name = x.name
      BY <3>1, PartsOf
    <3>3. \E y \in Info(e.file).refs : \E n \in y.mentions : y.name = e.name /\ r = LocalFact(e.file, n)
      BY <2>1, <3>1, <3>2
    <3> QED
      BY <1>1, <3>2, <3>3, ReadsWithinIs
  <2>3. CASE e = AllFact(r.file) /\ \E i \in DOMAIN Info(r.file).effects : r.name \in Info(r.file).effects[i].refs
    <3>1. e.kind = "all" /\ e.file = r.file
      BY <2>3, PartsOf
    <3>2. \E i \in DOMAIN Info(e.file).effects : \E n \in Info(e.file).effects[i].refs :
            r = LocalFact(e.file, n)
      BY <2>1, <2>3, <3>1
    <3> QED
      BY <1>1, <3>1, <3>2, ReadsWithinIs
  <2>4. CASE \E x \in Info(r.file).exports : x.from = Here /\ x.name = r.name /\ e = ExportFact(r.file, x.as)
    <3>1. PICK x \in Info(r.file).exports :
            x.from = Here /\ x.name = r.name /\ e = ExportFact(r.file, x.as)
      BY <2>4
    <3>2. e.kind = "export" /\ e.file = r.file /\ e.name = x.as
      BY <3>1, PartsOf
    <3>3. \E y \in Info(e.file).exports : y.as = e.name /\ y.from = Here /\ r = LocalFact(e.file, y.name)
      BY <2>1, <3>1, <3>2
    <3> QED
      BY <1>1, <3>2, <3>3, ReadsWithinIs
  <2> QED
    BY <2>1, <2>2, <2>3, <2>4, OnLocalIs
<1>3. CASE r.kind = "export"
  <2>1. r = ExportFact(r.file, r.name) /\ r.name \in Names /\ e = AnyFact(r.file)
    BY <1>3, FormOfFacts, WithinIs, PartsOf
  <2> QED
    BY <1>1, <2>1, PartsOf, ReadsWithinIs
<1>4. CASE r.kind = "all"
  <2>1. r = AllFact(r.file)
    BY <1>4, FormOfFacts, PartsOf
  <2>2. CASE e = AnyFact(r.file)
    BY <1>1, <2>1, <2>2, PartsOf, ReadsWithinIs
  <2>3. CASE \E x \in Info(r.file).exports : e = ExportFact(r.file, x.as)
    <3>1. PICK x \in Info(r.file).exports : e = ExportFact(r.file, x.as)
      BY <2>3
    <3>2. MayExport(r.file, x.as)
      BY DEF MayExport
    <3>3. e.kind = "export" /\ e.file = r.file /\ e.name = x.as
      BY <3>1, PartsOf
    <3> QED
      BY <1>1, <2>1, <3>2, <3>3, ReadsWithinIs
  <2> QED
    BY <1>4, <2>2, <2>3, WithinIs
<1>5. CASE r.kind = "any"
  BY <1>5, WithinIs
<1> QED
  BY <1>1, <1>2, <1>3, <1>4, <1>5, FormOfFacts

\* Everything inside a module that reads r is told, but for a name that the
\* module does not have itself when r is that it changed in every export.
LEMMA ReadersWithinAreTold ==
  ASSUME NEW e \in Facts, NEW r \in Facts, r \in ReadsWithin(e)
  PROVE  \/ e \in Within(r)
         \/ /\ e.kind = "export" /\ r = AllFact(e.file) /\ MayExport(e.file, e.name)
            /\ \A x \in Info(e.file).exports : x.as # e.name
<1>1. CASE e.kind = "local"
  <2>a. PICK x \in Info(e.file).refs : \E n \in x.mentions : x.name = e.name /\ r = LocalFact(e.file, n)
    BY <1>1, ReadsWithinIs
  <2>1. PICK n \in x.mentions : x.name = e.name /\ r = LocalFact(e.file, n)
    BY <2>a
  <2>2. r.kind = "local" /\ r.file = e.file /\ r.name = n /\ e = LocalFact(e.file, e.name)
    BY <1>1, <2>1, FormOfFacts, PartsOf
  <2>3. e \in OnLocal(r.file, r.name)
    BY <2>1, <2>2, OnLocalIs
  <2> QED
    BY <2>2, <2>3, WithinIs
<1>2. CASE e.kind = "export"
  <2>1. e = ExportFact(e.file, e.name)
    BY <1>2, FormOfFacts, PartsOf
  <2>2. CASE \E x \in Info(e.file).exports : x.as = e.name /\ x.from = Here /\ r = LocalFact(e.file, x.name)
    <3>1. PICK x \in Info(e.file).exports : x.as = e.name /\ x.from = Here /\ r = LocalFact(e.file, x.name)
      BY <2>2
    <3>2. r.kind = "local" /\ r.file = e.file /\ r.name = x.name
      BY <3>1, PartsOf
    <3>3. e \in OnLocal(r.file, r.name)
      BY <2>1, <3>1, <3>2, OnLocalIs
    <3> QED
      BY <3>2, <3>3, WithinIs
  <2>3. CASE r = AllFact(e.file) /\ MayExport(e.file, e.name)
    <3>1. r.kind = "all" /\ r.file = e.file
      BY <2>3, PartsOf
    <3> QED
      BY <1>2, <2>1, <2>3, <3>1, WithinIs
  <2> QED
    BY <1>2, <2>2, <2>3, ReadsWithinIs
<1>3. CASE e.kind = "all"
  <2>a. PICK i \in DOMAIN Info(e.file).effects :
          \E n \in Info(e.file).effects[i].refs : r = LocalFact(e.file, n)
    BY <1>3, ReadsWithinIs
  <2>1. PICK n \in Info(e.file).effects[i].refs : r = LocalFact(e.file, n)
    BY <2>a
  <2>2. r.kind = "local" /\ r.file = e.file /\ r.name = n /\ e = AllFact(e.file)
    BY <1>3, <2>1, FormOfFacts, PartsOf
  <2>3. e \in OnLocal(r.file, r.name)
    BY <2>1, <2>2, OnLocalIs
  <2> QED
    BY <2>2, <2>3, WithinIs
<1>4. CASE e.kind = "any"
  <2>1. e = AnyFact(e.file) /\ (r = AllFact(e.file) \/ \E n \in Names : r = ExportFact(e.file, n))
    BY <1>4, FormOfFacts, PartsOf, ReadsWithinIs
  <2> QED
    BY <2>1, PartsOf, WithinIs
<1> QED
  BY <1>1, <1>2, <1>3, <1>4, FormOfFacts

\* Where the names that a module imports come from.
LEMMA ImportFields ==
  ASSUME NEW m \in Module
  PROVE  /\ \A b \in m.bindings : b.from \in Files /\ b.imported \in Names \cup {Star}
         /\ \A x \in m.exports : x.from \in Files \cup {Here} /\ x.name \in Names \cup {Star}
         /\ Range(m.stars) \subseteq Files /\ Range(m.bare) \subseteq Files
<1>1. m.stars \in Seq(Files) /\ m.bare \in Seq(Files)
  BY DEF Module
<1>2. \A s \in Seq(Files) : Range(s) \subseteq Files
  BY DEF Range
<1>3. m.bindings \in SUBSET [local : Names, from : Files, imported : Names \cup {Star}]
      /\ m.exports \in SUBSET [as : Names, from : Files \cup {Here}, name : Names \cup {Star}]
  BY DEF Module
<1>4. \A b \in m.bindings : b.from \in Files /\ b.imported \in Names \cup {Star}
  BY <1>3
<1>5. \A x \in m.exports : x.from \in Files \cup {Here} /\ x.name \in Names \cup {Star}
  BY <1>3
<1> QED
  BY <1>1, <1>2, <1>4, <1>5

LEMMA AcrossIs ==
  ASSUME NEW r, NEW e
  PROVE  /\ r.kind = "export" =>
              (e \in Across(r) <=>
                 \E g \in call.supplied :
                    \/ \E b \in Info(g).bindings :
                          b.from = r.file /\ b.imported = r.name /\ e = LocalFact(g, b.local)
                    \/ \E x \in Info(g).exports :
                          x.from = r.file /\ x.name = r.name /\ e = ExportFact(g, x.as)
                    \/ r.name # Default /\ r.file \in Range(Info(g).stars) /\ e = ExportFact(g, r.name))
         /\ r.kind = "any" =>
              (e \in Across(r) <=>
                 \E g \in call.supplied :
                    \/ \E b \in Info(g).bindings :
                          b.from = r.file /\ b.imported = Star /\ e = LocalFact(g, b.local)
                    \/ \E x \in Info(g).exports :
                          x.from = r.file /\ x.name = Star /\ e = ExportFact(g, x.as)
                    \/ r.file \in Range(Info(g).bare) /\ e = AllFact(g))
         /\ r.kind \in {"local", "all"} => Across(r) = {}
<1>1. \A f, n : e \in BindEdges(f, n) <=>
        \E g \in call.supplied :
           \/ \E b \in Info(g).bindings : b.from = f /\ b.imported = n /\ e = LocalFact(g, b.local)
           \/ \E x \in Info(g).exports : x.from = f /\ x.name = n /\ e = ExportFact(g, x.as)
  BY DEF BindEdges
<1>2. \A f : e \in NsEdges(f) <=>
        \E g \in call.supplied :
           \/ \E b \in Info(g).bindings : b.from = f /\ b.imported = Star /\ e = LocalFact(g, b.local)
           \/ \E x \in Info(g).exports : x.from = f /\ x.name = Star /\ e = ExportFact(g, x.as)
           \/ f \in Range(Info(g).bare) /\ e = AllFact(g)
  BY DEF NsEdges
<1>3. \A f, n : e \in ExportFollows(f, n) <=>
        \/ e \in BindEdges(f, n)
        \/ n # Default /\ \E g \in call.supplied : f \in Range(Info(g).stars) /\ e = ExportFact(g, n)
  BY DEF ExportFollows, StarEdges
<1>4. CASE r.kind = "export"
  <2>1. Across(r) = ExportFollows(r.file, r.name)
    BY <1>4, WithinIs
  <2>2. e \in Across(r) <=>
        \/ e \in BindEdges(r.file, r.name)
        \/ r.name # Default
           /\ \E g \in call.supplied : r.file \in Range(Info(g).stars) /\ e = ExportFact(g, r.name)
    BY <2>1, <1>3
  <2>3. e \in BindEdges(r.file, r.name) <=>
        \E g \in call.supplied :
           \/ \E b \in Info(g).bindings : b.from = r.file /\ b.imported = r.name /\ e = LocalFact(g, b.local)
           \/ \E x \in Info(g).exports : x.from = r.file /\ x.name = r.name /\ e = ExportFact(g, x.as)
    BY <1>1
  <2> QED
    BY <1>4, <2>2, <2>3
<1>5. CASE r.kind = "any"
  <2>1. Across(r) = NsEdges(r.file)
    BY <1>5, WithinIs
  <2> QED
    BY <1>5, <2>1, <1>2
<1>6. r.kind \in {"local", "all"} => Across(r) = {}
  BY WithinIs
<1> QED
  BY <1>4, <1>5, <1>6

LEMMA ReadsAcrossIs ==
  ASSUME NEW e, NEW r
  PROVE  /\ e.kind = "local" =>
              (r \in ReadsAcross(e) <=>
                 \E b \in Info(e.file).bindings : b.local = e.name /\ r = Imported(b.from, b.imported))
         /\ e.kind = "export" =>
              (r \in ReadsAcross(e) <=>
                 \/ \E x \in Info(e.file).exports :
                       x.as = e.name /\ x.from # Here /\ r = Imported(x.from, x.name)
                 \/ e.name # Default /\ \E g \in Range(Info(e.file).stars) : r = ExportFact(g, e.name))
         /\ e.kind = "all" =>
              (r \in ReadsAcross(e) <=> \E g \in Range(Info(e.file).bare) : r = AnyFact(g))
         /\ e.kind = "any" => ReadsAcross(e) = {}
<1>1. e.kind = "local" =>
        ReadsAcross(e) = {Imported(b.from, b.imported) :
                            b \in {b \in Info(e.file).bindings : b.local = e.name}}
  BY DEF ReadsAcross
<1>2. e.kind = "export" =>
        ReadsAcross(e) =
          {Imported(x.from, x.name) : x \in {x \in Info(e.file).exports : x.as = e.name /\ x.from # Here}}
          \cup {ExportFact(g, e.name) : g \in IF e.name = Default THEN {} ELSE Range(Info(e.file).stars)}
  BY DEF ReadsAcross
<1>3. e.kind = "all" => ReadsAcross(e) = {AnyFact(g) : g \in Range(Info(e.file).bare)}
  BY DEF ReadsAcross
<1>4. e.kind = "any" => ReadsAcross(e) = {}
  BY DEF ReadsAcross
<1>5. CASE e.kind = "local"
  BY <1>1, <1>5
<1>6. CASE e.kind = "export"
  BY <1>2, <1>6
<1>7. CASE e.kind = "all"
  BY <1>3, <1>7
<1>8. CASE e.kind = "any"
  BY <1>4, <1>8
<1> QED
  BY <1>5, <1>6, <1>7, <1>8

LEMMA ImportedIs ==
  ASSUME NEW f \in Files, NEW n \in Names \cup {Star}
  PROVE  /\ n \in Names => Imported(f, n) = ExportFact(f, n)
         /\ n = Star => Imported(f, n) = AnyFact(f)
         /\ Imported(f, n) \in Facts /\ Imported(f, n).file = f
<1>1. Star \notin Names
  BY GraphAssumption
<1>2. CASE n = Star
  <2>1. Imported(f, n) = AnyFact(f)
    BY <1>2 DEF Imported
  <2> QED
    <3>1. AnyFact(f) \in Facts /\ AnyFact(f).file = f
      BY AllAndAny, PartsOf
    <3> QED
      BY <1>1, <1>2, <2>1, <3>1
<1>3. CASE n \in Names
  <2>1. Imported(f, n) = ExportFact(f, n)
    BY <1>1, <1>3 DEF Imported
  <2> QED
    BY <1>1, <1>3, <2>1, MakesFacts, PartsOf
<1> QED
  BY <1>2, <1>3

LEMMA AcrossFacts ==
  ASSUME call \in Input, NEW r \in Facts
  PROVE  Across(r) \subseteq Facts /\ \A e \in Across(r) : e.file \in call.supplied
<1>1. /\ r.file \in Files /\ r.kind \in {"local", "export", "all", "any"}
      /\ r.kind = "export" => r.name \in Names
  BY FormOfFacts
<1>2. call.supplied \subseteq Files
  BY CallTyped
<1> SUFFICES ASSUME NEW e \in Across(r) PROVE e \in Facts /\ e.file \in call.supplied
  OBVIOUS
<1>3. \E g \in call.supplied : \/ \E b \in Info(g).bindings : e = LocalFact(g, b.local)
                               \/ \E x \in Info(g).exports : e = ExportFact(g, x.as)
                               \/ r.name \in Names /\ e = ExportFact(g, r.name)
                               \/ e = AllFact(g)
  <2>1. CASE r.kind = "export"
    BY <1>1, <2>1, AcrossIs
  <2>2. CASE r.kind = "any"
    BY <2>2, AcrossIs
  <2> QED
    BY <1>1, <2>1, <2>2, AcrossIs
<1>4. PICK g \in call.supplied : \/ \E b \in Info(g).bindings : e = LocalFact(g, b.local)
                                 \/ \E x \in Info(g).exports : e = ExportFact(g, x.as)
                                 \/ r.name \in Names /\ e = ExportFact(g, r.name)
                                 \/ e = AllFact(g)
  BY <1>3
<1>5. g \in Files /\ Info(g) \in Module
  BY <1>2, InfoTyped
<1>6. e = AllFact(g) \/ \E n \in Names : e = LocalFact(g, n) \/ e = ExportFact(g, n)
  BY <1>4, <1>5, Fields
<1>7. CASE e = AllFact(g)
  <2>1. AllFact(g) \in Facts /\ AllFact(g).file = g
    BY <1>5, AllAndAny, PartsOf
  <2> QED
    BY <1>7, <2>1
<1>8. ASSUME NEW n \in Names, e = LocalFact(g, n) \/ e = ExportFact(g, n)
      PROVE  e \in Facts /\ e.file = g
  <2>1. {LocalFact(g, n), ExportFact(g, n)} \subseteq Facts
    BY <1>5, MakesFacts
  <2>2. LocalFact(g, n).file = g /\ ExportFact(g, n).file = g
    BY PartsOf
  <2> QED
    BY <1>8, <2>1, <2>2
<1> QED
  BY <1>6, <1>7, <1>8

\* What is told across modules does read what it is told of...
LEMMA AcrossReads ==
  ASSUME call \in Input, NEW r \in Facts, NEW e \in Across(r)
  PROVE  e \in Facts /\ r \in ReadsAcross(e)
<1>1. e \in Facts /\ call.supplied \subseteq Files
  BY AcrossFacts, CallTyped
<1>2. /\ r.file \in Files /\ r.kind \in {"local", "export", "all", "any"}
      /\ r.kind = "export" => r.name \in Names /\ r = ExportFact(r.file, r.name)
      /\ r.kind = "any" => r = AnyFact(r.file)
  BY FormOfFacts, PartsOf
<1>3. Here \notin Files
  BY GraphAssumption
<1>4. CASE r.kind = "export"
  <2>0. Imported(r.file, r.name) = r
    BY <1>2, <1>4, ImportedIs
  <2>1. PICK g \in call.supplied :
          \/ \E b \in Info(g).bindings :
                b.from = r.file /\ b.imported = r.name /\ e = LocalFact(g, b.local)
          \/ \E x \in Info(g).exports :
                x.from = r.file /\ x.name = r.name /\ e = ExportFact(g, x.as)
          \/ r.name # Default /\ r.file \in Range(Info(g).stars) /\ e = ExportFact(g, r.name)
    BY <1>4, AcrossIs
  <2>2. CASE \E b \in Info(g).bindings :
                b.from = r.file /\ b.imported = r.name /\ e = LocalFact(g, b.local)
    <3>1. PICK b \in Info(g).bindings :
            b.from = r.file /\ b.imported = r.name /\ e = LocalFact(g, b.local)
      BY <2>2
    <3>2. e.kind = "local" /\ e.file = g /\ e.name = b.local
      BY <3>1, PartsOf
    <3>3. \E y \in Info(e.file).bindings : y.local = e.name /\ r = Imported(y.from, y.imported)
      BY <2>0, <3>1, <3>2
    <3> QED
      BY <1>1, <3>2, <3>3, ReadsAcrossIs
  <2>3. CASE \E x \in Info(g).exports :
                x.from = r.file /\ x.name = r.name /\ e = ExportFact(g, x.as)
    <3>1. PICK x \in Info(g).exports :
            x.from = r.file /\ x.name = r.name /\ e = ExportFact(g, x.as)
      BY <2>3
    <3>2. e.kind = "export" /\ e.file = g /\ e.name = x.as
      BY <3>1, PartsOf
    <3>3. \E y \in Info(e.file).exports :
            y.as = e.name /\ y.from # Here /\ r = Imported(y.from, y.name)
      BY <1>2, <1>3, <2>0, <3>1, <3>2
    <3> QED
      BY <1>1, <3>2, <3>3, ReadsAcrossIs
  <2>4. CASE r.name # Default /\ r.file \in Range(Info(g).stars) /\ e = ExportFact(g, r.name)
    <3>1. e.kind = "export" /\ e.file = g /\ e.name = r.name
      BY <2>4, PartsOf
    <3>2. e.name # Default /\ \E h \in Range(Info(e.file).stars) : r = ExportFact(h, e.name)
      BY <1>2, <1>4, <2>4, <3>1
    <3> QED
      BY <1>1, <3>1, <3>2, ReadsAcrossIs
  <2> QED
    BY <2>1, <2>2, <2>3, <2>4
<1>5. CASE r.kind = "any"
  <2>0. Imported(r.file, Star) = r
    BY <1>2, <1>5, ImportedIs
  <2>1. PICK g \in call.supplied :
          \/ \E b \in Info(g).bindings :
                b.from = r.file /\ b.imported = Star /\ e = LocalFact(g, b.local)
          \/ \E x \in Info(g).exports :
                x.from = r.file /\ x.name = Star /\ e = ExportFact(g, x.as)
          \/ r.file \in Range(Info(g).bare) /\ e = AllFact(g)
    BY <1>5, AcrossIs
  <2>2. CASE \E b \in Info(g).bindings :
                b.from = r.file /\ b.imported = Star /\ e = LocalFact(g, b.local)
    <3>1. PICK b \in Info(g).bindings :
            b.from = r.file /\ b.imported = Star /\ e = LocalFact(g, b.local)
      BY <2>2
    <3>2. e.kind = "local" /\ e.file = g /\ e.name = b.local
      BY <3>1, PartsOf
    <3>3. \E y \in Info(e.file).bindings : y.local = e.name /\ r = Imported(y.from, y.imported)
      BY <2>0, <3>1, <3>2
    <3> QED
      BY <1>1, <3>2, <3>3, ReadsAcrossIs
  <2>3. CASE \E x \in Info(g).exports :
                x.from = r.file /\ x.name = Star /\ e = ExportFact(g, x.as)
    <3>1. PICK x \in Info(g).exports :
            x.from = r.file /\ x.name = Star /\ e = ExportFact(g, x.as)
      BY <2>3
    <3>2. e.kind = "export" /\ e.file = g /\ e.name = x.as
      BY <3>1, PartsOf
    <3>3. \E y \in Info(e.file).exports :
            y.as = e.name /\ y.from # Here /\ r = Imported(y.from, y.name)
      BY <1>2, <1>3, <2>0, <3>1, <3>2
    <3> QED
      BY <1>1, <3>2, <3>3, ReadsAcrossIs
  <2>4. CASE r.file \in Range(Info(g).bare) /\ e = AllFact(g)
    <3>1. e.kind = "all" /\ e.file = g
      BY <2>4, PartsOf
    <3>2. \E h \in Range(Info(e.file).bare) : r = AnyFact(h)
      BY <1>2, <1>5, <2>4, <3>1
    <3> QED
      BY <1>1, <3>1, <3>2, ReadsAcrossIs
  <2> QED
    BY <2>1, <2>2, <2>3, <2>4
<1>6. r.kind \in {"local", "all"} => Across(r) = {}
  BY AcrossIs
<1> QED
  BY <1>2, <1>4, <1>5, <1>6

\* ...and every reader in another module is told.
LEMMA ReadersAcrossAreTold ==
  ASSUME call \in Input, NEW e \in Facts, NEW r \in ReadsAcross(e)
  PROVE  e \in Across(r) /\ r \in Facts
<1>1. /\ e.file \in Files /\ e.kind \in {"local", "export", "all", "any"}
      /\ e.kind \in {"local", "export"} => e.name \in Names
      /\ e.kind = "local" => e = LocalFact(e.file, e.name)
      /\ e.kind = "export" => e = ExportFact(e.file, e.name)
      /\ e.kind = "all" => e = AllFact(e.file)
  BY FormOfFacts, PartsOf
<1>2. Info(e.file) \in Module
  BY InfoTyped
<1>3. Info(e.file) # EmptyModule => e.file \in call.supplied
  BY DEF Info
<1>4. /\ EmptyModule.bindings = {} /\ EmptyModule.exports = {}
      /\ Range(EmptyModule.stars) = {} /\ Range(EmptyModule.bare) = {}
  BY DEF EmptyModule, Range
<1>5. Star \notin Names
  BY GraphAssumption
<1>6. CASE e.kind = "local"
  <2>1. PICK b \in Info(e.file).bindings : b.local = e.name /\ r = Imported(b.from, b.imported)
    BY <1>6, ReadsAcrossIs
  <2>2. b.from \in Files /\ b.imported \in Names \cup {Star} /\ e.file \in call.supplied
    BY <1>2, <1>3, <1>4, <2>1, ImportFields
  <2>3. CASE b.imported \in Names
    <3>1. r = ExportFact(b.from, b.imported)
      BY <2>1, <2>2, <2>3, ImportedIs
    <3>2. r.kind = "export" /\ r.file = b.from /\ r.name = b.imported /\ r \in Facts
      BY <2>2, <2>3, <3>1, PartsOf, MakesFacts
    <3>3. \E y \in Info(e.file).bindings :
            y.from = r.file /\ y.imported = r.name /\ e = LocalFact(e.file, y.local)
      BY <1>1, <1>6, <2>1, <3>2
    <3> QED
      BY <2>2, <3>2, <3>3, AcrossIs
  <2>4. CASE b.imported = Star
    <3>1. r = AnyFact(b.from)
      BY <2>1, <2>2, <2>4, ImportedIs
    <3>2. r.kind = "any" /\ r.file = b.from /\ r \in Facts
      BY <2>2, <3>1, PartsOf, AllAndAny
    <3>3. \E y \in Info(e.file).bindings :
            y.from = r.file /\ y.imported = Star /\ e = LocalFact(e.file, y.local)
      BY <1>1, <1>6, <2>1, <2>4, <3>2
    <3> QED
      BY <2>2, <3>2, <3>3, AcrossIs
  <2> QED
    BY <2>2, <2>3, <2>4
<1>7. CASE e.kind = "export"
  <2>1. CASE \E x \in Info(e.file).exports :
                x.as = e.name /\ x.from # Here /\ r = Imported(x.from, x.name)
    <3>1. PICK x \in Info(e.file).exports :
            x.as = e.name /\ x.from # Here /\ r = Imported(x.from, x.name)
      BY <2>1
    <3>2. x.from \in Files /\ x.name \in Names \cup {Star} /\ e.file \in call.supplied
      BY <1>2, <1>3, <1>4, <3>1, ImportFields
    <3>3. CASE x.name \in Names
      <4>1. r = ExportFact(x.from, x.name)
        BY <3>1, <3>2, <3>3, ImportedIs
      <4>2. r.kind = "export" /\ r.file = x.from /\ r.name = x.name /\ r \in Facts
        BY <3>2, <3>3, <4>1, PartsOf, MakesFacts
      <4>3. \E y \in Info(e.file).exports :
              y.from = r.file /\ y.name = r.name /\ e = ExportFact(e.file, y.as)
        BY <1>1, <1>7, <3>1, <4>2
      <4> QED
        BY <3>2, <4>2, <4>3, AcrossIs
    <3>4. CASE x.name = Star
      <4>1. r = AnyFact(x.from)
        BY <3>1, <3>2, <3>4, ImportedIs
      <4>2. r.kind = "any" /\ r.file = x.from /\ r \in Facts
        BY <3>2, <4>1, PartsOf, AllAndAny
      <4>3. \E y \in Info(e.file).exports :
              y.from = r.file /\ y.name = Star /\ e = ExportFact(e.file, y.as)
        BY <1>1, <1>7, <3>1, <3>4, <4>2
      <4> QED
        BY <3>2, <4>2, <4>3, AcrossIs
    <3> QED
      BY <3>2, <3>3, <3>4
  <2>2. CASE e.name # Default /\ \E g \in Range(Info(e.file).stars) : r = ExportFact(g, e.name)
    <3>1. PICK g \in Range(Info(e.file).stars) : r = ExportFact(g, e.name)
      BY <2>2
    <3>2. g \in Files /\ e.file \in call.supplied
      BY <1>2, <1>3, <1>4, <3>1, ImportFields
    <3>3. r.kind = "export" /\ r.file = g /\ r.name = e.name /\ r \in Facts
      BY <1>1, <1>7, <3>1, <3>2, PartsOf, MakesFacts
    <3>4. r.name # Default /\ r.file \in Range(Info(e.file).stars) /\ e = ExportFact(e.file, r.name)
      BY <1>1, <1>7, <2>2, <3>1, <3>3
    <3> QED
      BY <3>2, <3>3, <3>4, AcrossIs
  <2> QED
    BY <1>7, <2>1, <2>2, ReadsAcrossIs
<1>8. CASE e.kind = "all"
  <2>1. PICK g \in Range(Info(e.file).bare) : r = AnyFact(g)
    BY <1>8, ReadsAcrossIs
  <2>2. g \in Files /\ e.file \in call.supplied
    BY <1>2, <1>3, <1>4, <2>1, ImportFields
  <2>3. r.kind = "any" /\ r.file = g /\ r \in Facts
    BY <2>1, <2>2, PartsOf, AllAndAny
  <2>4. r.file \in Range(Info(e.file).bare) /\ e = AllFact(e.file)
    BY <1>1, <1>8, <2>1, <2>3
  <2> QED
    BY <2>2, <2>3, <2>4, AcrossIs
<1>9. e.kind # "any"
  BY ReadsAcrossIs
<1> QED
  BY <1>1, <1>6, <1>7, <1>8, <1>9

--------------------------------------------------------------------------
(* What the diff makes of the changed modules.                             *)

CurrentPaths == {m.path : m \in {m \in ChangedModules : m.current}}

\* The call is what collect.ts made of the repository.
CallOK ==
    stage # "collect" =>
        /\ call.supplied = Readable
        /\ call.full = (world.fault # "none")
        /\ world.fault = "none" => call.changed = world.changed

\* The analysis takes every module of the diff for what it is and was.
Told ==
    /\ ChangedPaths \cap call.supplied = CurrentPaths
    /\ \A p \in ChangedPaths : BaseOf(p) = Was(p)
    /\ \A p \in ChangedPaths \ call.supplied : \E m \in ChangedModules : m.path = p /\ ~m.current

LEMMA ModulesAre ==
  ASSUME call \in Input, NEW m
  PROVE  m \in ChangedModules <=>
           \E c \in call.changed :
              \/ c.renamedFrom \in Files
                 /\ m = [path |-> c.renamedFrom, current |-> FALSE, base |-> c.renamedFrom]
              \/ c.path \in Files
                 /\ m = [path |-> c.path, current |-> c.kind # "deleted",
                         base |-> IF HasBase(c) THEN c.path ELSE None]
BY DEF ChangedModules, ModulesOf

LEMMA ModulesOfPath ==
  ASSUME call \in Input, NEW p
  PROVE  /\ p \in ChangedPaths <=> \E m \in ChangedModules : m.path = p
         /\ p \in CurrentPaths <=>
              p \in Files /\ \E c \in call.changed : c.path = p /\ c.kind # "deleted"
         /\ (\E m \in ChangedModules : m.path = p /\ ~m.current) <=> p \in Files /\ Gone(p)
         /\ (\E m \in ChangedModules : m.path = p /\ m.base # None) <=>
              p \in Files /\ \E c \in call.changed : c.renamedFrom = p \/ (c.path = p /\ HasBase(c))
<1>1. None \notin Files
  BY GraphAssumption
<1>2. p \in ChangedPaths <=> p \in Files /\ \E c \in call.changed : c.path = p \/ c.renamedFrom = p
  BY <1>1 DEF ChangedPaths, PathsOf
<1> DEFINE IsGhost(m, c) == m.path = c.renamedFrom /\ ~m.current /\ m.base = c.renamedFrom
           IsThere(m, c) == /\ m.path = c.path /\ (m.current <=> c.kind # "deleted")
                            /\ m.base = IF HasBase(c) THEN c.path ELSE None
<1>3. \A m \in ChangedModules : \E c \in call.changed :
         (c.renamedFrom \in Files /\ IsGhost(m, c)) \/ (c.path \in Files /\ IsThere(m, c))
  <2> TAKE m \in ChangedModules
  <2>1. PICK c \in call.changed :
          \/ c.renamedFrom \in Files
             /\ m = [path |-> c.renamedFrom, current |-> FALSE, base |-> c.renamedFrom]
          \/ c.path \in Files
             /\ m = [path |-> c.path, current |-> c.kind # "deleted",
                     base |-> IF HasBase(c) THEN c.path ELSE None]
    BY ModulesAre
  <2>2. CASE c.renamedFrom \in Files
             /\ m = [path |-> c.renamedFrom, current |-> FALSE, base |-> c.renamedFrom]
    BY ONLY <2>2
  <2>3. CASE c.path \in Files
             /\ m = [path |-> c.path, current |-> c.kind # "deleted",
                     base |-> IF HasBase(c) THEN c.path ELSE None]
    <3>1. /\ m.path = c.path /\ m.base = IF HasBase(c) THEN c.path ELSE None
          /\ m.current = (c.kind # "deleted")
      BY ONLY <2>3
    <3> QED
      BY <2>3, <3>1
  <2> QED
    BY <2>1, <2>2, <2>3
<1>4. \A c \in call.changed :
         /\ c.renamedFrom \in Files => \E m \in ChangedModules : IsGhost(m, c)
         /\ c.path \in Files => \E m \in ChangedModules : IsThere(m, c)
  <2> TAKE c \in call.changed
  <2>1. c.renamedFrom \in Files =>
          [path |-> c.renamedFrom, current |-> FALSE, base |-> c.renamedFrom] \in ChangedModules
    BY ModulesAre
  <2>2. c.path \in Files =>
          [path |-> c.path, current |-> c.kind # "deleted",
           base |-> IF HasBase(c) THEN c.path ELSE None] \in ChangedModules
    BY ModulesAre
  <2> QED
    BY <2>1, <2>2
<1>5. p \in ChangedPaths <=> \E m \in ChangedModules : m.path = p
  BY <1>1, <1>2, <1>3, <1>4
<1>6. p \in CurrentPaths <=> p \in Files /\ \E c \in call.changed : c.path = p /\ c.kind # "deleted"
  <2>1. p \in CurrentPaths <=> \E m \in ChangedModules : m.current /\ m.path = p
    BY DEF CurrentPaths
  <2> QED
    BY <2>1, <1>3, <1>4
<1>7. (\E m \in ChangedModules : m.path = p /\ ~m.current) <=> p \in Files /\ Gone(p)
  BY <1>3, <1>4 DEF Gone
<1>8. (\E m \in ChangedModules : m.path = p /\ m.base # None) <=>
        p \in Files /\ \E c \in call.changed : c.renamedFrom = p \/ (c.path = p /\ HasBase(c))
  BY <1>1, <1>3, <1>4
<1> QED
  BY <1>5, <1>6, <1>7, <1>8

LEMMA ToldByGit ==
  ASSUME call \in Input, CallOK, stage # "collect", ~NeedsFull(call)
  PROVE  Told
<1>1. /\ world \in Repos /\ GitTells(world)
      /\ call.supplied = world.listed \ world.unreadable /\ call.changed = world.changed
  <2>1. call.repo \in Repos
    BY CallTyped
  <2>2. world.fault = "none"
    BY DEF CallOK, NeedsFull
  <2> QED
    BY <2>1, <2>2, GitAssumption DEF CallOK, Readable, world
<1>2. \A c \in call.changed : c.path \in Files /\ c.kind # "deleted" => c.path \in call.supplied
  BY DEF NeedsFull, Placed, PlacesCurrent
<1>3. ASSUME NEW p \in ChangedPaths
      PROVE  /\ p \in Files /\ \E c \in call.changed : c.path = p \/ c.renamedFrom = p
             /\ p \in call.supplied => \E d \in call.changed : d.path = p /\ d.kind # "deleted"
             /\ world.base[p] # EmptyModule =>
                  \E d \in call.changed : d.renamedFrom = p \/ (d.path = p /\ HasBase(d))
  <2>1. PICK c \in call.changed : p \in Files \cap PathsOf(c)
    BY <1>3 DEF ChangedPaths
  <2>2. /\ p \in call.supplied => \E d \in call.changed : d.path = p /\ d.kind # "deleted"
        /\ world.base[p] # EmptyModule =>
             \E d \in call.changed : d.renamedFrom = p \/ (d.path = p /\ HasBase(d))
    BY <1>1, <2>1 DEF GitTells
  <2>3. p \in Files /\ (c.path = p \/ c.renamedFrom = p)
    BY <2>1 DEF PathsOf
  <2> QED
    BY <2>2, <2>3
<1>4. ChangedPaths \cap call.supplied = CurrentPaths
  <2>1. ASSUME NEW p \in ChangedPaths \cap call.supplied PROVE p \in CurrentPaths
    BY <1>3, <2>1, ModulesOfPath
  <2>2. ASSUME NEW p \in CurrentPaths PROVE p \in ChangedPaths \cap call.supplied
    <3>1. p \in Files /\ \E c \in call.changed : c.path = p /\ c.kind # "deleted"
      BY <2>2, ModulesOfPath
    <3>2. p \in call.supplied
      BY <1>2, <3>1
    <3>3. p \in ChangedPaths
      BY <3>1 DEF ChangedPaths, PathsOf
    <3> QED
      BY <3>2, <3>3
  <2> QED
    BY <2>1, <2>2
<1>5. ASSUME NEW p \in ChangedPaths PROVE BaseOf(p) = Was(p)
  <2>1. Was(p) = world.base[p]
    BY DEF Was, world
  <2>2. CASE \E m \in ChangedModules : m.path = p /\ m.base # None
    BY <2>1, <2>2 DEF BaseOf, world
  <2>3. CASE ~\E m \in ChangedModules : m.path = p /\ m.base # None
    <3>1. world.base[p] = EmptyModule
      BY <1>3, <2>3, ModulesOfPath
    <3>2. BaseOf(p) = EmptyModule
      BY <2>3 DEF BaseOf
    <3> QED
      BY <2>1, <3>1, <3>2
  <2> QED
    BY <2>2, <2>3
<1>6. ASSUME NEW p \in ChangedPaths \ call.supplied
      PROVE  \E m \in ChangedModules : m.path = p /\ ~m.current
  <2>1. p \in Files /\ \E c \in call.changed : c.path = p \/ c.renamedFrom = p
    BY <1>3
  <2>2. Gone(p)
    BY <1>2, <1>6, <2>1 DEF Gone
  <2> QED
    BY <2>1, <2>2, ModulesOfPath
<1> QED
  BY <1>4, <1>5, <1>6 DEF Told

LEMMA SeedsTouch ==
  ASSUME call \in Input, Told, NEW m \in ChangedModules
  PROVE  m.path \in ChangedPaths /\ SeedFacts(m) = Touched(m.path, Was(m.path), Current(m))
<1>1. m.path \in ChangedPaths
  BY ModulesOfPath
<1>2. BaseOf(m.path) = Was(m.path)
  BY <1>1 DEF Told
<1>3. \A a, b : Differing(a, b) = (a \cup b) \ (a \cap b)
  BY DEF Differing
<1>4. \A a, b : LoadsDiffer(a, b) <=> <<Texts(a.effects), a.bare, a.stars>>
                                        # <<Texts(b.effects), b.bare, b.stars>>
  BY DEF LoadsDiffer
<1> DEFINE was == Was(m.path)
           is == Current(m)
           p == m.path
<1>5. SeedFacts(m) =
        {LocalFact(p, d.name) : d \in Differing(was.decls, is.decls)}
        \cup {ExportFact(p, x.as) : x \in Differing(was.exports, is.exports)}
        \cup {AllFact(f) : f \in IF LoadsDiffer(was, is) THEN {p} ELSE {}}
  BY <1>2 DEF SeedFacts
<1> HIDE DEF was, is, p
<1>6. Touched(p, was, is) =
        {LocalFact(p, d.name) : d \in (was.decls \cup is.decls) \ (was.decls \cap is.decls)}
        \cup {ExportFact(p, x.as) : x \in (was.exports \cup is.exports) \ (was.exports \cap is.exports)}
        \cup {AllFact(f) : f \in IF <<Texts(was.effects), was.bare, was.stars>>
                                     = <<Texts(is.effects), is.bare, is.stars>> THEN {} ELSE {p}}
  BY DEF Touched
<1>7. (IF LoadsDiffer(was, is) THEN {p} ELSE {}) =
        IF <<Texts(was.effects), was.bare, was.stars>> = <<Texts(is.effects), is.bare, is.stars>>
        THEN {} ELSE {p}
  BY <1>4
<1>8. SeedFacts(m) = Touched(p, was, is)
  BY <1>3, <1>5, <1>6, <1>7
<1> QED
  BY <1>1, <1>8 DEF was, is, p

\* The seeds are the facts that the change makes.
LEMMA SeedsAreTheChange ==
  ASSUME call \in Input, Told
  PROVE  /\ \A m \in ChangedModules : SeedFacts(m) \subseteq ChangedFacts
         /\ \A e \in ChangedFacts : \E m \in ChangedModules : e \in SeedFacts(m)
         /\ ChangedFacts \in SUBSET Facts
<1>1. ASSUME NEW m \in ChangedModules PROVE SeedFacts(m) \subseteq ChangedFacts
  <2>1. m.path \in ChangedPaths /\ SeedFacts(m) = Touched(m.path, Was(m.path), Current(m))
    BY SeedsTouch
  <2>2. Current(m) \in After(m.path)
    <3>1. ~m.current => Gone(m.path)
      BY ModulesOfPath
    <3> QED
      BY <3>1 DEF Current, After
  <2> QED
    BY <2>1, <2>2 DEF ChangedFacts
<1>2. ASSUME NEW e \in ChangedFacts PROVE \E m \in ChangedModules : e \in SeedFacts(m)
  <2>1. PICK p \in ChangedPaths : \E is \in After(p) : e \in Touched(p, Was(p), is)
    BY DEF ChangedFacts
  <2>2. PICK is \in After(p) : e \in Touched(p, Was(p), is)
    BY <2>1
  <2>3. \E m \in ChangedModules : m.path = p /\ Current(m) = is
    <3>0. p \in Files
      BY DEF ChangedPaths
    <3>1. CASE is = Info(p) /\ p \in call.supplied
      <4>1. p \in CurrentPaths
        BY <3>1 DEF Told
      <4> QED
        BY <3>1, <4>1 DEF CurrentPaths, Current
    <3>2. CASE is = EmptyModule /\ \E m \in ChangedModules : m.path = p /\ ~m.current
      BY <3>2 DEF Current
    <3>3. CASE is = Info(p) /\ p \notin call.supplied
      <4>1. is = EmptyModule
        BY <3>3 DEF Info
      <4> QED
        BY <3>2, <3>3, <4>1 DEF Told
    <3>4. CASE is = EmptyModule /\ Gone(p)
      BY <3>0, <3>2, <3>4, ModulesOfPath
    <3> QED
      BY <2>2, <3>1, <3>3, <3>4 DEF After
  <2>4. PICK m \in ChangedModules : m.path = p /\ Current(m) = is
    BY <2>3
  <2>5. SeedFacts(m) = Touched(p, Was(p), is)
    BY <2>4, SeedsTouch
  <2> QED
    BY <2>2, <2>5
<1>3. ASSUME NEW e \in ChangedFacts PROVE e \in Facts
  <2>1. PICK m \in ChangedModules : e \in SeedFacts(m)
    BY <1>2
  <2>2. m.path \in Files
    BY ModulesTyped
  <2>3. BaseOf(m.path) \in Module /\ Current(m) \in Module
    BY <2>2, CallTyped, InfoTyped, EmptyTyped DEF BaseOf, Current
  <2>4. \/ \E d \in BaseOf(m.path).decls \cup Current(m).decls : e = LocalFact(m.path, d.name)
        \/ \E x \in BaseOf(m.path).exports \cup Current(m).exports : e = ExportFact(m.path, x.as)
        \/ e = AllFact(m.path)
    BY <2>1 DEF SeedFacts, Differing
  <2>5. e = AllFact(m.path) \/ \E n \in Names : e = LocalFact(m.path, n) \/ e = ExportFact(m.path, n)
    BY <2>3, <2>4, Fields
  <2>6. CASE e = AllFact(m.path)
    <3>1. AllFact(m.path) \in Facts
      BY <2>2, AllAndAny
    <3> QED
      BY <2>6, <3>1
  <2>7. ASSUME NEW n \in Names, e = LocalFact(m.path, n) \/ e = ExportFact(m.path, n)
        PROVE  e \in Facts
    <3>1. {LocalFact(m.path, n), ExportFact(m.path, n)} \subseteq Facts
      BY <2>2, MakesFacts
    <3> QED
      BY <2>7, <3>1
  <2> QED
    BY <2>5, <2>6, <2>7
<1> QED
  BY <1>1, <1>2, <1>3

--------------------------------------------------------------------------
(* What a narrow analysis keeps: nearest to the change is what it alters.  *)

\* What the change alters without leaving a module.
Altered == Least(ChangedFacts, Pairs(ReadsWithin))

\* Why a module may count as changed in every export.
ChangesAll(e) ==
    \/ e \in ChangedFacts
    \/ Info(e.file).effects # <<>> \/ Info(e.file).bare # <<>>
    \/ e.file \in OpaqueSources

LEMMA SameReads ==
  ASSUME call' = call
  PROVE  /\ Altered' = Altered /\ DirectReaders' = DirectReaders /\ \A e : ChangesAll(e)' <=> ChangesAll(e)
         /\ (Told' <=> Told) /\ ChangedPaths' = ChangedPaths /\ CurrentPaths' = CurrentPaths
<1>1. \A f : Info(f)' = Info(f)
  BY DEF Info
<1>2. ChangedPaths' = ChangedPaths /\ ChangedModules' = ChangedModules
  BY SameGraph DEF ChangedPaths
<1>3. \A p : Was(p)' = Was(p) /\ BaseOf(p)' = BaseOf(p)
  BY <1>2 DEF Was, BaseOf
<1>4. \A f, n : MayExport(f, n)' = MayExport(f, n)
  BY <1>1, <1>3 DEF MayExport, PassesOn
<1>5. \A e : ReadsWithin(e)' = ReadsWithin(e) /\ ReadsAcross(e)' = ReadsAcross(e)
  BY <1>1, <1>4 DEF ReadsWithin, ReadsAcross
<1>6. Pairs(ReadsWithin)' = Pairs(ReadsWithin) /\ Pairs(ReadsAcross)' = Pairs(ReadsAcross)
  BY <1>5 DEF Pairs
<1>7. \A p : After(p)' = After(p)
  BY <1>1 DEF After, Gone
<1>8. ChangedFacts' = ChangedFacts
  BY <1>2, <1>3, <1>7 DEF ChangedFacts
<1>9. Altered' = Altered
  BY <1>6, <1>8 DEF Altered
<1>10. DirectReaders' = DirectReaders
  BY <1>6, <1>8 DEF DirectReaders
<1>11. CurrentPaths' = CurrentPaths
  BY <1>2 DEF CurrentPaths
<1>12. Told' <=> Told
  BY <1>2, <1>3, <1>11 DEF Told
<1>13. \A e : ChangesAll(e)' <=> ChangesAll(e)
  BY <1>1, <1>8, SameGraph DEF ChangesAll
<1> QED
  BY <1>2, <1>9, <1>10, <1>11, <1>12, <1>13

LEMMA PairsAre ==
  /\ \A p \in Pairs(ReadsWithin) : p[1] \in Facts /\ p[2] \in ReadsWithin(p[1]) /\ p = <<p[1], p[2]>>
  /\ \A p \in Pairs(ReadsAcross) : p[1] \in Facts /\ p[2] \in ReadsAcross(p[1]) /\ p = <<p[1], p[2]>>
  /\ \A e \in Facts : \A r \in ReadsWithin(e) : <<e, r>> \in Pairs(ReadsWithin)
  /\ \A e \in Facts : \A r \in ReadsAcross(e) : <<e, r>> \in Pairs(ReadsAcross)
BY DEF Pairs

LEMMA AlteredFacts ==
  ASSUME call \in Input, Told
  PROVE  /\ ChangedFacts \subseteq Altered /\ Altered \in SUBSET Facts
         /\ \A r \in Altered : Within(r) \subseteq Altered
         /\ \A r \in Altered : \A g \in Across(r) : g.file \in DirectReaders
         /\ \A f \in DirectReaders : \E r \in Altered : \E g \in Across(r) : g.file = f
         /\ \A c : ChangedFacts \subseteq c /\ ClosedUnder(c, Pairs(ReadsWithin)) => Altered \subseteq c
<1>1. ChangedFacts \in SUBSET Facts
  BY SeedsAreTheChange
<1>2. \A p \in Pairs(ReadsWithin) : p[1] \in Facts
  BY PairsAre
<1>3. /\ ChangedFacts \subseteq Altered /\ Altered \in SUBSET Facts
      /\ ClosedUnder(Altered, Pairs(ReadsWithin))
      /\ \A c : ChangedFacts \subseteq c /\ ClosedUnder(c, Pairs(ReadsWithin)) => Altered \subseteq c
  BY <1>1, <1>2, LeastFacts DEF Altered
<1>4. Readers(ChangedFacts, Pairs(ReadsWithin)) = Altered
  BY <1>1, <1>2, ReadersAre DEF Altered
<1>5. ASSUME NEW r \in Altered, NEW g \in Within(r) PROVE g \in Altered
  <2>1. g \in Facts /\ r \in ReadsWithin(g)
    BY <1>3, WithinReads
  <2>2. <<g, r>> \in Pairs(ReadsWithin)
    BY <2>1, PairsAre
  <2>3. <<g, r>>[1] = g /\ <<g, r>>[2] = r
    OBVIOUS
  <2> QED
    BY <1>3, <2>2, <2>3 DEF ClosedUnder
<1>6. DirectReaders = {p[1].file : p \in {p \in Pairs(ReadsAcross) : p[2] \in Altered}}
  BY <1>4 DEF DirectReaders
<1>7. ASSUME NEW r \in Altered, NEW g \in Across(r) PROVE g.file \in DirectReaders
  <2>1. g \in Facts /\ r \in ReadsAcross(g)
    BY <1>3, AcrossReads
  <2>2. <<g, r>> \in Pairs(ReadsAcross)
    BY <2>1, PairsAre
  <2>3. <<g, r>>[1] = g /\ <<g, r>>[2] = r
    OBVIOUS
  <2> QED
    BY <1>6, <2>2, <2>3
<1>8. ASSUME NEW f \in DirectReaders PROVE \E r \in Altered : \E g \in Across(r) : g.file = f
  <2>1. PICK p \in Pairs(ReadsAcross) : p[2] \in Altered /\ p[1].file = f
    BY <1>6
  <2>2. p[1] \in Facts /\ p[2] \in ReadsAcross(p[1])
    BY PairsAre
  <2>3. p[1] \in Across(p[2])
    BY <2>2, ReadersAcrossAreTold
  <2> QED
    BY <2>1, <2>3
<1> QED
  BY <1>3, <1>5, <1>7, <1>8

\* A statement of the module, or a bare import, tells that it changed.
LEMMA AllsAreTold ==
  ASSUME call \in Input, NEW r \in Facts, NEW e \in Within(r) \cup Across(r), e.kind = "all"
  PROVE  ChangesAll(e)
<1>1. r.kind \in {"local", "export", "all", "any"}
  BY FormOfFacts
<1>2. CASE r.kind = "local"
  <2>1. e \in OnLocal(r.file, r.name)
    BY <1>2, WithinIs
  <2>2. e = AllFact(r.file) /\ \E i \in DOMAIN Info(r.file).effects : TRUE
    BY <2>1, OnLocalIs, PartsOf
  <2>3. e.file = r.file /\ Info(r.file).effects # <<>>
    BY <2>2, PartsOf
  <2> QED
    BY <2>3 DEF ChangesAll
<1>3. CASE r.kind = "export"
  <2>1. e \in Across(r)
    BY <1>3, WithinIs, PartsOf
  <2> QED
    BY <1>3, <2>1, AcrossIs, PartsOf
<1>4. CASE r.kind = "all"
  BY <1>4, WithinIs, PartsOf
<1>5. CASE r.kind = "any"
  <2>1. e \in Across(r)
    BY <1>5, WithinIs
  <2>2. PICK g \in call.supplied : r.file \in Range(Info(g).bare) /\ e = AllFact(g)
    BY <1>5, <2>1, AcrossIs, PartsOf
  <2>3. e.file = g /\ Info(g).bare # <<>>
    BY <2>2, PartsOf DEF Range
  <2> QED
    BY <2>3 DEF ChangesAll
<1> QED
  BY <1>1, <1>2, <1>3, <1>4, <1>5

NarrowOK ==
    /\ Told
    /\ DOMAIN known \subseteq Facts
    /\ \A e \in DOMAIN known :
          /\ known[e].hops = 0 => e \in Altered
          /\ e.kind = "all" => ChangesAll(e)
          /\ e.file \in DOMAIN reached \cup ChangedPaths \cup OpaqueSources
    /\ CurrentPaths \subseteq DOMAIN reached
    /\ \A f \in DOMAIN reached :
          /\ reached[f].hops = 0 => f \in CurrentPaths
          /\ reached[f].hops = 1 => f \in DirectReaders

LEMMA SeedNarrows ==
  ASSUME GraphTypes, known = <<>>, Seed, call' = call, Told
  PROVE  NarrowOK'
<1>1. call \in Input /\ DOMAIN known = {} /\ <<>> \in Seq(Batches)
      /\ known \in [DOMAIN known -> Entries] /\ DOMAIN known \subseteq Event
  BY DEF GraphTypes
<1>2. Emit(SeedOffers, <<>>)
      /\ reached' = [p \in CurrentPaths |-> [hops |-> 0, cause |-> ChangedOrigin(p)]]
  BY DEF Seed, SeedOffers, CurrentPaths
<1>3. DOMAIN known' = {o.event : o \in SeedOffers}
  BY <1>1, <1>2, SeedOfferFacts, EmitFacts
<1>4. ASSUME NEW e \in DOMAIN known'
      PROVE  e \in Facts /\ e \in Altered /\ ChangesAll(e) /\ e.file \in ChangedPaths
  <2>1. PICK o \in SeedOffers : e = o.event
    BY <1>3
  <2>2. PICK m \in ChangedModules : o \in Offers(SeedFacts(m), 0, ChangedOrigin(m.path))
    BY DEF SeedOffers
  <2>3. e \in SeedFacts(m)
    BY <2>1, <2>2 DEF Offers
  <2>4. e \in ChangedFacts /\ e.file = m.path /\ m.path \in ChangedPaths
    BY <1>1, <2>3, SeedsAreTheChange, SeedsTyped, SeedsTouch
  <2> QED
    BY <1>1, <2>4, AlteredFacts DEF ChangesAll
<1>5. DOMAIN reached' = CurrentPaths /\ \A f \in DOMAIN reached' : reached'[f].hops = 0
  BY <1>2
<1>6. /\ Altered' = Altered /\ DirectReaders' = DirectReaders /\ \A e : ChangesAll(e)' <=> ChangesAll(e)
      /\ (Told' <=> Told) /\ ChangedPaths' = ChangedPaths /\ CurrentPaths' = CurrentPaths
  BY SameReads
<1> QED
  BY <1>4, <1>5, <1>6 DEF NarrowOK

LEMMA WidenNarrows ==
  ASSUME GraphTypes, NarrowOK, Widen, call' = call, reached' = reached
  PROVE  NarrowOK'
<1> DEFINE offers == UNION {Offers({AllFact(f)}, 1, OpaqueOrigin(f)) : f \in OpaqueSources}
<1>1. /\ call \in Input /\ known \in [DOMAIN known -> Entries] /\ DOMAIN known \subseteq Event
      /\ <<>> \in Seq(Batches)
  BY DEF GraphTypes
<1>2. Emit(offers, <<>>)
  BY DEF Widen
<1>3. \A f \in OpaqueSources : f \in Files /\ OpaqueOrigin(f) \in Origin /\ AllFact(f) \in Event
                               /\ AllFact(f) \in Facts /\ AllFact(f).file = f
  <2> TAKE f \in OpaqueSources
  <2>1. f \in Files
    BY <1>1, CallTyped DEF OpaqueSources, OpaqueFiles
  <2>2. AllFact(f) \in Event /\ AllFact(f) \in Facts
    BY <2>1, FactsTyped, AllAndAny
  <2> QED
    BY <2>1, <2>2, OriginsTyped, PartsOf
<1>4. ASSUME NEW o \in offers
      PROVE  /\ o.hops = 1 /\ o \in Offered
             /\ \E f \in OpaqueSources : o = [event |-> AllFact(f), hops |-> 1, cause |-> OpaqueOrigin(f)]
                                         /\ o.event = AllFact(f)
  <2>1. PICK f \in OpaqueSources : o \in Offers({AllFact(f)}, 1, OpaqueOrigin(f))
    OBVIOUS
  <2>2. o = [event |-> AllFact(f), hops |-> 1, cause |-> OpaqueOrigin(f)]
    BY <2>1 DEF Offers
  <2>3. AllFact(f) \in Event /\ OpaqueOrigin(f) \in Origin
    BY <1>3
  <2>4. o.event = AllFact(f) /\ o.hops = 1
    BY ONLY <2>2
  <2>5. o \in Offered
    BY ONLY <2>2, <2>3 DEF Offered
  <2> QED
    BY <2>2, <2>4, <2>5
<1> HIDE DEF offers
<1>5. \A o, p \in offers : o.event = p.event => o = p
  <2> TAKE o, p \in offers
  <2> HAVE o.event = p.event
  <2>1. PICK f \in OpaqueSources : o = [event |-> AllFact(f), hops |-> 1, cause |-> OpaqueOrigin(f)]
                                   /\ o.event = AllFact(f)
    BY <1>4
  <2>2. PICK g \in OpaqueSources : p = [event |-> AllFact(g), hops |-> 1, cause |-> OpaqueOrigin(g)]
                                   /\ p.event = AllFact(g)
    BY <1>4
  <2>3. f = g
    BY <1>3, <2>1, <2>2
  <2> QED
    BY <2>1, <2>2, <2>3
<1>6. offers \in SUBSET Offered
  BY <1>4
<1>7. /\ DOMAIN known' = DOMAIN known \cup {o.event : o \in offers}
      /\ \A o \in offers : Fresh(o) => known'[o.event] = [hops |-> o.hops, cause |-> o.cause]
      /\ \A e \in DOMAIN known : (\A o \in offers : Fresh(o) => o.event # e) => known'[e] = known[e]
  BY <1>1, <1>2, <1>5, <1>6, EmitFacts
<1>8. ASSUME NEW e \in DOMAIN known'
      PROVE  \/ e \in DOMAIN known /\ known'[e] = known[e]
             \/ known'[e].hops = 1 /\ \E f \in OpaqueSources : e = AllFact(f)
  <2>1. CASE \E o \in offers : Fresh(o) /\ o.event = e
    <3>1. PICK o \in offers : Fresh(o) /\ o.event = e
      BY <2>1
    <3>2. known'[e] = [hops |-> o.hops, cause |-> o.cause]
      BY <1>7, <3>1
    <3>3. known'[e].hops = o.hops
      BY ONLY <3>2
    <3> QED
      BY <1>4, <3>1, <3>3
  <2>2. CASE \A o \in offers : Fresh(o) => o.event # e
    <3>1. e \in DOMAIN known
      BY <1>7, <2>2 DEF Fresh
    <3> QED
      BY <1>7, <2>2, <3>1
  <2> QED
    BY <2>1, <2>2
<1>9. ASSUME NEW e \in DOMAIN known'
      PROVE  /\ e \in Facts /\ (known'[e].hops = 0 => e \in Altered) /\ (e.kind = "all" => ChangesAll(e))
             /\ e.file \in DOMAIN reached \cup ChangedPaths \cup OpaqueSources
  BY <1>3, <1>8 DEF NarrowOK, ChangesAll
<1>10. /\ Altered' = Altered /\ DirectReaders' = DirectReaders /\ OpaqueSources' = OpaqueSources
       /\ (Told' <=> Told) /\ ChangedPaths' = ChangedPaths /\ CurrentPaths' = CurrentPaths
       /\ \A e : ChangesAll(e)' <=> ChangesAll(e)
  BY SameReads, SameGraph
<1> QED
  BY <1>9, <1>10 DEF NarrowOK

LEMMA SpreadNarrows ==
  ASSUME GraphTypes, SpreadOK, NarrowOK, work # <<>>, Spread, call' = call
  PROVE  NarrowOK'
<1>1. /\ call \in Input /\ known \in [DOMAIN known -> Entries] /\ DOMAIN known \subseteq Event
      /\ reached \in [DOMAIN reached -> Entries] /\ work \in Seq(Batches) /\ WorkOK
  BY DEF GraphTypes, SpreadOK
<1>2. PICK item \in Oldest :
        /\ Emit(Offers(Within(item.event), item.hops, item.event)
                \cup Offers(Across(item.event), item.hops + 1, item.event), Rest(item))
        /\ Affect({g.file : g \in Across(item.event)}, item.hops + 1, item.event)
  BY DEF Spread
<1>3. item \in Head(work)
  <2>1. Head(work) \in Batches
    BY <1>1
  <2>2. Head(work) # {}
    BY <2>1 DEF Batches
  <2> QED
    BY <1>2, <2>2 DEF Oldest
<1>4. Rest(item) \in Seq(Batches) /\ item \in Items /\ Queued(work, item)
  BY <1>1, <1>3, RestQueues
<1> DEFINE r == item.event
           n == item.hops
           offers == SpreadOffers(item)
           rest == Rest(item)
           files == {g.file : g \in Across(r)}
           nearer(f) == f \in files /\ (f \in DOMAIN reached => n + 1 < reached[f].hops)
<1>5. Emit(offers, rest) /\ rest \in Seq(Batches)
  BY <1>2, <1>4 DEF SpreadOffers
<1>6. n \in Nat /\ r \in DOMAIN known /\ r \in Facts /\ known[r].hops \in Nat /\ known[r].hops <= n
  <2>1. n \in Nat
    BY <1>4 DEF Items
  <2>2. r \in DOMAIN known /\ known[r].hops <= n
    BY <1>1, <1>4 DEF WorkOK
  <2> QED
    BY <1>1, <2>1, <2>2 DEF Entries, NarrowOK
<1>7. n = 0 => r \in Altered
  <2>1. n = 0 => known[r].hops = 0
    BY <1>6
  <2> QED
    BY <1>6, <2>1 DEF NarrowOK
<1>8. /\ offers \in SUBSET Offered
      /\ \A o \in offers : \/ o.event \in Within(r) /\ o.hops = n
                           \/ o.event \in Across(r) /\ o.hops = n + 1
      /\ \A o, p \in offers : o.event = p.event => o = p
  BY <1>1, <1>4, SpreadOfferFacts
<1>9. reached' = [f \in DOMAIN reached \cup files |->
                    IF nearer(f) THEN [hops |-> n + 1, cause |-> r] ELSE reached[f]]
  BY <1>2 DEF Affect
<1> HIDE DEF r, n, offers, rest, files
<1>10. /\ DOMAIN known' = DOMAIN known \cup {o.event : o \in offers}
       /\ \A o \in offers : Fresh(o) => known'[o.event] = [hops |-> o.hops, cause |-> o.cause]
       /\ \A e \in DOMAIN known : (\A o \in offers : Fresh(o) => o.event # e) => known'[e] = known[e]
  BY ONLY <1>1, <1>5, <1>8, EmitFacts
<1>11. ASSUME NEW e \in DOMAIN known'
       PROVE  \/ e \in DOMAIN known /\ known'[e] = known[e]
              \/ e \in Within(r) /\ known'[e].hops = n
              \/ e \in Across(r) /\ known'[e].hops = n + 1
  <2>1. CASE \E o \in offers : Fresh(o) /\ o.event = e
    <3>1. PICK o \in offers : Fresh(o) /\ o.event = e
      BY <2>1
    <3>2. known'[e] = [hops |-> o.hops, cause |-> o.cause]
      BY <1>10, <3>1
    <3>3. known'[e].hops = o.hops
      BY ONLY <3>2
    <3> QED
      BY <1>8, <3>1, <3>3
  <2>2. CASE \A o \in offers : Fresh(o) => o.event # e
    <3>1. e \in DOMAIN known
      BY <1>10, <2>2 DEF Fresh
    <3> QED
      BY <1>10, <2>2, <3>1
  <2> QED
    BY <2>1, <2>2
<1>12. DOMAIN reached' = DOMAIN reached \cup files
  BY <1>9
<1>13. ASSUME NEW e \in DOMAIN known'
       PROVE  /\ e \in Facts /\ (known'[e].hops = 0 => e \in Altered) /\ (e.kind = "all" => ChangesAll(e))
              /\ e.file \in DOMAIN reached' \cup ChangedPaths \cup OpaqueSources
  <2>0. e \in Within(r) \cup Across(r) /\ e.kind = "all" => ChangesAll(e)
    BY <1>1, <1>6, AllsAreTold
  <2>1. CASE e \in DOMAIN known /\ known'[e] = known[e]
    BY <1>12, <2>1 DEF NarrowOK
  <2>2. CASE e \in Within(r) /\ known'[e].hops = n
    <3>1. e \in Facts /\ e.file = r.file
      BY <1>1, <1>6, <2>2, WithinFacts
    <3>2. n = 0 => e \in Altered
      BY <1>1, <1>7, <2>2, AlteredFacts DEF NarrowOK
    <3>3. r.file \in DOMAIN reached \cup ChangedPaths \cup OpaqueSources
      BY <1>6 DEF NarrowOK
    <3> QED
      BY <1>12, <2>0, <2>2, <3>1, <3>2, <3>3
  <2>3. CASE e \in Across(r) /\ known'[e].hops = n + 1
    <3>1. e \in Facts
      BY <1>1, <1>6, <2>3, AcrossFacts
    <3>2. e.file \in files
      BY <2>3 DEF files
    <3>3. n + 1 # 0
      BY <1>6
    <3> QED
      BY <1>12, <2>0, <2>3, <3>1, <3>2, <3>3
  <2> QED
    BY <1>11, <2>1, <2>2, <2>3
<1>14. ASSUME NEW f \in DOMAIN reached'
       PROVE  /\ reached'[f].hops = 0 => f \in CurrentPaths
              /\ reached'[f].hops = 1 => f \in DirectReaders
  <2>1. CASE nearer(f)
    <3>1. reached'[f] = [hops |-> n + 1, cause |-> r]
      BY <1>9, <1>12, <2>1
    <3>2. reached'[f].hops = n + 1
      BY ONLY <3>1
    <3>3. PICK g \in Across(r) : f = g.file
      BY <2>1 DEF files
    <3>4. n = 0 => f \in DirectReaders
      BY <1>1, <1>7, <3>3, AlteredFacts DEF NarrowOK
    <3>5. n + 1 # 0 /\ (n + 1 = 1 => n = 0)
      BY <1>6
    <3> QED
      BY <3>2, <3>4, <3>5
  <2>2. CASE ~nearer(f)
    <3> HIDE DEF nearer
    <3>1. reached'[f] = reached[f]
      BY <1>9, <1>12, <2>2
    <3>2. f \in DOMAIN reached
      BY <1>12, <2>2 DEF nearer
    <3> QED
      BY <3>1, <3>2 DEF NarrowOK
  <2> QED
    BY <2>1, <2>2
<1>15. /\ Altered' = Altered /\ DirectReaders' = DirectReaders /\ OpaqueSources' = OpaqueSources
       /\ (Told' <=> Told) /\ ChangedPaths' = ChangedPaths /\ CurrentPaths' = CurrentPaths
       /\ \A e : ChangesAll(e)' <=> ChangesAll(e)
  BY SameReads, SameGraph
<1>16. CurrentPaths \subseteq DOMAIN reached'
  BY <1>12 DEF NarrowOK
<1> HIDE DEF nearer
<1> QED
  BY <1>13, <1>14, <1>15, <1>16 DEF NarrowOK

\* A narrow analysis is at work, or has come to its result.
Narrowing == pass \in {"seeded", "widened"} \/ result.scope = "affected"

NarrowInv == CallOK /\ IF Narrowing THEN NarrowOK ELSE known = <<>>

LEMMA NarrowInit == Init => NarrowInv
BY DEF Init, GraphInit, NoResult, NarrowInv, CallOK, Narrowing

LEMMA NarrowStays ==
  ASSUME NarrowInv, UNCHANGED graphVars, stage = stage' \/ stage # "collect"
  PROVE  NarrowInv'
<1>1. call' = call /\ known' = known /\ reached' = reached /\ pass' = pass /\ result' = result
  BY DEF graphVars
<1>2. CallOK'
  BY <1>1 DEF NarrowInv, CallOK, world, Readable
<1>3. Narrowing' <=> Narrowing
  BY <1>1 DEF Narrowing
<1>4. NarrowOK' <=> NarrowOK
  BY <1>1, SameReads, SameGraph DEF NarrowOK
<1> QED
  BY <1>1, <1>2, <1>3, <1>4 DEF NarrowInv

LEMMA NarrowNext == IInv /\ NarrowInv /\ [Next]_runVars => NarrowInv'
<1> SUFFICES ASSUME IInv, NarrowInv, [Next]_runVars PROVE NarrowInv'
  OBVIOUS
<1>0. GraphTypes /\ SpreadOK /\ PhaseOK
  BY DEF IInv, GraphOK
<1>1. CASE Collect
  <2>1. /\ stage = "collect" /\ stage' = "analyse" /\ UNCHANGED <<pass, known, result>>
        /\ call' = [repo |-> call.repo, supplied |-> Readable,
                    baseSupplied |-> IF world.fault = "none" THEN BasesRead ELSE {},
                    changed |-> IF world.fault = "none" THEN world.changed ELSE {},
                    full |-> world.fault # "none"]
    BY <1>1 DEF Collect
  <2>2. pass = "idle" /\ result = NoResult /\ known = <<>>
    BY <1>0, <2>1 DEF IInv, StageOK, PhaseOK
  <2>3. call'.repo = call.repo /\ call'.supplied = Readable /\ call'.full = (world.fault # "none")
        /\ call'.changed = IF world.fault = "none" THEN world.changed ELSE {}
    BY <2>1
  <2>4. CallOK'
    BY <2>3 DEF CallOK, world, Readable
  <2>5. ~Narrowing'
    BY <2>1, <2>2 DEF Narrowing, NoResult
  <2> QED
    BY <2>1, <2>2, <2>4, <2>5 DEF NarrowInv
<1>2. CASE Analyse
  <2>1. stage = "analyse" /\ GraphNext /\ stage' = stage /\ CallOK
    BY <1>2 DEF Analyse, NarrowInv
  <2>2. CASE GoFull
    <3>1. call' = call /\ pass' = "done" /\ result' = FullResult /\ known' = <<>>
      BY <1>0, <2>2 DEF GoFull, PhaseOK
    <3>2. CallOK'
      BY <2>1, <3>1 DEF CallOK, world, Readable
    <3>3. ~Narrowing'
      BY <3>1 DEF Narrowing, FullResult
    <3> QED
      BY <3>1, <3>2, <3>3 DEF NarrowInv
  <2>3. CASE SeedChanges
    <3>1. pass = "idle" /\ ~NeedsFull(call) /\ Seed /\ call' = call /\ pass' = "seeded"
      BY <2>3 DEF SeedChanges
    <3>2. known = <<>> /\ call \in Input
      BY <1>0, <3>1 DEF PhaseOK, GraphTypes
    <3>3. Told
      BY <2>1, <3>1, <3>2, ToldByGit
    <3>4. NarrowOK'
      BY <1>0, <3>1, <3>2, <3>3, SeedNarrows
    <3>5. CallOK'
      BY <2>1, <3>1 DEF CallOK, world, Readable
    <3> QED
      BY <3>1, <3>4, <3>5 DEF NarrowInv, Narrowing
  <2>4. CASE SpreadNext
    <3>1. pass \in {"seeded", "widened"} /\ work # <<>> /\ Spread /\ call' = call /\ pass' = pass
      BY <2>4 DEF SpreadNext
    <3>2. NarrowOK'
      BY <1>0, <3>1, SpreadNarrows DEF NarrowInv, Narrowing
    <3>3. CallOK'
      BY <2>1, <3>1 DEF CallOK, world, Readable
    <3> QED
      BY <3>1, <3>2, <3>3 DEF NarrowInv, Narrowing
  <2>5. CASE WidenForDynamicLoads
    <3>1. pass = "seeded" /\ Widen /\ call' = call /\ reached' = reached /\ pass' = "widened"
      BY <2>5 DEF WidenForDynamicLoads
    <3>2. NarrowOK'
      BY <1>0, <3>1, WidenNarrows DEF NarrowInv, Narrowing
    <3>3. CallOK'
      BY <2>1, <3>1 DEF CallOK, world, Readable
    <3> QED
      BY <3>1, <3>2, <3>3 DEF NarrowInv, Narrowing
  <2>6. CASE Assemble
    <3>1. pass = "widened" /\ call' = call /\ known' = known /\ reached' = reached
          /\ result' = Assembled /\ Assembled.scope = "affected"
      BY <2>6 DEF Assemble, Assembled
    <3>2. NarrowOK'
      BY <3>1, SameReads, SameGraph DEF NarrowInv, Narrowing, NarrowOK
    <3>3. CallOK'
      BY <2>1, <3>1 DEF CallOK, world, Readable
    <3> QED
      BY <3>1, <3>2, <3>3 DEF NarrowInv, Narrowing
  <2> QED
    BY <2>1, <2>2, <2>3, <2>4, <2>5, <2>6 DEF GraphNext
<1>3. CASE PlanJob
  BY <1>3, NarrowStays DEF PlanJob
<1>4. CASE ShardJob
  BY <1>4, NarrowStays DEF ShardJob
<1>5. CASE Merge
  BY <1>5, NarrowStays DEF Merge
<1>6. CASE UNCHANGED runVars
  BY <1>6, NarrowStays DEF runVars, graphVars
<1> QED
  BY <1>1, <1>2, <1>3, <1>4, <1>5, <1>6 DEF Next

\* As long as an analysis is narrow, what it holds at no distance is what the
\* change alters, and what it reached at one reads that directly.
LEMMA NarrowInductive == Spec => []NarrowInv
<1> QED
  BY Inductive, NarrowInit, NarrowNext, PTL DEF Spec

\* What a fact reads is inside its module, or in one that the module imports.
LEMMA ReadsInside ==
  ASSUME NEW e \in Facts, NEW r \in ReadsWithin(e)
  PROVE  r.file = e.file
<1>1. e.kind \in {"local", "export", "all", "any"}
  BY FormOfFacts
<1>2. r = AllFact(e.file) \/ \E n : r = LocalFact(e.file, n) \/ r = ExportFact(e.file, n)
  <2>1. CASE e.kind = "local"
    BY <2>1, ReadsWithinIs
  <2>2. CASE e.kind = "export"
    BY <2>2, ReadsWithinIs
  <2>3. CASE e.kind = "all"
    BY <2>3, ReadsWithinIs
  <2>4. CASE e.kind = "any"
    BY <2>4, ReadsWithinIs
  <2> QED
    BY <1>1, <2>1, <2>2, <2>3, <2>4
<1> QED
  BY <1>2, PartsOf

LEMMA ReadsImports ==
  ASSUME call \in Input, NEW e \in Facts, NEW r \in ReadsAcross(e)
  PROVE  e.file \in call.supplied /\ r.file \in Imports(Info(e.file))
<1>1. e.file \in call.supplied
  <2>1. e \in Across(r) /\ r \in Facts
    BY ReadersAcrossAreTold
  <2> QED
    BY <2>1, AcrossFacts
<1>2. e.kind \in {"local", "export", "all", "any"} /\ Info(e.file) \in Module
  BY FormOfFacts, InfoTyped
<1>3. \E f \in Imports(Info(e.file)) : \/ \E n : r = ExportFact(f, n)
                                       \/ r = AnyFact(f)
                                       \/ \E n : r = Imported(f, n)
  <2>1. CASE e.kind = "local"
    <3>1. PICK b \in Info(e.file).bindings : r = Imported(b.from, b.imported)
      BY <2>1, ReadsAcrossIs
    <3> QED
      BY <3>1 DEF Imports
  <2>2. CASE e.kind = "export"
    <3>1. CASE \E x \in Info(e.file).exports : r = Imported(x.from, x.name)
      BY <3>1 DEF Imports
    <3>2. CASE \E g \in Range(Info(e.file).stars) : r = ExportFact(g, e.name)
      BY <3>2 DEF Imports
    <3> QED
      BY <2>2, <3>1, <3>2, ReadsAcrossIs
  <2>3. CASE e.kind = "all"
    <3>1. PICK g \in Range(Info(e.file).bare) : r = AnyFact(g)
      BY <2>3, ReadsAcrossIs
    <3> QED
      BY <3>1 DEF Imports
  <2>4. e.kind # "any"
    BY ReadsAcrossIs
  <2> QED
    BY <1>2, <2>1, <2>2, <2>3, <2>4
<1>4. \A f, n : Imported(f, n).file = f
  BY DEF Imported, AnyFact, ExportFact
<1> QED
  BY <1>1, <1>3, <1>4, PartsOf

--------------------------------------------------------------------------
(* What a narrow result leaves out.                                        *)

\* A fact inside a module that reads a known one is known, but where the
\* analysis does not follow what a module passes on.
LEMMA WithinIsClosed ==
  ASSUME call \in Input, NarrowOK, Seeded, StarGaps = {},
         NEW r \in DOMAIN known, Closed(r), NEW e \in Facts, r \in ReadsWithin(e)
  PROVE  IsKnown(e, known[r].hops) \/ IsKnown(e, 0)
<1>1. r \in Facts
  BY DEF NarrowOK
<1>2. CASE e \in Within(r)
  BY <1>2 DEF Closed
<1>3. CASE /\ e.kind = "export" /\ r = AllFact(e.file) /\ MayExport(e.file, e.name)
           /\ \A x \in Info(e.file).exports : x.as # e.name
  <2>1. e.file \in Files /\ e = ExportFact(e.file, e.name)
    BY <1>3, FormOfFacts, PartsOf
  <2>2. ~PassesOn(e.file)
    BY <1>3, <2>1 DEF StarGaps
  <2>3. PICK x \in Was(e.file).exports : x.as = e.name
    BY <1>3, <2>2 DEF MayExport
  <2>4. e.file \in ChangedPaths
    BY <2>3 DEF Was, EmptyModule
  <2>5. x \in (Was(e.file).exports \cup Info(e.file).exports)
              \ (Was(e.file).exports \cap Info(e.file).exports)
    BY <1>3, <2>3
  <2>6. e \in Touched(e.file, Was(e.file), Info(e.file))
    BY <2>1, <2>3, <2>5 DEF Touched
  <2>7. e \in ChangedFacts
    BY <2>4, <2>6 DEF ChangedFacts, After
  <2>8. PICK m \in ChangedModules : e \in SeedFacts(m)
    BY <2>7, SeedsAreTheChange DEF NarrowOK
  <2> QED
    BY <2>8 DEF Seeded
<1> QED
  BY <1>1, <1>2, <1>3, ReadersWithinAreTold

\* Without such gaps, what is known at no distance is what the change alters.
LEMMA AlteredIsNearest ==
  ASSUME call \in Input, GraphTypes, NarrowOK, Seeded, StarGaps = {},
         \A e \in DOMAIN known : Closed(e), NEW e \in Altered
  PROVE  IsKnown(e, 0)
<1> DEFINE Z == {z \in DOMAIN known : known[z].hops = 0}
<1>1. \A z \in DOMAIN known : known[z].hops \in Nat
  BY DEF GraphTypes, Entries
<1>2. \A z : z \in Z <=> IsKnown(z, 0)
  BY <1>1 DEF IsKnown
<1>3. ChangedFacts \subseteq Z
  <2> SUFFICES ASSUME NEW z \in ChangedFacts PROVE z \in Z
    OBVIOUS
  <2>1. PICK m \in ChangedModules : z \in SeedFacts(m)
    BY SeedsAreTheChange DEF NarrowOK
  <2> QED
    BY <1>2, <2>1 DEF Seeded
<1>4. ClosedUnder(Z, Pairs(ReadsWithin))
  <2> SUFFICES ASSUME NEW p \in Pairs(ReadsWithin), p[2] \in Z PROVE p[1] \in Z
    BY DEF ClosedUnder
  <2>1. p[1] \in Facts /\ p[2] \in ReadsWithin(p[1])
    BY PairsAre
  <2>2. p[2] \in DOMAIN known /\ known[p[2]].hops = 0
    OBVIOUS
  <2>3. IsKnown(p[1], 0)
    BY <2>1, <2>2, WithinIsClosed
  <2> QED
    BY <1>2, <2>3
<1> HIDE DEF Z
<1>5. Altered \subseteq Z
  BY <1>3, <1>4, AlteredFacts DEF NarrowOK
<1> QED
  BY <1>2, <1>5

LEMMA TargetsAreDirect == IInv /\ NarrowInv => (StarGaps = {} => MutationTargetsAreDirect)
<1> SUFFICES ASSUME IInv, NarrowInv, StarGaps = {}, pass = "done", result.scope = "affected"
             PROVE  result.targets = Mutable \cap ((ChangedPaths \cap call.supplied) \cup DirectReaders)
  BY DEF MutationTargetsAreDirect
<1>1. result = Assembled /\ work = <<>> /\ Seeded /\ GraphTypes /\ SpreadOK /\ NarrowOK
  BY NarrowResult DEF NarrowInv, Narrowing
<1>2. call \in Input /\ Told /\ \A f \in DOMAIN reached : reached[f].hops \in Nat
  BY <1>1 DEF GraphTypes, Entries, NarrowOK
<1>3. \A e \in DOMAIN known : Closed(e)
  BY <1>1 DEF SpreadOK, ClosedOK, Queued
<1>4. result.targets =
        ({f \in DOMAIN reached \ Tests : reached[f].hops = 1} \cup (CurrentPaths \ Tests)) \cap Mutable
  BY <1>1 DEF Assembled, ChangedSources, CurrentPaths
<1>5. Mutable \cap Tests = {}
  BY GraphAssumption
<1>6. CurrentPaths = ChangedPaths \cap call.supplied
  BY <1>2 DEF Told
<1>7. \A f \in DOMAIN reached : reached[f].hops = 1 => f \in DirectReaders
  BY <1>1 DEF NarrowOK
<1>8. ASSUME NEW f \in DirectReaders
      PROVE  f \in CurrentPaths \/ (f \in DOMAIN reached /\ reached[f].hops = 1)
  <2>1. PICK r \in Altered : \E g \in Across(r) : g.file = f
    BY <1>2, <1>8, AlteredFacts
  <2>2. IsKnown(r, 0)
    BY <1>1, <1>2, <1>3, AlteredIsNearest
  <2>3. r \in DOMAIN known /\ known[r].hops = 0
    BY <1>1, <2>2 DEF IsKnown, GraphTypes, Entries
  <2>4. IsReached(f, known[r].hops + 1)
    BY <1>3, <2>1, <2>3 DEF Closed
  <2>5. f \in DOMAIN reached /\ reached[f].hops <= 1
    BY <2>3, <2>4 DEF IsReached
  <2>6. reached[f].hops = 0 \/ reached[f].hops = 1
    BY <1>2, <2>5
  <2> QED
    BY <1>1, <2>5, <2>6 DEF NarrowOK
<1> QED
  BY <1>4, <1>5, <1>6, <1>7, <1>8

\* What the change reaches is known, or inside a test that always runs.
LEMMA ImpactIsKnown ==
  ASSUME call \in Input, NarrowOK, Seeded, Widened, StarGaps \cup TestGaps = {},
         \A e \in DOMAIN known : Closed(e), NEW impacted,
         impacted = Readers(ChangedFacts \cup {AllFact(f) : f \in ReadsAnything},
                            Pairs(ReadsWithin) \cup Pairs(ReadsAcross)),
         NEW e \in impacted
  PROVE  e \in DOMAIN known \/ e.file \in OpaqueTests
<1> DEFINE start == ChangedFacts \cup {AllFact(f) : f \in ReadsAnything}
           relation == Pairs(ReadsWithin) \cup Pairs(ReadsAcross)
           K == DOMAIN known \cup {k \in Facts : k.file \in OpaqueTests}
<1>1. Told /\ StarGaps = {} /\ TestGaps = {} /\ DOMAIN known \subseteq Facts
  BY DEF NarrowOK
<1>2. /\ \A p \in relation : p[1] \in Facts
      /\ \A p \in relation : p[2] \in ReadsWithin(p[1]) \/ p[2] \in ReadsAcross(p[1])
  BY PairsAre
<1>3. ReadsAnything = OpaqueSources \cup OpaqueTests /\ ReadsAnything \subseteq Files
      /\ OpaqueTests = ReadsAnything \cap Tests
  <2>1. ChangedPaths = {} <=> ChangedModules = {}
    <3>1. \A p : p \in ChangedPaths <=> \E m \in ChangedModules : m.path = p
      BY ModulesOfPath
    <3> QED
      BY <3>1
  <2>2. OpaqueFiles \subseteq Files
    BY CallTyped DEF OpaqueFiles
  <2> QED
    BY <2>1, <2>2 DEF ReadsAnything, OpaqueSources, OpaqueTests
<1>4. \A f \in ReadsAnything : AllFact(f) \in Facts /\ AllFact(f).file = f
  BY <1>3, AllAndAny, PartsOf
<1>5. start \in SUBSET Facts
  BY <1>1, <1>4, SeedsAreTheChange
<1>6. start \subseteq K
  <2>1. ASSUME NEW k \in ChangedFacts PROVE k \in DOMAIN known
    <3>1. PICK m \in ChangedModules : k \in SeedFacts(m)
      BY <1>1, <2>1, SeedsAreTheChange
    <3> QED
      BY <3>1 DEF Seeded, IsKnown
  <2>2. ASSUME NEW f \in ReadsAnything PROVE AllFact(f) \in K
    <3>1. CASE f \in OpaqueSources
      BY <3>1 DEF Widened, IsKnown
    <3>2. CASE f \in OpaqueTests
      BY <1>4, <3>2
    <3> QED
      BY <1>3, <3>1, <3>2
  <2> QED
    BY <2>1, <2>2
<1>7. ASSUME NEW k \in Facts, NEW r \in K, r \in ReadsWithin(k) \/ r \in ReadsAcross(k)
      PROVE  k \in K
  <2>1. CASE r \in DOMAIN known /\ r \in ReadsWithin(k)
    BY <1>1, <1>7, <2>1, WithinIsClosed DEF IsKnown
  <2>2. CASE r \in DOMAIN known /\ r \in ReadsAcross(k)
    <3>1. k \in Across(r)
      BY <1>7, <2>2, ReadersAcrossAreTold
    <3> QED
      BY <2>2, <3>1 DEF Closed, IsKnown
  <2>3. CASE r.file \in OpaqueTests /\ r \in ReadsWithin(k)
    <3>1. r.file = k.file
      BY <1>7, <2>3, ReadsInside
    <3> QED
      BY <1>7, <2>3, <3>1
  <2>4. CASE r.file \in OpaqueTests /\ r \in ReadsAcross(k)
    <3>1. k.file \in call.supplied /\ r.file \in Imports(Info(k.file))
      BY <1>7, <2>4, ReadsImports
    <3>2. r.file \in TestGaps
      BY <1>3, <2>4, <3>1 DEF TestGaps
    <3> QED
      BY <1>1, <3>2
  <2> QED
    BY <1>7, <2>1, <2>2, <2>3, <2>4
<1> HIDE DEF start, relation, K
<1>8. impacted = Least(start, relation)
  BY <1>2, <1>5, ReadersAre DEF start, relation
<1>9. ClosedUnder(K, relation)
  BY <1>2, <1>7 DEF ClosedUnder
<1>10. impacted \subseteq K
  BY <1>2, <1>5, <1>6, <1>8, <1>9, LeastFacts
<1> QED
  BY <1>10 DEF K

LEMMA NothingIsSkipped == IInv /\ NarrowInv => (StarGaps \cup TestGaps = {} => NothingNeededIsSkipped)
<1> SUFFICES ASSUME IInv, NarrowInv, StarGaps \cup TestGaps = {}, pass = "done"
             PROVE  LET chosen == {entry.test : entry \in result.tests}
                    IN IF result.scope = "full" THEN chosen = Tests \cap call.supplied
                       ELSE NeededTests \subseteq chosen
  BY DEF NothingNeededIsSkipped
<1> DEFINE chosen == {entry.test : entry \in result.tests}
<1>1. result = FullResult \/ result = Assembled
  BY DEF IInv, GraphOK, PhaseOK
<1>2. CASE result = FullResult
  <2>1. result.scope = "full"
        /\ result.tests = {[test |-> t, cause |-> None] : t \in call.supplied \cap Tests}
    BY <1>2 DEF FullResult
  <2>2. chosen = Tests \cap call.supplied
    <3>1. \A t \in call.supplied \cap Tests : [test |-> t, cause |-> None] \in result.tests
                                              /\ [test |-> t, cause |-> None].test = t
      BY <2>1
    <3>2. \A entry \in result.tests : entry.test \in call.supplied \cap Tests
      BY <2>1
    <3> QED
      BY <3>1, <3>2
  <2> QED
    BY <2>1, <2>2
<1>3. CASE result = Assembled
  <2>1. result.scope = "affected"
    BY <1>3 DEF Assembled
  <2>2. work = <<>> /\ Seeded /\ Widened /\ GraphTypes /\ SpreadOK /\ NarrowOK /\ call \in Input
    BY <2>1, NarrowResult DEF NarrowInv, Narrowing, GraphTypes
  <2>3. \A e \in DOMAIN known : Closed(e)
    BY <2>2 DEF SpreadOK, ClosedOK, Queued
  <2>4. chosen = (DOMAIN reached \cap Tests) \cup OpaqueTests
                 \cup UNION {LinkedTests(c) : c \in LinkedChanges}
    <3> DEFINE tests == (DOMAIN reached \cap Tests) \cup OpaqueTests
                        \cup UNION {LinkedTests(c) : c \in LinkedChanges}
    <3>1. result.tests = {[test |-> t, cause |-> TestCause(t)] : t \in tests}
      BY <1>3 DEF Assembled
    <3> HIDE DEF tests
    <3>2. \A t \in tests : [test |-> t, cause |-> TestCause(t)] \in result.tests
                            /\ [test |-> t, cause |-> TestCause(t)].test = t
      BY <3>1
    <3>3. ASSUME NEW entry \in result.tests PROVE entry.test \in tests
      <4>1. PICK t \in tests : entry = [test |-> t, cause |-> TestCause(t)]
        BY <3>1
      <4>2. entry.test = t
        BY ONLY <4>1
      <4> QED
        BY <4>2
    <3>4. chosen = tests
      BY <3>2, <3>3
    <3> QED
      BY <3>4 DEF tests
  <2> HIDE DEF chosen
  <2> DEFINE impacted == Readers(ChangedFacts \cup {AllFact(f) : f \in ReadsAnything},
                                 Pairs(ReadsWithin) \cup Pairs(ReadsAcross))
             linked == UNION {l.run : l \in {l \in Links : \E c \in call.changed : l.when \in PathsOf(c)}}
  <2>5. NeededTests = (Tests \cap call.supplied) \cap
           ({e.file : e \in impacted} \cup ChangedPaths \cup ReadsAnything \cup linked)
    BY DEF NeededTests
  <2>6. ASSUME NEW t \in Tests \cap call.supplied \cap ChangedPaths PROVE t \in chosen
    <3>1. t \in CurrentPaths
      BY <2>2, <2>6 DEF NarrowOK, Told
    <3> QED
      BY <2>2, <2>4, <2>6, <3>1 DEF NarrowOK
  <2>7. ASSUME NEW t \in Tests \cap ReadsAnything PROVE t \in chosen
    <3>1. ReadsAnything = {} \/ (ReadsAnything = OpaqueFiles /\ ~(ChangedPaths = {} /\ LinkedChanges = {}))
      BY DEF ReadsAnything
    <3>2. ChangedPaths = {} <=> ChangedModules = {}
      <4>1. \A p : p \in ChangedPaths <=> \E m \in ChangedModules : m.path = p
        BY <2>2, ModulesOfPath
      <4> QED
        BY <4>1
    <3>3. t \in OpaqueTests
      BY <2>7, <3>1, <3>2 DEF OpaqueTests
    <3> QED
      BY <2>4, <3>3
  <2>8. ASSUME NEW t \in Tests \cap call.supplied \cap linked PROVE t \in chosen
    <3>1. PICK l \in Links : t \in l.run /\ \E c \in call.changed : l.when \in PathsOf(c)
      BY <2>8
    <3>2. PICK c \in call.changed : l.when \in PathsOf(c)
      BY <3>1
    <3>3. c \in LinkedChanges
      BY <3>2 DEF LinkedChanges, IsLinked
    <3>4. t \in UNION {k.run : k \in {k \in Links : k.when \in PathsOf(c)}}
      BY <3>1, <3>2
    <3>5. t \in LinkedTests(c)
      <4> DEFINE runs == UNION {k.run : k \in {k \in Links : k.when \in PathsOf(c)}}
      <4>1. LinkedTests(c) = runs \cap call.supplied \cap Tests
        BY DEF LinkedTests
      <4>2. t \in runs /\ t \in call.supplied /\ t \in Tests
        BY <2>8, <3>4
      <4> HIDE DEF runs
      <4> QED
        BY <4>1, <4>2
    <3> QED
      BY <2>4, <3>3, <3>5
  <2>9. ASSUME NEW e \in impacted, e.file \in Tests \cap call.supplied PROVE e.file \in chosen
    <3>1. e \in DOMAIN known \/ e.file \in OpaqueTests
      BY <2>2, <2>3, ImpactIsKnown
    <3>2. CASE e.file \in OpaqueTests
      BY <2>4, <3>2
    <3>3. CASE e \in DOMAIN known
      <4>1. e.file \in DOMAIN reached \cup ChangedPaths \cup OpaqueSources
        BY <2>2, <3>3 DEF NarrowOK
      <4>2. OpaqueSources \cap Tests = {}
        BY DEF OpaqueSources
      <4> QED
        BY <2>4, <2>6, <2>9, <4>1, <4>2
    <3> QED
      BY <3>1, <3>2, <3>3
  <2> HIDE DEF impacted, linked
  <2>10. NeededTests \subseteq chosen
    BY <2>5, <2>6, <2>7, <2>8, <2>9
  <2> QED
    BY <2>1, <2>10 DEF chosen
<1> QED
  BY <1>1, <1>2, <1>3

\* Narrowing skips no test that a change reaches, in any repository and in every
\* order of the worklist, unless a module that counts as changed in every export
\* passes names on through export *, or a test that loads code dynamically is
\* itself imported: there the analysis does not follow (computeAffected).
THEOREM NothingSkipped == Spec => [](StarGaps \cup TestGaps = {} => NothingNeededIsSkipped)
<1> QED
  BY Inductive, NarrowInductive, NothingIsSkipped, PTL

\* The mutation targets are the changed sources and those that read a change
\* directly, in any repository, unless a module that counts as changed in every
\* export passes names on through export *.
THEOREM TargetsDirect == Spec => [](StarGaps = {} => MutationTargetsAreDirect)
<1> QED
  BY Inductive, NarrowInductive, TargetsAreDirect, PTL

LEMMA PlainBarrelsAreFollowed == IInv /\ NarrowInv => (PlainBarrels => StarGaps = {})
<1> SUFFICES ASSUME IInv, NarrowInv, PlainBarrels, NEW f \in StarGaps PROVE FALSE
  OBVIOUS
<1>1. f \in Files /\ PassesOn(f) /\ AllFact(f) \in DOMAIN known
  BY DEF StarGaps
<1>2. Narrowing
  BY <1>1 DEF NarrowInv
<1>3. ChangesAll(AllFact(f))
  BY <1>1, <1>2, PartsOf DEF NarrowInv, NarrowOK
<1>4. AllFact(f).file = f
  BY PartsOf
<1> QED
  BY <1>1, <1>3, <1>4 DEF ChangesAll, PlainBarrels

\* So an analysis skips nothing, and mutates what is direct, wherever the modules
\* that pass names on do nothing else and no test that loads code dynamically is
\* imported.
THEOREM PlainlyFollowed ==
  Spec => [](PlainBarrels => /\ MutationTargetsAreDirect
                             /\ TestGaps = {} => NothingNeededIsSkipped)
<1>1. IInv /\ NarrowInv /\ PlainBarrels => /\ MutationTargetsAreDirect
                                           /\ TestGaps = {} => NothingNeededIsSkipped
  <2> SUFFICES ASSUME IInv, NarrowInv, PlainBarrels
               PROVE  MutationTargetsAreDirect /\ (TestGaps = {} => NothingNeededIsSkipped)
    OBVIOUS
  <2>1. StarGaps = {}
    BY PlainBarrelsAreFollowed
  <2>2. StarGaps \cup TestGaps = {} <=> TestGaps = {}
    BY <2>1
  <2> QED
    BY <2>1, <2>2, NothingIsSkipped, TargetsAreDirect
<1> QED
  BY <1>1, Inductive, NarrowInductive, PTL

=============================================================================
