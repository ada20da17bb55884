---------------------------- MODULE Kernel_proofs ----------------------------
(***************************************************************************)
(* Proofs about Kernel: its type invariant, the causal order of memories   *)
(* and the shape of supersession, what the buffer holds and what a memory  *)
(* rests on; that a run of the promotion gate leaves nothing behind that   *)
(* it could have promoted, and that nothing is learned once memory is      *)
(* frozen.                                                                 *)
(***************************************************************************)
EXTENDS Kernel, TLAPS, FiniteSetTheorems, FunctionTheorems

\* The calls of a caller that passes records with any clocks, each record as
\* often as it likes, or once only.
Calls == (\E r \in Records, rc \in Clock : Ingest(r, rc)) \/ Operation
FreshCalls == (\E r \in Records \ fed, rc \in Clock : Ingest(r, rc)) \/ Operation

\* The drivers of Kernel are such callers.
LEMMA NextCalls ==
    ASSUME [Next]_vars
    PROVE  [FreshCalls]_vars /\ [Calls]_vars
  BY ConstantsAssumption DEF Next, FreshCalls, Calls

LEMMA RepeatingCalls ==
    ASSUME [NextRepeating]_vars
    PROVE  [Calls]_vars
  BY ConstantsAssumption DEF NextRepeating, Calls

-----------------------------------------------------------------------------
(***************************************************************************)
(* Vector clocks                                                           *)
(***************************************************************************)

\* tick gives a clock that is strictly later, by one event of that agent.
LEMMA TickAdvances ==
    ASSUME NEW c \in Clock, NEW a \in Agents
    PROVE  /\ Tick(c, a) \in Clock
           /\ Leq(c, Tick(c, a))
           /\ Tick(c, a)[a] = c[a] + 1
  BY DEF Clock, Tick, Leq

\* merge gives an upper bound of both clocks.
LEMMA MergeBounds ==
    ASSUME NEW c \in Clock, NEW d \in Clock
    PROVE  /\ Merge(c, d) \in Clock
           /\ Leq(c, Merge(c, d))
           /\ Leq(d, Merge(c, d))
  BY DEF Clock, Merge, Leq

\* The causal order is transitive.
LEMMA LeqTransitive ==
    ASSUME NEW c \in Clock, NEW d \in Clock, NEW e \in Clock,
           Leq(c, d), Leq(d, e)
    PROVE  Leq(c, e)
  BY DEF Clock, Leq

\* One more event on top of anything seen: the clock of a later event, with
\* the agent's own component strictly above.
LEMMA TickAfter ==
    ASSUME NEW c \in Clock, NEW d \in Clock, NEW a \in Agents, Leq(c, d)
    PROVE  /\ Leq(c, Tick(d, a))
           /\ c[a] < Tick(d, a)[a]
           /\ HappensBefore(c, Tick(d, a))
<1>1. Leq(c, Tick(d, a))
  BY TickAdvances, LeqTransitive
<1>2. c[a] < Tick(d, a)[a]
  BY TickAdvances DEF Clock, Leq
<1>3. c # Tick(d, a)
  BY <1>2 DEF Clock
<1>. QED  BY <1>1, <1>2, <1>3 DEF HappensBefore
-----------------------------------------------------------------------------
(***************************************************************************)
(* Type correctness                                                        *)
(***************************************************************************)

\* Every step of the kernel moves its clock forward in the causal order, and
\* no step moves it at all only by stuttering.
LEMMA ClockMonotonic ==
    ASSUME TypeOK, [Calls]_vars
    PROVE  vclock' \in Clock /\ Leq(vclock, vclock')
<1>. USE ConstantsAssumption DEF TypeOK
<1>1. CASE \E r \in Records, rc \in Clock : Ingest(r, rc)
  <2>. PICK r \in Records, rc \in Clock : Ingest(r, rc)  BY <1>1
  <2>1. vclock' = Tick(Merge(vclock, rc), KernelAgent)
    BY DEF Ingest, IngestAdmit, IngestReinforce, IngestDiscard, IngestRefused, Observe
  <2>2. rc \in Clock  OBVIOUS
  <2>3. /\ Merge(vclock, rc) \in Clock
        /\ Leq(vclock, Merge(vclock, rc))
    BY <2>2, MergeBounds
  <2>4. /\ Tick(Merge(vclock, rc), KernelAgent) \in Clock
        /\ Leq(vclock, Tick(Merge(vclock, rc), KernelAgent))
    BY <2>3, TickAdvances, TickAfter
  <2>. QED  BY <2>1, <2>4
<1>2. CASE vclock' \in {Tick(vclock, KernelAgent), Tick(vclock, Approver)}
  BY <1>2, TickAdvances
<1>3. CASE TickAndPromote
  <2>1. vclock' = Tick(Tick(vclock, KernelAgent), Approver)
    BY <1>3 DEF TickAndPromote, RunPromotion
  <2>2. Tick(vclock, KernelAgent) \in Clock /\ Leq(vclock, Tick(vclock, KernelAgent))
    BY TickAdvances
  <2>. QED  BY <2>1, <2>2, TickAdvances, TickAfter
<1>4. CASE UNCHANGED vclock
  BY <1>4 DEF Clock, Leq
<1>5. \/ \E r \in Records, rc \in Clock : Ingest(r, rc)
      \/ vclock' \in {Tick(vclock, KernelAgent), Tick(vclock, Approver)}
      \/ TickAndPromote
      \/ UNCHANGED vclock
  BY DEF Calls, vars, Operation, AnyTick, TickOnly, Promote, RunPromotion, Supersede,
         SupersedeRefused, Snapshot, Freeze, Pin
<1>. QED  BY <1>1, <1>2, <1>3, <1>4, <1>5
-----------------------------------------------------------------------------
\* What a promotion run does to the store and to the buffer, in the terms the
\* invariants speak of.
LEMMA PromotionStep ==
    ASSUME TypeOK, NEW b, NEW stamp \in Clock,
           DOMAIN b \subseteq DOMAIN buffer,
           b = [e \in DOMAIN b |-> buffer[e]],
           RunPromotion(b, stamp)
    PROVE  /\ objects \subseteq objects'
           /\ \A m \in objects' \ objects :
                 \E s \in PromotableSeeds(b) : m = MemoryFrom(b, s, stamp)
           /\ UNCHANGED <<supersededBy, versions>>
           /\ DOMAIN buffer' = DOMAIN b \ Consumed(b)
           /\ buffer' = [e \in DOMAIN buffer' |-> buffer[e]]
  BY DEF RunPromotion, Store!PutAll, Without

\* A promoted memory is well formed.
LEMMA PromotedType ==
    ASSUME TypeOK, NEW b, NEW stamp \in Clock,
           DOMAIN b \subseteq DOMAIN buffer,
           NEW s \in PromotableSeeds(b)
    PROVE  /\ MemoryFrom(b, s, stamp).content \in Content
           /\ MemoryFrom(b, s, stamp).provenance \subseteq Records
           /\ MemoryFrom(b, s, stamp).vclock = stamp
           /\ MemoryFrom(b, s, stamp).supersedes = {}
<1>. s \in Records
  BY DEF PromotableSeeds, TypeOK
<1>. QED
  BY ConstantsAssumption DEF MemoryFrom, EvidenceFor

\* The type of the state survives a promotion run.
LEMMA PromotionType ==
    ASSUME TypeOK, NEW b, NEW stamp \in Clock,
           DOMAIN b \subseteq DOMAIN buffer,
           b = [e \in DOMAIN b |-> buffer[e]],
           RunPromotion(b, stamp),
           tick' \in Nat, UNCHANGED <<pinned, frozen, fed>>
    PROVE  TypeOK'
<1>1. /\ objects \subseteq objects'
      /\ \A m \in objects' \ objects :
            \E s \in PromotableSeeds(b) : m = MemoryFrom(b, s, stamp)
      /\ UNCHANGED <<supersededBy, versions>>
      /\ DOMAIN buffer' \subseteq DOMAIN buffer
      /\ buffer' = [e \in DOMAIN buffer' |-> buffer[e]]
  BY PromotionStep
<1>2. vclock' \in Clock
  BY DEF RunPromotion
<1>3. ASSUME NEW m \in objects'
      PROVE  /\ m.content \in Content
             /\ m.provenance \subseteq Records
             /\ m.vclock \in Clock
             /\ m.supersedes \subseteq objects'
  <2>1. CASE m \in objects
    BY <1>1, <2>1 DEF TypeOK
  <2>2. CASE m \notin objects
    BY <1>1, <2>2, PromotedType
  <2>. QED  BY <2>1, <2>2
<1>4. buffer' \in [DOMAIN buffer' -> Entry] /\ DOMAIN buffer' \subseteq Records
  BY <1>1 DEF TypeOK
<1>. QED
  BY <1>1, <1>2, <1>3, <1>4 DEF TypeOK

\* The entry that a reinforced one is replaced by is well formed.
LEMMA SetEntryType ==
    ASSUME TypeOK, NEW e \in Records, NEW entry \in Entry, SetEntry(e, entry)
    PROVE  buffer' \in [DOMAIN buffer' -> Entry] /\ DOMAIN buffer' \subseteq Records
  BY DEF TypeOK, SetEntry

\* Ingesting keeps the state well typed.
LEMMA IngestType ==
    ASSUME TypeOK, NEW r \in Records, NEW rc \in Clock, Ingest(r, rc), vclock' \in Clock
    PROVE  TypeOK'
<1>1. UNCHANGED <<tick, objects, supersededBy, versions, pinned, frozen>> /\ fed' \subseteq Records
  BY DEF TypeOK, Ingest, IngestAdmit, IngestReinforce, IngestDiscard, IngestRefused, Observe
<1>2. buffer' \in [DOMAIN buffer' -> Entry] /\ DOMAIN buffer' \subseteq Records
  <2>1. CASE IngestAdmit(r, rc)
    <3>. DEFINE entry == [pos |-> vclock'[KernelAgent], at |-> tick, support |-> {r}]
    <3>1. entry \in Entry
      BY ConstantsAssumption DEF TypeOK, Entry, Clock
    <3>2. SetEntry(r, entry)
      BY <2>1 DEF IngestAdmit
    <3>. HIDE DEF entry
    <3>. QED  BY <3>1, <3>2, SetEntryType
  <2>2. CASE IngestReinforce(r, rc)
    <3>1. PICK e \in DOMAIN buffer :
             SetEntry(e, [pos |-> buffer[e].pos, at |-> buffer[e].at,
                          support |-> buffer[e].support \union {r}])
      BY <2>2 DEF IngestReinforce, Reinforced
    <3>. DEFINE entry == [pos |-> buffer[e].pos, at |-> buffer[e].at,
                          support |-> buffer[e].support \union {r}]
    <3>2. entry \in Entry /\ e \in Records
      BY DEF TypeOK, Entry
    <3>. HIDE DEF entry
    <3>3. SetEntry(e, entry)
      BY <3>1 DEF entry
    <3>. QED  BY <3>2, <3>3, SetEntryType
  <2>3. CASE UNCHANGED buffer
    BY <2>3 DEF TypeOK
  <2>. QED  BY <2>1, <2>2, <2>3 DEF Ingest, IngestDiscard, IngestRefused
<1>. QED  BY <1>1, <1>2 DEF TypeOK

\* Every step keeps the state well typed.
LEMMA TypeStep ==
    ASSUME TypeOK, [Calls]_vars
    PROVE  TypeOK'
<1>. vclock' \in Clock
  BY ClockMonotonic
<1>. USE ConstantsAssumption
<1>1. CASE \E r \in Records, rc \in Clock : Ingest(r, rc)
  BY <1>1, IngestType
<1>2. CASE TickOnly
  BY <1>2 DEF TickOnly, TypeOK, Without
<1>3. CASE TickAndPromote
  <2>. DEFINE b == Without(buffer, Expired)
              stamp == Tick(Tick(vclock, KernelAgent), Approver)
  <2>1. /\ RunPromotion(b, stamp)
        /\ tick' \in Nat /\ UNCHANGED <<pinned, frozen, fed>>
    BY <1>3 DEF TickAndPromote, TypeOK
  <2>2. DOMAIN b \subseteq DOMAIN buffer /\ b = [e \in DOMAIN b |-> buffer[e]]
    BY DEF Without
  <2>3. stamp \in Clock
    BY TickAdvances DEF TypeOK
  <2>. HIDE DEF b, stamp
  <2>. QED  BY <2>1, <2>2, <2>3, PromotionType
<1>4. CASE Promote
  <2>. DEFINE stamp == Tick(vclock, Approver)
  <2>1. /\ RunPromotion(buffer, stamp)
        /\ tick' \in Nat /\ UNCHANGED <<pinned, frozen, fed>>
    BY <1>4 DEF Promote, TypeOK
  <2>2. buffer = [e \in DOMAIN buffer |-> buffer[e]]
    BY DEF TypeOK
  <2>3. stamp \in Clock
    BY TickAdvances DEF TypeOK
  <2>. HIDE DEF stamp
  <2>. QED  BY <2>1, <2>2, <2>3, PromotionType
<1>5. CASE \E old \in objects, c \in Content : Supersede(old, c)
  <2>. PICK old \in objects, c \in Content : Supersede(old, c)  BY <1>5
  <2>1. /\ objects' = objects \union {Successor(old, c)}
        /\ DOMAIN supersededBy' = DOMAIN supersededBy \union {old}
        /\ UNCHANGED <<buffer, tick, versions, pinned, frozen, fed>>
    BY DEF Supersede, Store!Supersede
  <2>2. /\ Successor(old, c).content \in Content
        /\ Successor(old, c).provenance \subseteq Records
        /\ Successor(old, c).vclock \in Clock
        /\ Successor(old, c).supersedes \subseteq objects
    BY TickAdvances DEF Successor, TypeOK
  <2>. HIDE DEF Successor
  <2>. QED  BY <2>1, <2>2 DEF TypeOK
<1>6. CASE \E old \in objects : SupersedeRefused(old)
  BY <1>6 DEF SupersedeRefused, TypeOK
<1>7. CASE Snapshot \/ Freeze
  BY <1>7 DEF Snapshot, Freeze, Live, Store!Live, Store!RecordVersion, TypeOK
<1>8. CASE Pin({}) \/ \E v \in versions : Pin({v})
  BY <1>8 DEF Pin, TypeOK
<1>9. CASE UNCHANGED vars
  BY <1>9 DEF vars, TypeOK
<1>. QED
  BY <1>1, <1>2, <1>3, <1>4, <1>5, <1>6, <1>7, <1>8, <1>9 DEF Calls, Operation, AnyTick

\* The kernel starts well typed.
LEMMA TypeInit ==
    ASSUME Init
    PROVE  TypeOK
<1>1. DOMAIN buffer = {} /\ buffer = [e \in DOMAIN buffer |-> buffer[e]]
  BY DEF Init
<1>2. buffer \in [DOMAIN buffer -> Entry]
  BY <1>1
<1>3. DOMAIN supersededBy = {}
  BY DEF Init, Store!StoreInit
<1>4. vclock \in Clock
  BY DEF Init, Clock, Zero
<1>. QED
  BY <1>1, <1>2, <1>3, <1>4 DEF Init, Store!StoreInit, TypeOK

\* TypeOK: in every reachable state the buffer maps ids to entries, the store
\* is closed under supersession, every version lists retained objects only,
\* and the pinned version is a recorded one or none (kernel.py, store.py).
THEOREM TypeCorrect == Spec => []TypeOK
<1>1. Init => TypeOK
  BY TypeInit
<1>2. TypeOK /\ [Next]_vars => TypeOK'
  BY TypeStep, NextCalls
<1>. QED  BY <1>1, <1>2, PTL DEF Spec
-----------------------------------------------------------------------------
(***************************************************************************)
(* The causal order of memories                                            *)
(***************************************************************************)

\* The store only grows, and what a step adds carries the clock of that step.
LEMMA NewMemories ==
    ASSUME TypeOK, [Calls]_vars
    PROVE  /\ objects \subseteq objects'
           /\ \A m \in objects' \ objects : m.vclock = vclock'
<1>1. ASSUME NEW b, NEW stamp, RunPromotion(b, stamp)
      PROVE  /\ objects \subseteq objects'
             /\ \A m \in objects' \ objects : m.vclock = vclock'
  BY <1>1 DEF RunPromotion, Store!PutAll, MemoryFrom
<1>2. CASE TickAndPromote \/ Promote
  BY <1>1, <1>2 DEF TickAndPromote, Promote
<1>3. CASE \E old \in objects, c \in Content : Supersede(old, c)
  BY <1>3 DEF Supersede, Store!Supersede, Successor
<1>4. CASE UNCHANGED objects
  BY <1>4
<1>5. \/ TickAndPromote \/ Promote
      \/ \E old \in objects, c \in Content : Supersede(old, c)
      \/ UNCHANGED objects
  BY DEF Calls, vars, Operation, AnyTick, Ingest, IngestAdmit, IngestReinforce, IngestDiscard,
         IngestRefused, Observe, TickOnly, SupersedeRefused, Snapshot, Freeze, Pin,
         Store!RecordVersion
<1>. QED  BY <1>2, <1>3, <1>4, <1>5

\* Memories stay in the past of the kernel's clock, and comparable.
LEMMA CausalStep ==
    ASSUME TypeOK, TypeOK', CausalOrder, [Calls]_vars
    PROVE  CausalOrder'
<1>1. vclock \in Clock /\ vclock' \in Clock /\ Leq(vclock, vclock')
  BY ClockMonotonic DEF TypeOK
<1>2. ASSUME NEW m \in objects'
      PROVE  m.vclock \in Clock /\ Leq(m.vclock, vclock')
  <2>1. m.vclock \in Clock
    BY DEF TypeOK
  <2>2. CASE m \in objects
    BY <1>1, <2>1, <2>2, LeqTransitive DEF CausalOrder
  <2>3. CASE m \notin objects
    BY <1>1, <2>1, <2>3, NewMemories DEF Leq, Clock
  <2>. QED  BY <2>1, <2>2, <2>3
<1>3. ASSUME NEW m \in objects', NEW n \in objects'
      PROVE  ~ Concurrent(m.vclock, n.vclock)
  <2>1. CASE m \in objects /\ n \in objects
    BY <2>1 DEF CausalOrder
  <2>2. CASE m \notin objects
    BY <1>2, <2>2, NewMemories DEF Concurrent
  <2>3. CASE n \notin objects
    BY <1>2, <2>3, NewMemories DEF Concurrent
  <2>. QED  BY <2>1, <2>2, <2>3
<1>. QED  BY <1>2, <1>3 DEF CausalOrder

\* A successor is a new object: its clock is strictly later than every one in
\* the store, so its content-addressed id cannot be one already there.
LEMMA SuccessorIsNew ==
    ASSUME TypeOK, CausalOrder, NEW old \in objects, NEW c
    PROVE  /\ Successor(old, c) \notin objects
           /\ HappensBefore(old.vclock, Successor(old, c).vclock)
<1>. USE ConstantsAssumption
<1>1. ASSUME NEW m \in objects
      PROVE  /\ m.vclock # Tick(vclock, Approver)
             /\ HappensBefore(m.vclock, Tick(vclock, Approver))
  BY TickAfter DEF TypeOK, CausalOrder, HappensBefore
<1>. QED  BY <1>1 DEF Successor

\* Supersession stays a set of chains.
LEMMA ChainStep ==
    ASSUME TypeOK, CausalOrder, SupersessionChains, [Calls]_vars
    PROVE  SupersessionChains'
<1>1. ASSUME NEW b, NEW stamp, RunPromotion(b, stamp)
      PROVE  SupersessionChains'
  BY <1>1 DEF RunPromotion, Store!PutAll, MemoryFrom, SupersessionChains
<1>2. CASE TickAndPromote \/ Promote
  BY <1>1, <1>2 DEF TickAndPromote, Promote
<1>3. CASE \E old \in objects, c \in Content : Supersede(old, c)
  <2>. PICK old \in objects, c \in Content : Supersede(old, c)  BY <1>3
  <2>. DEFINE new == Successor(old, c)
  <2>1. /\ old \notin DOMAIN supersededBy
        /\ objects' = objects \union {new}
        /\ DOMAIN supersededBy' = DOMAIN supersededBy \union {old}
        /\ supersededBy'[old] = new
        /\ \A o \in DOMAIN supersededBy : supersededBy'[o] = supersededBy[o]
    BY DEF Supersede, Store!Supersede, Store!Live
  <2>2. /\ new \notin objects
        /\ HappensBefore(old.vclock, new.vclock)
        /\ new.supersedes = {old}
    BY SuccessorIsNew DEF Successor
  <2>. HIDE DEF new
  <2>3. ASSUME NEW o \in DOMAIN supersededBy'
        PROVE  /\ supersededBy'[o] \in objects'
               /\ supersededBy'[o].supersedes = {o}
               /\ HappensBefore(o.vclock, supersededBy'[o].vclock)
    BY <2>1, <2>2 DEF SupersessionChains
  <2>4. ASSUME NEW m \in objects', NEW o \in m.supersedes
        PROVE  o \in DOMAIN supersededBy' /\ supersededBy'[o] = m
    BY <2>1, <2>2 DEF SupersessionChains
  <2>. QED  BY <2>3, <2>4 DEF SupersessionChains
<1>4. CASE UNCHANGED <<objects, supersededBy>>
  BY <1>4 DEF SupersessionChains
<1>5. \/ TickAndPromote \/ Promote
      \/ \E old \in objects, c \in Content : Supersede(old, c)
      \/ UNCHANGED <<objects, supersededBy>>
  BY DEF Calls, vars, Operation, AnyTick, Ingest, IngestAdmit, IngestReinforce, IngestDiscard,
         IngestRefused, Observe, TickOnly, SupersedeRefused, Snapshot, Freeze, Pin,
         Store!RecordVersion
<1>. QED  BY <1>2, <1>3, <1>4, <1>5

\* CausalOrder and SupersessionChains: memories are totally ordered in causal
\* time up to the run that made them, and supersession runs forward along it
\* (_promote and supersede advance the approver's component, kernel.py).
THEOREM MemoryCausality == Spec => [](CausalOrder /\ SupersessionChains)
<1>. DEFINE Inv == TypeOK /\ CausalOrder /\ SupersessionChains
<1>1. Init => Inv
  <2>. SUFFICES ASSUME Init PROVE Inv
    OBVIOUS
  <2>1. objects = {} /\ DOMAIN supersededBy = {}
    BY DEF Init, Store!StoreInit
  <2>. QED  BY <2>1, TypeInit DEF CausalOrder, SupersessionChains
<1>2. Inv /\ [Next]_vars => Inv'
  BY TypeStep, CausalStep, ChainStep, NextCalls
<1>. QED  BY <1>1, <1>2, PTL DEF Spec

\* Every step that makes memories makes them strictly later than all others.
LEMMA NewIsLater ==
    ASSUME TypeOK, CausalOrder, TickAndPromote \/ Promote
    PROVE  \A n \in objects : HappensBefore(n.vclock, vclock')
<1>. USE ConstantsAssumption DEF TypeOK
<1>1. PICK c \in Clock : Leq(vclock, c) /\ vclock' = Tick(c, Approver)
  <2>1. CASE TickAndPromote
    <3>1. Tick(vclock, KernelAgent) \in Clock /\ Leq(vclock, Tick(vclock, KernelAgent))
      BY TickAdvances
    <3>. QED  BY <2>1, <3>1 DEF TickAndPromote, RunPromotion
  <2>2. CASE Promote
    <3>1. vclock \in Clock /\ Leq(vclock, vclock)
      BY DEF Leq, Clock
    <3>. QED  BY <2>2, <3>1 DEF Promote, RunPromotion
  <2>. QED  BY <2>1, <2>2
<1>2. ASSUME NEW n \in objects
      PROVE  HappensBefore(n.vclock, Tick(c, Approver))
  <2>1. n.vclock \in Clock /\ Leq(n.vclock, vclock) /\ vclock \in Clock
    BY DEF CausalOrder
  <2>2. Leq(n.vclock, c)
    BY <1>1, <2>1, LeqTransitive
  <2>. QED  BY <2>1, <2>2, TickAfter
<1>. QED  BY <1>1, <1>2

\* What a run promotes contradicts nothing that is live.
LEMMA PromotionAgrees ==
    ASSUME NEW b, NEW stamp, RunPromotion(b, stamp),
           NEW m \in objects' \ objects, NEW n \in objects,
           <<m.content, n.content>> \in Contradicts
    PROVE  n \in DOMAIN supersededBy
<1>1. PICK s \in PromotableSeeds(b) : m = MemoryFrom(b, s, stamp)
  BY DEF RunPromotion, Store!PutAll
<1>2. \A l \in Live : <<m.content, l.content>> \notin Contradicts
  BY <1>1 DEF PromotableSeeds, Promotable, MemoryFrom
<1>. QED  BY <1>2 DEF Live, Store!Live

\* Contradictions stay resolved.
LEMMA ContradictionStep ==
    ASSUME TypeOK, TypeOK', CausalOrder, CausalOrder', SupersessionChains,
           NoUnresolvedContradiction, [Calls]_vars
    PROVE  NoUnresolvedContradiction'
<1>1. CASE TickAndPromote \/ Promote
  <2>1. PICK b, stamp : RunPromotion(b, stamp)
    BY <1>1 DEF TickAndPromote, Promote
  <2>2. UNCHANGED supersededBy
    BY <2>1 DEF RunPromotion, Store!PutAll
  <2>3. ASSUME NEW m \in objects', NEW n \in objects',
               m.supersedes = {}, HappensBefore(n.vclock, m.vclock),
               <<m.content, n.content>> \in Contradicts
        PROVE  /\ n \in DOMAIN supersededBy
               /\ HappensBefore(supersededBy[n].vclock, m.vclock)
    <3>1. CASE m \in objects
      <4>1. n \in objects
        <5>. SUFFICES ASSUME n \notin objects PROVE FALSE
          OBVIOUS
        <5>1. n.vclock = vclock'
          BY NewMemories
        <5>2. HappensBefore(m.vclock, vclock')
          BY <1>1, <3>1, NewIsLater
        <5>3. m.vclock \in Clock /\ vclock' \in Clock
          BY DEF TypeOK
        <5>. QED  BY <2>3, <5>1, <5>2, <5>3 DEF HappensBefore, Leq, Clock
      <4>. QED  BY <2>3, <3>1, <4>1 DEF NoUnresolvedContradiction
    <3>2. CASE m \notin objects
      <4>1. m.vclock = vclock'
        BY <3>2, NewMemories
      <4>2. n \in objects
        BY <2>3, <4>1, NewMemories DEF HappensBefore
      <4>3. n \in DOMAIN supersededBy
        BY <2>1, <2>3, <3>2, <4>2, PromotionAgrees
      <4>4. supersededBy[n] \in objects
        BY <4>3 DEF SupersessionChains
      <4>. QED  BY <1>1, <4>1, <4>3, <4>4, NewIsLater
    <3>. QED  BY <3>1, <3>2
  <2>. QED  BY <2>2, <2>3 DEF NoUnresolvedContradiction
<1>2. CASE \E old \in objects, c \in Content : Supersede(old, c)
  <2>. PICK old \in objects, c \in Content : Supersede(old, c)  BY <1>2
  <2>1. /\ objects' = objects \union {Successor(old, c)}
        /\ \A o \in DOMAIN supersededBy :
              o \in DOMAIN supersededBy' /\ supersededBy'[o] = supersededBy[o]
    BY DEF Supersede, Store!Supersede, Store!Live
  <2>2. Successor(old, c).supersedes # {} /\ Successor(old, c).vclock = vclock'
    BY DEF Successor, Supersede
  <2>3. ASSUME NEW m \in objects
        PROVE  ~ HappensBefore(Successor(old, c).vclock, m.vclock)
    <3>1. m \in objects' /\ m.vclock \in Clock /\ vclock' \in Clock
      BY <2>1 DEF TypeOK
    <3>2. Leq(m.vclock, vclock')
      BY <3>1 DEF CausalOrder
    <3>. QED  BY <2>2, <3>1, <3>2 DEF HappensBefore, Leq, Clock
  <2>. QED  BY <2>1, <2>2, <2>3 DEF NoUnresolvedContradiction
<1>3. CASE UNCHANGED <<objects, supersededBy>>
  BY <1>3 DEF NoUnresolvedContradiction
<1>4. \/ TickAndPromote \/ Promote
      \/ \E old \in objects, c \in Content : Supersede(old, c)
      \/ UNCHANGED <<objects, supersededBy>>
  BY DEF Calls, vars, Operation, AnyTick, Ingest, IngestAdmit, IngestReinforce, IngestDiscard,
         IngestRefused, Observe, TickOnly, SupersedeRefused, Snapshot, Freeze, Pin,
         Store!RecordVersion
<1>. QED  BY <1>1, <1>2, <1>3, <1>4

\* NoUnresolvedContradiction: a memory that contradicts an earlier one was
\* promoted only after that one had been superseded (PromotionGate.run and the
\* contradiction seam).
THEOREM ContradictionsResolved == Spec => []NoUnresolvedContradiction
<1>. DEFINE Inv == /\ TypeOK /\ CausalOrder /\ SupersessionChains
                  /\ NoUnresolvedContradiction
<1>1. Init => Inv
  <2>. SUFFICES ASSUME Init PROVE Inv
    OBVIOUS
  <2>1. objects = {} /\ DOMAIN supersededBy = {}
    BY DEF Init, Store!StoreInit
  <2>. QED
    BY <2>1, TypeInit DEF CausalOrder, SupersessionChains, NoUnresolvedContradiction
<1>2. Inv /\ [Next]_vars => Inv'
  BY TypeStep, CausalStep, ChainStep, ContradictionStep, NextCalls
<1>. QED  BY <1>1, <1>2, PTL DEF Spec
-----------------------------------------------------------------------------
(***************************************************************************)
(* What the buffer holds                                                   *)
(***************************************************************************)

\* Entries are numbered and dated by events and ticks that have happened.
EntriesArePast ==
    \A e \in DOMAIN buffer :
        buffer[e].pos <= vclock[KernelAgent] /\ buffer[e].at <= tick

\* The record that a step admits: new in the buffer, last in its order, dated
\* now, its own only evidence, and beyond the bar from every other entry.
Admits(r) ==
    /\ r \notin DOMAIN buffer
    /\ DOMAIN buffer' = DOMAIN buffer \union {r}
    /\ \A e \in DOMAIN buffer : buffer'[e] = buffer[e]
    /\ buffer'[r].pos = vclock'[KernelAgent]
    /\ vclock[KernelAgent] < vclock'[KernelAgent]
    /\ buffer'[r].at = tick
    /\ buffer'[r].support = {r}
    /\ tick' = tick
    /\ \A e \in DOMAIN buffer : Scale - Sim[ContentOf[r]][ContentOf[e]] > Theta

\* Every other step keeps some entries, each with its place and its date, and
\* a step that moves the tick keeps none that has reached the TTL.
Keeps ==
    /\ DOMAIN buffer' \subseteq DOMAIN buffer
    /\ \A e \in DOMAIN buffer' :
          /\ buffer'[e].pos = buffer[e].pos
          /\ buffer'[e].at = buffer[e].at
    /\ \/ tick' = tick
       \/ /\ tick' = tick + 1
          /\ \A e \in DOMAIN buffer' : tick' - buffer'[e].at < TTL

\* An ingested record is admitted or leaves places and dates as they are.
LEMMA IngestBuffer ==
    ASSUME TypeOK, NEW r \in Records, NEW rc \in Clock, Ingest(r, rc)
    PROVE  Admits(r) \/ Keeps
<1>. USE ConstantsAssumption DEF TypeOK
<1>0. tick' = tick
  BY DEF Ingest, IngestAdmit, IngestReinforce, IngestDiscard, IngestRefused, Observe
<1>1. CASE IngestAdmit(r, rc)
  <2>1. vclock[KernelAgent] < vclock'[KernelAgent]
    <3>1. rc \in Clock /\ KernelAgent \in Agents
      OBVIOUS
    <3>2. /\ Merge(vclock, rc) \in Clock
          /\ Leq(vclock, Merge(vclock, rc))
      BY <3>1, MergeBounds
    <3>3. vclock' = Tick(Merge(vclock, rc), KernelAgent)
      BY <1>1 DEF IngestAdmit, Observe
    <3>. QED  BY <3>1, <3>2, <3>3, TickAfter
  <2>2. /\ r \notin DOMAIN buffer
        /\ SetEntry(r, [pos |-> vclock'[KernelAgent], at |-> tick, support |-> {r}])
    BY <1>1 DEF IngestAdmit
  <2>3. \A e \in DOMAIN buffer : Scale - Sim[ContentOf[r]][ContentOf[e]] > Theta
    BY <1>1 DEF IngestAdmit, Surprising, Comparanda
  <2>. QED  BY <1>0, <2>1, <2>2, <2>3 DEF Admits, SetEntry
<1>2. CASE IngestReinforce(r, rc)
  <2>1. PICK e \in DOMAIN buffer :
           SetEntry(e, [pos |-> buffer[e].pos, at |-> buffer[e].at,
                        support |-> buffer[e].support \union {r}])
    BY <1>2 DEF IngestReinforce, Reinforced
  <2>. QED  BY <1>0, <2>1 DEF Keeps, SetEntry
<1>3. CASE UNCHANGED buffer
  BY <1>0, <1>3 DEF Keeps
<1>. QED  BY <1>1, <1>2, <1>3 DEF Ingest, IngestDiscard, IngestRefused

\* The same, for every step.
LEMMA BufferSteps ==
    ASSUME TypeOK, [Calls]_vars
    PROVE  (\E r \in Records : Admits(r)) \/ Keeps
<1>1. CASE \E r \in Records, rc \in Clock : Ingest(r, rc)
  BY <1>1, IngestBuffer
<1>2. ASSUME NEW e \in DOMAIN buffer, e \notin Expired
      PROVE  tick + 1 - buffer[e].at < TTL
  BY <1>2, ConstantsAssumption DEF Expired, TypeOK, Entry
<1>0. tick \in Nat /\ \A e \in DOMAIN buffer : buffer[e].at \in Nat
  BY DEF TypeOK, Entry
<1>3. CASE TickOnly
  <2>1. /\ tick' = tick + 1
        /\ DOMAIN buffer' = DOMAIN buffer \ Expired
        /\ \A e \in DOMAIN buffer' : buffer'[e] = buffer[e]
    BY <1>3 DEF TickOnly, Without
  <2>. QED  BY <1>0, <1>2, <2>1 DEF Keeps
<1>4. CASE TickAndPromote
  <2>. DEFINE b == Without(buffer, Expired)
  <2>1. /\ DOMAIN b = DOMAIN buffer \ Expired
        /\ \A e \in DOMAIN b : b[e] = buffer[e]
    BY DEF Without
  <2>2. /\ tick' = tick + 1
        /\ DOMAIN buffer' = DOMAIN b \ Consumed(b)
        /\ \A e \in DOMAIN buffer' : buffer'[e] = b[e]
    BY <1>4 DEF TickAndPromote, RunPromotion, Without
  <2>. HIDE DEF b
  <2>3. /\ DOMAIN buffer' \subseteq DOMAIN buffer \ Expired
        /\ \A e \in DOMAIN buffer' : buffer'[e] = buffer[e]
    BY <2>1, <2>2
  <2>. QED  BY <1>0, <1>2, <2>2, <2>3 DEF Keeps
<1>5. CASE Promote
  BY <1>5 DEF Promote, RunPromotion, Without, Keeps
<1>6. CASE UNCHANGED <<buffer, tick>>
  BY <1>6 DEF Keeps
<1>7. \/ \E r \in Records, rc \in Clock : Ingest(r, rc)
      \/ TickOnly \/ TickAndPromote \/ Promote
      \/ UNCHANGED <<buffer, tick>>
  BY DEF Calls, vars, Operation, AnyTick, Supersede, SupersedeRefused, Snapshot, Freeze, Pin
<1>. QED  BY <1>1, <1>3, <1>4, <1>5, <1>6, <1>7

\* Places and dates stay in the past.
LEMMA PastStep ==
    ASSUME TypeOK, TypeOK', EntriesArePast, [Calls]_vars
    PROVE  EntriesArePast'
<1>1. /\ vclock[KernelAgent] <= vclock'[KernelAgent]
      /\ {vclock[KernelAgent], vclock'[KernelAgent]} \subseteq Nat
  BY ClockMonotonic, ConstantsAssumption DEF TypeOK, Clock, Leq
<1>2. \A e \in DOMAIN buffer : buffer[e].pos \in Nat /\ buffer[e].at \in Nat
  BY DEF TypeOK, Entry
<1>3. CASE \E r \in Records : Admits(r)
  BY <1>1, <1>2, <1>3 DEF EntriesArePast, Admits, TypeOK
<1>4. CASE Keeps
  BY <1>1, <1>2, <1>4 DEF EntriesArePast, Keeps, TypeOK
<1>. QED  BY <1>3, <1>4, BufferSteps

\* Age and order stay consistent.
LEMMA StaleStep ==
    ASSUME TypeOK, TypeOK', EntriesArePast, NoStaleEvidence, [Calls]_vars
    PROVE  NoStaleEvidence'
<1>1. \A e \in DOMAIN buffer : buffer[e].pos \in Nat /\ buffer[e].at \in Nat
  BY DEF TypeOK, Entry
<1>2. tick \in Nat /\ TTL \in Nat \ {0} /\ vclock[KernelAgent] \in Nat /\ vclock'[KernelAgent] \in Nat
  BY ConstantsAssumption DEF TypeOK, Clock
<1>3. CASE \E r \in Records : Admits(r)
  <2>. PICK r \in Records : Admits(r)  BY <1>3
  <2>1. ASSUME NEW e \in DOMAIN buffer
        PROVE  /\ e # r
               /\ buffer'[e] = buffer[e]
               /\ buffer'[e].pos < buffer'[r].pos
               /\ buffer'[e].at <= buffer'[r].at
    BY <1>1, <1>2 DEF EntriesArePast, Admits
  <2>. QED  BY <1>1, <1>2, <2>1 DEF NoStaleEvidence, Admits
<1>4. CASE Keeps
  BY <1>1, <1>2, <1>4 DEF NoStaleEvidence, Keeps
<1>. QED  BY <1>3, <1>4, BufferSteps

\* No two entries come within the surprise bar.
LEMMA RedundancyStep ==
    ASSUME TypeOK, TypeOK', EntriesArePast, RedundancyFree, [Calls]_vars
    PROVE  RedundancyFree'
<1>1. \A e \in DOMAIN buffer : buffer[e].pos \in Nat
  BY DEF TypeOK, Entry
<1>2. vclock[KernelAgent] \in Nat /\ vclock'[KernelAgent] \in Nat
  BY ConstantsAssumption DEF TypeOK, Clock
<1>3. CASE \E r \in Records : Admits(r)
  <2>. PICK r \in Records : Admits(r)  BY <1>3
  <2>1. ASSUME NEW e \in DOMAIN buffer
        PROVE  buffer'[e] = buffer[e] /\ ~ buffer'[r].pos < buffer'[e].pos
    BY <1>1, <1>2 DEF EntriesArePast, Admits
  <2>2. ~ buffer'[r].pos < buffer'[r].pos
    BY <1>2 DEF Admits
  <2>. QED  BY <2>1, <2>2 DEF RedundancyFree, Admits
<1>4. CASE Keeps
  BY <1>4 DEF RedundancyFree, Keeps
<1>. QED  BY <1>3, <1>4, BufferSteps

\* NoStaleEvidence and RedundancyFree: no entry outlives its TTL, the order
\* the gates follow is the order of age, and no two entries come within the
\* surprise bar of each other (buffer.py, SurpriseGate.evaluate).
THEOREM BufferSound == Spec => [](NoStaleEvidence /\ RedundancyFree)
<1>. DEFINE Inv == TypeOK /\ EntriesArePast /\ NoStaleEvidence /\ RedundancyFree
<1>1. Init => Inv
  <2>. SUFFICES ASSUME Init PROVE Inv
    OBVIOUS
  <2>1. DOMAIN buffer = {}
    BY DEF Init
  <2>. QED  BY <2>1, TypeInit DEF EntriesArePast, NoStaleEvidence, RedundancyFree
<1>2. Inv /\ [Next]_vars => Inv'
  BY TypeStep, PastStep, StaleStep, RedundancyStep, NextCalls
<1>. QED  BY <1>1, <1>2, PTL DEF Spec

\* NeverClusters: under a policy whose clustering bar is not below the
\* admission bar, as both shipped policies are, every cluster is one entry
\* (PromotionGate.cluster never merges anything).
THEOREM ClustersAreSingletons == Spec => []NeverClusters
<1>1. TypeOK /\ RedundancyFree => NeverClusters
  <2>. SUFFICES ASSUME TypeOK, RedundancyFree, ClusterSim + Theta >= Scale,
                       NEW s \in DOMAIN buffer, NEW e \in Cluster(buffer, s), e # s
                PROVE  FALSE
    BY DEF NeverClusters, Cluster
  <2>1. e \in DOMAIN buffer /\ SamePattern(e, s) /\ buffer[s].pos < buffer[e].pos
    BY DEF Cluster
  <2>2. Scale - Sim[ContentOf[e]][ContentOf[s]] > Theta
    BY <2>1 DEF RedundancyFree
  <2>3. Sim[ContentOf[e]][ContentOf[s]] >= ClusterSim
    BY <2>1 DEF SamePattern
  <2>4. Sim[ContentOf[e]][ContentOf[s]] \in 0 .. Scale
    BY <2>1, ConstantsAssumption DEF TypeOK
  <2>5. {Scale, Theta, ClusterSim} \subseteq Nat
    BY ConstantsAssumption
  <2>. QED  BY <2>2, <2>3, <2>4, <2>5
<1>. QED  BY <1>1, TypeCorrect, BufferSound, PTL
-----------------------------------------------------------------------------
(***************************************************************************)
(* Evidence                                                                *)
(***************************************************************************)

\* Only records that have been ingested are evidence.
EvidenceFed ==
    /\ \A e \in DOMAIN buffer : buffer[e].support \subseteq fed
    /\ \A m \in Live : m.provenance \subseteq fed

\* An entry is in the cluster of one seed only: of two seeds it resembles, the
\* earlier one takes it.
LEMMA ClustersDisjoint ==
    ASSUME TypeOK, NoStaleEvidence,
           NEW b, DOMAIN b \subseteq DOMAIN buffer, b = [e \in DOMAIN b |-> buffer[e]],
           NEW s \in PromotableSeeds(b), NEW t \in PromotableSeeds(b), s # t
    PROVE  Cluster(b, s) \intersect Cluster(b, t) = {}
<1>1. /\ s \in DOMAIN b /\ s \in Seeds(b)
      /\ t \in DOMAIN b /\ t \in Seeds(b)
  BY DEF PromotableSeeds
<1>2. b[s].pos < b[t].pos \/ b[t].pos < b[s].pos
  <2>1. /\ s \in DOMAIN buffer /\ b[s] = buffer[s]
        /\ t \in DOMAIN buffer /\ b[t] = buffer[t]
    BY <1>1
  <2>2. buffer[s].pos \in Nat /\ buffer[t].pos \in Nat
    BY <2>1 DEF TypeOK, Entry
  <2>3. buffer[s].pos # buffer[t].pos
    BY <2>1 DEF NoStaleEvidence
  <2>. QED  BY <2>1, <2>2, <2>3
<1>. QED  BY <1>1, <1>2 DEF Cluster

\* What a promotion promotes rested on entries that it removes.
LEMMA PromotionEvidence ==
    ASSUME TypeOK, NoStaleEvidence, EvidenceFed, EvidenceUsedOnce,
           NEW b, NEW stamp \in Clock,
           DOMAIN b \subseteq DOMAIN buffer, b = [e \in DOMAIN b |-> buffer[e]],
           RunPromotion(b, stamp), fed' = fed
    PROVE  EvidenceFed' /\ EvidenceUsedOnce'
<1>1. /\ UNCHANGED supersededBy
      /\ DOMAIN buffer' = DOMAIN b \ Consumed(b)
      /\ \A e \in DOMAIN buffer' : e \in DOMAIN buffer /\ buffer'[e] = buffer[e]
  BY PromotionStep
<1>2. ASSUME NEW m \in Live', m \notin Live
      PROVE  \E s \in PromotableSeeds(b) : m.provenance = EvidenceFor(b, s)
  BY <1>1, <1>2, PromotionStep DEF Live, Store!Live, MemoryFrom
<1>3. ASSUME NEW s \in PromotableSeeds(b), NEW r \in EvidenceFor(b, s)
      PROVE  \E e \in Cluster(b, s) :
                 e \in DOMAIN b /\ e \in Consumed(b) /\ r \in buffer[e].support
  <2>1. PICK e \in Cluster(b, s) : r \in b[e].support
    BY DEF EvidenceFor
  <2>2. e \in DOMAIN b
    BY DEF Cluster, PromotableSeeds
  <2>3. e \in Consumed(b)
    BY DEF Consumed
  <2>. QED  BY <2>1, <2>2, <2>3
<1>4. EvidenceFed'
  <2>1. ASSUME NEW m \in Live' PROVE m.provenance \subseteq fed
    BY <1>2, <1>3 DEF EvidenceFed
  <2>. QED  BY <1>1, <2>1 DEF EvidenceFed
<1>5. ASSUME NEW e \in DOMAIN buffer', NEW m \in Live'
      PROVE  buffer'[e].support \intersect m.provenance = {}
  <2>1. CASE m \in Live
    BY <1>1, <2>1 DEF EvidenceUsedOnce
  <2>2. CASE m \notin Live
    <3>1. PICK s \in PromotableSeeds(b) : m.provenance = EvidenceFor(b, s)
      BY <1>2, <2>2
    <3>. QED  BY <1>1, <1>3, <3>1 DEF EvidenceUsedOnce
  <2>. QED  BY <2>1, <2>2
<1>6. ASSUME NEW m \in Live', NEW n \in Live', m \in Live, n \notin Live
      PROVE  m.provenance \intersect n.provenance = {}
  <2>1. PICK s \in PromotableSeeds(b) : n.provenance = EvidenceFor(b, s)
    BY <1>2, <1>6
  <2>. QED  BY <1>3, <1>6, <2>1 DEF EvidenceUsedOnce
<1>7. ASSUME NEW m \in Live', NEW n \in Live', m \notin Live, n \notin Live, m # n
      PROVE  m.provenance \intersect n.provenance = {}
  <2>1. PICK s \in PromotableSeeds(b), t \in PromotableSeeds(b) :
           m = MemoryFrom(b, s, stamp) /\ n = MemoryFrom(b, t, stamp)
    BY <1>1, <1>7, PromotionStep DEF Live, Store!Live
  <2>2. s # t
    BY <1>7, <2>1
  <2>3. Cluster(b, s) \intersect Cluster(b, t) = {}
    BY <2>2, ClustersDisjoint
  <2>4. m.provenance = EvidenceFor(b, s) /\ n.provenance = EvidenceFor(b, t)
    BY <2>1 DEF MemoryFrom
  <2>. QED  BY <1>3, <2>3, <2>4 DEF EvidenceUsedOnce
<1>8. ASSUME NEW m \in Live', NEW n \in Live', m # n
      PROVE  m.provenance \intersect n.provenance = {}
  BY <1>6, <1>7, <1>8 DEF EvidenceUsedOnce
<1>. QED  BY <1>1, <1>4, <1>5, <1>8 DEF EvidenceUsedOnce

\* Ingesting a record that was not ingested before gives it one use at most.
LEMMA IngestEvidence ==
    ASSUME TypeOK, EvidenceFed, EvidenceUsedOnce,
           NEW r \in Records \ fed, NEW rc \in Clock, Ingest(r, rc)
    PROVE  EvidenceFed' /\ EvidenceUsedOnce'
<1>1. Live' = Live /\ fed' = fed \union {r}
  BY DEF Ingest, IngestAdmit, IngestReinforce, IngestDiscard, IngestRefused, Observe,
         Live, Store!Live
<1>2. \A e \in DOMAIN buffer : r \notin buffer[e].support
  BY DEF EvidenceFed
<1>3. \A m \in Live : r \notin m.provenance
  BY DEF EvidenceFed
<1>4. CASE IngestAdmit(r, rc)
  <2>1. /\ DOMAIN buffer' = DOMAIN buffer \union {r}
        /\ r \notin DOMAIN buffer
        /\ buffer'[r].support = {r}
        /\ \A e \in DOMAIN buffer : buffer'[e] = buffer[e]
    BY <1>4 DEF IngestAdmit, SetEntry
  <2>. QED  BY <1>1, <1>2, <1>3, <2>1 DEF EvidenceFed, EvidenceUsedOnce
<1>5. CASE IngestReinforce(r, rc)
  <2>1. PICK f \in DOMAIN buffer :
           SetEntry(f, [pos |-> buffer[f].pos, at |-> buffer[f].at,
                        support |-> buffer[f].support \union {r}])
    BY <1>5 DEF IngestReinforce, Reinforced
  <2>2. /\ DOMAIN buffer' = DOMAIN buffer
        /\ buffer'[f].support = buffer[f].support \union {r}
        /\ \A e \in DOMAIN buffer : e # f => buffer'[e] = buffer[e]
    BY <2>1 DEF SetEntry
  <2>. QED  BY <1>1, <1>2, <1>3, <2>2 DEF EvidenceFed, EvidenceUsedOnce
<1>6. CASE UNCHANGED buffer
  BY <1>1, <1>6 DEF EvidenceFed, EvidenceUsedOnce
<1>. QED  BY <1>4, <1>5, <1>6 DEF Ingest, IngestDiscard, IngestRefused

\* Every step keeps evidence to one use.
LEMMA EvidenceStep ==
    ASSUME TypeOK, NoStaleEvidence, CausalOrder, EvidenceFed, EvidenceUsedOnce, [FreshCalls]_vars
    PROVE  EvidenceFed' /\ EvidenceUsedOnce'
<1>1. CASE \E r \in Records \ fed, rc \in Clock : Ingest(r, rc)
  BY <1>1, IngestEvidence
<1>2. CASE TickOnly
  <2>1. /\ \A e \in DOMAIN buffer' : e \in DOMAIN buffer /\ buffer'[e] = buffer[e]
        /\ Live' = Live /\ fed' = fed
    BY <1>2 DEF TickOnly, Without, Live, Store!Live
  <2>. QED  BY <2>1 DEF EvidenceFed, EvidenceUsedOnce
<1>3. CASE TickAndPromote
  <2>. DEFINE b == Without(buffer, Expired)
              stamp == Tick(Tick(vclock, KernelAgent), Approver)
  <2>1. RunPromotion(b, stamp) /\ fed' = fed
    BY <1>3 DEF TickAndPromote
  <2>2. DOMAIN b \subseteq DOMAIN buffer /\ b = [e \in DOMAIN b |-> buffer[e]]
    BY DEF Without
  <2>3. stamp \in Clock
    BY TickAdvances, ConstantsAssumption DEF TypeOK
  <2>. HIDE DEF b, stamp
  <2>. QED  BY <2>1, <2>2, <2>3, PromotionEvidence
<1>4. CASE Promote
  <2>. DEFINE stamp == Tick(vclock, Approver)
  <2>1. RunPromotion(buffer, stamp) /\ fed' = fed
    BY <1>4 DEF Promote
  <2>2. buffer = [e \in DOMAIN buffer |-> buffer[e]]
    BY DEF TypeOK
  <2>3. stamp \in Clock
    BY TickAdvances, ConstantsAssumption DEF TypeOK
  <2>. HIDE DEF stamp
  <2>. QED  BY <2>1, <2>2, <2>3, PromotionEvidence
<1>5. CASE \E old \in objects, c \in Content : Supersede(old, c)
  <2>. PICK old \in objects, c \in Content : Supersede(old, c)  BY <1>5
  <2>. DEFINE new == Successor(old, c)
  <2>1. old \in Live /\ Live' \subseteq (Live \ {old}) \union {new}
    BY DEF Supersede, Store!Supersede, Live, Store!Live
  <2>2. new.provenance = old.provenance
    BY DEF Successor
  <2>3. UNCHANGED <<buffer, fed>>
    BY DEF Supersede
  <2>. HIDE DEF new
  <2>. QED  BY <2>1, <2>2, <2>3 DEF EvidenceFed, EvidenceUsedOnce
<1>6. CASE UNCHANGED <<buffer, objects, supersededBy, fed>>
  BY <1>6 DEF EvidenceFed, EvidenceUsedOnce, Live, Store!Live
<1>7. \/ \E r \in Records \ fed, rc \in Clock : Ingest(r, rc)
      \/ TickOnly \/ TickAndPromote \/ Promote
      \/ \E old \in objects, c \in Content : Supersede(old, c)
      \/ UNCHANGED <<buffer, objects, supersededBy, fed>>
  BY DEF FreshCalls, vars, Operation, AnyTick, SupersedeRefused, Snapshot, Freeze, Pin, Store!RecordVersion
<1>. QED  BY <1>1, <1>2, <1>3, <1>4, <1>5, <1>6, <1>7

\* EvidenceUsedOnce: no record is counted towards two beliefs, nor kept as
\* evidence for a second one after the first was promoted (_promote and
\* EpisodicBuffer).
THEOREM EvidenceCountedOnce == Spec => []EvidenceUsedOnce
<1>. DEFINE Inv == EvidenceFed /\ EvidenceUsedOnce
<1>1. Init => Inv
  BY DEF Init, Store!StoreInit, Live, Store!Live, EvidenceFed, EvidenceUsedOnce
<1>2. TypeOK /\ NoStaleEvidence /\ CausalOrder /\ Inv /\ [Next]_vars => Inv'
  BY EvidenceStep, NextCalls
<1>. QED  BY <1>1, <1>2, TypeCorrect, BufferSound, MemoryCausality, PTL DEF Spec
-----------------------------------------------------------------------------
(***************************************************************************)
(* The invariants together, for a driver with a specification of its own   *)
(***************************************************************************)
KernelInv ==
    /\ TypeOK
    /\ CausalOrder /\ SupersessionChains /\ NoUnresolvedContradiction
    /\ EntriesArePast /\ NoStaleEvidence /\ RedundancyFree

LEMMA KernelStarts ==
    ASSUME Init
    PROVE  KernelInv /\ EvidenceFed /\ EvidenceUsedOnce
<1>1. DOMAIN buffer = {} /\ objects = {} /\ DOMAIN supersededBy = {}
  BY DEF Init, Store!StoreInit
<1>2. Live = {}
  BY <1>1 DEF Live, Store!Live
<1>. QED
  BY <1>1, <1>2, TypeInit
     DEF KernelInv, CausalOrder, SupersessionChains, NoUnresolvedContradiction, EntriesArePast,
         NoStaleEvidence, RedundancyFree, EvidenceFed, EvidenceUsedOnce

LEMMA KernelStep ==
    ASSUME KernelInv, [Calls]_vars
    PROVE  KernelInv'
<1>1. TypeOK' /\ CausalOrder'
  BY TypeStep, CausalStep DEF KernelInv
<1>2. SupersessionChains' /\ NoUnresolvedContradiction'
  BY <1>1, ChainStep, ContradictionStep DEF KernelInv
<1>3. EntriesArePast' /\ NoStaleEvidence' /\ RedundancyFree'
  BY <1>1, PastStep, StaleStep, RedundancyStep DEF KernelInv
<1>. QED  BY <1>1, <1>2, <1>3 DEF KernelInv

\* A record that comes again may be refused after the clock was merged and
\* ticked: types, causal order, chains, contradictions and the order and age of
\* the buffer are as in a stream without repetitions.  Of the invariants only
\* the count of evidence needs ids that come once (EpisodicBuffer.add, reinforce
\* and ingest).
THEOREM RepetitionIsHarmless ==
    SpecRepeating =>
        [](/\ TypeOK /\ CausalOrder /\ SupersessionChains /\ NoUnresolvedContradiction
           /\ NoStaleEvidence /\ RedundancyFree)
<1>1. Init => KernelInv
  BY KernelStarts
<1>2. KernelInv /\ [NextRepeating]_vars => KernelInv'
  BY KernelStep, RepeatingCalls
<1>. QED  BY <1>1, <1>2, PTL DEF SpecRepeating, KernelInv
-----------------------------------------------------------------------------
(***************************************************************************)
(* Refinement of Beliefs                                                   *)
(***************************************************************************)

\* A promotion run acquires beliefs that were never given up.
LEMMA PromotionLearns ==
    ASSUME NEW b, NEW stamp, RunPromotion(b, stamp), ~ frozen,
           UNCHANGED <<pinned, frozen>>
    PROVE  Promise!Learn
  BY DEF RunPromotion, Store!PutAll, Promise!Learn, Live, Store!Live, Visible, Store!At

\* Superseding gives one belief up for a new one.
LEMMA SupersedeRevises ==
    ASSUME TypeOK, CausalOrder, SupersessionChains,
           NEW old \in objects, NEW c \in Content, Supersede(old, c)
    PROVE  Promise!Revise
<1>. DEFINE new == Successor(old, c)
<1>1. /\ old \in Live
      /\ objects' = objects \union {new}
      /\ DOMAIN supersededBy' = DOMAIN supersededBy \union {old}
  BY DEF Supersede, Store!Supersede, Live, Store!Live
<1>2. new \notin objects /\ new \notin DOMAIN supersededBy
  BY SuccessorIsNew DEF TypeOK
<1>3. UNCHANGED <<versions, pinned, frozen>>
  BY DEF Supersede, Store!Supersede
<1>. HIDE DEF new
<1>4. /\ Live' = (Live \ {old}) \union {new}
      /\ new \in Live' \ (Live \union DOMAIN supersededBy)
  BY <1>1, <1>2 DEF Live, Store!Live
<1>5. Visible' = Visible
  BY <1>3 DEF Visible, Store!At
<1>. QED  BY <1>1, <1>3, <1>4, <1>5 DEF Promise!Revise

\* Every kernel step is a step of the promise, or changes nothing it speaks of.
LEMMA PromiseStep ==
    ASSUME TypeOK, CausalOrder, SupersessionChains, [Calls]_vars
    PROVE  Promise!Next \/ UNCHANGED Promise!beliefVars
<1>1. CASE TickAndPromote \/ Promote
  BY <1>1, PromotionLearns DEF TickAndPromote, Promote, Promise!Next
<1>2. CASE \E old \in objects, c \in Content : Supersede(old, c)
  BY <1>2, SupersedeRevises DEF Promise!Next
<1>3. CASE Snapshot
  BY <1>3 DEF Snapshot, Store!RecordVersion, Promise!Next, Promise!Save,
              Live, Store!Live, Visible, Store!At
<1>4. CASE Freeze
  BY <1>4 DEF Freeze, Store!RecordVersion, Promise!Next, Promise!Close,
              Live, Store!Live, Visible, Store!At
<1>5. CASE Pin({}) \/ \E v \in versions : Pin({v})
  <2>1. Visible' \in versions \union {{}}
    BY <1>5 DEF Pin, Visible, Store!At
  <2>. QED  BY <1>5, <2>1 DEF Pin, Promise!Next, Promise!Show, Live, Store!Live
<1>6. CASE UNCHANGED <<objects, supersededBy, versions, pinned, frozen>>
  BY <1>6 DEF Promise!beliefVars, Live, Store!Live, Visible, Store!At
<1>7. \/ TickAndPromote \/ Promote
      \/ \E old \in objects, c \in Content : Supersede(old, c)
      \/ Snapshot \/ Freeze
      \/ Pin({}) \/ \E v \in versions : Pin({v})
      \/ UNCHANGED <<objects, supersededBy, versions, pinned, frozen>>
  BY DEF Calls, vars, Operation, AnyTick, Ingest, IngestAdmit, IngestReinforce, IngestDiscard,
         IngestRefused, Observe, TickOnly, SupersedeRefused
<1>. QED  BY <1>1, <1>2, <1>3, <1>4, <1>5, <1>6, <1>7

\* ImplementsBeliefs: the kernel, its gates, clocks and content-addressed store
\* included, shows its readers exactly what module Beliefs promises them.
THEOREM KernelImplementsBeliefs == Spec => ImplementsBeliefs
<1>1. Init => Promise!Init
  BY DEF Init, Store!StoreInit, Promise!Init, Live, Store!Live, Visible, Store!At
<1>2. TypeOK /\ CausalOrder /\ SupersessionChains /\ [Next]_vars
         => [Promise!Next]_(Promise!beliefVars)
  BY PromiseStep, NextCalls
<1>. QED
  BY <1>1, <1>2, TypeCorrect, MemoryCausality, PTL DEF Spec, ImplementsBeliefs, Promise!Spec
-----------------------------------------------------------------------------
(***************************************************************************)
(* Evidence, counted                                                       *)
(***************************************************************************)

\* A record supports one entry only, so that the occurrences that the gate
\* counts, pairs of an entry and a record, are as many as the records.
LEMMA OccurrencesAreRecords ==
    ASSUME TypeOK, EvidenceFed, EvidenceUsedOnce, IsFiniteSet(fed),
           NEW b, DOMAIN b \subseteq DOMAIN buffer, b = [e \in DOMAIN b |-> buffer[e]],
           NEW s \in DOMAIN b
    PROVE  Cardinality(EvidenceFor(b, s)) = Cardinality(Occurrences(b, s))
<1>. DEFINE O == Occurrences(b, s)
            E == EvidenceFor(b, s)
            F == [o \in O |-> o[2]]
<1>1. ASSUME NEW e \in Cluster(b, s)
      PROVE  e \in DOMAIN b /\ b[e] = buffer[e] /\ e \in DOMAIN buffer
  BY DEF Cluster
<1>2. ASSUME NEW o \in O
      PROVE  /\ o = <<o[1], o[2]>>
             /\ o[1] \in Cluster(b, s) /\ o[2] \in Eligible /\ o[2] \in b[o[1]].support
  BY DEF Occurrences
<1>3. F \in [O -> E]
  <2>1. \A o \in O : o[2] \in E
    BY <1>2 DEF EvidenceFor
  <2>. HIDE DEF O, E
  <2>. QED  BY <2>1
<1>4. ASSUME NEW o \in O, NEW p \in O, F[o] = F[p]
      PROVE  o = p
  <2>1. o[2] = p[2]
    BY <1>4
  <2>2. /\ o[1] \in DOMAIN buffer /\ o[2] \in buffer[o[1]].support
        /\ p[1] \in DOMAIN buffer /\ p[2] \in buffer[p[1]].support
    BY <1>1, <1>2
  <2>3. o[1] = p[1]
    BY <2>1, <2>2 DEF EvidenceUsedOnce
  <2>. QED  BY <1>2, <2>1, <2>3
<1>5. ASSUME NEW r \in E
      PROVE  \E o \in O : F[o] = r
  <2>1. PICK e \in Cluster(b, s) : r \in b[e].support /\ r \in Eligible
    BY DEF EvidenceFor
  <2>2. <<e, r>> \in O
    BY <2>1 DEF Occurrences
  <2>3. F[<<e, r>>] = r
    BY <2>2
  <2>. QED  BY <2>2, <2>3
<1>6. IsFiniteSet(E)
  <2>1. E \subseteq fed
    BY <1>1 DEF EvidenceFor, EvidenceFed
  <2>. QED  BY <2>1, FS_Subset
<1>. HIDE DEF O, E, F
<1>7. F \in Injection(O, E) /\ F \in Surjection(O, E)
  BY <1>3, <1>4, <1>5, Fun_IsInj, Fun_IsSurj
<1>8. Cardinality(O) = Cardinality(E)
  BY <1>6, <1>7, FS_Injection
<1>. QED  BY <1>8 DEF O, E

\* What a run promotes rests on enough evidence.
LEMMA PromotedSuffices ==
    ASSUME TypeOK, EvidenceFed, EvidenceUsedOnce, IsFiniteSet(fed), EvidenceSuffices,
           NEW b, DOMAIN b \subseteq DOMAIN buffer, b = [e \in DOMAIN b |-> buffer[e]],
           NEW stamp \in Clock, RunPromotion(b, stamp)
    PROVE  EvidenceSuffices'
<1>1. ASSUME NEW m \in objects', m \notin objects
      PROVE  /\ m.provenance \subseteq Eligible
             /\ Cardinality(m.provenance) >= MinOccurrences
             /\ Cardinality({InputOf[r] : r \in m.provenance}) >= MinInputs
             /\ SeparateDuties => \A r \in m.provenance : AgentOf[r] # Approver
  <2>1. PICK s \in PromotableSeeds(b) : m = MemoryFrom(b, s, stamp)
    BY <1>1, PromotionStep
  <2>2. m.provenance = EvidenceFor(b, s)
    BY <2>1 DEF MemoryFrom
  <2>3. s \in DOMAIN b /\ Promotable(b, s)
    BY DEF PromotableSeeds
  <2>4. EvidenceFor(b, s) \subseteq Eligible
    BY DEF EvidenceFor
  <2>5. Cardinality(EvidenceFor(b, s)) >= MinOccurrences
    BY <2>3, OccurrencesAreRecords DEF Promotable
  <2>. QED  BY <2>2, <2>3, <2>4, <2>5 DEF Promotable
<1>. QED  BY <1>1 DEF EvidenceSuffices

\* Every step keeps what memories rest on sufficient, and ingests at most one
\* record.
LEMMA SufficesStep ==
    ASSUME TypeOK, EvidenceFed, EvidenceUsedOnce, IsFiniteSet(fed), EvidenceSuffices,
           [FreshCalls]_vars
    PROVE  EvidenceSuffices' /\ IsFiniteSet(fed')
<1>1. CASE \E r \in Records \ fed, rc \in Clock : Ingest(r, rc)
  <2>1. PICK r \in Records : fed' = fed \union {r}
    BY <1>1 DEF Ingest, IngestAdmit, IngestReinforce, IngestDiscard, IngestRefused, Observe
  <2>2. UNCHANGED objects
    BY <1>1 DEF Ingest, IngestAdmit, IngestReinforce, IngestDiscard, IngestRefused, Observe
  <2>. QED  BY <2>1, <2>2, FS_AddElement DEF EvidenceSuffices
<1>2. CASE TickAndPromote
  <2>. DEFINE b == Without(buffer, Expired)
              stamp == Tick(Tick(vclock, KernelAgent), Approver)
  <2>1. RunPromotion(b, stamp) /\ fed' = fed
    BY <1>2 DEF TickAndPromote
  <2>2. DOMAIN b \subseteq DOMAIN buffer /\ b = [e \in DOMAIN b |-> buffer[e]]
    BY DEF Without
  <2>3. stamp \in Clock
    BY TickAdvances, ConstantsAssumption DEF TypeOK
  <2>. HIDE DEF b, stamp
  <2>. QED  BY <2>1, <2>2, <2>3, PromotedSuffices
<1>3. CASE Promote
  <2>. DEFINE stamp == Tick(vclock, Approver)
  <2>1. RunPromotion(buffer, stamp) /\ fed' = fed
    BY <1>3 DEF Promote
  <2>2. buffer = [e \in DOMAIN buffer |-> buffer[e]]
    BY DEF TypeOK
  <2>3. stamp \in Clock
    BY TickAdvances, ConstantsAssumption DEF TypeOK
  <2>. HIDE DEF stamp
  <2>. QED  BY <2>1, <2>2, <2>3, PromotedSuffices
<1>4. CASE \E old \in objects, c \in Content : Supersede(old, c)
  <2>. PICK old \in objects, c \in Content : Supersede(old, c)  BY <1>4
  <2>1. objects' = objects \union {Successor(old, c)} /\ UNCHANGED fed
    BY DEF Supersede, Store!Supersede
  <2>2. Successor(old, c).provenance = old.provenance
    BY DEF Successor
  <2>. HIDE DEF Successor
  <2>. QED  BY <2>1, <2>2 DEF EvidenceSuffices
<1>5. CASE UNCHANGED <<objects, fed>>
  BY <1>5 DEF EvidenceSuffices
<1>6. \/ \E r \in Records \ fed, rc \in Clock : Ingest(r, rc)
      \/ TickAndPromote \/ Promote
      \/ \E old \in objects, c \in Content : Supersede(old, c)
      \/ UNCHANGED <<objects, fed>>
  BY DEF FreshCalls, vars, Operation, AnyTick, TickOnly, SupersedeRefused, Snapshot, Freeze, Pin,
         Store!RecordVersion
<1>. QED  BY <1>1, <1>2, <1>3, <1>4, <1>5, <1>6

\* EvidenceSuffices and DistinctOccurrences: the gate counts pairs of an entry
\* and a record, and yet every memory rests on as many distinct records as the
\* policy asks for occurrences, from enough inputs, none from the approver
\* (PromotionGate.evaluate_cluster).
THEOREM EvidenceIsSufficient == Spec => [](EvidenceSuffices /\ DistinctOccurrences)
<1>. DEFINE Inv == EvidenceFed /\ EvidenceSuffices /\ IsFiniteSet(fed)
<1>1. Init => Inv
  BY FS_EmptySet DEF Init, Store!StoreInit, Live, Store!Live, EvidenceFed, EvidenceSuffices
<1>2. TypeOK /\ NoStaleEvidence /\ CausalOrder /\ EvidenceUsedOnce /\ Inv /\ [Next]_vars => Inv'
  BY EvidenceStep, SufficesStep, NextCalls
<1>3. EvidenceSuffices => DistinctOccurrences
  BY DEF EvidenceSuffices, DistinctOccurrences
<1>. QED
  BY <1>1, <1>2, <1>3, TypeCorrect, BufferSound, MemoryCausality, EvidenceCountedOnce, PTL
     DEF Spec
-----------------------------------------------------------------------------
(***************************************************************************)
(* Freezing                                                                *)
(***************************************************************************)

\* FrozenLearnsNothing: a frozen kernel stays frozen, promotes nothing, on
\* schedule or on demand, and gains only successors that rest on what the
\* memory they replace rested on (tick, promote and supersede).
THEOREM FreezeEndsLearning == Spec => FrozenLearnsNothing
<1>. DEFINE Step == frozen => /\ frozen'
                              /\ \A m \in objects' \ objects :
                                    \E o \in m.supersedes :
                                        o \in objects /\ m.provenance = o.provenance
<1>1. ASSUME TypeOK, [Next]_vars, frozen
      PROVE  Step
  <2>1. CASE \E old \in objects, c \in Content : Supersede(old, c)
    <3>. PICK old \in objects, c \in Content : Supersede(old, c)  BY <2>1
    <3>1. objects' = objects \union {Successor(old, c)} /\ UNCHANGED frozen
      BY DEF Supersede, Store!Supersede
    <3>2. Successor(old, c).supersedes = {old} /\ Successor(old, c).provenance = old.provenance
      BY DEF Successor
    <3>. HIDE DEF Successor
    <3>. QED  BY <1>1, <3>1, <3>2
  <2>2. CASE frozen' /\ UNCHANGED objects
    BY <2>2
  <2>3. \/ \E old \in objects, c \in Content : Supersede(old, c)
        \/ frozen' /\ UNCHANGED objects
    BY <1>1 DEF Next, vars, Operation, AnyTick, Ingest, IngestAdmit, IngestReinforce,
                IngestDiscard, IngestRefused, Observe, TickOnly, TickAndPromote, Promote,
                SupersedeRefused, Snapshot, Freeze, Pin, Store!RecordVersion
  <2>. QED  BY <2>1, <2>2, <2>3
<1>2. TypeOK /\ [Next]_vars => [Step]_vars
  BY <1>1
<1>. QED  BY <1>2, TypeCorrect, PTL DEF Spec, FrozenLearnsNothing
-----------------------------------------------------------------------------
(***************************************************************************)
(* The clustering pass.  Kernel says by its outcome what the code computes *)
(* in one pass over the entries: which of them seed a cluster.  That there *)
(* is one such outcome, for every part of the buffer that a step may leave, *)
(* is an invariant of the buffer.                                          *)
(***************************************************************************)

\* An earlier entry that resembles e keeps it from seeding a cluster, if it
\* seeds one itself.
Claims(s, e) == buffer[s].pos < buffer[e].pos /\ SamePattern(e, s)

\* S is the outcome of the pass over the entries of D.
SeedSet(S, D) ==
    /\ S \subseteq D
    /\ \A e \in D : e \in S <=> ~ \E s \in S : Claims(s, e)

SeedsDetermined ==
    \A D \in SUBSET DOMAIN buffer :
        /\ \E S \in SUBSET D : SeedSet(S, D)
        /\ \A S, T \in SUBSET D : SeedSet(S, D) /\ SeedSet(T, D) => S = T

\* Any entries have one that came before the others.
HasFirst ==
    \A D \in SUBSET DOMAIN buffer :
        D # {} => \E f \in D : \A e \in D : buffer[f].pos <= buffer[e].pos

\* An admitted entry comes last: it claims none of the others, and seeds a
\* cluster if none of their seeds claims it.
LEMMA AdmittedSeeds ==
    ASSUME TypeOK, EntriesArePast, SeedsDetermined, HasFirst,
           vclock[KernelAgent] \in Nat, vclock'[KernelAgent] \in Nat,
           NEW r \in Records, Admits(r)
    PROVE  SeedsDetermined' /\ HasFirst'
<1>1. ASSUME NEW e \in DOMAIN buffer
      PROVE  /\ e # r /\ buffer'[e] = buffer[e]
             /\ buffer[e].pos \in Nat
             /\ buffer'[e].pos < buffer'[r].pos
  BY DEF Admits, EntriesArePast, TypeOK, Entry
<1>2. DOMAIN buffer' = DOMAIN buffer \union {r} /\ buffer'[r].pos \in Nat
  BY DEF Admits
<1>3. ASSUME NEW e \in DOMAIN buffer, NEW f \in DOMAIN buffer
      PROVE  Claims(e, f)' <=> Claims(e, f)
  BY <1>1 DEF Claims, SamePattern
<1>4. ASSUME NEW e \in DOMAIN buffer'
      PROVE  ~ Claims(r, e)'
  BY <1>1, <1>2 DEF Claims
<1>5. ASSUME NEW D \in SUBSET DOMAIN buffer, NEW S \in SUBSET D
      PROVE  SeedSet(S, D)' <=> SeedSet(S, D)
  BY <1>3 DEF SeedSet
<1>6. ASSUME NEW D \in SUBSET DOMAIN buffer', r \in D, NEW S \in SUBSET D
      PROVE  SeedSet(S, D)' <=>
                 /\ SeedSet(S \ {r}, D \ {r})
                 /\ r \in S <=> ~ \E s \in S \ {r} : Claims(s, r)'
  <2>1. \A e \in D \ {r} :
            (\E s \in S : Claims(s, e)') <=> (\E s \in S \ {r} : Claims(s, e))
    BY <1>2, <1>3, <1>4, <1>6
  <2>2. (\E s \in S : Claims(s, r)') <=> (\E s \in S \ {r} : Claims(s, r)')
    BY <1>2, <1>4
  <2>. QED  BY <1>6, <2>1, <2>2 DEF SeedSet
<1>7. ASSUME NEW D \in SUBSET DOMAIN buffer'
      PROVE  /\ \E S \in SUBSET D : SeedSet(S, D)'
             /\ \A S, T \in SUBSET D : SeedSet(S, D)' /\ SeedSet(T, D)' => S = T
  <2>1. CASE r \notin D
    <3>1. D \in SUBSET DOMAIN buffer
      BY <1>2, <2>1
    <3>. QED  BY <1>5, <3>1 DEF SeedsDetermined
  <2>2. CASE r \in D
    <3>. DEFINE D0 == D \ {r}
    <3>1. D0 \in SUBSET DOMAIN buffer
      BY <1>2
    <3>2. PICK S0 \in SUBSET D0 : SeedSet(S0, D0)
      BY <3>1 DEF SeedsDetermined
    <3>3. \E S \in SUBSET D : SeedSet(S, D)'
      <4>1. CASE \E s \in S0 : Claims(s, r)'
        <5>1. S0 \in SUBSET D /\ S0 \ {r} = S0 /\ r \notin S0
          OBVIOUS
        <5>2. SeedSet(S0, D)'
          BY <1>6, <2>2, <3>2, <4>1, <5>1
        <5>. QED  BY <5>1, <5>2
      <4>2. CASE ~ \E s \in S0 : Claims(s, r)'
        <5>. DEFINE S == S0 \union {r}
        <5>1. S \in SUBSET D /\ S \ {r} = S0 /\ r \in S
          BY <2>2
        <5>2. SeedSet(S, D)'
          BY <1>6, <2>2, <3>2, <4>2, <5>1
        <5>. QED  BY <5>1, <5>2
      <4>. QED  BY <4>1, <4>2
    <3>4. ASSUME NEW S \in SUBSET D, NEW T \in SUBSET D, SeedSet(S, D)', SeedSet(T, D)'
          PROVE  S = T
      <4>1. S \ {r} = T \ {r}
        <5>1. SeedSet(S \ {r}, D0) /\ SeedSet(T \ {r}, D0)
          BY <1>6, <2>2, <3>4
        <5>2. S \ {r} \in SUBSET D0 /\ T \ {r} \in SUBSET D0
          OBVIOUS
        <5>. HIDE DEF D0
        <5>. QED  BY <3>1, <5>1, <5>2 DEF SeedsDetermined
      <4>2. r \in S <=> r \in T
        BY <1>6, <2>2, <3>4, <4>1
      <4>. QED  BY <4>1, <4>2
    <3>. QED  BY <3>3, <3>4
  <2>. QED  BY <2>1, <2>2
<1>8. ASSUME NEW D \in SUBSET DOMAIN buffer', D # {}
      PROVE  \E f \in D : \A e \in D : buffer'[f].pos <= buffer'[e].pos
  <2>1. CASE D = {r}
    BY <1>2, <2>1
  <2>2. CASE D # {r}
    <3>1. D \ {r} \in SUBSET DOMAIN buffer /\ D \ {r} # {}
      BY <1>2, <1>8, <2>2
    <3>2. PICK f \in D \ {r} : \A e \in D \ {r} : buffer[f].pos <= buffer[e].pos
      BY <3>1 DEF HasFirst
    <3>3. f \in DOMAIN buffer
      BY <1>2
    <3>4. ASSUME NEW e \in D
          PROVE  buffer'[f].pos <= buffer'[e].pos
      <4>1. CASE e = r
        BY <1>1, <1>2, <3>3, <4>1
      <4>2. CASE e # r
        <5>1. e \in DOMAIN buffer
          BY <1>2, <4>2
        <5>. QED  BY <1>1, <3>2, <3>3, <4>2, <5>1
      <4>. QED  BY <4>1, <4>2
    <3>. QED  BY <3>4
  <2>. QED  BY <2>1, <2>2
<1>. QED  BY <1>7, <1>8 DEF SeedsDetermined, HasFirst

\* Every step leaves the pass determined.
LEMMA SeedsStep ==
    ASSUME TypeOK, EntriesArePast, SeedsDetermined, HasFirst, TypeOK', [Calls]_vars
    PROVE  SeedsDetermined' /\ HasFirst'
<1>1. vclock[KernelAgent] \in Nat /\ vclock'[KernelAgent] \in Nat
  BY ConstantsAssumption DEF TypeOK, Clock
<1>2. CASE \E r \in Records : Admits(r)
  BY <1>1, <1>2, AdmittedSeeds
<1>3. CASE Keeps
  <2>1. /\ DOMAIN buffer' \subseteq DOMAIN buffer
        /\ \A e \in DOMAIN buffer' : buffer'[e].pos = buffer[e].pos
    BY <1>3 DEF Keeps
  <2>2. ASSUME NEW e \in DOMAIN buffer', NEW f \in DOMAIN buffer'
        PROVE  Claims(e, f)' <=> Claims(e, f)
    BY <2>1 DEF Claims, SamePattern
  <2>3. ASSUME NEW D \in SUBSET DOMAIN buffer', NEW S \in SUBSET D
        PROVE  SeedSet(S, D)' <=> SeedSet(S, D)
    BY <2>2 DEF SeedSet
  <2>4. SeedsDetermined'
    BY <2>1, <2>3 DEF SeedsDetermined
  <2>5. HasFirst'
    BY <2>1 DEF HasFirst
  <2>. QED  BY <2>4, <2>5
<1>. QED  BY <1>2, <1>3, BufferSteps

\* Seeds is the outcome of the pass over a part of the buffer, and the only one.
LEMMA SeedsOf ==
    ASSUME SeedsDetermined,
           NEW b, DOMAIN b \subseteq DOMAIN buffer, b = [e \in DOMAIN b |-> buffer[e]]
    PROVE  /\ SeedSet(Seeds(b), DOMAIN b)
           /\ \A S \in SUBSET DOMAIN b : SeedSet(S, DOMAIN b) => S = Seeds(b)
<1>. DEFINE P(S) == \A e \in DOMAIN b :
                        e \in S <=> ~ \E s \in S : b[s].pos < b[e].pos /\ SamePattern(e, s)
<1>1. ASSUME NEW S \in SUBSET DOMAIN b
      PROVE  SeedSet(S, DOMAIN b) <=> P(S)
  <2>1. \A e \in DOMAIN b : b[e] = buffer[e]
    OBVIOUS
  <2>. QED  BY <2>1 DEF SeedSet, Claims
<1>2. PICK S \in SUBSET DOMAIN b : SeedSet(S, DOMAIN b)
  BY DEF SeedsDetermined
<1>3. P(S)
  BY <1>1, <1>2
<1>4. Seeds(b) = CHOOSE T \in SUBSET DOMAIN b : P(T)
  BY DEF Seeds
<1>. HIDE DEF P
<1>5. Seeds(b) \in SUBSET DOMAIN b /\ P(Seeds(b))
  BY <1>3, <1>4
<1>6. SeedSet(Seeds(b), DOMAIN b)
  BY <1>1, <1>5
<1>. QED  BY <1>5, <1>6 DEF SeedsDetermined
-----------------------------------------------------------------------------
(***************************************************************************)
(* What a promotion run leaves                                             *)
(***************************************************************************)

\* An entry that seeds no cluster is in the cluster of the earliest of the
\* seeds that it resembles.
LEMMA EveryEntryClustered ==
    ASSUME TypeOK, SeedsDetermined, HasFirst,
           NEW b, DOMAIN b \subseteq DOMAIN buffer, b = [e \in DOMAIN b |-> buffer[e]],
           NEW e \in DOMAIN b, e \notin Seeds(b)
    PROVE  \E t \in Seeds(b) : Claims(t, e) /\ e \in Cluster(b, t)
<1>. DEFINE C == {s \in Seeds(b) : Claims(s, e)}
<1>1. SeedSet(Seeds(b), DOMAIN b)
  BY SeedsOf
<1>2. C # {} /\ C \in SUBSET DOMAIN buffer
  BY <1>1 DEF SeedSet
<1>3. PICK t \in C : \A s \in C : buffer[t].pos <= buffer[s].pos
  BY <1>2 DEF HasFirst
<1>4. /\ t \in Seeds(b) /\ Claims(t, e) /\ t \in DOMAIN b
      /\ \A s \in DOMAIN b : b[s] = buffer[s] /\ buffer[s].pos \in Nat
  BY <1>1, <1>3 DEF SeedSet, TypeOK, Entry
<1>5. ASSUME NEW s \in Seeds(b), b[s].pos < b[t].pos, SamePattern(e, s)
      PROVE  FALSE
  <2>1. s \in DOMAIN b
    BY <1>1 DEF SeedSet
  <2>2. Claims(s, e)
    BY <1>4, <1>5, <2>1 DEF Claims
  <2>. QED  BY <1>3, <1>4, <1>5, <2>1, <2>2
<1>. QED  BY <1>4, <1>5 DEF Cluster, Claims

\* Consuming whole clusters leaves the clustering of the rest as it was: the
\* seeds that were not promotable, each with the cluster that it had.
LEMMA RestKeepsClusters ==
    ASSUME TypeOK, NoStaleEvidence, SeedsDetermined, HasFirst,
           NEW b, DOMAIN b \subseteq DOMAIN buffer, b = [e \in DOMAIN b |-> buffer[e]],
           NEW c, c = Without(b, Consumed(b))
    PROVE  /\ Seeds(c) = Seeds(b) \ PromotableSeeds(b)
           /\ \A s \in Seeds(c) : Cluster(c, s) = Cluster(b, s)
<1>. DEFINE S == Seeds(b) \ PromotableSeeds(b)
<1>1. /\ DOMAIN c = DOMAIN b \ Consumed(b)
      /\ DOMAIN c \subseteq DOMAIN buffer
      /\ c = [e \in DOMAIN c |-> buffer[e]]
      /\ \A e \in DOMAIN c : c[e] = buffer[e]
      /\ \A e \in DOMAIN b : b[e] = buffer[e]
  BY DEF Without
<1>2. SeedSet(Seeds(b), DOMAIN b)
  BY SeedsOf
<1>3. DOMAIN c \intersect PromotableSeeds(b) = {}
  <2>1. \A t \in PromotableSeeds(b) : t \in Cluster(b, t)
    BY DEF Cluster
  <2>. QED  BY <1>1, <2>1 DEF Consumed
<1>4. ASSUME NEW e \in DOMAIN c, e \notin Seeds(b)
      PROVE  \E t \in S : Claims(t, e) /\ e \in Cluster(b, t)
  <2>1. PICK t \in Seeds(b) : Claims(t, e) /\ e \in Cluster(b, t)
    BY <1>1, <1>4, EveryEntryClustered
  <2>2. t \notin PromotableSeeds(b)
    BY <1>1, <2>1 DEF Consumed
  <2>. QED  BY <2>1, <2>2
<1>5. S \subseteq DOMAIN c
  <2>1. ASSUME NEW s \in S, NEW t \in PromotableSeeds(b)
        PROVE  s \notin Cluster(b, t)
    BY DEF Cluster
  <2>2. S \intersect Consumed(b) = {}
    BY <2>1 DEF Consumed
  <2>3. S \subseteq DOMAIN b
    BY <1>2 DEF SeedSet
  <2>. QED  BY <1>1, <2>2, <2>3
<1>6. S = Seeds(c)
  <2>1. ASSUME NEW e \in DOMAIN c
        PROVE  e \in S <=> ~ \E s \in S : Claims(s, e)
    <3>1. CASE e \in Seeds(b)
      <4>1. e \notin PromotableSeeds(b)
        BY <1>3
      <4>2. ~ \E s \in Seeds(b) : Claims(s, e)
        BY <1>1, <1>2, <3>1 DEF SeedSet
      <4>. QED  BY <3>1, <4>1, <4>2
    <3>2. CASE e \notin Seeds(b)
      <4>1. PICK t \in S : Claims(t, e)
        BY <1>4, <3>2
      <4>2. e \notin S
        BY <3>2
      <4>. QED  BY <4>1, <4>2
    <3>. QED  BY <3>1, <3>2
  <2>2. SeedSet(S, DOMAIN c)
    BY <1>5, <2>1 DEF SeedSet
  <2>. HIDE DEF S
  <2>. QED  BY <1>1, <1>5, <2>2, SeedsOf
<1>7. ASSUME NEW s \in DOMAIN b, NEW t \in DOMAIN b, s # t
      PROVE  b[s].pos < b[t].pos \/ b[t].pos < b[s].pos
  <2>1. /\ b[s] = buffer[s] /\ b[t] = buffer[t]
        /\ buffer[s].pos \in Nat /\ buffer[t].pos \in Nat
    BY <1>1 DEF TypeOK, Entry
  <2>2. buffer[s].pos # buffer[t].pos
    BY <1>7 DEF NoStaleEvidence
  <2>. QED  BY <2>1, <2>2
<1>8. ASSUME NEW s \in S
      PROVE  Cluster(c, s) = Cluster(b, s)
  <2>1. s \in DOMAIN c /\ s \in Seeds(b) /\ s \in DOMAIN b
    BY <1>1, <1>5
  <2>2. ASSUME NEW e \in Cluster(b, s)
        PROVE  e \in Cluster(c, s)
    <3>1. CASE e = s
      BY <3>1 DEF Cluster
    <3>2. CASE e # s
      <4>1. /\ e \in DOMAIN b \ Seeds(b) /\ SamePattern(e, s) /\ b[s].pos < b[e].pos
            /\ \A t \in Seeds(b) : b[t].pos < b[s].pos => ~ SamePattern(e, t)
        BY <3>2 DEF Cluster
      <4>2. e \in DOMAIN c
        <5>. SUFFICES ASSUME NEW t \in PromotableSeeds(b), e \in Cluster(b, t)
                      PROVE  FALSE
          BY <1>1, <4>1 DEF Consumed
        <5>1. t \in Seeds(b) /\ t \in DOMAIN b /\ t # s
          BY DEF PromotableSeeds
        <5>2. /\ SamePattern(e, t) /\ b[t].pos < b[e].pos
              /\ b[s].pos < b[t].pos => ~ SamePattern(e, s)
          BY <2>1, <4>1, <5>1 DEF Cluster
        <5>3. ~ b[t].pos < b[s].pos /\ ~ b[s].pos < b[t].pos
          BY <4>1, <5>1, <5>2
        <5>. QED  BY <1>7, <2>1, <5>1, <5>3
      <4>3. \A t \in S : c[t] = b[t]
        BY <1>1, <1>5
      <4>. QED  BY <1>1, <1>6, <2>1, <4>1, <4>2, <4>3 DEF Cluster
    <3>. QED  BY <3>1, <3>2
  <2>3. ASSUME NEW e \in Cluster(c, s)
        PROVE  e \in Cluster(b, s)
    <3>1. CASE e = s
      BY <3>1 DEF Cluster
    <3>2. CASE e # s
      <4>1. /\ e \in DOMAIN c \ Seeds(c) /\ SamePattern(e, s) /\ c[s].pos < c[e].pos
            /\ \A t \in Seeds(c) : c[t].pos < c[s].pos => ~ SamePattern(e, t)
        BY <3>2 DEF Cluster
      <4>2. e \in DOMAIN b /\ c[e] = b[e] /\ c[s] = b[s] /\ e \notin PromotableSeeds(b)
        BY <1>1, <1>3, <2>1, <4>1
      <4>3. e \notin Seeds(b)
        BY <1>6, <4>1, <4>2
      <4>4. PICK t \in S : Claims(t, e) /\ e \in Cluster(b, t)
        BY <1>4, <4>1, <4>3
      <4>5. /\ t \in DOMAIN b /\ t \in Seeds(b) /\ t \in Seeds(c) /\ c[t] = b[t]
            /\ SamePattern(e, t)
        BY <1>1, <1>5, <1>6, <4>4 DEF Claims
      <4>6. ~ b[t].pos < b[s].pos
        BY <4>1, <4>2, <4>5
      <4>7. ~ b[s].pos < b[t].pos
        BY <2>1, <4>1, <4>3, <4>4, <4>5 DEF Cluster
      <4>8. t = s
        BY <1>7, <2>1, <4>5, <4>6, <4>7
      <4>. QED  BY <4>4, <4>8
    <3>. QED  BY <3>1, <3>2
  <2>. QED  BY <2>2, <2>3
<1>. QED  BY <1>6, <1>8

\* Run again at once, the gate finds nothing to promote.
LEMMA RestNotPromotable ==
    ASSUME TypeOK, NoStaleEvidence, SeedsDetermined, HasFirst,
           NEW b, DOMAIN b \subseteq DOMAIN buffer, b = [e \in DOMAIN b |-> buffer[e]]
    PROVE  PromotableSeeds(Without(b, Consumed(b))) = {}
<1>. DEFINE c == Without(b, Consumed(b))
<1>. SUFFICES ASSUME NEW s \in PromotableSeeds(c)
              PROVE  FALSE
  OBVIOUS
<1>1. s \in DOMAIN c /\ s \in Seeds(c) /\ Promotable(c, s)
  BY DEF PromotableSeeds
<1>2. DOMAIN c \subseteq DOMAIN b /\ \A e \in DOMAIN c : c[e] = b[e]
  BY DEF Without
<1>. HIDE DEF c
<1>3. s \in Seeds(b) \ PromotableSeeds(b) /\ Cluster(c, s) = Cluster(b, s)
  BY <1>1, RestKeepsClusters DEF c
<1>4. \A e \in Cluster(c, s) : c[e] = b[e]
  BY <1>1, <1>2 DEF Cluster
<1>5. EvidenceFor(c, s) = EvidenceFor(b, s)
  BY <1>3, <1>4 DEF EvidenceFor
<1>6. Occurrences(c, s) = Occurrences(b, s)
  <2>1. \A o \in Cluster(b, s) \X Eligible : c[o[1]] = b[o[1]]
    BY <1>3, <1>4
  <2>. QED  BY <1>3, <2>1 DEF Occurrences
<1>7. Promotable(b, s)
  BY <1>1, <1>5, <1>6 DEF Promotable
<1>. QED  BY <1>1, <1>2, <1>3, <1>7 DEF PromotableSeeds

\* PromotionExhaustive: one run of the gate promotes all that there is to
\* promote; what it leaves could not have been promoted, and is clustered as it
\* was (PromotionGate.run, _promote and EpisodicBuffer.remove).
THEOREM PromotionIsExhaustive == Spec => PromotionExhaustive
<1>. DEFINE Inv == EntriesArePast /\ SeedsDetermined /\ HasFirst
            Step == (TickAndPromote \/ Promote) => PromotableSeeds(buffer') = {}
<1>1. Init => Inv
  <2>. SUFFICES ASSUME Init PROVE Inv
    OBVIOUS
  <2>1. DOMAIN buffer = {}
    BY DEF Init
  <2>. QED  BY <2>1 DEF EntriesArePast, SeedsDetermined, HasFirst, SeedSet
<1>2. TypeOK /\ TypeOK' /\ Inv /\ [Next]_vars => Inv'
  BY PastStep, SeedsStep, NextCalls
<1>3. TypeOK /\ NoStaleEvidence /\ Inv /\ [Next]_vars => [Step]_vars
  <2>. SUFFICES ASSUME TypeOK, NoStaleEvidence, Inv, TickAndPromote \/ Promote
                PROVE  PromotableSeeds(buffer') = {}
    OBVIOUS
  <2>1. CASE TickAndPromote
    <3>. DEFINE b == Without(buffer, Expired)
    <3>1. buffer' = Without(b, Consumed(b))
      BY <2>1 DEF TickAndPromote, RunPromotion
    <3>2. DOMAIN b \subseteq DOMAIN buffer /\ b = [e \in DOMAIN b |-> buffer[e]]
      BY DEF Without
    <3>. HIDE DEF b
    <3>. QED  BY <3>1, <3>2, RestNotPromotable
  <2>2. CASE Promote
    <3>1. buffer' = Without(buffer, Consumed(buffer))
      BY <2>2 DEF Promote, RunPromotion
    <3>2. buffer = [e \in DOMAIN buffer |-> buffer[e]]
      BY DEF TypeOK
    <3>. QED  BY <3>1, <3>2, RestNotPromotable
  <2>. QED  BY <2>1, <2>2
<1>. QED
  BY <1>1, <1>2, <1>3, TypeCorrect, BufferSound, PTL DEF Spec, PromotionExhaustive
-----------------------------------------------------------------------------
(***************************************************************************)
(* Entries on their own                                                    *)
(***************************************************************************)

\* The policy never merges entries, and a promotion rests on something.
NeverMerges == ClusterSim + Theta >= Scale
AsksEvidence == MinOccurrences > 0 \/ MinInputs > 0

\* Under such a policy every entry of a buffer without redundancy seeds a
\* cluster, of itself alone.
LEMMA EachOnItsOwn ==
    ASSUME NeverMerges, NEW b, DOMAIN b \subseteq Records,
           \A e, f \in DOMAIN b :
               b[e].pos < b[f].pos => Scale - Sim[ContentOf[f]][ContentOf[e]] > Theta
    PROVE  /\ Seeds(b) = DOMAIN b
           /\ \A s \in DOMAIN b : Cluster(b, s) = {s}
<1>1. ASSUME NEW e \in DOMAIN b, NEW s \in DOMAIN b, b[s].pos < b[e].pos
      PROVE  ~ SamePattern(e, s)
  <2>1. Scale - Sim[ContentOf[e]][ContentOf[s]] > Theta
    BY <1>1
  <2>2. Sim[ContentOf[e]][ContentOf[s]] \in 0 .. Scale
    BY ConstantsAssumption
  <2>3. {Scale, Theta, ClusterSim} \subseteq Nat
    BY ConstantsAssumption
  <2>. QED  BY <2>1, <2>2, <2>3 DEF NeverMerges, SamePattern
<1>. DEFINE P(S) == \A e \in DOMAIN b :
                        e \in S <=> ~ \E s \in S : b[s].pos < b[e].pos /\ SamePattern(e, s)
<1>2. \A S \in SUBSET DOMAIN b : P(S) <=> S = DOMAIN b
  BY <1>1
<1>3. Seeds(b) = CHOOSE S \in SUBSET DOMAIN b : P(S)
  BY DEF Seeds
<1>. HIDE DEF P
<1>4. Seeds(b) = DOMAIN b
  BY <1>2, <1>3
<1>. QED  BY <1>4 DEF Cluster

\* Whether an entry on its own is promotable depends on what supports it and
\* on the memory that it may contradict, which only grows more of.
LEMMA PromotableAlone ==
    ASSUME NEW b, NEW s, Cluster(b, s) = {s},
           NEW c, Cluster(c, s) = {s},
           b[s].support \intersect Eligible = c[s].support \intersect Eligible
    PROVE  /\ EvidenceFor(b, s) = b[s].support \intersect Eligible
           /\ EvidenceFor(b, s) = EvidenceFor(c, s)
           /\ Promotable(b, s) <=> Promotable(c, s)
<1>1. EvidenceFor(b, s) = EvidenceFor(c, s)
  BY DEF EvidenceFor
<1>2. Occurrences(b, s) = Occurrences(c, s)
  <2>1. \A o \in {s} \X Eligible : o[2] \in b[o[1]].support <=> o[2] \in c[o[1]].support
    OBVIOUS
  <2>. QED  BY <2>1 DEF Occurrences
<1>3. Promotable(b, s) <=> Promotable(c, s)
  BY <1>1, <1>2 DEF Promotable
<1>4. EvidenceFor(b, s) = b[s].support \intersect Eligible
  BY DEF EvidenceFor
<1>. QED  BY <1>1, <1>3, <1>4

\* A promotion rests on at least one record.
LEMMA PromotionRestsOnRecord ==
    ASSUME AsksEvidence, NEW b, NEW s, Promotable(b, s)
    PROVE  EvidenceFor(b, s) # {}
<1>. SUFFICES ASSUME EvidenceFor(b, s) = {} PROVE FALSE
  OBVIOUS
<1>1. Occurrences(b, s) = {}
  <2>1. \A o \in Occurrences(b, s) : o[2] \in EvidenceFor(b, s)
    BY DEF Occurrences, EvidenceFor
  <2>. QED  BY <2>1
<1>2. {InputOf[r] : r \in EvidenceFor(b, s)} = {}
  OBVIOUS
<1>3. MinOccurrences \in Nat /\ MinInputs \in Nat
  BY ConstantsAssumption
<1>. QED  BY <1>1, <1>2, <1>3, FS_EmptySet DEF Promotable, AsksEvidence
=============================================================================
