--------------------------- MODULE Pipeline_proofs ---------------------------
(***************************************************************************)
(* What is proved of the drivers' common steps (module Pipeline), for      *)
(* either driver: that a record is ingested once, that memory and buffer   *)
(* stay pairwise apart, when the gate promotes, and that every record that *)
(* was fed is accounted for.                                               *)
(***************************************************************************)
EXTENDS Pipeline, Kernel_proofs

LEMMA HeadFirst ==
    ASSUME NEW s \in Seq(Records), s # << >>
    PROVE  /\ Head(s) \in Records /\ Tail(s) \in Seq(Records)
           /\ Elements(s) = {Head(s)} \union Elements(Tail(s))
<1>1. DOMAIN s = 1 .. Len(s) /\ Len(s) \in Nat \ {0} /\ Head(s) = s[1]
  OBVIOUS
<1>2. /\ DOMAIN Tail(s) = 1 .. Len(s) - 1
      /\ \A k \in 1 .. Len(s) - 1 : Tail(s)[k] = s[k + 1]
  OBVIOUS
<1>3. ASSUME NEW k \in 1 .. Len(s)
      PROVE  s[k] \in {Head(s)} \union Elements(Tail(s))
  <2>1. CASE k = 1
    BY <1>1, <2>1
  <2>2. CASE k # 1
    <3>1. k - 1 \in 1 .. Len(s) - 1 /\ Tail(s)[k - 1] = s[k]
      BY <1>1, <1>2, <2>2
    <3>. QED  BY <1>2, <3>1 DEF Elements
  <2>. QED  BY <2>1, <2>2
<1>4. ASSUME NEW k \in 1 .. Len(s) - 1
      PROVE  Tail(s)[k] \in Elements(s)
  BY <1>1, <1>2 DEF Elements
<1>. QED  BY <1>1, <1>2, <1>3, <1>4 DEF Elements

\* A tick that adds no memory leaves what is live as it was: nothing is
\* superseded here.
LEMMA TickLive ==
    ASSUME AnyTick, objects' = objects
    PROVE  UNCHANGED <<Live, Visible>>
  BY DEF AnyTick, TickOnly, TickAndPromote, RunPromotion, Store!PutAll, Live, Store!Live,
         Visible

LEMMA OtherLive ==
    ASSUME Snapshot \/ (\E v : Pin(v)) \/ UNCHANGED vars
    PROVE  Live' = Live
  BY DEF Snapshot, Store!RecordVersion, Pin, vars, Live, Store!Live

LEMMA FrozenLive ==
    ASSUME Freeze
    PROVE  Live' = Live /\ Visible' = Live
<1>1. Live' = Live
  BY DEF Freeze, Store!RecordVersion, Live, Store!Live
<1>2. Visible' = UNION {Live}
  BY DEF Freeze, Visible, Store!At
<1>. QED  BY <1>1, <1>2
-----------------------------------------------------------------------------
Symmetric == \A c, d \in Content : Sim[c][d] = Sim[d][c]

Apart(c, d) == Scale - Sim[c][d] > Theta

\* What is buffered or in memory is pairwise apart.  Only records of tasks are
\* buffered, and nothing is superseded, so that all that is retained is live.
PatternInv ==
    /\ DOMAIN buffer \subseteq Records
    /\ \A m \in objects : m.content \in Content
    /\ DOMAIN supersededBy = {}
    /\ \A e, f \in DOMAIN buffer : e # f => Apart(ContentOf[e], ContentOf[f])
    /\ \A e \in DOMAIN buffer, m \in objects : Apart(ContentOf[e], m.content)
    /\ \A m, n \in objects : m # n => Apart(m.content, n.content)

\* A promotion takes the entries of its memories out of the buffer.
LEMMA PromotionApart ==
    ASSUME Symmetric, PatternInv, NEW b, NEW stamp, DOMAIN b \subseteq DOMAIN buffer,
           RunPromotion(b, stamp)
    PROVE  PatternInv'
<1>. USE ConstantsAssumption DEF PatternInv, Apart
<1>1. /\ DOMAIN buffer' = DOMAIN b \ Consumed(b) /\ supersededBy' = supersededBy
      /\ objects' = objects \union {MemoryFrom(b, s, stamp) : s \in PromotableSeeds(b)}
  BY DEF RunPromotion, Without, Store!PutAll
<1>2. \A s \in PromotableSeeds(b) : s \in DOMAIN buffer /\ s \in Consumed(b)
  BY DEF PromotableSeeds, Consumed, Cluster
<1>3. \A s \in PromotableSeeds(b) : MemoryFrom(b, s, stamp).content = ContentOf[s]
  BY DEF MemoryFrom
<1>4. ASSUME NEW m \in objects'
      PROVE  \/ m \in objects
             \/ \E s \in PromotableSeeds(b) : m = MemoryFrom(b, s, stamp) /\ m.content = ContentOf[s]
  BY <1>1, <1>3
<1>5. \A m \in objects' : m.content \in Content
  BY <1>2, <1>4
<1>6. ASSUME NEW e \in DOMAIN buffer', NEW m \in objects'
      PROVE  Apart(ContentOf[e], m.content)
  <2>1. e \in DOMAIN buffer /\ \A s \in PromotableSeeds(b) : e # s
    BY <1>1, <1>2
  <2>. QED  BY <1>2, <1>4, <2>1
<1>7. ASSUME NEW m \in objects', NEW n \in objects', m # n
      PROVE  Apart(m.content, n.content)
  <2>1. CASE m \in objects /\ n \in objects
    BY <1>7, <2>1
  <2>2. CASE m \notin objects /\ n \in objects
    BY <1>2, <1>4, <2>2
  <2>3. CASE m \in objects /\ n \notin objects
    <3>1. PICK s \in PromotableSeeds(b) : n.content = ContentOf[s]
      BY <1>4, <2>3
    <3>2. Apart(ContentOf[s], m.content) /\ ContentOf[s] \in Content /\ m.content \in Content
      BY <1>2, <2>3
    <3>. QED  BY <3>1, <3>2 DEF Symmetric
  <2>4. CASE m \notin objects /\ n \notin objects
    <3>1. PICK s \in PromotableSeeds(b) : m = MemoryFrom(b, s, stamp) /\ m.content = ContentOf[s]
      BY <1>4, <2>4
    <3>2. PICK t \in PromotableSeeds(b) : n = MemoryFrom(b, t, stamp) /\ n.content = ContentOf[t]
      BY <1>4, <2>4
    <3>. QED  BY <1>2, <1>7, <3>1, <3>2
  <2>. QED  BY <2>1, <2>2, <2>3, <2>4
<1>. QED  BY <1>1, <1>5, <1>6, <1>7

LEMMA AllLive ==
    ASSUME PatternInv
    PROVE  Live = objects
  BY DEF PatternInv, Live, Store!Live

\* A record is admitted only if it is apart from all that is buffered or live.
LEMMA AdmittedApart ==
    ASSUME Symmetric, PatternInv, Visible = Live, NEW r \in Records, NEW c,
           IngestAdmit(r, c)
    PROVE  PatternInv'
<1>. USE ConstantsAssumption DEF PatternInv, Apart
<1>1. /\ DOMAIN buffer' = DOMAIN buffer \union {r} /\ r \notin DOMAIN buffer
      /\ UNCHANGED <<objects, supersededBy>>
  BY DEF IngestAdmit, SetEntry, Observe
<1>2. \A d \in Comparanda : Apart(ContentOf[r], d)
  BY DEF IngestAdmit, Surprising
<1>3. \A e \in DOMAIN buffer : /\ Apart(ContentOf[r], ContentOf[e])
                              /\ Apart(ContentOf[e], ContentOf[r])
  <2>1. \A e \in DOMAIN buffer : Apart(ContentOf[r], ContentOf[e])
    BY <1>2 DEF Comparanda
  <2>. QED  BY <2>1 DEF Symmetric
<1>4. \A m \in objects : Apart(ContentOf[r], m.content)
  BY <1>2, AllLive DEF Comparanda
<1>. QED  BY <1>1, <1>3, <1>4

\* An ingested record that finds its pattern in the buffer joins it.
LEMMA IngestApart ==
    ASSUME Symmetric, PatternInv, Visible = Live, Head(pending) \in Records, IngestNext
    PROVE  PatternInv'
<1>. DEFINE r == Head(pending)
<1>1. CASE IngestAdmit(r, agentClock)
  BY <1>1, AdmittedApart
<1>2. CASE IngestReinforce(r, agentClock)
  <2>1. DOMAIN buffer' = DOMAIN buffer /\ UNCHANGED <<objects, supersededBy>>
    BY <1>2 DEF IngestReinforce, SetEntry, Reinforced, Observe
  <2>. QED  BY <2>1 DEF PatternInv
<1>3. CASE IngestDiscard(r, agentClock)
  BY <1>3 DEF IngestDiscard, Observe, PatternInv
<1>. QED  BY <1>1, <1>2, <1>3 DEF IngestNext

LEMMA TickApart ==
    ASSUME Symmetric, PatternInv, AnyTick
    PROVE  PatternInv'
<1>. DEFINE b == Without(buffer, Expired)
<1>1. DOMAIN b \subseteq DOMAIN buffer
  BY DEF Without
<1>2. CASE TickOnly
  <2>1. buffer' = b /\ UNCHANGED <<objects, supersededBy>>
    BY <1>2 DEF TickOnly
  <2>. QED  BY <1>1, <2>1 DEF PatternInv
<1>3. CASE TickAndPromote
  BY <1>1, <1>3, PromotionApart DEF TickAndPromote
<1>. QED  BY <1>2, <1>3 DEF AnyTick
-----------------------------------------------------------------------------
\* Where a driver has not come to learning from the task at hand
Unlearned == {"next", "arms", "restore", "skip"}

\* The records of the task at hand have not been ingested, but for those taken
\* off the list; and a task's records are all distinct.
FreshInv ==
    /\ \A r \in fed : InputOf[r] \in 1 .. task
    /\ pc \in Unlearned => \A r \in fed : InputOf[r] # task
    /\ pc = "ingest" =>
          /\ pending \in Seq({r \in Records : InputOf[r] = task})
          /\ \A i, j \in DOMAIN pending : pending[i] = pending[j] => i = j
          /\ \A i \in DOMAIN pending : pending[i] \notin fed

LEMMA PinSingle ==
    ASSUME NEW V, \A u, v \in V : u = v, Pin(V)
    PROVE  Operation
<1>1. CASE V = {}
  BY <1>1 DEF Operation
<1>2. CASE V # {}
  <2>1. PICK v : v \in V
    BY <1>2
  <2>2. V = {v} /\ v \in versions
    BY <2>1 DEF Pin
  <2>. QED  BY <2>2 DEF Operation
<1>. QED  BY <1>1, <1>2

LEMMA IngestIsFresh ==
    ASSUME FreshInv, IngestNext
    PROVE  \E r \in Records \ fed : Ingest(r, agentClock)
<1>. DEFINE r == Head(pending)
<1>1. pending \in Seq({x \in Records : InputOf[x] = task}) /\ pending # << >>
  BY DEF IngestNext, FreshInv
<1>2. 1 \in DOMAIN pending /\ r = pending[1] /\ r \in Records
  BY <1>1
<1>3. r \notin fed
  BY <1>2 DEF IngestNext, FreshInv
<1>4. Ingest(r, agentClock)
  BY DEF IngestNext, Ingest
<1>. QED  BY <1>2, <1>3, <1>4

\* What a task's call answers has not been ingested, and is all distinct.
LEMMA FreshAnswer ==
    ASSUME FreshInv, pc \in Unlearned, task \in 1 .. NTasks, NEW flags \in Answers[task],
           pending' = flags, pc' = "ingest", UNCHANGED <<task, fed>>
    PROVE  FreshInv'
<1>1. /\ flags \in Seq({r \in Records : InputOf[r] = task})
      /\ \A i, j \in DOMAIN flags : flags[i] = flags[j] => i = j
  BY PipelineAssumption, RankedAssumption
<1>2. \A i \in DOMAIN flags : InputOf[flags[i]] = task
  BY <1>1
<1>. QED  BY <1>1, <1>2 DEF FreshInv, Unlearned

LEMMA FreshIngest ==
    ASSUME FreshInv, task \in Nat \ {0}, IngestNext
    PROVE  FreshInv'
<1>. DEFINE T == {r \in Records : InputOf[r] = task}
<1>1. /\ pc = "ingest" /\ pc' = "ingest" /\ task' = task
      /\ fed' = fed \union {Head(pending)} /\ pending' = Tail(pending)
      /\ pending \in Seq(T) /\ pending # << >>
  BY DEF IngestNext, IngestAdmit, IngestReinforce, IngestDiscard, Observe, FreshInv
<1>2. /\ Tail(pending) \in Seq(T)
      /\ DOMAIN pending = 1 .. Len(pending) /\ Len(pending) \in Nat \ {0}
      /\ Head(pending) = pending[1] /\ Head(pending) \in T
      /\ DOMAIN Tail(pending) = 1 .. Len(pending) - 1
      /\ \A k \in 1 .. Len(pending) - 1 : Tail(pending)[k] = pending[k + 1]
  BY <1>1
<1>3. \A i, j \in DOMAIN Tail(pending) : Tail(pending)[i] = Tail(pending)[j] => i = j
  BY <1>1, <1>2 DEF FreshInv
<1>4. \A i \in DOMAIN Tail(pending) :
          Tail(pending)[i] \notin fed /\ Tail(pending)[i] # Head(pending)
  BY <1>1, <1>2 DEF FreshInv
<1>5. InputOf[Head(pending)] \in 1 .. task
  BY <1>2
<1>. HIDE DEF T
<1>6. \A r \in fed' : InputOf[r] \in 1 .. task
  BY <1>1, <1>5 DEF FreshInv
<1>. QED  BY <1>1, <1>2, <1>3, <1>4, <1>6 DEF FreshInv, T, Unlearned
-----------------------------------------------------------------------------
(***************************************************************************)
(* When a memory is promoted.  Every tick runs the gate, so that whatever  *)
(* could be promoted was, and only a record of the task at hand can make   *)
(* an entry promotable.                                                    *)
(***************************************************************************)
SettledInv ==
    /\ frozen => pc = "done"
    /\ \A e \in DOMAIN buffer :
          Promotable(buffer, e) =>
              /\ pc = "ingest"
              /\ \E r \in EvidenceFor(buffer, e) : InputOf[r] = task

\* A part of the buffer, of which each entry is on its own
LEMMA PartAlone ==
    ASSUME TypeOK, RedundancyFree, NeverMerges, NEW gone
    PROVE  /\ DOMAIN Without(buffer, gone) = DOMAIN buffer \ gone
           /\ Seeds(Without(buffer, gone)) = DOMAIN buffer \ gone
           /\ \A e \in DOMAIN buffer \ gone :
                 /\ Without(buffer, gone)[e] = buffer[e]
                 /\ Cluster(Without(buffer, gone), e) = {e}
                 /\ Cluster(buffer, e) = {e}
                 /\ EvidenceFor(Without(buffer, gone), e) = EvidenceFor(buffer, e)
                 /\ Promotable(Without(buffer, gone), e) <=> Promotable(buffer, e)
<1>. DEFINE b == Without(buffer, gone)
<1>1. /\ DOMAIN b = DOMAIN buffer \ gone
      /\ b = [e \in DOMAIN b |-> buffer[e]]
      /\ \A e \in DOMAIN b : b[e] = buffer[e]
  BY DEF Without
<1>. HIDE DEF b
<1>2. /\ DOMAIN buffer \subseteq Records
      /\ \A e, f \in DOMAIN buffer : buffer[e].pos < buffer[f].pos =>
            Scale - Sim[ContentOf[f]][ContentOf[e]] > Theta
  BY DEF TypeOK, RedundancyFree
<1>3. /\ Seeds(b) = DOMAIN b
      /\ \A e \in DOMAIN b : Cluster(b, e) = {e}
      /\ \A e \in DOMAIN buffer : Cluster(buffer, e) = {e}
  BY <1>1, <1>2, EachOnItsOwn
<1>4. \A e \in DOMAIN b : /\ EvidenceFor(b, e) = EvidenceFor(buffer, e)
                          /\ Promotable(b, e) <=> Promotable(buffer, e)
  BY <1>1, <1>3, PromotableAlone
<1>. QED  BY <1>1, <1>3, <1>4 DEF b

\* A step that neither ingests nor ticks
LEMMA SettledStays ==
    ASSUME SettledInv, pc # "ingest", UNCHANGED <<buffer, Live>>, frozen' => pc' = "done"
    PROVE  SettledInv'
<1>1. ASSUME NEW e \in DOMAIN buffer'
      PROVE  ~ Promotable(buffer, e)'
  <2>1. ~ Promotable(buffer, e)
    BY <1>1 DEF SettledInv
  <2>. QED  BY <2>1 DEF Promotable
<1>. QED  BY <1>1 DEF SettledInv

\* Of the entries that an ingested record leaves or makes, only the one that
\* it supports can have become promotable, and only if it is eligible.
LEMMA SettledIngest ==
    ASSUME NeverMerges, AsksEvidence, KernelInv, KernelInv', SettledInv, PatternInv, PatternInv',
           FreshInv, IngestNext
    PROVE  SettledInv'
<1>. DEFINE r == Head(pending)
<1>1. /\ pc = "ingest" /\ pc' = "ingest" /\ task' = task
      /\ UNCHANGED <<frozen, objects>>
  BY DEF IngestNext, IngestAdmit, IngestReinforce, IngestDiscard, Observe
<1>2. Live' = Live
  BY <1>1, AllLive DEF PatternInv, Live, Store!Live
<1>3. r \in Records /\ InputOf[r] = task
  <2>1. pending \in Seq({x \in Records : InputOf[x] = task}) /\ pending # << >>
    BY <1>1 DEF IngestNext, FreshInv
  <2>. QED  BY <2>1
<1>4. /\ \A e \in DOMAIN buffer : Cluster(buffer, e) = {e}
      /\ \A e \in DOMAIN buffer' : Cluster(buffer', e) = {e}
  <2>1. TypeOK /\ RedundancyFree /\ TypeOK' /\ RedundancyFree'
    BY DEF KernelInv
  <2>2. /\ DOMAIN buffer \subseteq Records
        /\ \A e, f \in DOMAIN buffer : buffer[e].pos < buffer[f].pos =>
              Scale - Sim[ContentOf[f]][ContentOf[e]] > Theta
    BY <2>1 DEF TypeOK, RedundancyFree
  <2>3. /\ DOMAIN buffer' \subseteq Records
        /\ \A e, f \in DOMAIN buffer' : buffer'[e].pos < buffer'[f].pos =>
              Scale - Sim[ContentOf[f]][ContentOf[e]] > Theta
    BY <2>1 DEF TypeOK, RedundancyFree
  <2>. QED  BY <2>2, <2>3, EachOnItsOwn
<1>5. \A e \in DOMAIN buffer' :
          \/ e \in DOMAIN buffer /\ buffer'[e].support = buffer[e].support
          \/ e \in DOMAIN buffer /\ buffer'[e].support = buffer[e].support \union {r}
          \/ buffer'[e].support = {r}
  <2>1. CASE IngestAdmit(r, agentClock)
    BY <2>1 DEF IngestAdmit, SetEntry
  <2>2. CASE IngestReinforce(r, agentClock)
    BY <2>2 DEF IngestReinforce, SetEntry, Reinforced
  <2>3. CASE IngestDiscard(r, agentClock)
    BY <2>3 DEF IngestDiscard
  <2>. QED  BY <2>1, <2>2, <2>3 DEF IngestNext
<1>6. ASSUME NEW e \in DOMAIN buffer', Promotable(buffer, e)'
      PROVE  \E x \in EvidenceFor(buffer', e) : InputOf[x] = task
  <2>1. Promotable(buffer', e)
    BY <1>2, <1>6 DEF Promotable
  <2>2. EvidenceFor(buffer', e) = buffer'[e].support \intersect Eligible
    BY <1>4, PromotableAlone
  <2>3. CASE e \in DOMAIN buffer
             /\ buffer'[e].support \intersect Eligible = buffer[e].support \intersect Eligible
    <3>1. /\ Promotable(buffer, e)
          /\ EvidenceFor(buffer, e) = EvidenceFor(buffer', e)
      BY <1>4, <2>1, <2>3, PromotableAlone
    <3>. QED  BY <2>3, <3>1 DEF SettledInv
  <2>4. CASE r \in EvidenceFor(buffer', e)
    BY <1>3, <2>4
  <2>5. CASE buffer'[e].support = {r}
    <3>1. EvidenceFor(buffer', e) # {}
      BY <2>1, PromotionRestsOnRecord
    <3>. QED  BY <1>3, <2>2, <2>5, <3>1
  <2>. QED  BY <1>5, <2>2, <2>3, <2>4, <2>5
<1>. QED  BY <1>1, <1>6 DEF SettledInv

\* What the gate leaves behind is not promotable, and what it promotes was
\* before the tick.
LEMMA GateSettles ==
    ASSUME NeverMerges, Schedule = 1, KernelInv, KernelInv', PatternInv, PatternInv',
           ~ frozen, AnyTick
    PROVE  /\ frozen' = frozen
           /\ \A e \in DOMAIN buffer' : ~ Promotable(buffer, e)'
           /\ \A m \in objects' \ objects : \E e \in DOMAIN buffer :
                 /\ Promotable(buffer, e)
                 /\ m.input_hashes = {InputOf[r] : r \in EvidenceFor(buffer, e)}
<1>. DEFINE b == Without(buffer, Expired)
            stamp == Tick(Tick(vclock, KernelAgent), Approver)
<1>. USE ConstantsAssumption
<1>1. TickAndPromote
  <2>1. (tick + 1) % Schedule = 0
    <3>1. tick \in Nat
      BY DEF KernelInv, TypeOK
    <3>. QED  BY <3>1
  <2>. QED  BY <2>1 DEF AnyTick, TickOnly
<1>2. RunPromotion(b, stamp) /\ frozen' = frozen
  BY <1>1 DEF TickAndPromote
<1>3. /\ DOMAIN b = DOMAIN buffer \ Expired /\ Seeds(b) = DOMAIN b
      /\ \A e \in DOMAIN b : /\ b[e] = buffer[e]
                             /\ Cluster(b, e) = {e}
                             /\ EvidenceFor(b, e) = EvidenceFor(buffer, e)
                             /\ Promotable(b, e) <=> Promotable(buffer, e)
  BY PartAlone DEF KernelInv
<1>. HIDE DEF b, stamp
<1>4. /\ DOMAIN buffer' = DOMAIN b \ Consumed(b)
      /\ \A e \in DOMAIN buffer' : buffer'[e] = b[e]
      /\ objects' = objects \union {MemoryFrom(b, s, stamp) : s \in PromotableSeeds(b)}
  BY <1>2 DEF RunPromotion, Without, Store!PutAll
<1>5. \A e \in DOMAIN buffer' : e \in DOMAIN b /\ ~ Promotable(b, e)
  <2>1. \A e \in DOMAIN b : Promotable(b, e) => e \in PromotableSeeds(b) /\ e \in Cluster(b, e)
    BY <1>3 DEF PromotableSeeds
  <2>. QED  BY <1>4, <2>1 DEF Consumed
<1>6. \A e \in DOMAIN buffer' : Cluster(buffer', e) = {e}
  <2>1. /\ buffer' = Without(b, Consumed(b))
        /\ buffer' = Without(buffer, Expired \union Consumed(b))
    BY <1>2, <1>3, <1>4 DEF RunPromotion, Without
  <2>2. DOMAIN buffer' = DOMAIN buffer \ (Expired \union Consumed(b))
    BY <1>3, <1>4
  <2>. QED  BY <2>1, <2>2, PartAlone DEF KernelInv
<1>7. Live \subseteq Live'
  BY <1>4, AllLive DEF PatternInv, Live, Store!Live
<1>8. ASSUME NEW e \in DOMAIN buffer'
      PROVE  ~ Promotable(buffer, e)'
  <2>1. ~ Promotable(buffer', e)
    BY <1>3, <1>4, <1>5, <1>6, PromotableAlone
  <2>. QED  BY <1>7, <2>1 DEF Promotable
<1>9. ASSUME NEW m \in objects' \ objects
      PROVE  \E e \in DOMAIN buffer :
                /\ Promotable(buffer, e)
                /\ m.input_hashes = {InputOf[r] : r \in EvidenceFor(buffer, e)}
  <2>1. PICK s \in PromotableSeeds(b) : m = MemoryFrom(b, s, stamp)
    BY <1>4
  <2>2. s \in DOMAIN buffer /\ Promotable(buffer, s) /\ EvidenceFor(b, s) = EvidenceFor(buffer, s)
    BY <1>3 DEF PromotableSeeds
  <2>. QED  BY <2>1, <2>2 DEF MemoryFrom
<1>. QED  BY <1>2, <1>8, <1>9

\* The tick after a task's records: what it promotes rests on one of them.
LEMMA SettledTick ==
    ASSUME NeverMerges, Schedule = 1, KernelInv, KernelInv', PatternInv, PatternInv',
           SettledInv, NEW over, TickTask(over)
    PROVE  /\ SettledInv'
           /\ \A m \in objects' \ objects : task \in m.input_hashes
<1>1. pc = "ingest" /\ AnyTick /\ ~ frozen
  BY DEF TickTask, SettledInv
<1>2. /\ ~ frozen'
      /\ \A e \in DOMAIN buffer' : ~ Promotable(buffer, e)'
  BY <1>1, GateSettles
<1>3. ASSUME NEW m \in objects' \ objects
      PROVE  task \in m.input_hashes
  <2>1. PICK e \in DOMAIN buffer :
           Promotable(buffer, e) /\ m.input_hashes = {InputOf[r] : r \in EvidenceFor(buffer, e)}
    BY <1>1, GateSettles
  <2>2. \E r \in EvidenceFor(buffer, e) : InputOf[r] = task
    BY <2>1 DEF SettledInv
  <2>. QED  BY <2>1, <2>2
<1>. QED  BY <1>2, <1>3 DEF SettledInv
-----------------------------------------------------------------------------
(***************************************************************************)
(* What is learned, where records are the same pattern exactly if they     *)
(* name the same place                                                     *)
(***************************************************************************)
Place(r) == LocationOf(ContentOf[r])

EvidenceAt(place) == {r \in fed \intersect Eligible : Place(r) = place}

Taught(place) ==
    /\ Cardinality(EvidenceAt(place)) >= MinOccurrences
    /\ Cardinality({InputOf[r] : r \in EvidenceAt(place)}) >= MinInputs

\* Every record is accounted for, in the entry of its place or by the memory
\* that its place has.
PlaceInv ==
    /\ \A e \in DOMAIN buffer : \A r \in buffer[e].support : Place(r) = Place(e)
    /\ \A r \in fed : \/ \E e \in DOMAIN buffer : r \in buffer[e].support
                      \/ \E m \in objects : LocationOf(m.content) = Place(r)
    /\ \A m \in objects : Taught(LocationOf(m.content))

LEMMA KeyedPlaces ==
    ASSUME Keyed, Theta < Scale
    PROVE  /\ Symmetric
           /\ \A c, d \in Content :
                 /\ LocationOf(c) = LocationOf(d) => Sim[c][d] = Scale
                 /\ LocationOf(c) # LocationOf(d) => Sim[c][d] = 0
                 /\ Apart(c, d) <=> LocationOf(c) # LocationOf(d)
<1>. USE ConstantsAssumption
<1>1. \A c, d \in Content : Sim[c][d] = IF LocationOf(c) = LocationOf(d) THEN Scale ELSE 0
  BY DEF Keyed, KeyedSim
<1>2. Scale \in Nat \ {0} /\ Theta \in Nat
  OBVIOUS
<1>. QED  BY <1>1, <1>2 DEF Apart, Symmetric

\* More evidence suffices where less does.
LEMMA MoreTeaches ==
    ASSUME NEW F, IsFiniteSet(F), NEW E, E \subseteq F,
           Cardinality(E) >= MinOccurrences,
           Cardinality({InputOf[r] : r \in E}) >= MinInputs
    PROVE  /\ Cardinality(F) >= MinOccurrences
           /\ Cardinality({InputOf[r] : r \in F}) >= MinInputs
<1>. DEFINE G == {InputOf[r] : r \in E}
            H == {InputOf[r] : r \in F}
            f == [r \in F |-> InputOf[r]]
<1>1. G \subseteq H
  OBVIOUS
<1>2. IsFiniteSet(H)
  <2>1. f \in Surjection(F, H)
    <3>1. f \in [F -> H] /\ \A y \in H : \E x \in F : f[x] = y
      OBVIOUS
    <3>. HIDE DEF f, H
    <3>. QED  BY <3>1, Fun_IsSurj
  <2>. HIDE DEF f, H
  <2>. QED  BY <2>1, FS_Surjection
<1>3. /\ IsFiniteSet(E) /\ Cardinality(E) <= Cardinality(F)
      /\ IsFiniteSet(G) /\ Cardinality(G) <= Cardinality(H)
  BY <1>1, <1>2, FS_Subset
<1>4. /\ Cardinality(E) \in Nat /\ Cardinality(F) \in Nat
      /\ Cardinality(G) \in Nat /\ Cardinality(H) \in Nat
      /\ MinOccurrences \in Nat /\ MinInputs \in Nat
  BY <1>2, <1>3, FS_CardinalityType, ConstantsAssumption
<1>. HIDE DEF G, H
<1>5. Cardinality(F) >= MinOccurrences /\ Cardinality(H) >= MinInputs
  BY <1>3, <1>4 DEF G
<1>. QED  BY <1>5 DEF H

\* More records do not make a place less taught.
LEMMA TaughtStays ==
    ASSUME fed \subseteq fed', IsFiniteSet(fed'), NEW place, Taught(place)
    PROVE  Taught(place)'
<1>. DEFINE F == EvidenceAt(place)'
<1>1. EvidenceAt(place) \subseteq F /\ F \subseteq fed'
  BY DEF EvidenceAt
<1>2. IsFiniteSet(F)
  BY <1>1, FS_Subset
<1>. HIDE DEF F
<1>3. Cardinality(F) >= MinOccurrences /\ Cardinality({InputOf[r] : r \in F}) >= MinInputs
  BY <1>1, <1>2, MoreTeaches DEF Taught
<1>. QED  BY <1>3 DEF Taught, F

\* An ingested record goes to the entry of its place, becomes that entry, or
\* has its place in memory already.
LEMMA PlaceIngest ==
    ASSUME Keyed, Theta < Scale, KernelInv, Visible = Live, PatternInv, PlaceInv,
           IsFiniteSet(fed'), FreshInv, IngestNext
    PROVE  PlaceInv'
<1>. USE ConstantsAssumption
<1>. DEFINE r == Head(pending)
            c == ContentOf[r]
<1>1. /\ r \in Records /\ c \in Content /\ r \notin fed
      /\ fed' = fed \union {r} /\ objects' = objects
  <2>1. pending \in Seq({x \in Records : InputOf[x] = task}) /\ pending # << >>
    BY DEF IngestNext, FreshInv
  <2>2. 1 \in DOMAIN pending /\ r = pending[1] /\ r \in Records
    BY <2>1
  <2>3. r \notin fed
    BY <2>2 DEF IngestNext, FreshInv
  <2>. QED
    BY <2>2, <2>3 DEF IngestNext, IngestAdmit, IngestReinforce, IngestDiscard, Observe
<1>2. \A m \in objects : Taught(LocationOf(m.content))'
  <2>1. \A m \in objects : Taught(LocationOf(m.content))
    BY DEF PlaceInv
  <2>. DEFINE places == {LocationOf(m.content) : m \in objects}
  <2>2. \A place \in places : Taught(place)'
    <3>1. \A place \in places : Taught(place)
      BY <2>1
    <3>. HIDE DEF places
    <3>2. fed \subseteq fed'
      BY <1>1
    <3>. QED  BY <3>1, <3>2, TaughtStays
  <2>. QED  BY <2>2
<1>3. /\ DOMAIN buffer \subseteq Records
      /\ \A e \in DOMAIN buffer : ContentOf[e] \in Content
      /\ \A m \in objects : m.content \in Content
  BY DEF PatternInv
<1>4. Visible = objects
  BY AllLive
<1>. HIDE DEF r
<1>5. CASE IngestAdmit(r, agentClock)
  <2>1. /\ DOMAIN buffer' = DOMAIN buffer \union {r} /\ buffer'[r].support = {r}
        /\ \A e \in DOMAIN buffer : e # r /\ buffer'[e] = buffer[e]
    BY <1>5 DEF IngestAdmit, SetEntry
  <2>2. \A e \in DOMAIN buffer' : \A x \in buffer'[e].support : Place(x) = Place(e)
    BY <2>1 DEF PlaceInv
  <2>3. \A x \in fed' : \/ \E e \in DOMAIN buffer' : x \in buffer'[e].support
                        \/ \E m \in objects' : LocationOf(m.content) = Place(x)
    BY <1>1, <2>1 DEF PlaceInv
  <2>. QED  BY <1>1, <1>2, <2>2, <2>3 DEF PlaceInv
<1>6. CASE IngestReinforce(r, agentClock)
  <2>1. PICK e \in Reinforced(c) :
           SetEntry(e, [pos |-> buffer[e].pos, at |-> buffer[e].at,
                        support |-> buffer[e].support \union {r}])
    BY <1>6 DEF IngestReinforce
  <2>2. e \in DOMAIN buffer /\ Sim[c][ContentOf[e]] > 0
    BY <2>1 DEF Reinforced, Nearest
  <2>3. Place(r) = Place(e)
    <3>1. LocationOf(c) = LocationOf(ContentOf[e])
      BY <1>1, <1>3, <2>2, KeyedPlaces
    <3>. QED  BY <3>1 DEF Place
  <2>4. /\ DOMAIN buffer' = DOMAIN buffer
        /\ buffer'[e].support = buffer[e].support \union {r}
        /\ \A f \in DOMAIN buffer : f # e => buffer'[f] = buffer[f]
    BY <2>1, <2>2 DEF SetEntry
  <2>5. \A f \in DOMAIN buffer' : \A x \in buffer'[f].support : Place(x) = Place(f)
    BY <2>3, <2>4 DEF PlaceInv
  <2>6. \A x \in fed' : \/ \E f \in DOMAIN buffer' : x \in buffer'[f].support
                        \/ \E m \in objects' : LocationOf(m.content) = Place(x)
    <3>1. r \in buffer'[e].support /\ e \in DOMAIN buffer'
      BY <2>2, <2>4
    <3>2. \A f \in DOMAIN buffer : buffer[f].support \subseteq buffer'[f].support
      BY <2>4
    <3>. QED  BY <1>1, <2>4, <3>1, <3>2 DEF PlaceInv
  <2>. QED  BY <1>1, <1>2, <2>5, <2>6 DEF PlaceInv
<1>7. CASE IngestDiscard(r, agentClock)
  <2>1. buffer' = buffer /\ ~ Surprising(c) /\ Reinforced(c) = {}
    BY <1>7 DEF IngestDiscard
  <2>2. PICK d \in Comparanda : ~ (Scale - Sim[c][d] > Theta)
    <3>1. Scale > Theta
      OBVIOUS
    <3>. QED  BY <2>1, <3>1 DEF Surprising
  <2>3. \E m \in objects : LocationOf(m.content) = Place(r)
    <3>1. CASE \E m \in objects : d = m.content
      <4>1. PICK m \in objects : d = m.content
        BY <3>1
      <4>2. ~ Apart(c, m.content)
        BY <2>2, <4>1 DEF Apart
      <4>3. LocationOf(c) = LocationOf(m.content)
        BY <1>1, <1>3, <4>2, KeyedPlaces
      <4>. QED  BY <4>3 DEF Place
    <3>2. ASSUME NEW e \in DOMAIN buffer, d = ContentOf[e]
          PROVE  FALSE
      <4>1. LocationOf(c) = LocationOf(ContentOf[e]) /\ Sim[c][ContentOf[e]] = Scale
        <5>1. ~ Apart(c, ContentOf[e])
          BY <2>2, <3>2 DEF Apart
        <5>. QED  BY <1>1, <1>3, <5>1, KeyedPlaces
      <4>2. \A f \in DOMAIN buffer : f = e \/ Sim[c][ContentOf[f]] = 0
        <5>1. \A f \in DOMAIN buffer : f # e => LocationOf(ContentOf[e]) # LocationOf(ContentOf[f])
          BY <1>3, KeyedPlaces DEF PatternInv
        <5>. QED  BY <1>1, <1>3, <4>1, <5>1, KeyedPlaces
      <4>3. \A m \in Visible : Sim[c][m.content] <= Scale
        <5>1. \A x \in Content : Sim[c][x] \in 0 .. Scale
          BY <1>1
        <5>2. Scale \in Nat
          OBVIOUS
        <5>. QED  BY <1>3, <1>4, <5>1, <5>2
      <4>4. buffer[e].pos \in Nat
        BY DEF KernelInv, TypeOK, Entry
      <4>5. Nearest(c, e)
        BY <4>1, <4>2, <4>3, <4>4 DEF Nearest
      <4>6. e \in Reinforced(c)
        BY <4>1, <4>5 DEF Reinforced
      <4>. QED  BY <2>1, <4>6
    <3>. QED  BY <1>4, <3>1, <3>2 DEF Comparanda
  <2>. QED  BY <1>1, <1>2, <2>1, <2>3 DEF PlaceInv
<1>. QED  BY <1>5, <1>6, <1>7 DEF IngestNext, r

\* A tick lets nothing expire, and promotes an entry with all its records.
LEMMA PlaceTick ==
    ASSUME Keyed, NeverMerges, KernelInv, PatternInv, EvidenceFed, EvidenceUsedOnce,
           IsFiniteSet(fed), PlaceInv, tick < NTasks, AnyTick
    PROVE  PlaceInv'
<1>. USE ConstantsAssumption, PipelineAssumption
<1>1. fed' = fed
  BY DEF AnyTick, TickOnly, TickAndPromote
<1>2. Expired = {}
  <2>1. tick \in Nat /\ \A e \in DOMAIN buffer : buffer[e].at \in Nat
    BY DEF KernelInv, TypeOK, Entry
  <2>2. TTL > NTasks /\ TTL \in Nat
    BY DEF Keyed
  <2>. QED  BY <2>1, <2>2 DEF Expired
<1>3. Without(buffer, Expired) = buffer
  BY <1>2 DEF Without, KernelInv, TypeOK
<1>4. \A place : Taught(place)' <=> Taught(place)
  BY <1>1 DEF Taught, EvidenceAt
<1>5. CASE TickOnly
  <2>1. buffer' = buffer /\ objects' = objects
    BY <1>3, <1>5 DEF TickOnly
  <2>. QED  BY <1>1, <1>4, <2>1 DEF PlaceInv
<1>6. CASE TickAndPromote
  <2>. DEFINE stamp == Tick(Tick(vclock, KernelAgent), Approver)
              new == {MemoryFrom(buffer, s, stamp) : s \in PromotableSeeds(buffer)}
  <2>1. objects' = objects \union new /\ buffer' = Without(buffer, Consumed(buffer))
    BY <1>3, <1>6 DEF TickAndPromote, RunPromotion, Store!PutAll
  <2>2. \A e \in DOMAIN buffer : Cluster(buffer, e) = {e}
    BY PartAlone DEF KernelInv
  <2>3. Consumed(buffer) = PromotableSeeds(buffer)
    BY <2>2 DEF Consumed, PromotableSeeds
  <2>4. /\ DOMAIN buffer' = DOMAIN buffer \ PromotableSeeds(buffer)
        /\ \A e \in DOMAIN buffer' : buffer'[e] = buffer[e]
    BY <2>1, <2>3 DEF Without
  <2>5. \A s \in PromotableSeeds(buffer) :
            s \in DOMAIN buffer /\ MemoryFrom(buffer, s, stamp).content = ContentOf[s]
    BY DEF PromotableSeeds, MemoryFrom
  <2>6. ASSUME NEW s \in PromotableSeeds(buffer)
        PROVE  Taught(Place(s))
    <3>. DEFINE E == EvidenceFor(buffer, s)
    <3>1. s \in DOMAIN buffer /\ Promotable(buffer, s)
      BY DEF PromotableSeeds
    <3>2. Cardinality(E) >= MinOccurrences
      <4>1. Cardinality(E) = Cardinality(Occurrences(buffer, s))
        <5>1. TypeOK /\ buffer = [e \in DOMAIN buffer |-> buffer[e]]
          BY DEF KernelInv, TypeOK
        <5>. QED  BY <3>1, <5>1, OccurrencesAreRecords
      <4>. QED  BY <3>1, <4>1 DEF Promotable
    <3>3. Cardinality({InputOf[r] : r \in E}) >= MinInputs
      BY <3>1 DEF Promotable
    <3>4. E \subseteq EvidenceAt(Place(s))
      <4>1. E = {r \in Eligible : r \in buffer[s].support}
        BY <2>2, <3>1 DEF EvidenceFor
      <4>. QED  BY <3>1, <4>1 DEF EvidenceAt, PlaceInv, EvidenceFed
    <3>5. IsFiniteSet(EvidenceAt(Place(s)))
      <4>1. EvidenceAt(Place(s)) \subseteq fed
        BY DEF EvidenceAt
      <4>. QED  BY <4>1, FS_Subset
    <3>. HIDE DEF E
    <3>. QED  BY <3>2, <3>3, <3>4, <3>5, MoreTeaches DEF Taught
  <2>7. \A m \in objects' : Taught(LocationOf(m.content))'
    BY <1>4, <2>1, <2>5, <2>6 DEF PlaceInv, Place
  <2>8. ASSUME NEW r \in fed
        PROVE  \/ \E e \in DOMAIN buffer' : r \in buffer'[e].support
               \/ \E m \in objects' : LocationOf(m.content) = Place(r)
    <3>1. CASE \E m \in objects : LocationOf(m.content) = Place(r)
      BY <2>1, <3>1
    <3>2. ASSUME NEW e \in DOMAIN buffer, r \in buffer[e].support, e \in PromotableSeeds(buffer)
          PROVE  \E m \in objects' : LocationOf(m.content) = Place(r)
      <4>1. Place(r) = Place(e)
        BY <3>2 DEF PlaceInv
      <4>2. MemoryFrom(buffer, e, stamp) \in objects'
        BY <2>1, <3>2
      <4>. QED  BY <2>5, <3>2, <4>1, <4>2 DEF Place
    <3>. QED  BY <2>4, <3>1, <3>2 DEF PlaceInv
  <2>. QED  BY <1>1, <2>4, <2>7, <2>8 DEF PlaceInv
<1>. QED  BY <1>5, <1>6 DEF AnyTick

\* Between tasks no entry is left whose place has been taught.
LEMMA TaughtIsLive ==
    ASSUME Keyed, NeverMerges, Theta < Scale, AsksEvidence, KernelInv, PatternInv, EvidenceFed,
           EvidenceUsedOnce, IsFiniteSet(fed), SettledInv, PlaceInv, pc = "next",
           NEW place, Taught(place)
    PROVE  \E m \in objects : LocationOf(m.content) = place
<1>. USE ConstantsAssumption, PipelineAssumption
<1>. SUFFICES ASSUME \A m \in objects : LocationOf(m.content) # place PROVE FALSE
  OBVIOUS
<1>1. PICK r : r \in EvidenceAt(place)
  <2>. DEFINE E == EvidenceAt(place)
  <2>1. ASSUME E = {}
        PROVE  FALSE
    <3>1. Cardinality(E) = 0
      BY <2>1, FS_EmptySet
    <3>2. Cardinality({InputOf[r] : r \in E}) = 0
      <4>1. {InputOf[r] : r \in E} = {}
        BY <2>1
      <4>. QED  BY <4>1, FS_EmptySet
    <3>3. MinOccurrences \in Nat /\ MinInputs \in Nat
      OBVIOUS
    <3>. QED  BY <3>1, <3>2, <3>3 DEF Taught, AsksEvidence
  <2>. QED  BY <2>1
<1>2. PICK e \in DOMAIN buffer : r \in buffer[e].support
  BY <1>1 DEF EvidenceAt, PlaceInv
<1>3. Place(e) = place /\ ContentOf[e] \in Content
  BY <1>1, <1>2 DEF EvidenceAt, PlaceInv, PatternInv
<1>4. EvidenceFor(buffer, e) = EvidenceAt(place)
  <2>1. EvidenceFor(buffer, e) = buffer[e].support \intersect Eligible
    <3>1. Cluster(buffer, e) = {e}
      BY PartAlone, <1>2 DEF KernelInv
    <3>. QED  BY <3>1 DEF EvidenceFor
  <2>2. ASSUME NEW x \in EvidenceAt(place)
        PROVE  x \in buffer[e].support
    <3>1. PICK f \in DOMAIN buffer : x \in buffer[f].support
      BY DEF EvidenceAt, PlaceInv
    <3>2. Place(f) = place /\ ContentOf[f] \in Content
      BY <3>1 DEF EvidenceAt, PlaceInv, PatternInv
    <3>3. f = e
      BY <1>2, <1>3, <3>2, KeyedPlaces DEF Place, PatternInv
    <3>. QED  BY <3>1, <3>3
  <2>3. \A x \in buffer[e].support : x \in fed /\ Place(x) = place
    BY <1>2, <1>3 DEF PlaceInv, EvidenceFed
  <2>. QED  BY <2>1, <2>2, <2>3 DEF EvidenceAt
<1>5. Cardinality(Occurrences(buffer, e)) >= MinOccurrences
  <2>1. TypeOK /\ buffer = [f \in DOMAIN buffer |-> buffer[f]]
    BY DEF KernelInv, TypeOK
  <2>2. Cardinality(EvidenceFor(buffer, e)) = Cardinality(Occurrences(buffer, e))
    BY <2>1, OccurrencesAreRecords
  <2>. QED  BY <1>4, <2>2 DEF Taught
<1>6. \A x \in EvidenceFor(buffer, e) : AgentOf[x] # Approver
  <2>1. \A x \in EvidenceFor(buffer, e) : x \in Records
    BY DEF EvidenceFor
  <2>. QED  BY <2>1
<1>7. Contradicts = {}
  BY DEF Keyed
<1>8. Promotable(buffer, e)
  BY <1>4, <1>5, <1>6, <1>7 DEF Promotable, Taught
<1>. QED  BY <1>8 DEF SettledInv
=============================================================================
