--------------------------- MODULE Replay_proofs ----------------------------
(***************************************************************************)
(* Proofs about replay: one that runs to its end has rebuilt the memory    *)
(* and the ledger of the original, whatever the original did.              *)
(***************************************************************************)
EXTENDS Replay, KernelLedger_proofs

\* What is proved of any kernel with its histories, for the replaying one
RR == INSTANCE KernelLedger_proofs WITH
    buffer <- buffer2, tick <- tick2, vclock <- vclock2, objects <- objects2,
    supersededBy <- supersededBy2, versions <- versions2, pinned <- pinned2,
    frozen <- frozen2, fed <- fed2, ledger <- ledger2, trace <- trace2

\* The assumptions about the constants are the same of both kernels.
LEMMA SameClocks == RR!Clock = Clock
BY DEF RR!Clock, Clock

\* The operators are those of the original's kernel: none depends on which of the
\* two it is asked of.
LEMMA SameOperators ==
    ASSUME NEW s, NEW b, NEW c
    PROVE  /\ RR!K(s)!Live = K(s)!Live /\ RR!K(s)!Visible = K(s)!Visible
           /\ RR!K(s)!Surprising(c) = K(s)!Surprising(c)
           /\ RR!K(s)!Reinforced(c) = K(s)!Reinforced(c)
           /\ RR!K(s)!Expired = K(s)!Expired
           /\ RR!K(s)!PromotableSeeds(b) = K(s)!PromotableSeeds(b)
           /\ RR!K(s)!Consumed(b) = K(s)!Consumed(b)
<1>1. RR!K(s)!Live = K(s)!Live /\ RR!K(s)!Visible = K(s)!Visible
  BY DEF RR!K!Live, K!Live, RR!K!Store!Live, K!Store!Live, RR!K!Visible, K!Visible,
         RR!K!Store!At, K!Store!At
<1>2. RR!K(s)!Comparanda = K(s)!Comparanda
  BY <1>1 DEF RR!K!Comparanda, K!Comparanda
<1>3. RR!K(s)!Surprising(c) = K(s)!Surprising(c)
  BY <1>2 DEF RR!K!Surprising, K!Surprising
<1>4. \A e : RR!K(s)!Nearest(c, e) = K(s)!Nearest(c, e)
  BY <1>1 DEF RR!K!Nearest, K!Nearest
<1>5. RR!K(s)!Reinforced(c) = K(s)!Reinforced(c)
  BY <1>4 DEF RR!K!Reinforced, K!Reinforced
<1>6. RR!K(s)!Expired = K(s)!Expired
  BY DEF RR!K!Expired, K!Expired
<1>7. RR!K(s)!Seeds(b) = K(s)!Seeds(b)
  BY DEF RR!K!Seeds, K!Seeds, RR!K!SamePattern, K!SamePattern
<1>8. \A e : RR!K(s)!Cluster(b, e) = K(s)!Cluster(b, e)
  BY <1>7 DEF RR!K!Cluster, K!Cluster, RR!K!SamePattern, K!SamePattern
<1>9. \A e : RR!K(s)!EvidenceFor(b, e) = K(s)!EvidenceFor(b, e)
  BY <1>8 DEF RR!K!EvidenceFor, K!EvidenceFor
<1>10. \A e : RR!K(s)!Occurrences(b, e) = K(s)!Occurrences(b, e)
  BY <1>8 DEF RR!K!Occurrences, K!Occurrences
<1>11. \A e : RR!K(s)!Promotable(b, e) = K(s)!Promotable(b, e)
  <2>1. \A S : RR!K(s)!Cardinality(S) = K(s)!Cardinality(S)
    BY DEF RR!K!Cardinality, K!Cardinality
  <2>. QED  BY <2>1, <1>1, <1>9, <1>10 DEF RR!K!Promotable, K!Promotable
<1>12. RR!K(s)!PromotableSeeds(b) = K(s)!PromotableSeeds(b)
  BY <1>7, <1>11 DEF RR!K!PromotableSeeds, K!PromotableSeeds
<1>13. RR!K(s)!Consumed(b) = K(s)!Consumed(b)
  BY <1>8, <1>12 DEF RR!K!Consumed, K!Consumed
<1>. QED  BY <1>1, <1>3, <1>5, <1>6, <1>12, <1>13

LEMMA SameRecords ==
    ASSUME NEW b, NEW e, NEW c, NEW x, NEW s
    PROVE  /\ RR!Cluster(b, e) = Cluster(b, e) /\ RR!Seeds(b) = Seeds(b)
           /\ RR!MemoryFrom(b, e, c) = MemoryFrom(b, e, c)
           /\ RR!Hashed(e, x, c) = Hashed(e, x, c)
           /\ RR!Tick(c, x) = Tick(c, x) /\ RR!Merge(c, x) = Merge(c, x)
           /\ RR!Without(b, x) = Without(b, x)
           /\ RR!TopK(x, c) = TopK(x, c)
           /\ RR!K(s)!Successor(e, c) = K(s)!Successor(e, c)
<1>1. RR!Seeds(b) = Seeds(b)
  BY DEF RR!Seeds, Seeds, RR!SamePattern, SamePattern
<1>2. \A f : RR!Cluster(b, f) = Cluster(b, f)
  BY <1>1 DEF RR!Cluster, Cluster, RR!SamePattern, SamePattern
<1>3. RR!EvidenceFor(b, e) = EvidenceFor(b, e)
  BY <1>2 DEF RR!EvidenceFor, EvidenceFor
<1>4. RR!MemoryFrom(b, e, c) = MemoryFrom(b, e, c)
  BY <1>3 DEF RR!MemoryFrom, MemoryFrom
<1>5. /\ RR!Hashed(e, x, c) = Hashed(e, x, c)
      /\ RR!Tick(c, x) = Tick(c, x) /\ RR!Merge(c, x) = Merge(c, x)
      /\ RR!Without(b, x) = Without(b, x)
  BY DEF RR!Hashed, Hashed, RR!Tick, Tick, RR!Merge, Merge, RR!Without, Without
<1>6. RR!TopK(x, c) = TopK(x, c)
  BY DEF RR!TopK, TopK, RR!Cardinality, Cardinality
<1>7. RR!K(s)!Successor(e, c) = K(s)!Successor(e, c)
  BY DEF RR!K!Successor, K!Successor, RR!K!Tick, K!Tick
<1>. QED  BY <1>1, <1>2, <1>4, <1>5, <1>6, <1>7

LEMMA SamePost ==
    ASSUME NEW s, NEW e
    PROVE  RR!Post(s, e) = Post(s, e)
<1>1. \A c : RR!Nearby(s, c) = Nearby(s, c)
  BY SameOperators DEF RR!Nearby, Nearby
<1>2. \A b, f, x : RR!Holding(b, f, x) = Holding(b, f, x)
  BY DEF RR!Holding, Holding
<1>3. \A r : RR!ClockWith(s, r) = ClockWith(s, r)
  BY SameRecords DEF RR!ClockWith, ClockWith
<1>4. \A r, clock : RR!BufferWith(s, r, clock) = BufferWith(s, r, clock)
  BY <1>1, <1>2, SameOperators DEF RR!BufferWith, BufferWith
<1>5. \A r : RR!AfterIngest(s, r) = AfterIngest(s, r)
  BY <1>3, <1>4 DEF RR!AfterIngest, AfterIngest
<1>6. ASSUME NEW b, NEW now, NEW stamp
      PROVE  RR!PromotedFrom(s, b, now, stamp) = PromotedFrom(s, b, now, stamp)
  <2>1. {RR!MemoryFrom(b, f, stamp) : f \in RR!K(s)!PromotableSeeds(b)}
            = {MemoryFrom(b, f, stamp) : f \in K(s)!PromotableSeeds(b)}
    BY SameOperators, SameRecords
  <2>. QED  BY <2>1, SameOperators, SameRecords DEF RR!PromotedFrom, PromotedFrom
<1>7. RR!AfterTick(s) = AfterTick(s)
  BY <1>6, SameOperators, SameRecords DEF RR!AfterTick, AfterTick, RR!Promotes, Promotes
<1>8. RR!AfterPromote(s) = AfterPromote(s)
  BY <1>6, SameRecords DEF RR!AfterPromote, AfterPromote
<1>9. \A old, c : RR!AfterSupersede(s, old, c) = AfterSupersede(s, old, c)
  BY <1>2, SameRecords DEF RR!AfterSupersede, AfterSupersede
<1>10. \A new, pin, freezes :
          RR!AfterVersions(s, new, pin, freezes) = AfterVersions(s, new, pin, freezes)
  BY SameRecords DEF RR!AfterVersions, AfterVersions
<1>. QED
  BY <1>5, <1>7, <1>8, <1>9, <1>10, SameOperators DEF RR!Post, Post

LEMMA SameEntries ==
    ASSUME NEW l, NEW s, NEW e
    PROVE  RR!Written(l, s, e) = Written(l, s, e)
<1>1. \A c : RR!Nearby(s, c) = Nearby(s, c)
  BY SameOperators DEF RR!Nearby, Nearby
<1>2. \A r : RR!ClockWith(s, r) = ClockWith(s, r)
  BY SameRecords DEF RR!ClockWith, ClockWith
<1>3. \A r : RR!RetrievedFrom(s, r) = RetrievedFrom(s, r)
  BY <1>2, SameOperators, SameRecords DEF RR!RetrievedFrom, RetrievedFrom
<1>4. \A r : RR!Refuses(s, r) <=> Refuses(s, r)
  BY <1>1, SameOperators DEF RR!Refuses, Refuses
<1>5. \A r, wall : RR!IngestedAs(s, r, wall) = IngestedAs(s, r, wall)
  <2>1. \A r : RR!Outcome(s, r) = Outcome(s, r)
    BY SameOperators DEF RR!Outcome, Outcome
  <2>. QED  BY <1>2, <2>1, SameRecords DEF RR!IngestedAs, IngestedAs
<1>6. ASSUME NEW b, NEW now, NEW stamp
      PROVE  RR!PromotedAs(s, b, now, stamp) = PromotedAs(s, b, now, stamp)
  <2>1. {RR!MemoryFrom(b, f, stamp) : f \in RR!K(s)!PromotableSeeds(b)}
            = {MemoryFrom(b, f, stamp) : f \in K(s)!PromotableSeeds(b)}
    BY SameOperators, SameRecords
  <2>2. {RR!Cluster(b, f) : f \in RR!Seeds(b) \ RR!K(s)!PromotableSeeds(b)}
            = {Cluster(b, f) : f \in Seeds(b) \ K(s)!PromotableSeeds(b)}
    BY SameOperators, SameRecords
  <2>. QED  BY <2>1, <2>2, SameRecords DEF RR!PromotedAs, PromotedAs
<1>7. RR!ExpiredAs(s) = ExpiredAs(s)
  BY SameOperators, SameRecords DEF RR!ExpiredAs, ExpiredAs
<1>8. RR!WrittenByTick(l, s) = WrittenByTick(l, s)
  BY <1>6, <1>7, SameOperators, SameRecords
     DEF RR!WrittenByTick, WrittenByTick, RR!Promotes, Promotes
<1>9. \A event, payload : RR!Versioned(s, event, payload) = Versioned(s, event, payload)
  BY SameRecords DEF RR!Versioned, Versioned
<1>. QED
  BY <1>3, <1>4, <1>5, <1>6, <1>8, <1>9, SameOperators, SameRecords DEF RR!Written, Written

\* What the replaying kernel is determined by is what determines the original.
LEMMA SameStories ==
    ASSUME NEW t, NEW h, NEW g, NEW l, NEW m
    PROVE  /\ RR!Explains(t, h, g) <=> Explains(t, h, g)
           /\ RR!SameMutations(l, m) <=> SameMutations(l, m)
           /\ RR!Retrievals(l) = Retrievals(l)
           /\ RR!Ingests(t) = Ingests(t)
<1>1. RR!Beginning = Beginning /\ RR!Hashed("init", [config |-> TRUE], RR!Zero)
                                     = Hashed("init", [config |-> TRUE], Zero)
  BY DEF RR!Beginning, Beginning, RR!Zero, Zero, RR!Hashed, Hashed
<1>2. RR!Explains(t, h, g) <=> Explains(t, h, g)
  BY <1>1, SamePost, SameEntries DEF RR!Explains, Explains
<1>3. \A s, f, v : RR!Omitting(s, f, v) = Omitting(s, f, v)
  BY DEF RR!Omitting, Omitting
<1>. QED
  BY <1>2, <1>3
     DEF RR!SameMutations, SameMutations, RR!IsSeq, IsSeq, RR!Mutations, Mutations,
         RR!Retrievals, Retrievals, RR!Ingests, Ingests, RR!Dropped, Dropped
-----------------------------------------------------------------------------
(***************************************************************************)
(* The calls of the replaying kernel                                       *)
(***************************************************************************)
LEMMA SameViews ==
    ASSUME NEW b, NEW e, NEW c, NEW x
    PROVE  /\ R!Live = RR!Live /\ R!Visible = RR!Visible
           /\ R!Surprising(c) <=> RR!Surprising(c)
           /\ R!Reinforced(c) = RR!Reinforced(c)
           /\ R!Expired = RR!Expired
           /\ R!PromotableSeeds(b) = RR!PromotableSeeds(b)
           /\ R!Consumed(b) = RR!Consumed(b)
           /\ R!Cluster(b, e) = RR!Cluster(b, e) /\ R!Seeds(b) = RR!Seeds(b)
           /\ R!MemoryFrom(b, e, c) = RR!MemoryFrom(b, e, c)
           /\ R!Successor(e, c) = RR!Successor(e, c)
           /\ R!Without(b, x) = RR!Without(b, x)
           /\ R!Hashed(e, x, c) = RR!Hashed(e, x, c)
           /\ R!Tick(c, x) = RR!Tick(c, x) /\ R!Merge(c, x) = RR!Merge(c, x)
           /\ R!TopK(x, c) = RR!TopK(x, c)
<1>1. R!Live = RR!Live /\ R!Visible = RR!Visible
  BY DEF R!Live, RR!Live, R!Store!Live, RR!Store!Live, R!Visible, RR!Visible,
         R!Store!At, RR!Store!At
<1>2. R!Surprising(c) <=> RR!Surprising(c)
  BY <1>1 DEF R!Surprising, RR!Surprising, R!Comparanda, RR!Comparanda
<1>3. R!Reinforced(c) = RR!Reinforced(c)
  BY <1>1 DEF R!Reinforced, RR!Reinforced, R!Nearest, RR!Nearest
<1>4. R!Expired = RR!Expired /\ R!Without(b, x) = RR!Without(b, x)
  BY DEF R!Expired, RR!Expired, R!Without, RR!Without
<1>5. R!Seeds(b) = RR!Seeds(b)
  BY DEF R!Seeds, RR!Seeds, R!SamePattern, RR!SamePattern
<1>6. \A s : R!Cluster(b, s) = RR!Cluster(b, s)
  BY <1>5 DEF R!Cluster, RR!Cluster, R!SamePattern, RR!SamePattern
<1>7. \A s : /\ R!EvidenceFor(b, s) = RR!EvidenceFor(b, s)
             /\ R!Occurrences(b, s) = RR!Occurrences(b, s)
  BY <1>6 DEF R!EvidenceFor, RR!EvidenceFor, R!Occurrences, RR!Occurrences
<1>8. \A s : R!Promotable(b, s) <=> RR!Promotable(b, s)
  <2>1. \A S : R!Cardinality(S) = RR!Cardinality(S)
    BY DEF R!Cardinality, RR!Cardinality
  <2>. QED  BY <2>1, <1>1, <1>7 DEF R!Promotable, RR!Promotable
<1>9. R!PromotableSeeds(b) = RR!PromotableSeeds(b)
  BY <1>5, <1>8 DEF R!PromotableSeeds, RR!PromotableSeeds
<1>10. R!Consumed(b) = RR!Consumed(b)
  BY <1>6, <1>9 DEF R!Consumed, RR!Consumed
<1>11. R!MemoryFrom(b, e, c) = RR!MemoryFrom(b, e, c)
  BY <1>7 DEF R!MemoryFrom, RR!MemoryFrom
<1>12. /\ R!Tick(c, x) = RR!Tick(c, x) /\ R!Merge(c, x) = RR!Merge(c, x)
       /\ R!Successor(e, c) = RR!Successor(e, c)
       /\ R!Hashed(e, x, c) = RR!Hashed(e, x, c)
  BY DEF R!Tick, RR!Tick, R!Merge, RR!Merge, R!Successor, RR!Successor, R!Hashed, RR!Hashed
<1>13. R!TopK(x, c) = RR!TopK(x, c)
  BY DEF R!TopK, RR!TopK, R!Cardinality, RR!Cardinality
<1>. QED
  BY <1>1, <1>2, <1>3, <1>4, <1>5, <1>6, <1>9, <1>10, <1>11, <1>12, <1>13

LEMMA SameIngests ==
    ASSUME NEW r, NEW wall
    PROVE  /\ R!LoggedIngest(r, wall) <=> RR!LoggedIngest(r, wall)
           /\ R!LoggedIngestRefused(r, wall) <=> RR!LoggedIngestRefused(r, wall)
<1>1. \A rc : R!Observe(r, rc) <=> RR!Observe(r, rc)
  BY SameViews DEF R!Observe, RR!Observe
<1>2. \A e, x : R!SetEntry(e, x) <=> RR!SetEntry(e, x)
  BY DEF R!SetEntry, RR!SetEntry
<1>3. \A rc : R!IngestAdmit(r, rc) <=> RR!IngestAdmit(r, rc)
  BY <1>1, <1>2, SameViews DEF R!IngestAdmit, RR!IngestAdmit
<1>4. \A rc : R!IngestReinforce(r, rc) <=> RR!IngestReinforce(r, rc)
  BY <1>1, <1>2, SameViews DEF R!IngestReinforce, RR!IngestReinforce
<1>5. \A rc : /\ R!IngestDiscard(r, rc) <=> RR!IngestDiscard(r, rc)
              /\ R!IngestRefused(r, rc) <=> RR!IngestRefused(r, rc)
  BY <1>1, SameViews DEF R!IngestDiscard, RR!IngestDiscard, R!IngestRefused, RR!IngestRefused
<1>6. \A c, clock : R!RetrieveEntry(c, clock) = RR!RetrieveEntry(c, clock)
  BY SameViews DEF R!RetrieveEntry, RR!RetrieveEntry, R!Hits, RR!Hits
<1>7. \A outcome : R!IngestEntry(r, wall, outcome) = RR!IngestEntry(r, wall, outcome)
  BY SameViews DEF R!IngestEntry, RR!IngestEntry
<1>8. \A e : /\ R!Traced(e) <=> RR!Traced(e)
             /\ R!Log(e) <=> RR!Log(e)
  BY DEF R!Traced, RR!Traced, R!Log, RR!Log
<1>9. R!LoggedIngestRefused(r, wall) <=> RR!LoggedIngestRefused(r, wall)
  BY <1>5, <1>6, <1>8 DEF R!LoggedIngestRefused, RR!LoggedIngestRefused
<1>10. R!LoggedIngest(r, wall) <=> RR!LoggedIngest(r, wall)
  BY <1>3, <1>4, <1>5, <1>6, <1>7, <1>8, SameViews DEF R!LoggedIngest, RR!LoggedIngest
<1>. QED  BY <1>9, <1>10

LEMMA SamePromotions ==
    /\ R!LoggedTick <=> RR!LoggedTick
    /\ R!LoggedPromote <=> RR!LoggedPromote
    /\ R!LoggedPromoteRefused <=> RR!LoggedPromoteRefused
<1>1. ASSUME NEW b, NEW stamp
      PROVE  R!RunPromotion(b, stamp) <=> RR!RunPromotion(b, stamp)
  <2>1. {R!MemoryFrom(b, s, stamp) : s \in R!PromotableSeeds(b)}
            = {RR!MemoryFrom(b, s, stamp) : s \in RR!PromotableSeeds(b)}
    BY SameViews
  <2>. QED
    BY <2>1, SameViews DEF R!RunPromotion, RR!RunPromotion, R!Store!PutAll, RR!Store!PutAll
<1>2. ASSUME NEW b
      PROVE  R!PromoteEntry(b) = RR!PromoteEntry(b)
  <2>1. {R!MemoryFrom(b, s, vclock2') : s \in R!PromotableSeeds(b)}
            = {RR!MemoryFrom(b, s, vclock2') : s \in RR!PromotableSeeds(b)}
    BY SameViews
  <2>2. {R!Cluster(b, s) : s \in R!Seeds(b) \ R!PromotableSeeds(b)}
            = {RR!Cluster(b, s) : s \in RR!Seeds(b) \ RR!PromotableSeeds(b)}
    BY SameViews
  <2>. QED  BY <2>1, <2>2, SameViews DEF R!PromoteEntry, RR!PromoteEntry
<1>3. R!ExpireEntries = RR!ExpireEntries
  BY SameViews DEF R!ExpireEntries, RR!ExpireEntries
<1>4. \A e : (R!Traced(e) <=> RR!Traced(e)) /\ (R!Log(e) <=> RR!Log(e))
  BY DEF R!Traced, RR!Traced, R!Log, RR!Log
<1>5. R!TickOnly <=> RR!TickOnly
  BY SameViews DEF R!TickOnly, RR!TickOnly
<1>6. R!TickAndPromote <=> RR!TickAndPromote
  BY <1>1, SameViews DEF R!TickAndPromote, RR!TickAndPromote
<1>7. R!Promote <=> RR!Promote
  BY <1>1, SameViews DEF R!Promote, RR!Promote
<1>8. R!LoggedTick <=> RR!LoggedTick
  BY <1>2, <1>3, <1>4, <1>5, <1>6, SameViews DEF R!LoggedTick, RR!LoggedTick
<1>9. R!LoggedPromote <=> RR!LoggedPromote
  BY <1>2, <1>4, <1>7 DEF R!LoggedPromote, RR!LoggedPromote
<1>10. R!LoggedPromoteRefused <=> RR!LoggedPromoteRefused
  BY <1>4 DEF R!LoggedPromoteRefused, RR!LoggedPromoteRefused, R!vars, RR!vars
<1>. QED  BY <1>8, <1>9, <1>10

LEMMA SameVersions ==
    ASSUME NEW old, NEW c, NEW v
    PROVE  /\ R!LoggedSupersede(old, c) <=> RR!LoggedSupersede(old, c)
           /\ R!LoggedSupersedeRefused(old, c) <=> RR!LoggedSupersedeRefused(old, c)
           /\ R!LoggedSnapshot <=> RR!LoggedSnapshot
           /\ R!LoggedFreeze <=> RR!LoggedFreeze
           /\ R!LoggedPin(v) <=> RR!LoggedPin(v)
<1>1. \A e : (R!Traced(e) <=> RR!Traced(e)) /\ (R!Log(e) <=> RR!Log(e))
  BY DEF R!Traced, RR!Traced, R!Log, RR!Log
<1>2. \A new : R!Store!Supersede(old, new) <=> RR!Store!Supersede(old, new)
  BY DEF R!Store!Supersede, RR!Store!Supersede, R!Store!Live, RR!Store!Live
<1>3. R!Supersede(old, c) <=> RR!Supersede(old, c)
  BY <1>2, SameViews DEF R!Supersede, RR!Supersede
<1>4. R!SupersedeRefused(old) <=> RR!SupersedeRefused(old)
  BY SameViews DEF R!SupersedeRefused, RR!SupersedeRefused
<1>5. R!LoggedSupersede(old, c) <=> RR!LoggedSupersede(old, c)
  BY <1>1, <1>3, SameViews DEF R!LoggedSupersede, RR!LoggedSupersede
<1>6. R!LoggedSupersedeRefused(old, c) <=> RR!LoggedSupersedeRefused(old, c)
  BY <1>1, <1>4 DEF R!LoggedSupersedeRefused, RR!LoggedSupersedeRefused
<1>7. R!Store!RecordVersion <=> RR!Store!RecordVersion
  BY DEF R!Store!RecordVersion, RR!Store!RecordVersion, R!Store!Live, RR!Store!Live
<1>8. R!LoggedSnapshot <=> RR!LoggedSnapshot
  BY <1>1, <1>7, SameViews DEF R!LoggedSnapshot, RR!LoggedSnapshot, R!Snapshot, RR!Snapshot
<1>9. R!LoggedFreeze <=> RR!LoggedFreeze
  BY <1>1, <1>7, SameViews DEF R!LoggedFreeze, RR!LoggedFreeze, R!Freeze, RR!Freeze
<1>10. R!LoggedPin(v) <=> RR!LoggedPin(v)
  BY <1>1, SameViews DEF R!LoggedPin, RR!LoggedPin, R!Pin, RR!Pin
<1>. QED  BY <1>5, <1>6, <1>8, <1>9, <1>10

\* A step of the replay is the call that the event stands for, done or raising;
\* only a pin of an unknown version is refused before it leaves a mark.
LEMMA ApplyPerforms ==
    ASSUME NEW e, Event(e), Apply(e)
    PROVE  RR!Event(e) /\ RR!Performs(e)
<1>1. RR!Event(e)
  BY DEF Event, RR!Event, IngestEvent, RR!IngestEvent
<1>2. ASSUME NEW r \in Records, NEW wall, e = IngestEvent(r, wall)
      PROVE  RR!Performs(e)
  <2>1. /\ e = [op |-> "ingest", record |-> r, wall_clock |-> wall]
        /\ e.op = "ingest" /\ e.record = r /\ e.wall_clock = wall
    BY <1>2 DEF IngestEvent
  <2>2. R!LoggedIngest(r, wall)
    BY <2>1 DEF Apply
  <2>. QED  BY <2>1, <2>2, SameIngests DEF RR!Performs, RR!IngestEvent
<1>3. ASSUME NEW old, NEW c \in Content, e = [op |-> "supersede", old |-> old, content |-> c]
      PROVE  RR!Performs(e)
  <2>1. R!LoggedSupersede(old, c)
    BY <1>3 DEF Apply
  <2>. QED  BY <1>3, <2>1, SameVersions DEF RR!Performs
<1>4. ASSUME NEW v, v = {} \/ \E x : v = {x}, e = [op |-> "pin", version |-> v]
      PROVE  RR!Performs(e)
  <2>1. R!LoggedPin(v)
    BY <1>4 DEF Apply
  <2>. QED  BY <1>4, <2>1, SameVersions DEF RR!Performs
<1>5. CASE e = [op |-> "tick"]
  <2>1. e.op = "tick"
    BY <1>5
  <2>2. R!LoggedTick
    BY <2>1 DEF Apply
  <2>. QED  BY <1>1, <1>5, <2>2, SamePromotions DEF RR!Performs
<1>6. CASE e = [op |-> "promote"]
  <2>1. e.op = "promote"
    BY <1>6
  <2>2. R!LoggedPromote
    BY <2>1 DEF Apply
  <2>. QED  BY <1>1, <1>6, <2>2, SamePromotions DEF RR!Performs
<1>7. CASE e = [op |-> "snapshot"]
  <2>1. e.op = "snapshot"
    BY <1>7
  <2>2. R!LoggedSnapshot
    BY <2>1 DEF Apply
  <2>. QED  BY <1>1, <1>7, <2>2, SameVersions DEF RR!Performs
<1>8. CASE e = [op |-> "freeze"]
  <2>1. e.op = "freeze"
    BY <1>8
  <2>2. R!LoggedFreeze
    BY <2>1 DEF Apply
  <2>. QED  BY <1>1, <1>8, <2>2, SameVersions DEF RR!Performs
<1>. QED  BY <1>1, <1>2, <1>3, <1>4, <1>5, <1>6, <1>7, <1>8 DEF Event
-----------------------------------------------------------------------------
(***************************************************************************)
(* The invariant: as far as a replay has come, its kernel has the trace of *)
(* the original, and nothing in its ledger that is not from the trace.     *)
(***************************************************************************)
ReplayInv ==
    /\ phase \in {"recording", "replaying", "done", "raised"}
    /\ KernelInv /\ Determined
    /\ applied \in Nat /\ applied <= Len(trace)
    /\ phase = "recording" => applied = 0
    /\ phase = "done" => applied = Len(trace)
    /\ phase # "raised" =>
          /\ RR!KernelInv /\ RR!Determined
          /\ RR!Retrievals(ledger2) = RR!Ingests(trace2)
          /\ Len(trace2) = applied
          /\ \A k \in 1 .. applied : trace2[k] = trace[k]

LEMMA ReplayStarts ==
    ASSUME ReplayInit
    PROVE  ReplayInv
<1>1. RR!LedgerInit
  BY DEF ReplayInit, R!LedgerInit, RR!LedgerInit, R!Init, RR!Init, R!Store!StoreInit,
         RR!Store!StoreInit, R!Zero, RR!Zero, R!Hashed, RR!Hashed
<1>2. /\ KernelInv /\ Determined /\ trace = << >>
      /\ RR!KernelInv /\ RR!Determined /\ trace2 = << >>
  BY <1>1, DeterminedStarts, RR!DeterminedStarts, SameClocks, ConstantsAssumption,
     LedgerAssumption
     DEF ReplayInit
<1>3. Retrievals(ledger2) = 0
  <2>1. ledger2 = << Hashed("init", [config |-> TRUE], Zero) >>
    BY DEF ReplayInit, R!LedgerInit, R!Zero, Zero, R!Hashed, Hashed
  <2>. DEFINE e == Hashed("init", [config |-> TRUE], Zero)
              s == << >>
  <2>2. ledger2 = Append(s, e)
    BY <2>1
  <2>3. IsSeq(s)
    <3>1. << >> \in Seq({})
      OBVIOUS
    <3>. QED  BY <3>1 DEF IsSeq
  <2>4. e["event"] # "retrieve"
    BY DEF Hashed
  <2>5. Dropped(s, "event", "retrieve") = 0
    BY OmittingNone DEF Dropped
  <2>. HIDE DEF e, s
  <2>6. Dropped(Append(s, e), "event", "retrieve") = Dropped(s, "event", "retrieve")
    BY <2>3, <2>4, OneMore
  <2>. QED  BY <2>2, <2>5, <2>6 DEF Retrievals
<1>4. Ingests(trace2) = 0
  BY <1>2, OmittingNone DEF Ingests, Dropped
<1>. QED  BY <1>2, <1>3, <1>4, SameStories DEF ReplayInv, ReplayInit

\* The kernel of the replay while only the original's is called
LEMMA ReplicaRests ==
    ASSUME RR!KernelInv, RR!Determined, RR!Retrievals(ledger2) = RR!Ingests(trace2),
           UNCHANGED replica
    PROVE  /\ RR!KernelInv' /\ RR!Determined'
           /\ RR!Retrievals(ledger2') = RR!Ingests(trace2')
           /\ trace2' = trace2
<1>1. UNCHANGED RR!ledgerVars /\ ledger2' = ledger2 /\ trace2' = trace2
  BY DEF replica, RR!ledgerVars
<1>2. RR!KernelInv' /\ RR!Determined'
  BY <1>1, RR!DeterminedStutter, SameClocks, ConstantsAssumption, LedgerAssumption
<1>3. RR!Retrievals(ledger2') = RR!Ingests(trace2')
  BY <1>1
<1>. QED  BY <1>1, <1>2, <1>3

LEMMA OriginalRests ==
    ASSUME KernelInv, Determined, UNCHANGED original
    PROVE  KernelInv' /\ Determined' /\ trace' = trace
<1>1. UNCHANGED ledgerVars /\ trace' = trace
  BY DEF original, ledgerVars
<1>. QED  BY <1>1, DeterminedStutter

LEMMA RecordStep ==
    ASSUME ReplayInv, Record(TracedCall \/ RefusedCall \/ UntracedCall)
    PROVE  ReplayInv'
<1>1. /\ phase = "recording" /\ applied = 0 /\ UNCHANGED <<replica, phase, applied>>
      /\ TracedCall \/ RefusedCall \/ UntracedCall
  BY DEF Record, ReplayInv
<1>2. KernelInv' /\ Determined'
  <2>1. CASE TracedCall \/ RefusedCall
    <3>1. PICK e : Event(e) /\ Performs(e)
      BY <2>1, CallsAreEvents DEF ReplayInv, KernelInv
    <3>. QED  BY <3>1, DeterminedCall DEF ReplayInv
  <2>2. CASE UntracedCall
    BY <2>2, DeterminedRetrieve DEF ReplayInv, UntracedCall
  <2>. QED  BY <1>1, <2>1, <2>2
<1>3. Len(trace') \in Nat
  BY <1>2, LengthIsNat DEF Determined
<1>4. /\ RR!KernelInv' /\ RR!Determined' /\ trace2' = trace2 /\ Len(trace2) = 0
      /\ RR!Retrievals(ledger2') = RR!Ingests(trace2')
  BY <1>1, ReplicaRests DEF ReplayInv
<1>. QED  BY <1>1, <1>2, <1>3, <1>4 DEF ReplayInv

LEMMA ReplayOn ==
    ASSUME ReplayInv, Replaying
    PROVE  ReplayInv'
<1>1. KernelInv' /\ Determined' /\ trace' = trace /\ Len(trace) \in Nat
  <2>1. UNCHANGED original
    BY DEF Replaying, StartReplay, ReplayStep, FinishReplay
  <2>. QED  BY <2>1, OriginalRests, LengthIsNat DEF ReplayInv, Determined
<1>2. ASSUME UNCHANGED <<replica, applied>>, phase # "raised", phase' \in {"replaying", "done"},
             phase' = "done" => applied = Len(trace)
      PROVE  ReplayInv'
  <2>1. /\ RR!KernelInv' /\ RR!Determined' /\ trace2' = trace2
        /\ RR!Retrievals(ledger2') = RR!Ingests(trace2')
    BY <1>2, ReplicaRests DEF ReplayInv
  <2>. QED  BY <1>1, <1>2, <2>1 DEF ReplayInv
<1>3. CASE StartReplay
  BY <1>2, <1>3 DEF StartReplay
<1>4. CASE FinishReplay
  BY <1>2, <1>4 DEF FinishReplay
<1>5. CASE ReplayStep
  <2>. DEFINE e == trace[applied + 1]
  <2>1. /\ phase = "replaying" /\ applied \in Nat /\ applied + 1 <= Len(trace)
        /\ applied' = applied + 1 /\ Event(e)
    BY <1>1, <1>5 DEF ReplayStep, ReplayInv, Determined
  <2>2. CASE Apply(e) /\ UNCHANGED phase
    <3>1. /\ RR!KernelInv /\ RR!Determined /\ RR!Retrievals(ledger2) = RR!Ingests(trace2)
          /\ Len(trace2) = applied /\ \A k \in 1 .. applied : trace2[k] = trace[k]
      BY <2>1 DEF ReplayInv
    <3>2. RR!Event(e) /\ RR!Performs(e)
      BY <2>1, <2>2, ApplyPerforms
    <3>. HIDE DEF e
    <3>3. /\ RR!KernelInv' /\ RR!Determined' /\ trace2' = Append(trace2, e)
          /\ RR!Retrievals(ledger2') = RR!Ingests(trace2')
      BY <3>1, <3>2, RR!DeterminedCall, SameClocks, ConstantsAssumption, LedgerAssumption
    <3>4. PICK S : trace2 \in Seq(S)
      BY <3>1 DEF RR!Determined, RR!IsSeq
    <3>5. /\ Len(trace2') = applied + 1 /\ trace2'[applied + 1] = e
          /\ \A k \in 1 .. applied : trace2'[k] = trace2[k]
      BY <3>1, <3>3, <3>4
    <3>6. \A k \in 1 .. applied' : trace2'[k] = trace'[k]
      BY <1>1, <2>1, <3>1, <3>5 DEF e
    <3>. QED  BY <1>1, <2>1, <2>2, <3>3, <3>5, <3>6 DEF ReplayInv
  <2>3. CASE ApplyRaises(e) /\ phase' = "raised"
    BY <1>1, <2>1, <2>3 DEF ReplayInv
  <2>. QED  BY <1>5, <2>2, <2>3 DEF ReplayStep
<1>. QED  BY <1>3, <1>4, <1>5 DEF Replaying

LEMMA ReplayInvariant == ReplaySpec => []ReplayInv
<1>1. ReplayInit => ReplayInv
  BY ReplayStarts
<1>2. ReplayInv /\ [ReplayNext]_replayVars => ReplayInv'
  <2>1. SUFFICES ASSUME ReplayInv, [ReplayNext]_replayVars PROVE ReplayInv'
    OBVIOUS
  <2>2. CASE UNCHANGED replayVars
    <3>1. UNCHANGED original /\ UNCHANGED replica /\ UNCHANGED <<phase, applied>>
      BY <2>2 DEF replayVars
    <3>2. KernelInv' /\ Determined' /\ trace' = trace
      BY <2>1, <3>1, OriginalRests DEF ReplayInv
    <3>3. CASE phase = "raised"
      BY <2>1, <3>1, <3>2, <3>3 DEF ReplayInv
    <3>4. CASE phase # "raised"
      <4>1. /\ RR!KernelInv' /\ RR!Determined' /\ trace2' = trace2
            /\ RR!Retrievals(ledger2') = RR!Ingests(trace2')
        BY <2>1, <3>1, <3>4, ReplicaRests DEF ReplayInv
      <4>. QED  BY <2>1, <3>1, <3>2, <4>1 DEF ReplayInv
    <3>. QED  BY <3>3, <3>4
  <2>. QED  BY <2>1, <2>2, RecordStep, ReplayOn DEF ReplayNext
<1>. QED  BY <1>1, <1>2, PTL DEF ReplaySpec

\* What the two have when the replay is done
LEMMA DoneIsSame ==
    ASSUME ReplayInv, phase = "done"
    PROVE  /\ Now = RR!Now
           /\ Mutations(ledger) = Mutations(ledger2)
           /\ Retrievals(ledger) = Ingests(trace) => ledger = ledger2
<1>1. PICK h, g :
         /\ Explains(trace, h, g) /\ Now = h[Len(trace)]
         /\ SameMutations(ledger, g[Len(trace)])
         /\ Retrievals(ledger) = Ingests(trace) => ledger = g[Len(trace)]
  BY DEF ReplayInv, Determined
<1>2. PICK i, j :
         /\ RR!Explains(trace2, i, j) /\ RR!Now = i[Len(trace2)]
         /\ RR!Retrievals(ledger2) = RR!Ingests(trace2) => ledger2 = j[Len(trace2)]
  BY DEF ReplayInv, RR!Determined
<1>3. trace2 = trace
  <2>1. PICK S : trace \in Seq(S)
    BY DEF ReplayInv, Determined, IsSeq
  <2>2. PICK T : trace2 \in Seq(T)
    BY DEF ReplayInv, RR!Determined, RR!IsSeq
  <2>3. Len(trace2) = Len(trace) /\ \A k \in 1 .. Len(trace) : trace2[k] = trace[k]
    BY DEF ReplayInv
  <2>. QED  BY <2>1, <2>2, <2>3
<1>4. Explains(trace, i, j) /\ Len(trace) \in Nat
  BY <1>2, <1>3, SameStories, LengthIsNat DEF ReplayInv, Determined
<1>5. h[Len(trace)] = i[Len(trace)] /\ g[Len(trace)] = j[Len(trace)]
  BY <1>1, <1>4, OneStory
<1>6. ledger2 = g[Len(trace)]
  BY <1>2, <1>3, <1>5 DEF ReplayInv
<1>. QED  BY <1>1, <1>2, <1>3, <1>5, <1>6 DEF SameMutations

\* A replay that ran to its end rebuilt the memory, whatever calls were recorded,
\* in whatever order, refused or not, and whatever was retrieved in between:
\* nothing that the kernel holds depends on more than its trace (Kernel.apply,
\* replay.py).
THEOREM ReplayIsFaithful == ReplaySpec => []ReplayRebuildsMemory
<1>1. ReplayInv => ReplayRebuildsMemory
  <2>1. SUFFICES ASSUME ReplayInv, phase = "done"
                 PROVE  SameMemory /\ vclock = vclock2 /\ pinned = pinned2
    BY DEF ReplayRebuildsMemory
  <2>2. Now = RR!Now
    BY <2>1, DoneIsSame
  <2>. QED  BY <2>2, NowIs, RR!NowIs, SameClocks, ConstantsAssumption, LedgerAssumption
     DEF SameMemory
<1>. QED  BY <1>1, ReplayInvariant, PTL

\* It rebuilt every entry of the ledger but retrievals from outside, and if there
\* were none, the chain (Ledger.append, canon.py).
THEOREM ReplayedLedger == ReplaySpec => []ReplayRebuildsLedger
<1>1. ReplayInv => ReplayRebuildsLedger
  <2>1. OnlyIngestRetrieved <=> Retrievals(ledger) = Ingests(trace)
    BY DEF OnlyIngestRetrieved, Retrievals, Ingests, Dropped, Mutations
  <2>. QED  BY <2>1, DoneIsSame DEF ReplayRebuildsLedger, SameChain
<1>. QED  BY <1>1, ReplayInvariant, PTL
=============================================================================
