------------------------ MODULE KernelLedger_proofs ------------------------
(***************************************************************************)
(* Proofs about the kernel with its ledger and its trace: what a kernel    *)
(* holds, and every entry of its ledger but those of retrievals from       *)
(* outside, is a function of its trace.  That is what replay relies on.    *)
(***************************************************************************)
EXTENDS KernelLedger, Kernel_proofs, WellFoundedInduction, SequenceTheorems

-----------------------------------------------------------------------------
(***************************************************************************)
(* Sequences                                                               *)
(***************************************************************************)
\* The least-number principle, in place of an induction over the naturals.
LEMMA Least ==
    ASSUME NEW T, T \subseteq Nat, T # {}
    PROVE  \E n \in T : \A m \in T : n <= m
<1>. DEFINE R == {p \in Nat \X Nat : p[1] < p[2]}
<1>1. R = OpToRel(<, Nat)
  BY DEF OpToRel
<1>2. IsWellFoundedOn(R, Nat)
  BY <1>1, NatLessThanWellFounded
<1>. HIDE DEF R
<1>3. PICK n \in T : \A m \in T : ~ (<<m, n>> \in R)
  BY <1>2, WFMin
<1>4. ASSUME NEW m \in T
      PROVE  n <= m
  <2>1. <<m, n>> \notin R /\ <<m, n>> \in Nat \X Nat
    BY <1>3
  <2>. QED  BY <2>1 DEF R
<1>. QED  BY <1>4

\* k is what Omitting computes up to place n of s.
Omits(s, f, v, n, k) ==
    k = [i \in 0 .. n |-> IF i = 0 THEN << >>
                          ELSE IF s[i][f] = v THEN k[i - 1]
                          ELSE Append(k[i - 1], s[i])]

LEMMA OmitsAgree ==
    ASSUME NEW s, NEW t, NEW f, NEW v, NEW n \in Nat, NEW m \in Nat, n <= m,
           NEW k, Omits(s, f, v, n, k), NEW l, Omits(t, f, v, m, l),
           \A i \in 1 .. n : s[i] = t[i]
    PROVE  k[n] = l[n]
<1>. DEFINE T == {i \in 0 .. n : k[i] # l[i]}
<1>1. SUFFICES ASSUME T # {} PROVE FALSE
  OBVIOUS
<1>2. PICK i \in T : \A j \in T : i <= j
  <2>1. T \subseteq Nat
    OBVIOUS
  <2>. HIDE DEF T
  <2>. QED  BY <1>1, <2>1, Least
<1>3. k[0] = << >> /\ l[0] = << >>
  BY DEF Omits
<1>4. i \in 1 .. n /\ i \in 0 .. n /\ i \in 0 .. m /\ i # 0
  BY <1>2, <1>3
<1>5. k[i - 1] = l[i - 1]
  BY <1>2, <1>4
<1>6. k[i] = IF s[i][f] = v THEN k[i - 1] ELSE Append(k[i - 1], s[i])
  BY <1>4 DEF Omits
<1>7. l[i] = IF t[i][f] = v THEN l[i - 1] ELSE Append(l[i - 1], t[i])
  BY <1>4 DEF Omits
<1>. QED  BY <1>2, <1>4, <1>5, <1>6, <1>7

LEMMA OmitsNext ==
    ASSUME NEW s, NEW f, NEW v, NEW n \in Nat, NEW k, Omits(s, f, v, n, k)
    PROVE  \E l : Omits(s, f, v, n + 1, l)
<1>. DEFINE last == IF s[n + 1][f] = v THEN k[n] ELSE Append(k[n], s[n + 1])
            l == [i \in 0 .. n + 1 |-> IF i = n + 1 THEN last ELSE k[i]]
            E(i) == IF i = 0 THEN << >>
                    ELSE IF s[i][f] = v THEN l[i - 1] ELSE Append(l[i - 1], s[i])
<1>1. ASSUME NEW i \in 0 .. n + 1
      PROVE  l[i] = E(i)
  <2>1. CASE i = n + 1
    BY <2>1
  <2>2. CASE i \in 0 .. n /\ i # 0
    <3>1. k[i] = IF s[i][f] = v THEN k[i - 1] ELSE Append(k[i - 1], s[i])
      BY <2>2 DEF Omits
    <3>2. l[i] = k[i] /\ l[i - 1] = k[i - 1]
      BY <2>2
    <3>. QED  BY <2>2, <3>1, <3>2
  <2>3. CASE i = 0
    <3>1. k[0] = << >> /\ l[0] = k[0]
      BY DEF Omits
    <3>. QED  BY <3>1, <2>3
  <2>. QED  BY <2>1, <2>2, <2>3
<1>2. l = [i \in 0 .. n + 1 |-> E(i)]
  BY <1>1
<1>. QED  BY <1>2 DEF Omits

LEMMA OmitsExists ==
    ASSUME NEW s, NEW f, NEW v, NEW n \in Nat
    PROVE  \E k : Omits(s, f, v, n, k)
<1>. DEFINE T == {i \in Nat : ~ \E k : Omits(s, f, v, i, k)}
<1>1. SUFFICES ASSUME T # {} PROVE FALSE
  OBVIOUS
<1>2. PICK i \in T : \A j \in T : i <= j
  BY <1>1, Least
<1>3. Omits(s, f, v, 0, [j \in 0 .. 0 |-> << >>])
  BY DEF Omits
<1>4. i - 1 \in Nat /\ i - 1 \notin T
  BY <1>2, <1>3
<1>5. PICK k : Omits(s, f, v, i - 1, k)
  BY <1>4
<1>6. \E l : Omits(s, f, v, (i - 1) + 1, l)
  BY <1>4, <1>5, OmitsNext
<1>. QED  BY <1>2, <1>6

LEMMA OmittingIs ==
    ASSUME NEW s, NEW f, NEW v, Len(s) \in Nat
    PROVE  \E k : Omits(s, f, v, Len(s), k) /\ Omitting(s, f, v) = k[Len(s)]
<1>. DEFINE k == CHOOSE k : Omits(s, f, v, Len(s), k)
<1>1. Omits(s, f, v, Len(s), k)
  BY OmitsExists
<1>2. Omitting(s, f, v) = k[Len(s)]
  BY DEF Omitting, Omits
<1>. QED  BY <1>1, <1>2

LEMMA OmittingNext ==
    ASSUME NEW s, NEW t, NEW f, NEW v, NEW n \in Nat, Len(s) = n, NEW m \in Nat, m = n + 1,
           Len(t) = m, \A i \in 1 .. n : s[i] = t[i]
    PROVE  Omitting(t, f, v) = IF t[m][f] = v THEN Omitting(s, f, v)
                               ELSE Append(Omitting(s, f, v), t[m])
<1>1. PICK k : Omits(s, f, v, n, k) /\ Omitting(s, f, v) = k[n]
  BY OmittingIs
<1>2. PICK l : Omits(t, f, v, m, l) /\ Omitting(t, f, v) = l[m]
  BY OmittingIs
<1>3. k[n] = l[n]
  BY <1>1, <1>2, n <= m, OmitsAgree
<1>4. l[m] = IF t[m][f] = v THEN l[n] ELSE Append(l[n], t[m])
  <2>1. m \in 0 .. m /\ m # 0 /\ m - 1 = n
    OBVIOUS
  <2>. QED  BY <1>2, <2>1 DEF Omits
<1>. QED  BY <1>1, <1>2, <1>3, <1>4

\* Omitting, one record more
LEMMA OmittingAppend ==
    ASSUME NEW S, NEW s \in Seq(S), NEW e \in S, NEW f, NEW v
    PROVE  Omitting(Append(s, e), f, v) = IF e[f] = v THEN Omitting(s, f, v)
                                          ELSE Append(Omitting(s, f, v), e)
<1>. DEFINE t == Append(s, e)
            m == Len(s) + 1
<1>1. /\ Len(s) \in Nat /\ m \in Nat /\ m = Len(s) + 1
      /\ Len(t) = m /\ t[m] = e /\ \A i \in 1 .. Len(s) : s[i] = t[i]
  OBVIOUS
<1>. HIDE DEF t, m
<1>2. Omitting(t, f, v) = IF t[m][f] = v THEN Omitting(s, f, v)
                          ELSE Append(Omitting(s, f, v), t[m])
  BY <1>1, OmittingNext
<1>. QED  BY <1>1, <1>2 DEF t

LEMMA OmittingNone ==
    ASSUME NEW f, NEW v
    PROVE  Omitting(<< >>, f, v) = << >>
<1>1. PICK k : Omits(<< >>, f, v, 0, k) /\ Omitting(<< >>, f, v) = k[0]
  BY OmittingIs, Len(<< >>) = 0
<1>. QED  BY <1>1 DEF Omits

\* It is a sequence of the same records, and not a longer one.
LEMMA OmittingIsSeq ==
    ASSUME NEW S, NEW s \in Seq(S), NEW f, NEW v
    PROVE  Omitting(s, f, v) \in Seq(S) /\ Len(Omitting(s, f, v)) <= Len(s)
<1>1. PICK k : Omits(s, f, v, Len(s), k) /\ Omitting(s, f, v) = k[Len(s)]
  BY OmittingIs
<1>. DEFINE T == {i \in 0 .. Len(s) : ~ (k[i] \in Seq(S) /\ Len(k[i]) <= i)}
<1>2. SUFFICES ASSUME T # {} PROVE FALSE
  BY <1>1
<1>3. PICK i \in T : \A j \in T : i <= j
  <2>1. T \subseteq Nat
    OBVIOUS
  <2>. HIDE DEF T
  <2>. QED  BY <1>2, <2>1, Least
<1>4. k[0] \in Seq(S) /\ Len(k[0]) <= 0
  <2>1. k[0] = << >>
    BY <1>1 DEF Omits
  <2>. QED  BY <2>1
<1>5. i # 0 /\ i \in 1 .. Len(s)
  BY <1>3, <1>4
<1>6. k[i - 1] \in Seq(S) /\ Len(k[i - 1]) <= i - 1
  BY <1>3, <1>5
<1>7. k[i] = IF s[i][f] = v THEN k[i - 1] ELSE Append(k[i - 1], s[i])
  BY <1>1, <1>5 DEF Omits
<1>8. s[i] \in S /\ i - 1 <= i
  BY <1>5
<1>9. k[i] \in Seq(S) /\ Len(k[i]) <= i
  BY <1>5, <1>6, <1>7, <1>8
<1>. QED  BY <1>3, <1>9
-----------------------------------------------------------------------------
(***************************************************************************)
(* What an event does to a kernel, as a function                           *)
(***************************************************************************)
\* What a kernel holds, but for its two histories
Now == [buffer |-> buffer, tick |-> tick, vclock |-> vclock, objects |-> objects,
        supersededBy |-> supersededBy, versions |-> versions, pinned |-> pinned,
        frozen |-> frozen, fed |-> fed]

\* The operators of the kernel, in the state s
K(s) == INSTANCE KernelLedger WITH
    buffer <- s.buffer, tick <- s.tick, vclock <- s.vclock, objects <- s.objects,
    supersededBy <- s.supersededBy, versions <- s.versions, pinned <- s.pinned,
    frozen <- s.frozen, fed <- s.fed, ledger <- << >>, trace <- << >>

\* The only entry that reinforcement may be about
Nearby(s, c) == CHOOSE e \in K(s)!Reinforced(c) : TRUE

Holding(b, e, entry) == [f \in DOMAIN b \union {e} |-> IF f = e THEN entry ELSE b[f]]

\* The buffer after the ingest of r, which is refused if it is held already
BufferWith(s, r, clock) ==
    IF K(s)!Surprising(ContentOf[r])
    THEN IF r \in DOMAIN s.buffer THEN s.buffer
         ELSE Holding(s.buffer, r,
                      [pos |-> clock[KernelAgent], at |-> s.tick, support |-> {r}])
    ELSE IF K(s)!Reinforced(ContentOf[r]) = {} THEN s.buffer
    ELSE LET e == Nearby(s, ContentOf[r])
         IN  IF r \in s.buffer[e].support THEN s.buffer
             ELSE Holding(s.buffer, e,
                          [pos |-> s.buffer[e].pos, at |-> s.buffer[e].at,
                           support |-> s.buffer[e].support \union {r}])

ClockWith(s, r) == Tick(Merge(s.vclock, RecordClock[r]), KernelAgent)

AfterIngest(s, r) ==
    [buffer |-> BufferWith(s, r, ClockWith(s, r)), tick |-> s.tick,
     vclock |-> ClockWith(s, r), objects |-> s.objects,
     supersededBy |-> s.supersededBy, versions |-> s.versions, pinned |-> s.pinned,
     frozen |-> s.frozen, fed |-> s.fed \union {r}]

\* The promotion run on the buffer b
PromotedFrom(s, b, now, stamp) ==
    [buffer |-> Without(b, K(s)!Consumed(b)), tick |-> now, vclock |-> stamp,
     objects |-> s.objects \union {MemoryFrom(b, e, stamp) : e \in K(s)!PromotableSeeds(b)},
     supersededBy |-> s.supersededBy, versions |-> s.versions, pinned |-> s.pinned,
     frozen |-> s.frozen, fed |-> s.fed]

Promotes(s) == ~ s.frozen /\ (s.tick + 1) % Schedule = 0

AfterTick(s) ==
    LET kept == Without(s.buffer, K(s)!Expired)
        clock == Tick(s.vclock, KernelAgent)
    IN  IF Promotes(s) THEN PromotedFrom(s, kept, s.tick + 1, Tick(clock, Approver))
        ELSE [buffer |-> kept, tick |-> s.tick + 1, vclock |-> clock,
              objects |-> s.objects, supersededBy |-> s.supersededBy,
              versions |-> s.versions, pinned |-> s.pinned, frozen |-> s.frozen,
              fed |-> s.fed]

AfterPromote(s) ==
    IF s.frozen THEN s ELSE PromotedFrom(s, s.buffer, s.tick, Tick(s.vclock, Approver))

AfterSupersede(s, old, c) ==
    LET new == K(s)!Successor(old, c)
        refused == old \in DOMAIN s.supersededBy
    IN  [buffer |-> s.buffer, tick |-> s.tick, vclock |-> Tick(s.vclock, Approver),
         objects |-> IF refused THEN s.objects ELSE s.objects \union {new},
         supersededBy |-> IF refused THEN s.supersededBy ELSE Holding(s.supersededBy, old, new),
         versions |-> s.versions, pinned |-> s.pinned, frozen |-> s.frozen,
         fed |-> s.fed]

\* snapshot, freeze and pin
AfterVersions(s, recorded, pin, freezes) ==
    [buffer |-> s.buffer, tick |-> s.tick, vclock |-> Tick(s.vclock, KernelAgent),
     objects |-> s.objects, supersededBy |-> s.supersededBy,
     versions |-> s.versions \union recorded, pinned |-> pin,
     frozen |-> (s.frozen \/ freezes), fed |-> s.fed]

Post(s, e) ==
    IF e.op = "ingest" THEN AfterIngest(s, e.record)
    ELSE IF e.op = "tick" THEN AfterTick(s)
    ELSE IF e.op = "promote" THEN AfterPromote(s)
    ELSE IF e.op = "supersede" THEN AfterSupersede(s, e.old, e.content)
    ELSE IF e.op = "snapshot" THEN AfterVersions(s, {K(s)!Live}, s.pinned, FALSE)
    ELSE IF e.op = "freeze" THEN AfterVersions(s, {K(s)!Live}, {K(s)!Live}, TRUE)
    ELSE AfterVersions(s, {}, e.version, FALSE)

\* In the state of the moment they are the operators themselves.
LEMMA NowIs ==
    /\ Now.buffer = buffer /\ Now.tick = tick /\ Now.vclock = vclock
    /\ Now.objects = objects /\ Now.supersededBy = supersededBy
    /\ Now.versions = versions /\ Now.pinned = pinned /\ Now.frozen = frozen
    /\ Now.fed = fed
BY DEF Now

LEMMA MemoryNow == K(Now)!Live = Live /\ K(Now)!Visible = Visible
BY NowIs DEF K!Live, K!Store!Live, K!Visible, K!Store!At, Live, Store!Live, Visible, Store!At

LEMMA GateNow ==
    ASSUME NEW c
    PROVE  K(Now)!Surprising(c) = Surprising(c) /\ K(Now)!Reinforced(c) = Reinforced(c)
<1>1. K(Now)!Comparanda = Comparanda
  BY NowIs, MemoryNow DEF K!Comparanda, Comparanda
<1>2. K(Now)!Surprising(c) = Surprising(c)
  BY <1>1 DEF K!Surprising, Surprising
<1>3. \A e : K(Now)!Nearest(c, e) = Nearest(c, e)
  BY NowIs, MemoryNow DEF K!Nearest, Nearest
<1>4. K(Now)!Reinforced(c) = Reinforced(c)
  BY <1>3, NowIs DEF K!Reinforced, Reinforced
<1>. QED  BY <1>2, <1>4

LEMMA PromotionNow ==
    ASSUME NEW b
    PROVE  /\ K(Now)!PromotableSeeds(b) = PromotableSeeds(b)
           /\ K(Now)!Consumed(b) = Consumed(b)
           /\ K(Now)!Expired = Expired
<1>1. \A s : K(Now)!Cluster(b, s) = Cluster(b, s)
  BY DEF K!Cluster, Cluster, K!Seeds, Seeds, K!SamePattern, SamePattern
<1>2. K(Now)!Seeds(b) = Seeds(b)
  BY DEF K!Seeds, Seeds, K!SamePattern, SamePattern
<1>3. \A s : K(Now)!EvidenceFor(b, s) = EvidenceFor(b, s)
  BY <1>1 DEF K!EvidenceFor, EvidenceFor
<1>4. \A s : K(Now)!Occurrences(b, s) = Occurrences(b, s)
  BY <1>1 DEF K!Occurrences, Occurrences
<1>5. \A s : K(Now)!Promotable(b, s) = Promotable(b, s)
  <2>1. \A S : K(Now)!Cardinality(S) = Cardinality(S)
    BY DEF K!Cardinality, Cardinality
  <2>. QED  BY <2>1, <1>3, <1>4, MemoryNow DEF K!Promotable, Promotable
<1>6. K(Now)!PromotableSeeds(b) = PromotableSeeds(b)
  BY <1>2, <1>5 DEF K!PromotableSeeds, PromotableSeeds
<1>7. K(Now)!Consumed(b) = Consumed(b)
  BY <1>1, <1>6 DEF K!Consumed, Consumed
<1>8. K(Now)!Expired = Expired
  BY NowIs DEF K!Expired, Expired
<1>. QED  BY <1>6, <1>7, <1>8

\* The ledger l with the entries of the event
RetrievedFrom(s, r) ==
    Hashed("retrieve", [version |-> s.pinned, hits |-> TopK(K(s)!Visible, ContentOf[r])],
           ClockWith(s, r))

Refuses(s, r) ==
    IF K(s)!Surprising(ContentOf[r]) THEN r \in DOMAIN s.buffer
    ELSE /\ K(s)!Reinforced(ContentOf[r]) # {}
         /\ r \in s.buffer[Nearby(s, ContentOf[r])].support

Outcome(s, r) ==
    IF K(s)!Surprising(ContentOf[r]) THEN "buffered"
    ELSE IF K(s)!Reinforced(ContentOf[r]) = {} THEN "discarded" ELSE "reinforced"

IngestedAs(s, r, wall) ==
    Hashed("ingest", [record |-> r, wall_clock |-> wall, tick |-> s.tick,
                      outcome |-> Outcome(s, r)], ClockWith(s, r))

PromotedAs(s, b, now, stamp) ==
    Hashed("promote",
           [tick |-> now,
            promoted |-> {MemoryFrom(b, e, stamp) : e \in K(s)!PromotableSeeds(b)},
            rejected |-> {Cluster(b, e) : e \in Seeds(b) \ K(s)!PromotableSeeds(b)}],
           stamp)

ExpiredAs(s) ==
    Hashed("expire", [tick |-> s.tick + 1, record_ids |-> K(s)!Expired],
           Tick(s.vclock, KernelAgent))

WrittenByTick(l, s) ==
    LET kept == Without(s.buffer, K(s)!Expired)
        stamp == Tick(Tick(s.vclock, KernelAgent), Approver)
        expired == IF K(s)!Expired = {} THEN l ELSE Append(l, ExpiredAs(s))
    IN  IF Promotes(s) THEN Append(expired, PromotedAs(s, kept, s.tick + 1, stamp))
        ELSE expired

Versioned(s, event, payload) == Hashed(event, payload, Tick(s.vclock, KernelAgent))

Written(l, s, e) ==
    IF e.op = "ingest"
        THEN IF Refuses(s, e.record) THEN Append(l, RetrievedFrom(s, e.record))
             ELSE Append(Append(l, RetrievedFrom(s, e.record)),
                         IngestedAs(s, e.record, e.wall_clock))
    ELSE IF e.op = "tick" THEN WrittenByTick(l, s)
    ELSE IF e.op = "promote"
        THEN IF s.frozen THEN l
             ELSE Append(l, PromotedAs(s, s.buffer, s.tick, Tick(s.vclock, Approver)))
    ELSE IF e.op = "supersede"
        THEN IF e.old \in DOMAIN s.supersededBy THEN l
             ELSE Append(l, Hashed("supersede",
                                   [old |-> e.old, new |-> K(s)!Successor(e.old, e.content)],
                                   Tick(s.vclock, Approver)))
    ELSE IF e.op \in {"snapshot", "freeze"}
        THEN Append(l, Versioned(s, e.op, [version |-> K(s)!Live]))
    ELSE Append(l, Versioned(s, "pin", [version |-> e.version]))
-----------------------------------------------------------------------------
(***************************************************************************)
(* The calls do what the functions say                                     *)
(***************************************************************************)
IngestEvent(r, wall) == [op |-> "ingest", record |-> r, wall_clock |-> wall]

\* The call that an event of the trace stands for, done or refused
Performs(e) ==
    \/ \E r \in Records : \E wall :
          /\ e = IngestEvent(r, wall)
          /\ LoggedIngest(r, wall) \/ LoggedIngestRefused(r, wall)
    \/ e = [op |-> "tick"] /\ LoggedTick
    \/ e = [op |-> "promote"] /\ (LoggedPromote \/ LoggedPromoteRefused)
    \/ \E old : \E c \in Content :
          /\ e = [op |-> "supersede", old |-> old, content |-> c]
          /\ LoggedSupersede(old, c) \/ LoggedSupersedeRefused(old, c)
    \/ e = [op |-> "snapshot"] /\ LoggedSnapshot
    \/ e = [op |-> "freeze"] /\ LoggedFreeze
    \/ \E v : /\ v = {} \/ \E x : v = {x}
              /\ e = [op |-> "pin", version |-> v]
              /\ LoggedPin(v)

\* No two entries have one place, so that one at most is the nearest.
LEMMA NearbyIs ==
    ASSUME TypeOK, NoStaleEvidence, NEW c \in Content, NEW e \in Reinforced(c)
    PROVE  Nearby(Now, c) = e
<1>1. ASSUME NEW f \in Reinforced(c)
      PROVE  f = e
  <2>1. /\ e \in DOMAIN buffer /\ f \in DOMAIN buffer
        /\ Nearest(c, e) /\ Nearest(c, f)
    BY DEF Reinforced
  <2>2. /\ buffer[e].pos \in Nat /\ buffer[f].pos \in Nat
        /\ Sim[c][ContentOf[e]] \in Nat /\ Sim[c][ContentOf[f]] \in Nat
    BY <2>1, ConstantsAssumption DEF TypeOK, Entry
  <2>3. buffer[e].pos = buffer[f].pos
    BY <2>1, <2>2 DEF Nearest
  <2>. QED  BY <2>1, <2>3 DEF NoStaleEvidence
<1>2. K(Now)!Reinforced(c) = {e}
  BY <1>1, GateNow
<1>. QED  BY <1>2 DEF Nearby

LEMMA IngestDone ==
    ASSUME TypeOK, NoStaleEvidence, NEW S, ledger \in Seq(S), NEW r \in Records, NEW wall,
           LoggedIngest(r, wall)
    PROVE  /\ Now' = AfterIngest(Now, r)
           /\ ledger' = Written(ledger, Now, IngestEvent(r, wall))
           /\ trace' = Append(trace, IngestEvent(r, wall))
           /\ Ingest(r, RecordClock[r])
<1>. DEFINE c == ContentOf[r]
            clock == Tick(Merge(vclock, RecordClock[r]), KernelAgent)
            e == IngestEvent(r, wall)
            entry(outcome) == Hashed("ingest", [record |-> r, wall_clock |-> wall, tick |-> tick,
                                                outcome |-> outcome], clock)
            found == RetrieveEntry(c, clock)
<1>1. c \in Content /\ ClockWith(Now, r) = clock /\ RetrievedFrom(Now, r) = found
  BY ConstantsAssumption, NowIs, MemoryNow
     DEF ClockWith, RetrievedFrom, RetrieveEntry, Hits
<1>2. e.op = "ingest" /\ e.record = r /\ e.wall_clock = wall
  BY DEF IngestEvent
<1>3. \A x, y : ledger \o <<x, y>> = Append(Append(ledger, x), y)
  OBVIOUS
<1>4. trace' = Append(trace, e)
  BY DEF LoggedIngest, Traced, IngestEvent
<1>5. ASSUME Observe(r, RecordClock[r]), buffer' = BufferWith(Now, r, clock)
      PROVE  Now' = AfterIngest(Now, r)
  BY <1>1, <1>5, NowIs DEF Observe, AfterIngest, Now
<1>6. ASSUME NEW outcome, vclock' = clock, ~ Refuses(Now, r), Outcome(Now, r) = outcome,
             ledger' = ledger \o <<found, IngestEntry(r, wall, outcome)>>
      PROVE  ledger' = Written(ledger, Now, e)
  <2>1. IngestEntry(r, wall, outcome) = IngestedAs(Now, r, wall)
    BY <1>1, <1>6, NowIs DEF IngestEntry, IngestedAs
  <2>. QED  BY <1>1, <1>2, <1>3, <1>6, <2>1 DEF Written
<1>7. CASE IngestAdmit(r, RecordClock[r]) /\ ledger' = ledger \o <<found, IngestEntry(r, wall, "buffered")>>
  <2>1. buffer' = BufferWith(Now, r, clock)
    BY <1>1, <1>7, NowIs, GateNow
       DEF IngestAdmit, Observe, SetEntry, BufferWith, Holding
  <2>2. ~ Refuses(Now, r) /\ Outcome(Now, r) = "buffered"
    BY <1>7, NowIs, GateNow DEF IngestAdmit, Refuses, Outcome
  <2>. QED  BY <1>4, <1>5, <1>6, <1>7, <2>1, <2>2 DEF IngestAdmit, Observe, Ingest
<1>8. CASE IngestReinforce(r, RecordClock[r]) /\ ledger' = ledger \o <<found, IngestEntry(r, wall, "reinforced")>>
  <2>1. PICK f \in Reinforced(c) :
           /\ r \notin buffer[f].support
           /\ SetEntry(f, [pos |-> buffer[f].pos, at |-> buffer[f].at,
                           support |-> buffer[f].support \union {r}])
    BY <1>8 DEF IngestReinforce
  <2>2. ~ Surprising(c) /\ Nearby(Now, c) = f /\ Reinforced(c) # {}
    BY <1>1, <1>8, <2>1, NearbyIs DEF IngestReinforce
  <2>3. buffer' = BufferWith(Now, r, clock)
    BY <2>1, <2>2, NowIs, GateNow DEF SetEntry, BufferWith, Holding
  <2>4. ~ Refuses(Now, r) /\ Outcome(Now, r) = "reinforced"
    BY <2>1, <2>2, NowIs, GateNow DEF Refuses, Outcome
  <2>. QED  BY <1>4, <1>5, <1>6, <1>8, <2>3, <2>4 DEF IngestReinforce, Observe, Ingest
<1>9. CASE IngestDiscard(r, RecordClock[r]) /\ ledger' = ledger \o <<found, IngestEntry(r, wall, "discarded")>>
  <2>1. buffer' = BufferWith(Now, r, clock)
    BY <1>1, <1>9, NowIs, GateNow DEF IngestDiscard, BufferWith
  <2>2. ~ Refuses(Now, r) /\ Outcome(Now, r) = "discarded"
    BY <1>9, NowIs, GateNow DEF IngestDiscard, Refuses, Outcome
  <2>. QED  BY <1>4, <1>5, <1>6, <1>9, <2>1, <2>2 DEF IngestDiscard, Observe, Ingest
<1>. QED  BY <1>7, <1>8, <1>9 DEF LoggedIngest

LEMMA IngestRaised ==
    ASSUME TypeOK, NoStaleEvidence, NEW S, ledger \in Seq(S), NEW r \in Records, NEW wall,
           LoggedIngestRefused(r, wall)
    PROVE  /\ Now' = AfterIngest(Now, r)
           /\ ledger' = Written(ledger, Now, IngestEvent(r, wall))
           /\ trace' = Append(trace, IngestEvent(r, wall))
           /\ Ingest(r, RecordClock[r])
<1>. DEFINE c == ContentOf[r]
            e == IngestEvent(r, wall)
<1>1. /\ c \in Content
      /\ e.op = "ingest" /\ e.record = r
      /\ ClockWith(Now, r) = Tick(Merge(vclock, RecordClock[r]), KernelAgent)
  BY ConstantsAssumption, NowIs DEF IngestEvent, ClockWith
<1>2. IngestRefused(r, RecordClock[r]) /\ Observe(r, RecordClock[r]) /\ UNCHANGED buffer
  BY DEF LoggedIngestRefused, IngestRefused
<1>3. Refuses(Now, r) /\ BufferWith(Now, r, ClockWith(Now, r)) = buffer
  <2>1. CASE Surprising(c)
    BY <1>2, <2>1, NowIs, GateNow DEF IngestRefused, Refuses, BufferWith
  <2>2. CASE ~ Surprising(c)
    <3>1. PICK f \in Reinforced(c) : r \in buffer[f].support
      BY <1>2, <2>2 DEF IngestRefused
    <3>2. Nearby(Now, c) = f /\ Reinforced(c) # {}
      BY <1>1, <3>1, NearbyIs
    <3>. QED  BY <2>2, <3>1, <3>2, NowIs, GateNow DEF Refuses, BufferWith
  <2>. QED  BY <2>1, <2>2
<1>4. Now' = AfterIngest(Now, r)
  BY <1>1, <1>2, <1>3, NowIs DEF Observe, AfterIngest, Now
<1>5. ledger' = Append(ledger, RetrievedFrom(Now, r))
  BY <1>1, <1>2, NowIs, MemoryNow
     DEF LoggedIngestRefused, Log, RetrievedFrom, RetrieveEntry, Hits, Observe
<1>6. ledger' = Written(ledger, Now, e)
  BY <1>1, <1>3, <1>5 DEF Written
<1>7. trace' = Append(trace, e)
  BY DEF LoggedIngestRefused, Traced, IngestEvent
<1>. QED  BY <1>2, <1>4, <1>6, <1>7 DEF Ingest

\* A promotion run, on the buffer b at the tick now
LEMMA RunDone ==
    ASSUME NEW b, NEW now, NEW stamp, RunPromotion(b, stamp), tick' = now,
           UNCHANGED <<pinned, frozen, fed>>
    PROVE  Now' = PromotedFrom(Now, b, now, stamp)
  BY NowIs, PromotionNow DEF RunPromotion, Store!PutAll, PromotedFrom, Now

LEMMA EntryIs ==
    ASSUME NEW b, NEW now, NEW stamp, tick' = now, vclock' = stamp
    PROVE  PromoteEntry(b) = PromotedAs(Now, b, now, stamp)
<1>. DEFINE P == PromotableSeeds(b)
<1>1. K(Now)!PromotableSeeds(b) = P
  BY PromotionNow
<1>. HIDE DEF P
<1>2. {MemoryFrom(b, s, vclock') : s \in P} = {MemoryFrom(b, e, stamp) : e \in P}
  OBVIOUS
<1>3. {Cluster(b, s) : s \in Seeds(b) \ P}
          = {Cluster(b, e) : e \in Seeds(b) \ K(Now)!PromotableSeeds(b)}
  BY <1>1
<1>. QED  BY <1>1, <1>2, <1>3 DEF PromoteEntry, PromotedAs, P

LEMMA TickDone ==
    ASSUME NEW S, ledger \in Seq(S), LoggedTick
    PROVE  /\ Now' = AfterTick(Now)
           /\ ledger' = WrittenByTick(ledger, Now)
           /\ trace' = Append(trace, [op |-> "tick"])
           /\ AnyTick
<1>. DEFINE kept == Without(buffer, Expired)
            clock == Tick(vclock, KernelAgent)
            stamp == Tick(clock, Approver)
<1>1. trace' = Append(trace, [op |-> "tick"])
  BY DEF LoggedTick, Traced
<1>2. /\ Without(Now.buffer, K(Now)!Expired) = kept
      /\ Tick(Now.vclock, KernelAgent) = clock
      /\ Promotes(Now) <=> ~ frozen /\ (tick + 1) % Schedule = 0
  BY NowIs, PromotionNow DEF Promotes
<1>3. ASSUME tick' = tick + 1
      PROVE  ledger \o ExpireEntries = IF K(Now)!Expired = {} THEN ledger
                                       ELSE Append(ledger, ExpiredAs(Now))
  <2>1. CASE Expired = {}
    BY <2>1, PromotionNow DEF ExpireEntries
  <2>2. CASE Expired # {}
    <3>1. ExpireEntries = <<ExpiredAs(Now)>>
      BY <1>3, <2>2, NowIs, PromotionNow DEF ExpireEntries, ExpiredAs
    <3>2. \A x : ledger \o <<x>> = Append(ledger, x)
      OBVIOUS
    <3>. QED  BY <2>2, <3>1, <3>2, PromotionNow
  <2>. QED  BY <2>1, <2>2
<1>4. CASE TickOnly /\ ledger' = ledger \o ExpireEntries
  <2>1. ~ Promotes(Now) /\ tick' = tick + 1
    BY <1>2, <1>4 DEF TickOnly
  <2>2. Now' = AfterTick(Now)
    BY <1>2, <1>4, <2>1, NowIs DEF TickOnly, AfterTick, Now
  <2>3. ledger' = WrittenByTick(ledger, Now)
    BY <1>3, <1>4, <2>1 DEF WrittenByTick
  <2>. QED  BY <1>1, <1>4, <2>2, <2>3 DEF AnyTick
<1>5. CASE TickAndPromote /\ ledger' = Append(ledger \o ExpireEntries, PromoteEntry(kept))
  <2>1. Promotes(Now) /\ tick' = tick + 1 /\ RunPromotion(kept, stamp) /\ vclock' = stamp
    BY <1>2, <1>5 DEF TickAndPromote, RunPromotion
  <2>2. Now' = AfterTick(Now)
    BY <1>2, <1>5, <2>1, RunDone, NowIs DEF TickAndPromote, AfterTick
  <2>3. PromoteEntry(kept) = PromotedAs(Now, kept, tick + 1, stamp)
    BY <2>1, EntryIs
  <2>4. ledger' = WrittenByTick(ledger, Now)
    BY <1>2, <1>3, <1>5, <2>1, <2>3, NowIs DEF WrittenByTick
  <2>. QED  BY <1>1, <1>5, <2>2, <2>4 DEF AnyTick
<1>. QED  BY <1>4, <1>5 DEF LoggedTick

LEMMA PromoteDone ==
    ASSUME LoggedPromote \/ LoggedPromoteRefused
    PROVE  /\ Now' = AfterPromote(Now)
           /\ ledger' = Written(ledger, Now, [op |-> "promote"])
           /\ trace' = Append(trace, [op |-> "promote"])
           /\ Promote \/ UNCHANGED vars
<1>1. trace' = Append(trace, [op |-> "promote"])
  BY DEF LoggedPromote, LoggedPromoteRefused, Traced
<1>2. CASE LoggedPromote
  <2>1. /\ ~ frozen /\ tick' = tick /\ Promote
        /\ RunPromotion(buffer, Tick(vclock, Approver)) /\ vclock' = Tick(vclock, Approver)
    BY <1>2 DEF LoggedPromote, Promote, RunPromotion
  <2>2. Now' = AfterPromote(Now)
    BY <2>1, RunDone, NowIs DEF Promote, AfterPromote
  <2>3. PromoteEntry(buffer) = PromotedAs(Now, buffer, tick, Tick(vclock, Approver))
    BY <2>1, EntryIs
  <2>4. ledger' = Written(ledger, Now, [op |-> "promote"])
    BY <1>2, <2>1, <2>3, NowIs DEF LoggedPromote, Log, Written
  <2>. QED  BY <1>1, <2>1, <2>2, <2>4
<1>3. CASE LoggedPromoteRefused
  <2>1. frozen /\ UNCHANGED vars /\ UNCHANGED ledger
    BY <1>3 DEF LoggedPromoteRefused
  <2>2. Now' = AfterPromote(Now)
    BY <2>1, NowIs DEF AfterPromote, Now, vars
  <2>3. ledger' = Written(ledger, Now, [op |-> "promote"])
    BY <2>1, NowIs DEF Written
  <2>. QED  BY <1>1, <2>1, <2>2, <2>3
<1>. QED  BY <1>2, <1>3

LEMMA SupersedeDone ==
    ASSUME TypeOK, NEW old, NEW c \in Content,
           LoggedSupersede(old, c) \/ LoggedSupersedeRefused(old, c)
    PROVE  LET e == [op |-> "supersede", old |-> old, content |-> c]
           IN  /\ Now' = AfterSupersede(Now, old, c)
               /\ ledger' = Written(ledger, Now, e)
               /\ trace' = Append(trace, e)
               /\ Operation
<1>. DEFINE e == [op |-> "supersede", old |-> old, content |-> c]
<1>1. trace' = Append(trace, e)
  BY DEF LoggedSupersede, LoggedSupersedeRefused, Traced
<1>2. K(Now)!Successor(old, c) = Successor(old, c)
  BY NowIs DEF K!Successor, Successor, K!Tick, Tick
<1>3. CASE LoggedSupersede(old, c)
  <2>1. /\ Store!Supersede(old, Successor(old, c)) /\ vclock' = Tick(vclock, Approver)
        /\ UNCHANGED <<buffer, tick, pinned, frozen, fed>> /\ Supersede(old, c)
    BY <1>3 DEF LoggedSupersede, Supersede
  <2>2. old \in objects /\ old \notin DOMAIN supersededBy
    BY <2>1 DEF Store!Supersede, Store!Live
  <2>3. Now' = AfterSupersede(Now, old, c)
    BY <1>2, <2>1, <2>2, NowIs DEF Store!Supersede, AfterSupersede, Holding, Now
  <2>4. ledger' = Written(ledger, Now, e)
    BY <1>2, <1>3, <2>1, <2>2, NowIs DEF LoggedSupersede, Log, Written
  <2>. QED  BY <1>1, <2>1, <2>2, <2>3, <2>4 DEF Operation
<1>4. CASE LoggedSupersedeRefused(old, c)
  <2>1. /\ old \in DOMAIN supersededBy /\ vclock' = Tick(vclock, Approver)
        /\ UNCHANGED <<buffer, tick, objects, supersededBy, versions, pinned, frozen, fed, ledger>>
        /\ SupersedeRefused(old)
    BY <1>4 DEF LoggedSupersedeRefused, SupersedeRefused
  <2>2. Now' = AfterSupersede(Now, old, c)
    BY <2>1, NowIs DEF AfterSupersede, Now
  <2>3. ledger' = Written(ledger, Now, e)
    BY <2>1, NowIs DEF Written
  <2>. QED  BY <1>1, <2>1, <2>2, <2>3 DEF Operation, TypeOK
<1>. QED  BY <1>3, <1>4

LEMMA SnapshotDone ==
    ASSUME TypeOK, LoggedSnapshot
    PROVE  /\ Now' = AfterVersions(Now, {K(Now)!Live}, pinned, FALSE)
           /\ ledger' = Written(ledger, Now, [op |-> "snapshot"])
           /\ trace' = Append(trace, [op |-> "snapshot"])
           /\ Snapshot
<1>1. /\ frozen' = (frozen \/ FALSE) /\ vclock' = Tick(vclock, KernelAgent)
      /\ versions' = versions \union {K(Now)!Live}
      /\ UNCHANGED <<buffer, tick, objects, supersededBy, pinned, fed>>
  BY MemoryNow DEF LoggedSnapshot, Snapshot, Store!RecordVersion, Live, TypeOK
<1>2. Now' = AfterVersions(Now, {K(Now)!Live}, pinned, FALSE)
  BY <1>1, NowIs DEF AfterVersions, Now
<1>3. ledger' = Written(ledger, Now, [op |-> "snapshot"])
  BY <1>1, NowIs, MemoryNow DEF LoggedSnapshot, Log, Written, Versioned
<1>. QED  BY <1>2, <1>3 DEF LoggedSnapshot, Traced

LEMMA FreezeDone ==
    ASSUME LoggedFreeze
    PROVE  /\ Now' = AfterVersions(Now, {K(Now)!Live}, {K(Now)!Live}, TRUE)
           /\ ledger' = Written(ledger, Now, [op |-> "freeze"])
           /\ trace' = Append(trace, [op |-> "freeze"])
           /\ Freeze
<1>1. /\ frozen' = (frozen \/ TRUE) /\ vclock' = Tick(vclock, KernelAgent)
      /\ versions' = versions \union {K(Now)!Live} /\ pinned' = {K(Now)!Live}
      /\ UNCHANGED <<buffer, tick, objects, supersededBy, fed>>
  BY MemoryNow DEF LoggedFreeze, Freeze, Store!RecordVersion, Live
<1>2. Now' = AfterVersions(Now, {K(Now)!Live}, {K(Now)!Live}, TRUE)
  BY <1>1, NowIs DEF AfterVersions, Now
<1>3. ledger' = Written(ledger, Now, [op |-> "freeze"])
  BY <1>1, NowIs, MemoryNow DEF LoggedFreeze, Log, Written, Versioned
<1>. QED  BY <1>2, <1>3 DEF LoggedFreeze, Traced

LEMMA PinDone ==
    ASSUME TypeOK, NEW v, v = {} \/ \E x : v = {x}, LoggedPin(v)
    PROVE  /\ Now' = AfterVersions(Now, {}, v, FALSE)
           /\ ledger' = Written(ledger, Now, [op |-> "pin", version |-> v])
           /\ trace' = Append(trace, [op |-> "pin", version |-> v])
           /\ Pin({}) \/ \E x \in versions : Pin({x})
<1>1. /\ frozen' = (frozen \/ FALSE) /\ vclock' = Tick(vclock, KernelAgent)
      /\ versions' = versions \union {} /\ pinned' = v
      /\ UNCHANGED <<buffer, tick, objects, supersededBy, fed>>
  BY DEF LoggedPin, Pin, TypeOK
<1>2. Now' = AfterVersions(Now, {}, v, FALSE)
  BY <1>1, NowIs DEF AfterVersions, Now
<1>3. ledger' = Written(ledger, Now, [op |-> "pin", version |-> v])
  BY <1>1, NowIs DEF LoggedPin, Log, Written, Versioned
<1>4. Pin({}) \/ \E x \in versions : Pin({x})
  <2>1. Pin(v) /\ v \subseteq versions
    BY DEF LoggedPin, Pin
  <2>. QED  BY <2>1
<1>. QED  BY <1>2, <1>3, <1>4 DEF LoggedPin, Traced

\* The call of an event leaves what the functions say, whatever came before it.
LEMMA CallDone ==
    ASSUME TypeOK, NoStaleEvidence, NEW S, ledger \in Seq(S), NEW e, Performs(e)
    PROVE  /\ Now' = Post(Now, e)
           /\ ledger' = Written(ledger, Now, e)
           /\ trace' = Append(trace, e)
           /\ [Calls]_vars
<1>1. ASSUME NEW r \in Records, NEW wall, e = IngestEvent(r, wall),
             LoggedIngest(r, wall) \/ LoggedIngestRefused(r, wall)
      PROVE  /\ Now' = Post(Now, e) /\ ledger' = Written(ledger, Now, e)
             /\ trace' = Append(trace, e) /\ Calls
  <2>1. e.op = "ingest" /\ e.record = r
    BY <1>1 DEF IngestEvent
  <2>2. Now' = AfterIngest(Now, r) /\ ledger' = Written(ledger, Now, e)
        /\ trace' = Append(trace, e) /\ Ingest(r, RecordClock[r])
    BY <1>1, IngestDone, IngestRaised
  <2>3. RecordClock[r] \in Clock
    BY ConstantsAssumption
  <2>. QED  BY <2>1, <2>2, <2>3 DEF Post, Calls
<1>2. CASE e = [op |-> "tick"] /\ LoggedTick
  BY <1>2, TickDone DEF Post, Written, Calls, Operation
<1>3. CASE e = [op |-> "promote"] /\ (LoggedPromote \/ LoggedPromoteRefused)
  BY <1>3, PromoteDone DEF Post, Calls, Operation
<1>4. ASSUME NEW old, NEW c \in Content,
             e = [op |-> "supersede", old |-> old, content |-> c],
             LoggedSupersede(old, c) \/ LoggedSupersedeRefused(old, c)
      PROVE  /\ Now' = Post(Now, e) /\ ledger' = Written(ledger, Now, e)
             /\ trace' = Append(trace, e) /\ Calls
  BY <1>4, SupersedeDone DEF Post, Calls
<1>5. CASE e = [op |-> "snapshot"] /\ LoggedSnapshot
  BY <1>5, SnapshotDone, NowIs DEF Post, Calls, Operation
<1>6. CASE e = [op |-> "freeze"] /\ LoggedFreeze
  BY <1>6, FreezeDone DEF Post, Calls, Operation
<1>7. ASSUME NEW v, v = {} \/ \E x : v = {x}, e = [op |-> "pin", version |-> v],
             LoggedPin(v)
      PROVE  /\ Now' = Post(Now, e) /\ ledger' = Written(ledger, Now, e)
             /\ trace' = Append(trace, e) /\ Calls
  BY <1>7, PinDone DEF Post, Calls, Operation
<1>. QED  BY <1>1, <1>2, <1>3, <1>4, <1>5, <1>6, <1>7 DEF Performs
-----------------------------------------------------------------------------
(***************************************************************************)
(* Ledgers that differ in retrievals                                       *)
(***************************************************************************)
IsSeq(s) == \E S : s \in Seq(S)

\* How many records Omitting leaves out
Dropped(s, f, v) == Len(s) - Len(Omitting(s, f, v))

LEMMA OneMore ==
    ASSUME NEW s, IsSeq(s), NEW e, NEW f, NEW v
    PROVE  /\ IsSeq(Append(s, e))
           /\ Omitting(Append(s, e), f, v) = IF e[f] = v THEN Omitting(s, f, v)
                                             ELSE Append(Omitting(s, f, v), e)
           /\ Dropped(s, f, v) \in Nat
           /\ Dropped(Append(s, e), f, v) = IF e[f] = v THEN Dropped(s, f, v) + 1
                                            ELSE Dropped(s, f, v)
<1>1. PICK S : s \in Seq(S)
  BY DEF IsSeq
<1>. DEFINE T == S \union {e}
            o == Omitting(s, f, v)
<1>2. s \in Seq(T) /\ e \in T
  <2>1. S \subseteq T
    OBVIOUS
  <2>. QED  BY <1>1, <2>1, SeqMonotonic
<1>3. Append(s, e) \in Seq(T) /\ Len(s) \in Nat /\ Len(Append(s, e)) = Len(s) + 1
  BY <1>2
<1>4. Omitting(Append(s, e), f, v) = IF e[f] = v THEN o ELSE Append(o, e)
  BY <1>2, OmittingAppend
<1>5. o \in Seq(T) /\ Len(o) <= Len(s) /\ Len(o) \in Nat
  BY <1>2, OmittingIsSeq
<1>6. Len(Append(o, e)) = Len(o) + 1
  BY <1>2, <1>5
<1>. HIDE DEF o, T
<1>. QED  BY <1>3, <1>4, <1>5, <1>6 DEF IsSeq, Dropped, o

\* l was written as m was, but for some retrievals from outside.
SameMutations(l, m) ==
    IsSeq(l) /\ IsSeq(m) /\ Mutations(l) = Mutations(m)

Retrievals(l) == Dropped(l, "event", "retrieve")

LEMMA OneEntryMore ==
    ASSUME NEW l, NEW m, SameMutations(l, m), NEW x
    PROVE  /\ SameMutations(Append(l, x), Append(m, x))
           /\ x.event # "retrieve" => Retrievals(Append(l, x)) = Retrievals(l)
           /\ x.event = "retrieve" => /\ Retrievals(Append(l, x)) = Retrievals(l) + 1
                                      /\ SameMutations(Append(l, x), m)
           /\ Retrievals(l) \in Nat
<1>1. IsSeq(l) /\ IsSeq(m) /\ Mutations(l) = Mutations(m)
  BY DEF SameMutations
<1>2. ASSUME NEW k, IsSeq(k)
      PROVE  /\ IsSeq(Append(k, x))
             /\ Mutations(Append(k, x)) = IF x.event = "retrieve" THEN Mutations(k)
                                          ELSE Append(Mutations(k), x)
             /\ Retrievals(k) \in Nat
             /\ Retrievals(Append(k, x)) = IF x.event = "retrieve" THEN Retrievals(k) + 1
                                           ELSE Retrievals(k)
  BY <1>2, OneMore, x["event"] = x.event DEF Mutations, Retrievals
<1>3. /\ IsSeq(Append(l, x)) /\ IsSeq(Append(m, x))
      /\ Mutations(Append(l, x)) = Mutations(Append(m, x))
      /\ x.event = "retrieve" => Mutations(Append(l, x)) = Mutations(m)
  BY <1>1, <1>2
<1>4. /\ x.event # "retrieve" => Retrievals(Append(l, x)) = Retrievals(l)
      /\ x.event = "retrieve" => Retrievals(Append(l, x)) = Retrievals(l) + 1
      /\ Retrievals(l) \in Nat
  BY <1>1, <1>2
<1>. QED  BY <1>1, <1>3, <1>4 DEF SameMutations

\* They stay so when one event is written to both, and one retrieval is counted
\* for every ingest.
LEMMA SameWritten ==
    ASSUME NEW l, NEW m, SameMutations(l, m), NEW s, NEW e
    PROVE  /\ SameMutations(Written(l, s, e), Written(m, s, e))
           /\ Retrievals(Written(l, s, e)) = IF e.op = "ingest" THEN Retrievals(l) + 1
                                             ELSE Retrievals(l)
<1>1. CASE e.op = "ingest"
  <2>. DEFINE x == RetrievedFrom(s, e.record)
              y == IngestedAs(s, e.record, e.wall_clock)
  <2>1. x.event = "retrieve" /\ y.event # "retrieve"
    BY DEF RetrievedFrom, IngestedAs, Hashed
  <2>. HIDE DEF x, y
  <2>2. /\ SameMutations(Append(l, x), Append(m, x))
        /\ Retrievals(Append(l, x)) = Retrievals(l) + 1
    BY <2>1, OneEntryMore
  <2>3. /\ SameMutations(Append(Append(l, x), y), Append(Append(m, x), y))
        /\ Retrievals(Append(Append(l, x), y)) = Retrievals(Append(l, x))
    BY <2>1, <2>2, OneEntryMore
  <2>4. /\ Written(l, s, e) = IF Refuses(s, e.record) THEN Append(l, x)
                              ELSE Append(Append(l, x), y)
        /\ Written(m, s, e) = IF Refuses(s, e.record) THEN Append(m, x)
                              ELSE Append(Append(m, x), y)
    BY <1>1 DEF Written, x, y
  <2>. QED  BY <1>1, <2>2, <2>3, <2>4
<1>2. CASE e.op = "tick"
  <2>. DEFINE x == ExpiredAs(s)
              y == PromotedAs(s, Without(s.buffer, K(s)!Expired), s.tick + 1,
                              Tick(Tick(s.vclock, KernelAgent), Approver))
              some(k) == IF K(s)!Expired = {} THEN k ELSE Append(k, x)
  <2>1. x.event # "retrieve" /\ y.event # "retrieve"
    BY DEF ExpiredAs, PromotedAs, Hashed
  <2>2. /\ Written(l, s, e) = IF Promotes(s) THEN Append(some(l), y) ELSE some(l)
        /\ Written(m, s, e) = IF Promotes(s) THEN Append(some(m), y) ELSE some(m)
    BY <1>2 DEF Written, WrittenByTick
  <2>. HIDE DEF x, y
  <2>3. SameMutations(some(l), some(m)) /\ Retrievals(some(l)) = Retrievals(l)
    BY <2>1, OneEntryMore
  <2>. HIDE DEF some
  <2>4. /\ SameMutations(Append(some(l), y), Append(some(m), y))
        /\ Retrievals(Append(some(l), y)) = Retrievals(l)
    BY <2>1, <2>3, OneEntryMore
  <2>. QED  BY <1>2, <2>2, <2>3, <2>4
<1>3. CASE e.op = "promote"
  <2>. DEFINE x == PromotedAs(s, s.buffer, s.tick, Tick(s.vclock, Approver))
  <2>1. x.event # "retrieve"
    BY DEF PromotedAs, Hashed
  <2>2. /\ Written(l, s, e) = IF s.frozen THEN l ELSE Append(l, x)
        /\ Written(m, s, e) = IF s.frozen THEN m ELSE Append(m, x)
    BY <1>3 DEF Written
  <2>. HIDE DEF x
  <2>. QED  BY <1>3, <2>1, <2>2, OneEntryMore
<1>4. CASE e.op = "supersede"
  <2>. DEFINE x == Hashed("supersede",
                          [old |-> e.old, new |-> K(s)!Successor(e.old, e.content)],
                          Tick(s.vclock, Approver))
  <2>1. x.event # "retrieve"
    BY DEF Hashed
  <2>2. /\ Written(l, s, e) = IF e.old \in DOMAIN s.supersededBy THEN l ELSE Append(l, x)
        /\ Written(m, s, e) = IF e.old \in DOMAIN s.supersededBy THEN m ELSE Append(m, x)
    BY <1>4 DEF Written
  <2>. HIDE DEF x
  <2>. QED  BY <1>4, <2>1, <2>2, OneEntryMore
<1>5. CASE e.op \in {"snapshot", "freeze"}
  <2>. DEFINE x == Versioned(s, e.op, [version |-> K(s)!Live])
  <2>1. x.event # "retrieve"
    BY <1>5 DEF Versioned, Hashed
  <2>2. /\ Written(l, s, e) = Append(l, x)
        /\ Written(m, s, e) = Append(m, x)
    BY <1>5 DEF Written
  <2>. HIDE DEF x
  <2>. QED  BY <1>5, <2>1, <2>2, OneEntryMore
<1>6. CASE e.op \notin {"ingest", "tick", "promote", "supersede", "snapshot", "freeze"}
  <2>. DEFINE x == Versioned(s, "pin", [version |-> e.version])
  <2>1. x.event # "retrieve"
    BY DEF Versioned, Hashed
  <2>2. /\ Written(l, s, e) = Append(l, x)
        /\ Written(m, s, e) = Append(m, x)
    BY <1>6 DEF Written
  <2>. HIDE DEF x
  <2>. QED  BY <1>6, <2>1, <2>2, OneEntryMore
<1>. QED  BY <1>1, <1>2, <1>3, <1>4, <1>5, <1>6
-----------------------------------------------------------------------------
(***************************************************************************)
(* The state as a function of the trace                                    *)
(***************************************************************************)
Beginning ==
    [buffer |-> [e \in {} |-> [pos |-> 0, at |-> 0, support |-> {}]], tick |-> 0,
     vclock |-> Zero, objects |-> {}, supersededBy |-> [o \in {} |-> o],
     versions |-> {}, pinned |-> {}, frozen |-> FALSE, fed |-> {}]

\* The states h and the ledgers g that the events of t lead through
Explains(t, h, g) ==
    /\ h[0] = Beginning
    /\ g[0] = << Hashed("init", [config |-> TRUE], Zero) >>
    /\ \A k \in 1 .. Len(t) : /\ h[k] = Post(h[k - 1], t[k])
                              /\ g[k] = Written(g[k - 1], h[k - 1], t[k])

Event(e) ==
    \/ \E r \in Records : \E wall : e = IngestEvent(r, wall)
    \/ e = [op |-> "tick"] \/ e = [op |-> "promote"]
    \/ \E old : \E c \in Content : e = [op |-> "supersede", old |-> old, content |-> c]
    \/ e = [op |-> "snapshot"] \/ e = [op |-> "freeze"]
    \/ \E v : /\ v = {} \/ \E x : v = {x}
              /\ e = [op |-> "pin", version |-> v]

Ingests(t) == Dropped(t, "op", "ingest")

\* The kernel holds what its trace leads to, and its ledger differs from the
\* one its trace leads to in retrievals only.
Determined ==
    /\ IsSeq(trace) /\ \A k \in 1 .. Len(trace) : Event(trace[k])
    /\ \E h, g :
          /\ Explains(trace, h, g)
          /\ Now = h[Len(trace)]
          /\ SameMutations(ledger, g[Len(trace)])
          /\ Retrievals(ledger) >= Ingests(trace)
          /\ Retrievals(ledger) = Ingests(trace) => ledger = g[Len(trace)]

LEMMA OneStory ==
    ASSUME NEW t, Len(t) \in Nat, NEW h, NEW g, NEW i, NEW j,
           Explains(t, h, g), Explains(t, i, j)
    PROVE  h[Len(t)] = i[Len(t)] /\ g[Len(t)] = j[Len(t)]
<1>. DEFINE T == {n \in 0 .. Len(t) : ~ (h[n] = i[n] /\ g[n] = j[n])}
<1>1. SUFFICES ASSUME T # {} PROVE FALSE
  OBVIOUS
<1>2. PICK n \in T : \A m \in T : n <= m
  <2>1. T \subseteq Nat
    OBVIOUS
  <2>. HIDE DEF T
  <2>. QED  BY <1>1, <2>1, Least
<1>3. n # 0 /\ n \in 1 .. Len(t) /\ n - 1 \in 0 .. Len(t)
  BY <1>2 DEF Explains
<1>4. h[n - 1] = i[n - 1] /\ g[n - 1] = j[n - 1]
  BY <1>2, <1>3
<1>. QED  BY <1>2, <1>3, <1>4 DEF Explains

LEMMA OneEventMore ==
    ASSUME NEW t, IsSeq(t), NEW e, NEW h, NEW g, Explains(t, h, g)
    PROVE  \E i, j : /\ Explains(Append(t, e), i, j)
                     /\ i[Len(t) + 1] = Post(h[Len(t)], e)
                     /\ j[Len(t) + 1] = Written(g[Len(t)], h[Len(t)], e)
<1>. DEFINE n == Len(t)
            u == Append(t, e)
            i == [k \in 0 .. n + 1 |-> IF k = n + 1 THEN Post(h[n], e) ELSE h[k]]
            j == [k \in 0 .. n + 1 |-> IF k = n + 1 THEN Written(g[n], h[n], e) ELSE g[k]]
<1>1. /\ n \in Nat /\ Len(u) = n + 1 /\ u[n + 1] = e
      /\ \A k \in 1 .. n : u[k] = t[k]
  <2>1. PICK S : t \in Seq(S)
    BY DEF IsSeq
  <2>. QED  BY <2>1
<1>2. /\ i[n + 1] = Post(h[n], e) /\ j[n + 1] = Written(g[n], h[n], e)
      /\ \A k \in 0 .. n : i[k] = h[k] /\ j[k] = g[k]
  BY <1>1
<1>. HIDE DEF i, j, n, u
<1>3. i[0] = Beginning /\ j[0] = << Hashed("init", [config |-> TRUE], Zero) >>
  BY <1>1, <1>2 DEF Explains
<1>4. ASSUME NEW k \in 1 .. n + 1
      PROVE  i[k] = Post(i[k - 1], u[k]) /\ j[k] = Written(j[k - 1], i[k - 1], u[k])
  <2>1. CASE k = n + 1
    <3>1. i[k - 1] = h[n] /\ j[k - 1] = g[n] /\ u[k] = e
      BY <1>1, <1>2, <2>1
    <3>. QED  BY <1>2, <2>1, <3>1
  <2>2. CASE k \in 1 .. n
    <3>1. i[k - 1] = h[k - 1] /\ j[k - 1] = g[k - 1] /\ i[k] = h[k] /\ j[k] = g[k] /\ u[k] = t[k]
      BY <1>1, <1>2, <2>2
    <3>2. h[k] = Post(h[k - 1], t[k]) /\ g[k] = Written(g[k - 1], h[k - 1], t[k])
      BY <2>2 DEF Explains, n
    <3>. QED  BY <3>1, <3>2
  <2>. QED  BY <1>1, <2>1, <2>2
<1>5. Explains(u, i, j)
  BY <1>1, <1>3, <1>4 DEF Explains
<1>. QED  BY <1>2, <1>5 DEF n, u

LEMMA DeterminedStarts ==
    ASSUME LedgerInit
    PROVE  KernelInv /\ Determined /\ trace = << >>
<1>1. KernelInv /\ trace = << >> /\ Len(trace) = 0
  BY KernelStarts DEF LedgerInit
<1>. DEFINE h == [k \in {0} |-> Beginning]
            g == [k \in {0} |-> ledger]
            first == Hashed("init", [config |-> TRUE], Zero)
<1>2. h[0] = Beginning /\ g[0] = ledger
  OBVIOUS
<1>3. Now = Beginning /\ ledger = << first >>
  BY DEF LedgerInit, Init, Store!StoreInit, Now, Beginning
<1>. HIDE DEF h, g
<1>4. Explains(trace, h, g)
  BY <1>1, <1>2, <1>3 DEF Explains
<1>5. IsSeq(trace) /\ IsSeq(ledger)
  <2>1. trace \in Seq({})
    BY <1>1
  <2>2. ledger \in Seq({first})
    BY <1>3
  <2>. QED  BY <2>1, <2>2 DEF IsSeq
<1>6. Ingests(trace) = 0
  BY <1>1, OmittingNone DEF Ingests, Dropped
<1>7. Retrievals(ledger) \in Nat /\ SameMutations(ledger, ledger)
  BY <1>5, OneMore DEF Retrievals, SameMutations
<1>. QED  BY <1>1, <1>2, <1>3, <1>4, <1>5, <1>6, <1>7 DEF Determined

\* (Once a call from outside has retrieved, the counts never agree again.)
LEMMA DeterminedCall ==
    ASSUME KernelInv, Determined, NEW e, Event(e), Performs(e)
    PROVE  /\ KernelInv' /\ Determined'
           /\ trace' = Append(trace, e)
           /\ Retrievals(ledger) = Ingests(trace) => Retrievals(ledger') = Ingests(trace')
<1>1. PICK h, g : /\ Explains(trace, h, g)
                  /\ Now = h[Len(trace)]
                  /\ SameMutations(ledger, g[Len(trace)])
                  /\ Retrievals(ledger) >= Ingests(trace)
                  /\ Retrievals(ledger) = Ingests(trace) => ledger = g[Len(trace)]
  BY DEF Determined
<1>2. PICK S : ledger \in Seq(S)
  BY <1>1 DEF SameMutations, IsSeq
<1>3. /\ Now' = Post(Now, e) /\ ledger' = Written(ledger, Now, e)
      /\ trace' = Append(trace, e) /\ [Calls]_vars
  BY <1>2, CallDone DEF KernelInv
<1>4. KernelInv'
  BY <1>3, KernelStep
<1>5. PICK i, j : /\ Explains(Append(trace, e), i, j)
                  /\ i[Len(trace) + 1] = Post(h[Len(trace)], e)
                  /\ j[Len(trace) + 1] = Written(g[Len(trace)], h[Len(trace)], e)
  BY <1>1, OneEventMore DEF Determined
<1>6. /\ Len(trace) \in Nat /\ Len(trace') = Len(trace) + 1
      /\ IsSeq(trace') /\ \A k \in 1 .. Len(trace') : Event(trace'[k])
  <2>1. PICK T : trace \in Seq(T)
    BY DEF Determined, IsSeq
  <2>2. IsSeq(trace')
    BY <1>3, OneMore DEF Determined
  <2>3. /\ Len(trace) \in Nat /\ Len(trace') = Len(trace) + 1 /\ trace'[Len(trace) + 1] = e
        /\ \A k \in 1 .. Len(trace) : trace'[k] = trace[k]
    BY <1>3, <2>1
  <2>. QED  BY <2>2, <2>3 DEF Determined
<1>7. /\ Explains(trace', i, j) /\ Now' = i[Len(trace')]
      /\ j[Len(trace')] = Written(g[Len(trace)], Now, e)
  BY <1>1, <1>3, <1>5, <1>6
<1>8. /\ SameMutations(ledger', j[Len(trace')])
      /\ Retrievals(ledger') = IF e.op = "ingest" THEN Retrievals(ledger) + 1
                               ELSE Retrievals(ledger)
  BY <1>1, <1>3, <1>7, SameWritten
<1>9. /\ Ingests(trace) \in Nat
      /\ Ingests(trace') = IF e.op = "ingest" THEN Ingests(trace) + 1 ELSE Ingests(trace)
  BY <1>3, OneMore, e["op"] = e.op DEF Ingests, Determined
<1>10. Retrievals(ledger) \in Nat
  BY <1>1, OneMore DEF SameMutations, Retrievals
<1>11. Retrievals(ledger') >= Ingests(trace')
  BY <1>1, <1>8, <1>9, <1>10
<1>12. ASSUME Retrievals(ledger') = Ingests(trace')
       PROVE  ledger' = j[Len(trace')]
  <2>1. Retrievals(ledger) = Ingests(trace)
    BY <1>8, <1>9, <1>10, <1>12
  <2>. QED  BY <1>1, <1>3, <1>7, <2>1
<1>13. Determined'
  BY <1>6, <1>7, <1>8, <1>11, <1>12 DEF Determined
<1>. QED  BY <1>3, <1>4, <1>8, <1>9, <1>13

\* A retrieval from outside: the trace does not know of it.
LEMMA DeterminedRetrieve ==
    ASSUME KernelInv, Determined, NEW c, LoggedRetrieve(c)
    PROVE  KernelInv' /\ Determined' /\ UNCHANGED trace
<1>1. PICK h, g : /\ Explains(trace, h, g)
                  /\ Now = h[Len(trace)]
                  /\ SameMutations(ledger, g[Len(trace)])
                  /\ Retrievals(ledger) >= Ingests(trace)
  BY DEF Determined
<1>2. /\ UNCHANGED <<vars, trace>> /\ Now' = Now
      /\ ledger' = Append(ledger, RetrieveEntry(c, vclock))
  BY DEF LoggedRetrieve, Log, vars, Now
<1>3. KernelInv'
  BY <1>2, KernelStep DEF vars
<1>4. /\ SameMutations(ledger', g[Len(trace)])
      /\ Retrievals(ledger) \in Nat /\ Retrievals(ledger') = Retrievals(ledger) + 1
  <2>1. RetrieveEntry(c, vclock).event = "retrieve"
    BY DEF RetrieveEntry, Hashed
  <2>. QED  BY <1>1, <1>2, <2>1, OneEntryMore
<1>5. Ingests(trace) \in Nat
  BY OneMore DEF Ingests, Determined
<1>6. Determined'
  BY <1>1, <1>2, <1>4, <1>5 DEF Determined
<1>. QED  BY <1>2, <1>3, <1>6

LEMMA CallsAreEvents ==
    ASSUME TypeOK, TracedCall \/ RefusedCall
    PROVE  \E e : Event(e) /\ Performs(e)
<1>1. ASSUME NEW r \in Records, NEW wall, LoggedIngest(r, wall) \/ LoggedIngestRefused(r, wall)
      PROVE  \E e : Event(e) /\ Performs(e)
  BY <1>1 DEF Event, Performs
<1>2. ASSUME NEW old, NEW c \in Content,
             LoggedSupersede(old, c) \/ LoggedSupersedeRefused(old, c)
      PROVE  \E e : Event(e) /\ Performs(e)
  <2>1. Event([op |-> "supersede", old |-> old, content |-> c])
    BY DEF Event
  <2>2. Performs([op |-> "supersede", old |-> old, content |-> c])
    BY <1>2 DEF Performs
  <2>. QED  BY <2>1, <2>2
<1>3. ASSUME NEW v, v = {} \/ \E x : v = {x}, LoggedPin(v)
      PROVE  \E e : Event(e) /\ Performs(e)
  <2>1. Event([op |-> "pin", version |-> v])
    BY <1>3 DEF Event
  <2>2. Performs([op |-> "pin", version |-> v])
    BY <1>3 DEF Performs
  <2>. QED  BY <2>1, <2>2
<1>4. CASE LoggedTick \/ LoggedPromote \/ LoggedPromoteRefused \/ LoggedSnapshot \/ LoggedFreeze
  BY <1>4 DEF Event, Performs
<1>. QED  BY <1>1, <1>2, <1>3, <1>4 DEF TypeOK, TracedCall, RefusedCall

LEMMA DeterminedStutter ==
    ASSUME KernelInv, Determined, UNCHANGED ledgerVars
    PROVE  KernelInv' /\ Determined'
<1>1. UNCHANGED vars /\ UNCHANGED <<ledger, trace>> /\ Now' = Now
  BY DEF ledgerVars, vars, Now
<1>2. KernelInv'
  BY <1>1, KernelStep
<1>3. Determined'
  BY <1>1 DEF Determined
<1>. QED  BY <1>2, <1>3

LEMMA LengthIsNat ==
    ASSUME NEW t, IsSeq(t)
    PROVE  Len(t) \in Nat
<1>1. PICK S : t \in Seq(S)
  BY DEF IsSeq
<1>. QED  BY <1>1
=============================================================================
