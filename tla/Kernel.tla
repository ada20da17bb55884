------------------------------- MODULE Kernel -------------------------------
(***************************************************************************)
(* The memory kernel (memkernel/kernel.py with buffer.py, gates.py,        *)
(* store.py and vclock.py): a record is ingested through the surprise gate *)
(* into the episodic buffer, buffered records expire or are promoted on a  *)
(* schedule into the versioned store, and versions are recorded, pinned    *)
(* and frozen.                                                             *)
(*                                                                         *)
(* One action per outcome of a public method, each the whole method.  The  *)
(* ledger and the trace, which every method appends to and none reads, are *)
(* added by module KernelLedger.                                           *)
(*                                                                         *)
(* The seams (similarity, oracle, contradiction) are deterministic         *)
(* functions in the code and constants here.  Scores are integers in       *)
(* 0 .. Scale that stand for fractions of Scale.                           *)
(***************************************************************************)
EXTENDS Naturals, FiniteSets, VClock

CONSTANTS
    Records,           \* ids of the records a caller may ingest
    Content,           \* what a record or a memory says
    Inputs,            \* input hashes: the artifact (task) a record came from
    ContentOf,         \* record |-> content
    InputOf,           \* record |-> input hash
    AgentOf,           \* record |-> the agent that proposed it
    RecordClock,       \* record |-> the vector clock it carries
    Eligible,          \* the records the oracle gives a label in eligible_labels
    Contradicts,       \* <<c, d>>: the contradiction seam says c contradicts d
    Sim,               \* Sim[c][d], the similarity seam, in 0 .. Scale
    Scale,             \* the score that stands for 1.0
    Theta,             \* theta_surprise
    ReinforceMin,      \* reinforce_min_sim (or 1 - theta)
    ClusterSim,        \* cluster_similarity
    TTL,               \* ttl_ticks
    MinOccurrences,    \* min_occurrences
    MinInputs,         \* min_distinct_inputs
    SeparateDuties,    \* require_separation_of_duties
    Schedule,          \* schedule_every_ticks
    KernelAgent,       \* agent_id: the kernel's own component of the clock
    Approver           \* approver_id: the promotion gate's component

ASSUME ConstantsAssumption ==
    /\ ContentOf \in [Records -> Content]
    /\ InputOf \in [Records -> Inputs]
    /\ AgentOf \in [Records -> Agents]
    /\ RecordClock \in [Records -> Clock]
    /\ Eligible \subseteq Records
    /\ Contradicts \subseteq Content \X Content
    /\ Scale \in Nat \ {0}
    /\ Sim \in [Content -> [Content -> 0 .. Scale]]
    /\ {Theta, ReinforceMin, ClusterSim} \subseteq 0 .. Scale
    /\ {TTL, Schedule} \subseteq Nat \ {0}
    /\ {MinOccurrences, MinInputs} \subseteq Nat
    /\ SeparateDuties \in BOOLEAN
    /\ {KernelAgent, Approver} \subseteq Agents

VARIABLES
    buffer,            \* EpisodicBuffer._entries: record id |-> entry
    tick,              \* tick_count
    vclock,            \* vclock
    objects, supersededBy, versions,     \* the store
    pinned,            \* pinned_version: {} for None, or the set of one version
    frozen,            \* frozen
    fed                \* history: the records the caller has ingested so far

vars == <<buffer, tick, vclock, objects, supersededBy, versions, pinned,
          frozen, fed>>

Store == INSTANCE MemoryStore

Live == Store!Live

\* _visible_memory: ingest and retrieve see the pinned version only.
Visible == Store!At(pinned)

(***************************************************************************)
(* A buffer entry holds the tick at which it was inserted, its supporting  *)
(* records (itself included) and its place in the dictionary's insertion   *)
(* order.  Every insertion advances the kernel's component of the clock,   *)
(* so that component's value orders the entries; replacing an entry keeps  *)
(* its place, as assigning to an existing key does in Python.              *)
(***************************************************************************)
Entry == [pos : Nat, at : Nat, support : SUBSET Records]

Init ==
    /\ buffer = [e \in {} |-> [pos |-> 0, at |-> 0, support |-> {}]]
    /\ tick = 0
    /\ vclock = Zero
    /\ Store!StoreInit
    /\ pinned = {}
    /\ frozen = FALSE
    /\ fed = {}
-----------------------------------------------------------------------------
(***************************************************************************)
(* The surprise gate (SurpriseGate.evaluate)                               *)
(***************************************************************************)
\* Variant: redundancy is judged against promoted memory only.
ComparandaInMemory == {m.content : m \in Visible}

Comparanda ==
    {ContentOf[e] : e \in DOMAIN buffer} \union {m.content : m \in Visible}

\* Variant: the lowest similarity decides, not the highest.
SurprisingByMin(c) ==
    /\ Scale > Theta
    /\ Comparanda # {} => \E d \in Comparanda : Scale - Sim[c][d] > Theta

\* admitted: surprise = 1 - max similarity (0 with nothing to compare) > theta
Surprising(c) ==
    /\ Scale > Theta
    /\ \A d \in Comparanda : Scale - Sim[c][d] > Theta

\* The scan keeps the first of the highest positive scores, buffer first, so
\* a buffered entry is the nearest unless a visible memory scores above it.
Nearest(c, e) ==
    LET score(f) == Sim[c][ContentOf[f]]
    IN  /\ score(e) > 0
        /\ \A f \in DOMAIN buffer :
              \/ score(f) < score(e)
              \/ score(f) = score(e) /\ buffer[e].pos <= buffer[f].pos
        /\ \A m \in Visible : Sim[c][m.content] <= score(e)

\* The entries that a redundant record reinforces: the nearest, if it is near
\* enough to be the same pattern.
Reinforced(c) ==
    {e \in DOMAIN buffer : Nearest(c, e) /\ Sim[c][ContentOf[e]] >= ReinforceMin}

(***************************************************************************)
(* ingest.  rc is the clock of the record: the kernel has seen what its    *)
(* agent had seen, and takes one step of its own.                          *)
(***************************************************************************)
Observe(r, rc) ==
    /\ vclock' = Tick(Merge(vclock, rc), KernelAgent)
    /\ fed' = fed \union {r}
    /\ UNCHANGED <<tick, objects, supersededBy, versions, pinned, frozen>>

SetEntry(e, entry) ==
    buffer' = [f \in DOMAIN buffer \union {e} |-> IF f = e THEN entry ELSE buffer[f]]

IngestAdmit(r, rc) ==
    /\ Surprising(ContentOf[r])
    /\ r \notin DOMAIN buffer
    /\ Observe(r, rc)
    /\ SetEntry(r, [pos |-> vclock'[KernelAgent], at |-> tick, support |-> {r}])

IngestReinforce(r, rc) ==
    /\ ~ Surprising(ContentOf[r])
    /\ \E e \in Reinforced(ContentOf[r]) :
          /\ r \notin buffer[e].support
          /\ SetEntry(e, [pos |-> buffer[e].pos, at |-> buffer[e].at,
                          support |-> buffer[e].support \union {r}])
    /\ Observe(r, rc)

\* redundant to promoted memory, or to an entry that is not near enough
IngestDiscard(r, rc) ==
    /\ ~ Surprising(ContentOf[r])
    /\ Reinforced(ContentOf[r]) = {}
    /\ Observe(r, rc)
    /\ UNCHANGED buffer

\* EpisodicBuffer.add and reinforce raise on a record they hold already; by
\* then the clock has been merged and advanced, and it stays so.
IngestRefused(r, rc) ==
    /\ IF Surprising(ContentOf[r])
       THEN r \in DOMAIN buffer
       ELSE \E e \in Reinforced(ContentOf[r]) : r \in buffer[e].support
    /\ Observe(r, rc)
    /\ UNCHANGED buffer

Ingest(r, rc) ==
    \/ IngestAdmit(r, rc)
    \/ IngestReinforce(r, rc)
    \/ IngestDiscard(r, rc)
    \/ IngestRefused(r, rc)
-----------------------------------------------------------------------------
(***************************************************************************)
(* The promotion gate (PromotionGate), on a buffer b                       *)
(***************************************************************************)
SamePattern(e, s) == Sim[ContentOf[e]][ContentOf[s]] >= ClusterSim

\* cluster: one pass in insertion order; an entry joins the first cluster
\* whose seed it resembles, and seeds a new one if there is none.
Seeds(b) ==
    CHOOSE S \in SUBSET DOMAIN b :
        \A e \in DOMAIN b :
            e \in S <=> ~ \E s \in S : b[s].pos < b[e].pos /\ SamePattern(e, s)

Cluster(b, s) ==
    {s} \union
    {e \in DOMAIN b \ Seeds(b) :
        /\ SamePattern(e, s)
        /\ b[s].pos < b[e].pos
        /\ \A t \in Seeds(b) :
              b[t].pos < b[s].pos => ~ SamePattern(e, t)}

\* The eligible records behind a cluster, each with the entry it supports: a
\* record that supports two entries of the cluster counts as two occurrences.
Occurrences(b, s) ==
    {o \in Cluster(b, s) \X Eligible : o[2] \in b[o[1]].support}

EvidenceFor(b, s) ==
    {r \in Eligible : \E e \in Cluster(b, s) : r \in b[e].support}

\* Variants of the gate, each with one of its four checks missing: distinct
\* inputs, separation of duties, contradiction, and the label.
PromotableAnyInputs(b, s) ==
    LET evidence == EvidenceFor(b, s)
    IN  /\ Cardinality(Occurrences(b, s)) >= MinOccurrences
        /\ SeparateDuties => \A r \in evidence : AgentOf[r] # Approver
        /\ \A m \in Live : <<ContentOf[s], m.content>> \notin Contradicts

PromotableAnyProposer(b, s) ==
    LET evidence == EvidenceFor(b, s)
    IN  /\ Cardinality(Occurrences(b, s)) >= MinOccurrences
        /\ Cardinality({InputOf[r] : r \in evidence}) >= MinInputs
        /\ \A m \in Live : <<ContentOf[s], m.content>> \notin Contradicts

PromotableContradicting(b, s) ==
    LET evidence == EvidenceFor(b, s)
    IN  /\ Cardinality(Occurrences(b, s)) >= MinOccurrences
        /\ Cardinality({InputOf[r] : r \in evidence}) >= MinInputs
        /\ SeparateDuties => \A r \in evidence : AgentOf[r] # Approver

PromotableUnlabelled(b, s) ==
    LET support == UNION {b[e].support : e \in Cluster(b, s)}
    IN  /\ Cardinality(support) >= MinOccurrences
        /\ Cardinality({InputOf[r] : r \in support}) >= MinInputs
        /\ SeparateDuties => \A r \in support : AgentOf[r] # Approver
        /\ \A m \in Live : <<ContentOf[s], m.content>> \notin Contradicts

Promotable(b, s) ==
    LET evidence == EvidenceFor(b, s)
    IN  /\ Cardinality(Occurrences(b, s)) >= MinOccurrences
        /\ Cardinality({InputOf[r] : r \in evidence}) >= MinInputs
        /\ SeparateDuties => \A r \in evidence : AgentOf[r] # Approver
        /\ \A m \in Live : <<ContentOf[s], m.content>> \notin Contradicts

\* The object promoted from the cluster of s: the content is the seed's, the
\* provenance the eligible records, the vclock that of the promotion run.
MemoryFrom(b, s, stamp) ==
    [content |-> ContentOf[s],
     provenance |-> EvidenceFor(b, s),
     input_hashes |-> {InputOf[r] : r \in EvidenceFor(b, s)},
     proposed_by |-> {AgentOf[r] : r \in EvidenceFor(b, s)},
     vclock |-> stamp,
     supersedes |-> {}]

PromotableSeeds(b) == {s \in DOMAIN b : s \in Seeds(b) /\ Promotable(b, s)}

Consumed(b) == UNION {Cluster(b, s) : s \in PromotableSeeds(b)}

Without(b, gone) == [e \in DOMAIN b \ gone |-> b[e]]

\* Variant: the gate's event is not taken over into the kernel's clock.
RunPromotionBehind(b, stamp) ==
    /\ Store!PutAll({MemoryFrom(b, s, stamp) : s \in PromotableSeeds(b)})
    /\ buffer' = Without(b, Consumed(b))
    /\ vclock' = vclock

\* Variant: what was promoted stays in the buffer.
RunPromotionKeeping(b, stamp) ==
    /\ Store!PutAll({MemoryFrom(b, s, stamp) : s \in PromotableSeeds(b)})
    /\ buffer' = b
    /\ vclock' = stamp

\* Variant: the run stops at the first cluster that it promotes.
RunPromotionOnce(b, stamp) ==
    LET first == {s \in PromotableSeeds(b) :
                     \A t \in PromotableSeeds(b) : b[s].pos <= b[t].pos}
    IN  /\ Store!PutAll({MemoryFrom(b, s, stamp) : s \in first})
        /\ buffer' = Without(b, UNION {Cluster(b, s) : s \in first})
        /\ vclock' = stamp

\* _promote, at the clock the run has been given
RunPromotion(b, stamp) ==
    /\ Store!PutAll({MemoryFrom(b, s, stamp) : s \in PromotableSeeds(b)})
    /\ buffer' = Without(b, Consumed(b))
    /\ vclock' = stamp
-----------------------------------------------------------------------------
(***************************************************************************)
(* tick: entries that have reached the TTL expire first, then the gate     *)
(* runs if this is a scheduled tick and memory is not frozen.              *)
(***************************************************************************)
\* Variant: an entry expires one tick late.
ExpiredLate == {e \in DOMAIN buffer : tick + 1 - buffer[e].at > TTL}

Expired == {e \in DOMAIN buffer : tick + 1 - buffer[e].at >= TTL}

TickOnly ==
    /\ frozen \/ (tick + 1) % Schedule # 0
    /\ tick' = tick + 1
    /\ vclock' = Tick(vclock, KernelAgent)
    /\ buffer' = Without(buffer, Expired)
    /\ UNCHANGED <<objects, supersededBy, versions, pinned, frozen, fed>>

TickAndPromote ==
    /\ ~ frozen
    /\ (tick + 1) % Schedule = 0
    /\ tick' = tick + 1
    /\ RunPromotion(Without(buffer, Expired),
                    Tick(Tick(vclock, KernelAgent), Approver))
    /\ UNCHANGED <<pinned, frozen, fed>>

AnyTick == TickOnly \/ TickAndPromote

\* Variant: promote does not ask whether memory is frozen.
PromoteAlways ==
    /\ RunPromotion(buffer, Tick(vclock, Approver))
    /\ UNCHANGED <<tick, pinned, frozen, fed>>

\* promote, out of schedule; once frozen it raises and changes nothing here.
Promote ==
    /\ ~ frozen
    /\ RunPromotion(buffer, Tick(vclock, Approver))
    /\ UNCHANGED <<tick, pinned, frozen, fed>>
-----------------------------------------------------------------------------
(***************************************************************************)
(* Versions                                                                *)
(***************************************************************************)
Successor(old, c) ==
    [content |-> c,
     provenance |-> old.provenance,
     input_hashes |-> old.input_hashes,
     proposed_by |-> old.proposed_by,
     vclock |-> Tick(vclock, Approver),
     supersedes |-> {old}]

\* supersede, also after freeze
Supersede(old, c) ==
    /\ Store!Supersede(old, Successor(old, c))
    /\ vclock' = Tick(vclock, Approver)
    /\ UNCHANGED <<buffer, tick, pinned, frozen, fed>>

\* The store refuses a second successor after the clock has advanced.
SupersedeRefused(old) ==
    /\ old \in DOMAIN supersededBy
    /\ vclock' = Tick(vclock, Approver)
    /\ UNCHANGED <<buffer, tick, objects, supersededBy, versions, pinned, frozen, fed>>

Snapshot ==
    /\ Store!RecordVersion
    /\ vclock' = Tick(vclock, KernelAgent)
    /\ UNCHANGED <<buffer, tick, pinned, frozen, fed>>

\* Variant: freeze leaves the pin where it was.
FreezeUnpinned ==
    /\ Store!RecordVersion
    /\ vclock' = Tick(vclock, KernelAgent)
    /\ frozen' = TRUE
    /\ UNCHANGED <<buffer, tick, pinned, fed>>

Freeze ==
    /\ Store!RecordVersion
    /\ vclock' = Tick(vclock, KernelAgent)
    /\ frozen' = TRUE
    /\ pinned' = {Live}
    /\ UNCHANGED <<buffer, tick, fed>>

\* pin raises, before any change, on a version that was not recorded.
Pin(version) ==
    /\ version \subseteq versions
    /\ vclock' = Tick(vclock, KernelAgent)
    /\ pinned' = version
    /\ UNCHANGED <<buffer, tick, objects, supersededBy, versions, frozen, fed>>
-----------------------------------------------------------------------------
\* Every operation but ingest
Operation ==
    \/ AnyTick \/ Promote
    \/ \E old \in objects, c \in Content : Supersede(old, c)
    \/ \E old \in objects : SupersedeRefused(old)
    \/ Snapshot \/ Freeze
    \/ Pin({}) \/ \E v \in versions : Pin({v})

\* Records have distinct ids, as read_tasks and the record ids of the
\* pipeline make them: each is ingested at most once.
Next ==
    \/ \E r \in Records \ fed : Ingest(r, RecordClock[r])
    \/ Operation

Spec == Init /\ [][Next]_vars

\* A stream in which an id may come again (a task listed twice)
NextRepeating ==
    \/ \E r \in Records : Ingest(r, RecordClock[r])
    \/ Operation
SpecRepeating == Init /\ [][NextRepeating]_vars
-----------------------------------------------------------------------------
(***************************************************************************)
(* Properties                                                              *)
(***************************************************************************)
TypeOK ==
    /\ buffer \in [DOMAIN buffer -> Entry]
    /\ DOMAIN buffer \subseteq Records
    /\ tick \in Nat
    /\ vclock \in Clock
    /\ \A m \in objects :
          /\ m.content \in Content
          /\ m.provenance \subseteq Records
          /\ m.vclock \in Clock
          /\ m.supersedes \subseteq objects
    /\ DOMAIN supersededBy \subseteq objects
    /\ versions \subseteq SUBSET objects
    /\ pinned \subseteq versions
    /\ frozen \in BOOLEAN
    /\ fed \subseteq Records

\* A record is evidence for one thing at a time: it supports one buffered
\* entry, or one live memory rests on it, or neither.  (EpisodicBuffer.remove
\* of the whole cluster, add and reinforce; the successor of a memory takes
\* over its provenance.)
EvidenceUsedOnce ==
    /\ \A e, f \in DOMAIN buffer :
          e # f => buffer[e].support \intersect buffer[f].support = {}
    /\ \A e \in DOMAIN buffer, m \in Live :
          buffer[e].support \intersect m.provenance = {}
    /\ \A m, n \in Live :
          m # n => m.provenance \intersect n.provenance = {}

\* The buffer never holds two entries within the surprise bar of each other,
\* whatever was reinforced, expired or promoted in between.
RedundancyFree ==
    \A e, f \in DOMAIN buffer :
        buffer[e].pos < buffer[f].pos =>
            Scale - Sim[ContentOf[f]][ContentOf[e]] > Theta

\* Where the clustering bar is at least the admission bar, as in both shipped
\* policies, the clustering pass never merges two entries.
NeverClusters ==
    ClusterSim + Theta >= Scale =>
        \A s \in DOMAIN buffer : Cluster(buffer, s) = {s}

\* No entry outlives its TTL, reinforced or not, and the insertion order that
\* the gates follow is the order of age.
NoStaleEvidence ==
    \A e, f \in DOMAIN buffer :
        /\ buffer[e].at <= tick /\ tick - buffer[e].at < TTL
        /\ buffer[e].pos < buffer[f].pos => buffer[e].at <= buffer[f].at
        /\ buffer[e].pos = buffer[f].pos => e = f

\* Memories are never causally concurrent: any two have equal clocks (one run
\* promoted them) or one was created in the causal past of the other, and all
\* are in the past of the kernel's present clock.
CausalOrder ==
    \A m, n \in objects :
        /\ ~ Concurrent(m.vclock, n.vclock)
        /\ Leq(m.vclock, vclock)

\* Supersession forms chains forward in causal time: an object has at most one
\* successor, which names it and is causally later, and every object that
\* claims to supersede another is the one the index records.
SupersessionChains ==
    /\ \A o \in DOMAIN supersededBy :
          /\ supersededBy[o] \in objects
          /\ supersededBy[o].supersedes = {o}
          /\ HappensBefore(o.vclock, supersededBy[o].vclock)
    /\ \A m \in objects : \A o \in m.supersedes :
          o \in DOMAIN supersededBy /\ supersededBy[o] = m

\* What a promotion run leaves in the buffer could not have been promoted: run
\* again at once, the gate promotes nothing.  (Consuming whole clusters leaves
\* the clustering of the rest as it was.)
PromotionExhaustive ==
    [][(TickAndPromote \/ Promote) => PromotableSeeds(buffer') = {}]_vars

\* A memory rests on as many distinct records as the policy asks for
\* occurrences, from as many distinct inputs, all of them eligible and none
\* proposed by the approver.
EvidenceSuffices ==
    \A m \in objects :
        /\ m.provenance \subseteq Eligible
        /\ Cardinality(m.provenance) >= MinOccurrences
        /\ Cardinality({InputOf[r] : r \in m.provenance}) >= MinInputs
        /\ SeparateDuties => \A r \in m.provenance : AgentOf[r] # Approver

\* A memory is promoted only once every memory it contradicts has been
\* superseded: of two promoted in different runs, the later contradicts the
\* earlier only if that one had a successor by then.  (Two promoted by one run
\* may contradict each other: the gate looks at the store, not at the memories
\* it is about to put there.)
NoUnresolvedContradiction ==
    \A m, n \in objects :
        /\ m.supersedes = {}
        /\ HappensBefore(n.vclock, m.vclock)
        /\ <<m.content, n.content>> \in Contradicts
        => /\ n \in DOMAIN supersededBy
           /\ HappensBefore(supersededBy[n].vclock, m.vclock)

\* After freeze nothing is learned: every later object replaces an older one
\* and rests on the evidence that one had.
FrozenLearnsNothing ==
    [][frozen =>
        /\ frozen'
        /\ \A m \in objects' \ objects :
              \E o \in m.supersedes : o \in objects /\ m.provenance = o.provenance
      ]_vars

\* (docs/EXP-001.md, section 6) An occurrence is a distinct source record.  The
\* gate counts a record once per entry that it supports: where ids come again and
\* entries cluster, this holds because distinct inputs are asked for as well.
DistinctOccurrences ==
    \A m \in objects : Cardinality(m.provenance) >= MinOccurrences

\* The content of a promoted memory was said by one of the eligible records
\* that it rests on.
ContentFromEvidence ==
    \A m \in objects :
        m.supersedes = {} => \E r \in m.provenance : ContentOf[r] = m.content
-----------------------------------------------------------------------------
\* The kernel implements the promise of module Beliefs: what is live is what
\* the index does not mark as superseded, and a version is the set it lists.
Promise == INSTANCE Beliefs WITH
    live <- Live,
    retired <- DOMAIN supersededBy,
    saved <- versions,
    visible <- Visible,
    closed <- frozen

ImplementsBeliefs == Promise!Spec
=============================================================================
