---------------------------- MODULE KernelLedger ----------------------------
(***************************************************************************)
(* The kernel with the two histories that its methods append to: the       *)
(* outcome ledger (memkernel/ledger.py) and the trace from which a run can *)
(* be replayed (kernel.py, memkernel/replay.py).                           *)
(*                                                                         *)
(* An entry's hash covers its sequence number, the previous hash, the      *)
(* event, the payload and the vector clock.  A hash is modelled as an      *)
(* injective name, so the chain of hashes of a ledger is the sequence of   *)
(* what its entries hash, and two chains are equal exactly when those      *)
(* sequences are.  The entry's own wall clock is left out, as in           *)
(* compute_hash; the record's is not (see IngestEntry).                    *)
(***************************************************************************)
EXTENDS Kernel, Sequences

CONSTANTS
    RetrievalSim,      \* RetrievalSim[c][d]: what a query is matched with
    RetrievalK,        \* retrieval_k
    WallClocks         \* readings of the clock that stamps the records

ASSUME LedgerAssumption ==
    /\ RetrievalSim \in [Content -> [Content -> 0 .. Scale]]
    /\ RetrievalK \in Nat \ {0}

VARIABLES
    ledger,            \* what each ledger entry hashes, in order
    trace              \* Kernel.trace

ledgerVars == <<buffer, tick, vclock, objects, supersededBy, versions, pinned,
                frozen, fed, ledger, trace>>

Hashed(event, payload, clock) ==
    [event |-> event, payload |-> payload, vclock |-> clock]

\* Ledger.append: numbered and linked by its place in the sequence
Log(entry) == ledger' = Append(ledger, entry)

\* The configuration that the first entry records is the same in every run.
LedgerInit ==
    /\ Init
    /\ ledger = << Hashed("init", [config |-> TRUE], Zero) >>
    /\ trace = << >>
-----------------------------------------------------------------------------
(***************************************************************************)
(* retrieve: the top k of the visible memories.  Ties are broken by id: a  *)
(* fixed choice among the sets of k best.                                  *)
(***************************************************************************)
TopK(V, c) ==
    LET score(m) == RetrievalSim[c][m.content]
        n == IF Cardinality(V) < RetrievalK THEN Cardinality(V) ELSE RetrievalK
    IN  CHOOSE S \in SUBSET V :
            /\ Cardinality(S) = n
            /\ \A m \in S, o \in V \ S : score(m) >= score(o)

Hits(c) == TopK(Visible, c)

RetrieveEntry(c, clock) ==
    Hashed("retrieve", [version |-> pinned, hits |-> Hits(c)], clock)

\* Variant: a retrieval is an event of the kernel's own.
LoggedRetrieveTicking(c) ==
    /\ Log(RetrieveEntry(c, vclock))
    /\ vclock' = Tick(vclock, KernelAgent)
    /\ UNCHANGED <<buffer, tick, objects, supersededBy, versions, pinned, frozen, fed, trace>>

\* A public call appends to the ledger, without a place in the trace.
LoggedRetrieve(c) ==
    /\ Log(RetrieveEntry(c, vclock))
    /\ UNCHANGED <<vars, trace>>
-----------------------------------------------------------------------------
\* The payload holds the record itself.  The serialiser turns a dataclass into
\* all of its fields before it looks for to_canonical, so the record's wall
\* clock is among them (canon.py, _default).
IngestEntry(r, wall, outcome) ==
    Hashed("ingest",
           [record |-> r, wall_clock |-> wall, tick |-> tick, outcome |-> outcome],
           vclock')

Traced(event) == trace' = Append(trace, event)

\* ingest: traced first; the retrieve entry precedes what may raise.
LoggedIngest(r, wall) ==
    LET rc == RecordClock[r]
        retrieved == RetrieveEntry(ContentOf[r], Tick(Merge(vclock, rc), KernelAgent))
        log(outcome) == ledger' = ledger \o <<retrieved, IngestEntry(r, wall, outcome)>>
    IN  /\ Traced([op |-> "ingest", record |-> r, wall_clock |-> wall])
        /\ \/ IngestAdmit(r, rc) /\ log("buffered")
           \/ IngestReinforce(r, rc) /\ log("reinforced")
           \/ IngestDiscard(r, rc) /\ log("discarded")

LoggedIngestRefused(r, wall) ==
    LET rc == RecordClock[r]
    IN  /\ IngestRefused(r, rc)
        /\ Traced([op |-> "ingest", record |-> r, wall_clock |-> wall])
        /\ Log(RetrieveEntry(ContentOf[r], vclock'))
-----------------------------------------------------------------------------
PromoteEntry(b) ==
    Hashed("promote",
           [tick |-> tick',
            promoted |-> {MemoryFrom(b, s, vclock') : s \in PromotableSeeds(b)},
            rejected |-> {Cluster(b, s) : s \in Seeds(b) \ PromotableSeeds(b)}],
           vclock')

\* The expire entry, if anything expired, carries the clock before the gate's.
ExpireEntries ==
    IF Expired = {} THEN << >>
    ELSE << Hashed("expire", [tick |-> tick', record_ids |-> Expired],
                   Tick(vclock, KernelAgent)) >>

LoggedTick ==
    /\ Traced([op |-> "tick"])
    /\ \/ TickOnly /\ ledger' = ledger \o ExpireEntries
       \/ /\ TickAndPromote
          /\ ledger' = Append(ledger \o ExpireEntries,
                              PromoteEntry(Without(buffer, Expired)))

LoggedPromote ==
    /\ Promote
    /\ Traced([op |-> "promote"])
    /\ Log(PromoteEntry(buffer))

\* promote is traced before _promote raises on a frozen kernel.
LoggedPromoteRefused ==
    /\ frozen
    /\ Traced([op |-> "promote"])
    /\ UNCHANGED <<vars, ledger>>
-----------------------------------------------------------------------------
LoggedSupersede(old, c) ==
    /\ Supersede(old, c)
    /\ Traced([op |-> "supersede", old |-> old, content |-> c])
    /\ Log(
          Hashed("supersede", [old |-> old, new |-> Successor(old, c)], vclock'))

\* supersede is traced before the store refuses.
LoggedSupersedeRefused(old, c) ==
    /\ SupersedeRefused(old)
    /\ Traced([op |-> "supersede", old |-> old, content |-> c])
    /\ UNCHANGED ledger

\* Variant: snapshot is not traced.
LoggedSnapshotUntraced ==
    /\ Snapshot
    /\ UNCHANGED trace
    /\ Log(Hashed("snapshot", [version |-> Live], vclock'))

LoggedSnapshot ==
    /\ Snapshot
    /\ Traced([op |-> "snapshot"])
    /\ Log(Hashed("snapshot", [version |-> Live], vclock'))

LoggedFreeze ==
    /\ Freeze
    /\ Traced([op |-> "freeze"])
    /\ Log(Hashed("freeze", [version |-> Live], vclock'))

\* Variant: pin is not traced.
LoggedPinUntraced(version) ==
    /\ Pin(version)
    /\ UNCHANGED trace
    /\ Log(Hashed("pin", [version |-> version], vclock'))

LoggedPin(version) ==
    /\ Pin(version)
    /\ Traced([op |-> "pin", version |-> version])
    /\ Log(Hashed("pin", [version |-> version], vclock'))
-----------------------------------------------------------------------------
\* Calls that succeed and are traced
TracedCall ==
    \/ \E r \in Records \ fed, wall \in WallClocks : LoggedIngest(r, wall)
    \/ LoggedTick
    \/ LoggedPromote
    \/ \E old \in objects, c \in Content : LoggedSupersede(old, c)
    \/ LoggedSnapshot
    \/ LoggedFreeze
    \/ LoggedPin({}) \/ \E v \in versions : LoggedPin({v})

UntracedCall == \E c \in Content : LoggedRetrieve(c)

\* Calls that raise after they have been traced
RefusedCall ==
    \/ \E r \in fed, wall \in WallClocks : LoggedIngestRefused(r, wall)
    \/ LoggedPromoteRefused
    \/ \E old \in objects, c \in Content : LoggedSupersedeRefused(old, c)
-----------------------------------------------------------------------------
(***************************************************************************)
(* What a replay can rebuild: the trace has no place for a retrieval.      *)
(***************************************************************************)
\* The sequence of records without those whose field has the value.  (SelectSeq,
\* but as a recursive function and no operator parameter, for the proofs.)
Omitting(records, field, value) ==
    LET kept[n \in 0 .. Len(records)] ==
            IF n = 0 THEN << >>
            ELSE IF records[n][field] = value THEN kept[n - 1]
            ELSE Append(kept[n - 1], records[n])
    IN  kept[Len(records)]

Mutations(entries) == Omitting(entries, "event", "retrieve")

\* Every retrieval was part of an ingest: there are as many of the one as of the
\* other.
OnlyIngestRetrieved ==
    Len(ledger) - Len(Mutations(ledger)) = Len(trace) - Len(Omitting(trace, "op", "ingest"))
=============================================================================
