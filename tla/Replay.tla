------------------------------- MODULE Replay -------------------------------
(***************************************************************************)
(* Deterministic replay (memkernel/replay.py, Kernel.apply): a run of the  *)
(* kernel is recorded; then a fresh kernel with the same configuration and *)
(* seams applies its trace event by event, and the two are compared.       *)
(***************************************************************************)
EXTENDS KernelLedger

VARIABLES
    phase,             \* "recording", "replaying", "done", or "raised"
    applied,           \* how many events of the trace have been applied
    buffer2, tick2, vclock2, objects2, supersededBy2, versions2, pinned2,
    frozen2, fed2, ledger2, trace2       \* the replaying kernel

original == <<ledgerVars>>
replica == <<buffer2, tick2, vclock2, objects2, supersededBy2, versions2,
             pinned2, frozen2, fed2, ledger2, trace2>>
replayVars == <<original, replica, phase, applied>>

R == INSTANCE KernelLedger WITH
    buffer <- buffer2, tick <- tick2, vclock <- vclock2, objects <- objects2,
    supersededBy <- supersededBy2, versions <- versions2, pinned <- pinned2,
    frozen <- frozen2, fed <- fed2, ledger <- ledger2, trace <- trace2

ReplayInit ==
    /\ LedgerInit
    /\ R!LedgerInit
    /\ phase = "recording"
    /\ applied = 0

Record(call) ==
    /\ phase = "recording"
    /\ call
    /\ UNCHANGED <<replica, phase, applied>>

\* replay(trace, factory): the factory's kernel is in its initial state.
StartReplay ==
    /\ phase = "recording"
    /\ phase' = "replaying"
    /\ UNCHANGED <<original, replica, applied>>

\* Kernel.apply: the method that the event names, on the replaying kernel
Apply(event) ==
    \/ event.op = "ingest" /\ R!LoggedIngest(event.record, event.wall_clock)
    \/ event.op = "tick" /\ R!LoggedTick
    \/ event.op = "promote" /\ R!LoggedPromote
    \/ event.op = "supersede" /\ R!LoggedSupersede(event.old, event.content)
    \/ event.op = "snapshot" /\ R!LoggedSnapshot
    \/ event.op = "freeze" /\ R!LoggedFreeze
    \/ event.op = "pin" /\ R!LoggedPin(event.version)

\* The method raises: it refuses the call, or the event pins a version that the
\* replaying kernel has not recorded.
ApplyRaises(event) ==
    \/ /\ event.op = "ingest"
       /\ R!LoggedIngestRefused(event.record, event.wall_clock)
    \/ event.op = "promote" /\ R!LoggedPromoteRefused
    \/ /\ event.op = "supersede"
       /\ R!LoggedSupersedeRefused(event.old, event.content)
    \/ /\ event.op = "pin" /\ ~ event.version \subseteq versions2
       /\ UNCHANGED replica

ReplayStep ==
    /\ phase = "replaying"
    /\ applied < Len(trace)
    /\ \/ Apply(trace[applied + 1]) /\ UNCHANGED phase
       \/ ApplyRaises(trace[applied + 1]) /\ phase' = "raised"
    /\ applied' = applied + 1
    /\ UNCHANGED original

\* The loop of replay ends; compare follows.
FinishReplay ==
    /\ phase = "replaying"
    /\ applied = Len(trace)
    /\ phase' = "done"
    /\ UNCHANGED <<original, replica, applied>>

Replaying == StartReplay \/ ReplayStep \/ FinishReplay

\* replay is a loop over a finite trace.
ReplayFairness == WF_replayVars(ReplayStep \/ FinishReplay)

\* Any calls are recorded, traced or not, refused or not, and then replayed.
ReplayNext == Replaying \/ Record(TracedCall \/ RefusedCall \/ UntracedCall)

ReplaySpec == ReplayInit /\ [][ReplayNext]_replayVars /\ ReplayFairness
-----------------------------------------------------------------------------
\* The same program run twice, at different times: both kernels are called
\* alike, and each run's own clock stamps its records.
SameCall ==
    /\ phase = "recording"
    /\ \/ \E r \in Records \ fed, w, w2 \in WallClocks :
              LoggedIngest(r, w) /\ R!LoggedIngest(r, w2)
       \/ LoggedTick /\ R!LoggedTick
       \/ LoggedSnapshot /\ R!LoggedSnapshot
       \/ LoggedFreeze /\ R!LoggedFreeze
       \/ \E v \in versions : LoggedPin({v}) /\ R!LoggedPin({v})
    /\ UNCHANGED <<phase, applied>>
-----------------------------------------------------------------------------
\* compare: store ids, versions and buffers, and the ledger chains
SameMemory ==
    /\ objects = objects2 /\ supersededBy = supersededBy2
    /\ versions = versions2
    /\ buffer = buffer2

SameChain == ledger = ledger2
-----------------------------------------------------------------------------
(***************************************************************************)
(* Properties                                                              *)
(***************************************************************************)
\* A replay that ran to its end rebuilt the memory of the original, whatever
\* the original retrieved in between, and the clock and pin with it.
ReplayRebuildsMemory ==
    phase = "done" => SameMemory /\ vclock = vclock2 /\ pinned = pinned2

\* It rebuilt every other entry of the ledger, payload and clock, and the whole
\* chain, hash for hash, if retrieve was not called from outside.
ReplayRebuildsLedger ==
    phase = "done" =>
        /\ Mutations(ledger) = Mutations(ledger2)
        /\ OnlyIngestRetrieved => SameChain

\* A replay ends: at the last event, or at one that the replica too refuses only
\* after tracing it, never at one it cannot make sense of; either way it has the
\* trace of the original as far as it came.
ReplayEnds ==
    phase = "replaying" ~>
        phase \in {"done", "raised"} /\ trace2 = SubSeq(trace, 1, applied)

\* (kernel.py: "the same trace, two kernels produce identical ledger chains")
SameTraceSameChain == phase = "done" => SameChain

\* (docs/DECISIONS.md, D3: "ledger hashes cover causal tokens and content,
\* never wall clock") Two runs of the same calls have the same chain, whenever
\* they were run.
ChainIgnoresWallClock == SameChain
=============================================================================
