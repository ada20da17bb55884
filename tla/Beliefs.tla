------------------------------- MODULE Beliefs -------------------------------
(***************************************************************************)
(* What the memory kernel promises a reader of its memory, with nothing of *)
(* buffers, gates, clocks or ids: a set of beliefs that grows only until   *)
(* it is closed, in which one belief may at any time give way to another,  *)
(* for good; and a collection of saved sets, one of which (or nothing) is  *)
(* what readers see.                                                       *)
(*                                                                         *)
(* The promises are those of store.py's and kernel.py's docstrings:        *)
(* objects are immutable and retained, at(version) returns exactly the set *)
(* that was live when the version was recorded, promotion is refused once  *)
(* frozen, and retrieval sees the pinned version only.                     *)
(***************************************************************************)
VARIABLES
    live,              \* the beliefs held now
    retired,           \* the beliefs given up
    saved,             \* the sets recorded as versions
    visible,           \* the set that readers see
    closed             \* no new belief may be acquired

beliefVars == <<live, retired, saved, visible, closed>>

Init ==
    /\ live = {}
    /\ retired = {}
    /\ saved = {}
    /\ visible = {}
    /\ closed = FALSE

\* Acquire beliefs never held before.
Learn ==
    /\ ~ closed
    /\ live \subseteq live'
    /\ (live' \ live) \intersect retired = {}
    /\ UNCHANGED <<retired, saved, visible, closed>>

\* Give up a belief for one never held before.
Revise ==
    /\ \E old \in live :
          /\ retired' = retired \union {old}
          /\ \E new \in live' \ (live \union retired) :
                live' = (live \ {old}) \union {new}
    /\ UNCHANGED <<saved, visible, closed>>

Save ==
    /\ saved' = saved \union {live}
    /\ UNCHANGED <<live, retired, visible, closed>>

\* Show readers nothing, or a saved set as it was saved.
Show ==
    /\ visible' \in saved \union {{}}
    /\ UNCHANGED <<live, retired, saved, closed>>

Close ==
    /\ saved' = saved \union {live}
    /\ visible' = live
    /\ closed' = TRUE
    /\ UNCHANGED <<live, retired>>

Next == Learn \/ Revise \/ Save \/ Show \/ Close

Spec == Init /\ [][Next]_beliefVars
=============================================================================
