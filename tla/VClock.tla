------------------------------- MODULE VClock -------------------------------
(***************************************************************************)
(* Vector clocks (memkernel/vclock.py).                                    *)
(*                                                                         *)
(* The code keeps a sorted tuple of (agent, count) pairs with the zero     *)
(* counts dropped, so that equal clocks are equal values.  Here a clock is *)
(* a total function from agents to counts: an agent that the tuple leaves  *)
(* out counts 0, and two clocks are equal exactly when the tuples are.     *)
(***************************************************************************)
EXTENDS Naturals

CONSTANT Agents            \* every agent that may appear in a clock

Clock == [Agents -> Nat]

\* VectorClock.zero
Zero == [a \in Agents |-> 0]

\* VectorClock.tick: one more event of agent a
Tick(c, a) == [c EXCEPT ![a] = @ + 1]

\* VectorClock.merge: the pointwise maximum
Merge(c, d) == [a \in Agents |-> IF c[a] >= d[a] THEN c[a] ELSE d[a]]

\* VectorClock.__le__, written Leq(c, d) for c <= d
Leq(c, d) == \A a \in Agents : c[a] <= d[a]

\* VectorClock.happens_before
HappensBefore(c, d) == Leq(c, d) /\ c # d

\* VectorClock.concurrent
Concurrent(c, d) == ~ Leq(c, d) /\ ~ Leq(d, c)
=============================================================================
