------------------------------- MODULE Barrier -------------------------------
(***************************************************************************)
(* What the barrier ids of the scheduler promise: a reusable barrier.  A   *)
(* party may announce that it arrived before it passes, or do both in one  *)
(* step; it passes its next barrier only if every other party arrived      *)
(* there.                                                                  *)
(***************************************************************************)
EXTENDS Naturals

CONSTANT Party

VARIABLES arrived, passed      \* per party: barriers arrived at, passed

Init ==
  /\ arrived = [p \in Party |-> 0]
  /\ passed = [p \in Party |-> 0]

Arrive(p) ==
  /\ arrived[p] = passed[p]
  /\ arrived' = [arrived EXCEPT ![p] = passed[p] + 1]
  /\ UNCHANGED passed

Pass(p) ==
  /\ \A q \in Party \ {p} : arrived[q] > passed[p]
  /\ passed' = [passed EXCEPT ![p] = @ + 1]
  /\ arrived' = [arrived EXCEPT ![p] = passed[p] + 1]

Next == \E p \in Party : Arrive(p) \/ Pass(p)

Spec == Init /\ [][Next]_<<arrived, passed>>
=============================================================================
