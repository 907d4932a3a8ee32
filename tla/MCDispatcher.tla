---------------------------- MODULE MCDispatcher ----------------------------
(***************************************************************************)
(* Instances of Dispatcher for TLC: two transcriptions, of which one may   *)
(* come twice or kill its worker, and two worker queues.                   *)
(***************************************************************************)
EXTENDS Dispatcher, TLC

CONSTANTS t1, t2, d1, d2, d3, d4

\* d3 repeats the id of d1, or is the malformed one.
MCIdOf == [d \in Delivery |-> IF d = d2 THEN t2 ELSE t1]

\* d1 and d3 have the same id.
MCSymmetry == {p @@ q : p \in Permutations(WorkerQ), q \in Permutations({d1, d3})}
=============================================================================
