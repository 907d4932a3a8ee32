------------------------------ MODULE MCWorker ------------------------------
(***************************************************************************)
(* Instances of Worker for TLC: messages for two models, for none, and for *)
(* recognizers that are not configured.                                    *)
(***************************************************************************)
EXTENDS Worker, TLC

CONSTANTS a1, b1, n1, x1

MCKeyOf == [m \in Msg |-> CASE m = b1 -> "b" [] m = n1 -> None [] OTHER -> "a"]
=============================================================================
