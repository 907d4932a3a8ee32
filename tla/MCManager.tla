----------------------------- MODULE MCManager -----------------------------
(***************************************************************************)
(* Instances of Manager for TLC: one or two transcriptions, of which one   *)
(* may have its channels split or be a part of a larger one.               *)
(***************************************************************************)
EXTENDS Manager, TLC

CONSTANTS t1, t2
=============================================================================
