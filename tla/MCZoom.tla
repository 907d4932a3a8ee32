------------------------------- MODULE MCZoom -------------------------------
(***************************************************************************)
(* Instances of Zoom for TLC: a parent of one or two files.                *)
(***************************************************************************)
EXTENDS Zoom, TLC

\* Only the first part is seen in a stage before it ends, or none is.
MCStages == [f \in 1 .. Files |-> IF f = 1 THEN {5} ELSE {}]
MCNoStages == [f \in 1 .. Files |-> {}]

MCBusy == [u \in Uploads |-> 2]

\* A parent whose audio is merged has many more messages on their way.
MCBusyOne == [u \in Uploads |-> IF u = "files" THEN 1 ELSE 2]
=============================================================================
