--------------------------- MODULE MCIntegration ----------------------------
(***************************************************************************)
(* Instances of Integration for TLC: a topic with an audio that is asked   *)
(* for twice, a message without an id and one that cannot be read.         *)
(***************************************************************************)
EXTENDS Integration, TLC

CONSTANTS m1, m2, t1, t2, t3, n1, n2

MCInput == <<NoId, m1, m1, Unreadable>>

MCForm(names, recognizer) ==
    [params |-> TRUE, email |-> TRUE, recognizer |-> recognizer,
     separate |-> FALSE, names |-> names]

MCFormOf == m1 :> MCForm(<<n1>>, "known")

MCPatterns == <<"audio", "decoded">>
=============================================================================
