----------------------------- MODULE MCServices -----------------------------
(***************************************************************************)
(* The instance of Services for TLC: small sets for every part.            *)
(***************************************************************************)
EXTENDS Services, TLC

CONSTANTS
    t1, t2, t3, n1, n2, n3,
    d1, d2, d3, ma, r1, r2,
    ta, tb, ca, cb,
    p1, p2, k1, c1, c2

MCBudget == [upload |-> 1, cleaning |-> 1, inform |-> 2, events |-> 1,
             recognizers |-> 2]

MCEarlier == <<t1, t2, t3>>

\* A form whose files have the names, in the fields of their places.
MCForm(names, recognizer, separate, params) ==
    [params |-> params, email |-> TRUE, recognizer |-> recognizer,
     separate |-> separate, names |-> names]

\* One file; two; two of one name; a gap between the fields; an extension
\* that is not supported; two files with a speaker each; recognizers that
\* are not known or cannot be read; unknown parameters.
MCForms ==
    {MCForm(<<n1>>, "known", TRUE, TRUE),
     MCForm(<<n1, n2>>, "known", FALSE, TRUE),
     MCForm(<<n1, n1>>, "known", FALSE, TRUE),
     MCForm((1 :> n1) @@ (3 :> n2), "known", FALSE, TRUE),
     MCForm(<<n3>>, "known", FALSE, TRUE),
     MCForm(<<n1, n2>>, "known", TRUE, TRUE),
     MCForm(<<n1>>, "unknown", FALSE, TRUE),
     MCForm(<<n1>>, "broken", FALSE, TRUE),
     MCForm(<<n1>>, "known", FALSE, FALSE)}

MCPatterns == <<"audio">>

MCMailOf == [d \in {d1, d2, d3} |-> IF d = d3 THEN None ELSE ma]

MCMaxChanges == ta :> 2 @@ tb :> 0

MCMaxMessages == ca :> 2 @@ cb :> 1

\* Two models; a task of each at once and one later, and one whose model is
\* not known.
MCTask ==
    {[type |-> 0, arrived |-> 0, duration |-> 1],
     [type |-> 2, arrived |-> 0, duration |-> 2],
     [type |-> 3, arrived |-> 0, duration |-> 1],
     [type |-> 3, arrived |-> 4, duration |-> 3]}

MCKeyOf == p1 :> k1 @@ p2 :> k1

MCLength == p1 :> 1 @@ p2 :> 2

\* The requests of one are posted again.
MCMaxPosts == p1 :> 2 @@ p2 :> 1
=============================================================================
