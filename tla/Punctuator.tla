----------------------------- MODULE Punctuator -----------------------------
(***************************************************************************)
(* The punctuator: it shows a text to a model window by window, each       *)
(* window beginning after the last sentence that the one before has ended, *)
(* and takes over the marks that the model gives.  What the model gives is *)
(* any sequence of marks.                                                  *)
(***************************************************************************)
EXTENDS Naturals, Sequences, FiniteSets

CONSTANTS
    MaxWords,       \* the length of the longest text
    Timesteps,      \* the lengths of a window, with the sequence end word
    Mark,           \* the ids of the punctuation vocabulary
    SentenceEnd,    \* sentenceEnds
    Unset           \* no mark was set: 0 in the code, a mark as well

VARIABLES
    length,         \* the words of the text are 1..length
    timesteps,
    ci,             \* the words before the window
    marks,          \* result: the marks so far
    madeAt,         \* the beginning of the window that gave each of them
    ppc             \* "run", "done" or "error"

punctVars == <<length, timesteps, ci, marks, madeAt, ppc>>

Width == timesteps - 1

Init ==
    /\ length \in 0..MaxWords
    /\ timesteps \in Timesteps
    /\ ci = 0
    /\ marks = [k \in 1..length |-> Unset]
    /\ madeAt = [k \in 1..length |-> 0]
    /\ ppc = "run"

\* copyArr: the words of the text in the window; the rest of it repeats words
\* from the beginning, and what the model says of them is not used.
InText == IF ci + Width <= length THEN Width ELSE length - ci

\* fillResult: where the next window begins.
Ends(res) == {i \in 1..InText : res[i] \in SentenceEnd}

LastEnd(res) == CHOOSE i \in Ends(res) : \A j \in Ends(res) : j <= i

\* Mutant of NextCi: windows follow one another wherever sentences end.
NextCiWhole(res) == ci + Width

NextCi(res) ==
    IF Ends(res) = {} \/ ci + InText = length THEN ci + Width
                                              ELSE ci + LastEnd(res)

\* One call of the model; its marks are set for all words in the window.
Invoke ==
    /\ ppc = "run"
    /\ ci < length
    /\ \E res \in [1..Width -> Mark] :
          /\ marks' = [k \in 1..length |->
                IF k \in (ci + 1)..(ci + InText) THEN res[k - ci] ELSE marks[k]]
          /\ madeAt' = [k \in 1..length |->
                IF k \in (ci + 1)..(ci + InText) THEN ci + 1 ELSE madeAt[k]]
          /\ ci' = NextCi(res)
    /\ UNCHANGED <<length, timesteps, ppc>>

\* The call fails, or returns fewer marks than the window has words.
InvokeFails ==
    /\ ppc = "run"
    /\ ci < length
    /\ ppc' = "error"
    /\ UNCHANGED <<length, timesteps, ci, marks, madeAt>>

Done ==
    /\ ppc = "run"
    /\ ci >= length
    /\ ppc' = "done"
    /\ UNCHANGED <<length, timesteps, ci, marks, madeAt>>

Punctuate == Invoke \/ Done

Next == Punctuate \/ InvokeFails

\* preparePunctuated: the words that get a capital.
Capital == {k \in 1..length : k = 1 \/ marks[k - 1] \in SentenceEnd}

-----------------------------------------------------------------------------
\* A punctuated text has a mark of the model at every word, and the window
\* that gave it begins at a word with a capital, or after a whole window that
\* had no sentence end: the model never sees a sentence from its middle when
\* it could be seen from its first word.
MarksAreWhole ==
    ppc = "done" => \A k \in 1..length :
        /\ marks[k] # Unset
        /\ k < madeAt[k] + Width
        /\ \/ madeAt[k] \in Capital
           \/ \A j \in (madeAt[k] - Width)..(madeAt[k] - 1) :
                 /\ marks[j] \notin SentenceEnd
                 /\ madeAt[j] = madeAt[k] - Width
=============================================================================
