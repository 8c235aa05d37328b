----------------------------- MODULE InputCount -----------------------------
(***************************************************************************)
(* countInputs: how many inputs the "input" of a request holds, found by   *)
(* walking its JSON tokens and stopping as soon as the verdict is certain. *)
(*                                                                         *)
(* A body is what stands between the brackets of a top-level array: a      *)
(* number, another atom (a string, a bool, null, a key of an object) or    *)
(* the opening or closing delimiter of a nested value.  json.Unmarshal has *)
(* accepted the request, so delimiters balance.                            *)
(***************************************************************************)
EXTENDS Integers, Sequences, FiniteSets

CONSTANTS
  Bodies,      \* arrays that clients send
  MaxElements  \* maxInputArrayElements

Tokens == {"number", "atom", "open", "close"}

Opens(b, i) == {j \in 1..i : b[j] = "open"}
Closes(b, i) == {j \in 1..i : b[j] = "close"}

\* How deep the walk is after the first i tokens.
Depth(b, i) == Cardinality(Opens(b, i)) - Cardinality(Closes(b, i))

ASSUME InputCountAssumption ==
  /\ MaxElements \in Nat \ {0}
  /\ \A b \in Bodies : /\ b \in Seq(Tokens)
                       /\ \A i \in 1..Len(b) : Depth(b, i) >= 0
                       /\ Depth(b, Len(b)) = 0

-----------------------------------------------------------------------------
(***************************************************************************)
(* What the count should be.                                               *)
(***************************************************************************)

\* The tokens, among the first n, at which a top-level element begins.
Elements(b, n) == {i \in 1..n : b[i] # "close" /\ Depth(b, i - 1) = 0}
AllElements(b) == Cardinality(Elements(b, Len(b)))

\* "an array whose elements are ALL numbers is a single pre-tokenized input; any
\* other array is one input per top-level element".
Pretokenized(b) == b # << >> /\ \A i \in 1..Len(b) : b[i] = "number"
Inputs(b) == IF Pretokenized(b) THEN 1 ELSE AllElements(b)

-----------------------------------------------------------------------------
VARIABLES
  body, limit,  \* the array, and the BatchMax of the key it came with
  pos,          \* tokens consumed
  depth,        \* skipRest's depth, 0 outside of it
  counted,      \* count, and at the end the answer
  allNumbers,
  verdict       \* "none" before a request, "scanning", "counted", or an error

countVars == <<body, limit, pos, depth, counted, allNumbers, verdict>>

NothingCounted ==
  /\ body = << >> /\ limit = 0 /\ pos = 0 /\ depth = 0 /\ counted = 0
  /\ allNumbers = TRUE /\ verdict = "none"

\* The first token of "input" opens an array, for a key that allows l inputs.
BeginArray(b, l) ==
  /\ verdict = "none"
  /\ body' = b /\ limit' = l
  /\ verdict' = "scanning"
  /\ UNCHANGED <<pos, depth, counted, allNumbers>>

\* It is a string, which counts as one, or neither: missing, null, a bool, a
\* number, an object.
CountOther(isString, l) ==
  /\ verdict = "none"
  /\ limit' = l
  /\ IF isString
     THEN counted' = 1 /\ verdict' = "counted"
     ELSE verdict' = "invalid" /\ UNCHANGED counted
  /\ UNCHANGED <<body, pos, depth, allNumbers>>

\* After an element: too many to go on, or already more than the key may send.
\* (Variant: as many as the key may send are enough.)
JudgedAtLimit(c, numbers) ==
  IF c > MaxElements THEN "tooLarge"
  ELSE IF ~numbers /\ c >= limit THEN "counted" ELSE "scanning"
Judged(c, numbers) ==
  IF c > MaxElements THEN "tooLarge"
  ELSE IF ~numbers /\ c > limit THEN "counted" ELSE "scanning"

Token == body[pos + 1]

\* How a token changes the depth.
Nesting(t) == IF t = "open" THEN 1 ELSE IF t = "close" THEN -1 ELSE 0

\* A top-level element that is one token.  (Variant: only the latest element is
\* asked whether it is a number.)
NextAtomForgets ==
  /\ verdict = "scanning" /\ depth = 0 /\ pos < Len(body) /\ Token # "open"
  /\ pos' = pos + 1
  /\ allNumbers' = (Token = "number")
  /\ counted' = counted + 1
  /\ verdict' = Judged(counted', allNumbers')
  /\ UNCHANGED <<body, limit, depth>>
NextAtom ==
  /\ verdict = "scanning" /\ depth = 0 /\ pos < Len(body) /\ Token # "open"
  /\ pos' = pos + 1
  /\ allNumbers' = (allNumbers /\ Token = "number")
  /\ counted' = counted + 1
  /\ verdict' = Judged(counted', allNumbers')
  /\ UNCHANGED <<body, limit, depth>>

\* One that is nested: skipRest is entered.
NextNested ==
  /\ verdict = "scanning" /\ depth = 0 /\ pos < Len(body) /\ Token = "open"
  /\ pos' = pos + 1
  /\ allNumbers' = FALSE
  /\ depth' = 1
  /\ UNCHANGED <<body, limit, counted, verdict>>

\* skipRest; the element is counted when it returns.
SkipToken ==
  /\ verdict = "scanning" /\ depth > 0
  /\ pos' = pos + 1
  /\ depth' = depth + Nesting(Token)
  /\ counted' = IF depth' = 0 THEN counted + 1 ELSE counted
  /\ verdict' = IF depth' = 0 THEN Judged(counted', allNumbers) ELSE verdict
  /\ UNCHANGED <<body, limit, allNumbers>>

\* The array is closed.
EndArray ==
  /\ verdict = "scanning" /\ depth = 0 /\ pos = Len(body)
  /\ verdict' = "counted"
  /\ counted' = IF counted > 0 /\ allNumbers THEN 1 ELSE counted
  /\ UNCHANGED <<body, limit, pos, depth, allNumbers>>

CountStep == NextAtom \/ NextNested \/ SkipToken \/ EndArray

\* The handler is done with the request.
ForgetCount ==
  /\ verdict \notin {"none", "scanning"}
  /\ body' = << >> /\ limit' = 0 /\ pos' = 0 /\ depth' = 0 /\ counted' = 0
  /\ allNumbers' = TRUE /\ verdict' = "none"

-----------------------------------------------------------------------------
CountTypeOK ==
  /\ body \in Bodies \cup {<< >>} /\ limit \in Nat
  /\ pos \in 0..Len(body) /\ depth \in Nat /\ counted \in 0..(MaxElements + 1)
  /\ allNumbers \in BOOLEAN
  /\ verdict \in {"none", "scanning", "counted", "invalid", "tooLarge"}

\* Does the whole array hold a batch of at most limit inputs?
Permitted == Inputs(body) \in 1..limit /\ AllElements(body) <= MaxElements

\* "a mixed array like [0,"a","b"] is a 3-input batch, not one, which closes a
\* batch-limit bypass", "its contents must be consumed so decoding stays aligned":
\* for an array, the early answer and the full one give the same verdict, an
\* answer within the limit is the number of inputs, and an array is called too
\* large only if it is.
CountIsExact ==
  body # << >> =>
    /\ verdict = "counted" => /\ counted \in 1..limit <=> Permitted
                              /\ counted \in 1..limit => counted = Inputs(body)
    /\ verdict = "tooLarge" => AllElements(body) > MaxElements
=============================================================================
