--------------------------- MODULE MCUsageFigures ---------------------------
(* A small instance of UsageFigures: days of two ticks, weeks of three days,*)
(* months of four or five.  The clock starts on a Sunday; two ticks later it*)
(* is Monday and the first of a month.                                      *)
EXTENDS UsageFigures, TLC

CONSTANTS k1, k2, k3, e1, e2

MCOwner == (e1 :> k1) @@ (e2 :> k2)
MCMonthStarts == {0, 8, 18, 26}

\* k3 is not in the table.
MCKeyList == <<k1, k2>>
MCBudget == (k1 :> [tokens |-> 1, period |-> "lifetime"]) @@
            (k2 :> [tokens |-> 1, period |-> "monthly"]) @@
            (k3 :> [tokens |-> Unlimited, period |-> "monthly"])
=============================================================================
