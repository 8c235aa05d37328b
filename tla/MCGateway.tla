----------------------------- MODULE MCGateway -----------------------------
(* Small instances of Gateway: prepaid keys of one or two tokens, and      *)
(* flags that raise or lift the budget, change its period or are refused.  *)
EXTENDS Gateway, TLC

\* No request is named; Defaults and FlagSets do not mention one.
Symmetry == Permutations(Requests)

MCDefaults == [batch |-> 1, rate |-> 1, budget |-> 1, period |-> "lifetime",
               priority |-> 0]
MCFlagSets == {[budget |-> 2], [budget |-> -1], [budget |-> 0], [period |-> "monthly"]}
MCFewFlagSets == {[budget |-> 0], [period |-> "monthly"]}
=============================================================================
