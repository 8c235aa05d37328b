----------------------------- MODULE KeyLimits -----------------------------
(***************************************************************************)
(* apikey.Limits, what an operator may set on a key: the rules, the flags  *)
(* of ragctl laid over them, and the batch rule of the handler.            *)
(***************************************************************************)
EXTENDS Integers

Unlimited == -1
Periods == {"monthly", "lifetime"}
Fields == {"batch", "rate", "budget", "period", "priority"}

\* Limits.Validate.  (Variant: the budget is not looked at.)
ValidateNoBudget(l) ==
  l.batch >= 1 /\ l.rate >= 1 /\ l.period \in Periods /\ l.priority \in 0..9
Validate(l) ==
  /\ l.batch >= 1
  /\ l.rate >= 1
  /\ l.budget >= Unlimited /\ l.budget # 0
  /\ l.period \in Periods
  /\ l.priority \in 0..9

\* applyFlags: what was passed over what was there.
ApplyFlags(flags, l) ==
  [f \in Fields |-> IF f \in DOMAIN flags THEN flags[f] ELSE l[f]]

\* APIKey.AllowsBatch.
AllowsBatch(l, n) == n >= 1 /\ n <= l.batch
=============================================================================
