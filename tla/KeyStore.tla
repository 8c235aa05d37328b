----------------------------- MODULE KeyStore -----------------------------
(***************************************************************************)
(* The api_keys table and the operators who change it: every invocation of *)
(* ragctl is a process of its own on the same SQLite file, so create,      *)
(* update and revoke interleave with each other and with the gateway.      *)
(*                                                                         *)
(* A key's hash and name never change and revoked_at matters only as set   *)
(* or not, so a row is its limits and a flag.  A command that is refused   *)
(* (unknown id, nothing to change, invalid limits) changes nothing and is  *)
(* not an action.                                                          *)
(***************************************************************************)
EXTENDS KeyLimits, FiniteSets

CONSTANTS
  Keys,       \* row ids
  Operators,  \* concurrent invocations of ragctl
  Defaults,   \* cfg.Defaults: the limits of a key created without flags
  FlagSets    \* what operators type: records of the flags passed

ValuesOf(f) == {Defaults[f]} \cup {fl[f] : fl \in {g \in FlagSets : f \in DOMAIN g}}

\* Every set of limits that flags can make of the defaults.
Limits == [batch : ValuesOf("batch"), rate : ValuesOf("rate"),
           budget : ValuesOf("budget"), period : ValuesOf("period"),
           priority : ValuesOf("priority")]

\* config.validate refuses defaults that are not sound.
ASSUME KeyStoreAssumption ==
  /\ Defaults \in Limits /\ Validate(Defaults)
  /\ \A f \in Fields \ {"period"} : ValuesOf(f) \subseteq Int
  /\ \A fl \in FlagSets : DOMAIN fl \subseteq Fields

VARIABLES
  issued,   \* ids present in the table; rows are never deleted
  rows,     \* limits and revocation of each row
  op        \* each ragctl: idle, or between update's read and its write

storeVars == <<issued, rows, op>>

Rows == [limits : Limits, revoked : BOOLEAN]
Idle == [busy |-> FALSE]
Updating == [busy : {TRUE}, key : Keys, flags : FlagSets, row : Rows]

\* Every variable has its type, and a row carries sound limits at all times: no
\* key can be left rejecting every request (apikey.Limits, "how a key ends up
\* with a rate limit of zero").
StoreTypeOK ==
  /\ issued \subseteq Keys
  /\ rows \in [Keys -> Rows]
  /\ \A k \in issued : rows[k].limits.budget # 0 /\ rows[k].limits.batch > 0
                         /\ rows[k].limits.rate > 0
  /\ op \in [Operators -> {Idle} \cup Updating]

\* A table left by earlier commands: any keys issued with the defaults, none
\* revoked.
StoreInit ==
  /\ issued \in SUBSET Keys
  /\ rows = [k \in Keys |-> [limits |-> Defaults, revoked |-> FALSE]]
  /\ op = [o \in Operators |-> Idle]

-----------------------------------------------------------------------------
\* ragctl create: one insert, of limits that were validated.
Create(o, k, flags) ==
  LET limits == ApplyFlags(flags, Defaults)
  IN  /\ op[o] = Idle
      /\ k \notin issued
      /\ Validate(limits)
      /\ issued' = issued \cup {k}
      /\ rows' = [rows EXCEPT ![k] = [limits |-> limits, revoked |-> FALSE]]
      /\ UNCHANGED op

\* ragctl update, up to its write: the row is read, the flags laid over its
\* limits, and the result is refused unless it is a change and sound.
BeginUpdate(o, k, flags) ==
  LET after == ApplyFlags(flags, rows[k].limits)
  IN  /\ op[o] = Idle
      /\ k \in issued
      /\ after # rows[k].limits
      /\ Validate(after)
      /\ op' = [op EXCEPT ![o] = [busy |-> TRUE, key |-> k, flags |-> flags,
                                  row |-> rows[k]]]
      /\ UNCHANGED <<issued, rows>>

\* The row UpdateLimits leaves: the five limit columns are written, as computed
\* from the row that was read; revoked_at is not among them.
\* (Variant: the row that was read is saved whole.)
SavedWhole(u) == [limits |-> ApplyFlags(u.flags, u.row.limits),
                  revoked |-> u.row.revoked]
UpdatedLimits(u) == [limits |-> ApplyFlags(u.flags, u.row.limits),
                     revoked |-> rows[u.key].revoked]

\* ragctl update's write.
FinishUpdate(o) ==
  /\ op[o] # Idle
  /\ rows' = [rows EXCEPT ![op[o].key] = UpdatedLimits(op[o])]
  /\ op' = [op EXCEPT ![o] = Idle]
  /\ UNCHANGED issued

\* ragctl revoke: an unknown id is a no-op.
Revoke(o, k) ==
  /\ op[o] = Idle
  /\ rows' = IF k \in issued THEN [rows EXCEPT ![k].revoked = TRUE] ELSE rows
  /\ UNCHANGED <<issued, op>>

OperatorStep ==
  \E o \in Operators :
    \/ FinishUpdate(o)
    \/ \E k \in Keys : \/ Revoke(o, k)
                       \/ \E flags \in FlagSets : Create(o, k, flags) \/ BeginUpdate(o, k, flags)

-----------------------------------------------------------------------------
\* Revocation is final: no command, and no update that read the row before it was
\* revoked and writes it after, brings a key back.
RevocationIsFinal ==
  [][\A k \in Keys : rows[k].revoked => rows'[k].revoked]_storeVars
=============================================================================
