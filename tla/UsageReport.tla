---------------------------- MODULE UsageReport ----------------------------
(***************************************************************************)
(* internal/domain/usage and the usage_events table: the five reporting    *)
(* windows, the half-open sum behind every figure, and the calls that are  *)
(* recorded while figures are read.                                        *)
(*                                                                         *)
(* Time is counted in ticks from the first instant that matters.  A day has*)
(* DayTicks of them in every month (no daylight saving), and the calendar  *)
(* is the set of instants at which a month starts.  An event is one token: *)
(* a call that spends n is n events with one stamp.  It is stamped when the*)
(* gateway has the upstream's answer and stored a little later.            *)
(***************************************************************************)
EXTENDS Integers, Sequences, FiniteSets

CONSTANTS
  Keys, Events,
  Owner,         \* the key each event is recorded against
  DayTicks, WeekDays,
  FirstWeekday,  \* weekday of the day that starts at tick 0, Sunday = 0
  MonthStarts,   \* the midnights that begin a month
  FirstInstant, LastInstant,  \* bounds of the model: what the clock can show,
  RunsFrom       \* and the instants it moves on from

Instants == FirstInstant..LastInstant

IsMonthStart(s, t) == /\ s \in MonthStarts /\ s <= t
                      /\ \A u \in MonthStarts : u <= t => u <= s

ASSUME CalendarAssumption ==
  /\ IsFiniteSet(Events)
  /\ Owner \in [Events -> Keys]
  /\ DayTicks \in Nat \ {0} /\ WeekDays \in Nat \ {0}
  /\ FirstWeekday \in 0..(WeekDays - 1)
  /\ FirstInstant \in Nat /\ LastInstant \in Nat
  /\ RunsFrom \subseteq FirstInstant..(LastInstant - 1)
  /\ MonthStarts \subseteq {d * DayTicks : d \in 0..LastInstant}
  \* Every instant is in a month, and that month has a previous one which is at
  \* least a week long.
  /\ \A t \in Instants : \E s, p \in MonthStarts :
       /\ IsMonthStart(s, t) /\ IsMonthStart(p, s - 1)
       /\ s - p >= WeekDays * DayTicks

-----------------------------------------------------------------------------
(***************************************************************************)
(* ReportWindows(now).                                                     *)
(***************************************************************************)
StartOfDay(t) == t - (t % DayTicks)
Weekday(t) == (FirstWeekday + t \div DayTicks) % WeekDays

\* Monday -> 0, Sunday -> the last.  (Variant: no wrap-around on Sundays.)
DaysSinceMondayNoWrap(t) == Weekday(t) - 1
DaysSinceMonday(t) == (Weekday(t) + WeekDays - 1) % WeekDays
StartOfWeek(t) == StartOfDay(t) - DaysSinceMonday(t) * DayTicks

StartOfMonth(t) == CHOOSE s \in MonthStarts : IsMonthStart(s, t)

\* startOfMonth.AddDate(0, -1, 0).
StartOfPrevMonth(t) == StartOfMonth(StartOfMonth(t) - 1)

\* The places of the windows, in the order in which BuildReport sums them.
Today == 1
Week == 2
Month == 3
Past == 4
Before == 5

Span(from, to) == [from |-> from, to |-> to]

ReportWindows(now) ==
  << Span(StartOfDay(now), now),
     Span(StartOfWeek(now), now),
     Span(StartOfMonth(now), now),
     Span(StartOfPrevMonth(now), StartOfMonth(now)),
     Span(0, StartOfPrevMonth(now)) >>

Ever(now) == Span(0, now)

-----------------------------------------------------------------------------
VARIABLES
  clock,   \* the wall clock of this host
  stamp,   \* each event's created_at, or NotYet
  stored   \* the events in the table

tableVars == <<clock, stamp, stored>>

NotYet == -1

\* (Variant: a range that includes its end.)
CountedClosed(k, r) ==
  {e \in stored : Owner[e] = k /\ r.from <= stamp[e] /\ stamp[e] <= r.to}
Counted(k, r) ==
  {e \in stored : Owner[e] = k /\ r.from <= stamp[e] /\ stamp[e] < r.to}

\* UsageRepo.SumTokens.
SumTokens(k, r) == Cardinality(Counted(k, r))

\* A table with any earlier events in it.
TableInit(history, start) ==
  /\ clock \in start
  /\ stamp \in [Events -> {t \in history : t <= clock} \cup {NotYet}]
  /\ stored = {e \in Events : stamp[e] # NotYet}

\* A call of e's key comes back from the upstream and its event is stamped.
StampEvent(e) ==
  /\ stamp[e] = NotYet
  /\ stamp' = [stamp EXCEPT ![e] = clock]
  /\ UNCHANGED <<clock, stored>>

\* UsageRepo.Record.  (Variant: it does not wait for the upstream's answer.)
RecordEarly(e) ==
  /\ e \notin stored
  /\ stored' = stored \cup {e}
  /\ UNCHANGED <<clock, stamp>>
Record(e) ==
  /\ stamp[e] # NotYet /\ e \notin stored
  /\ stored' = stored \cup {e}
  /\ UNCHANGED <<clock, stamp>>

Tick ==
  /\ clock \in RunsFrom
  /\ clock' = clock + 1
  /\ UNCHANGED <<stamp, stored>>

TableStep == Tick \/ \E e \in Events : StampEvent(e) \/ Record(e)

TableTypeOK ==
  /\ clock \in Instants
  /\ stamp \in [Events -> 0..LastInstant \cup {NotYet}]
  /\ stored \subseteq {e \in Events : stamp[e] # NotYet}
  /\ \A e \in Events : stamp[e] <= clock
=============================================================================
