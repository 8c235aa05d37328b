------------------------- MODULE UsageFiguresProofs -------------------------
(***************************************************************************)
(* Theorems about UsageFigures, for every calendar, every table of events, *)
(* every list of keys and any number of readers: what a report, a check or *)
(* a line of ragctl list adds up to, although its sums are queries between *)
(* which calls are recorded and midnights pass.                            *)
(*                                                                         *)
(* Sums are taken of a table given by its stamps and its stored events, so *)
(* that two moments can be compared.                                       *)
(***************************************************************************)
EXTENDS UsageFigures, Aggregates, FiniteSetTheorems, SequenceTheorems

-----------------------------------------------------------------------------
(***************************************************************************)
(* Sums.                                                                   *)
(***************************************************************************)
SumIn(st, sd, k, from, to) ==
  Cardinality({e \in sd : Owner[e] = k /\ from <= st[e] /\ st[e] < to})

\* A table of stamped events, and one that it can become.
IsTable(st, sd) == sd \in SUBSET Events /\ \A e \in sd : st[e] \in Int
Later(st, sd, st2, sd2) ==
  /\ IsTable(st, sd) /\ IsTable(st2, sd2)
  /\ sd \subseteq sd2 /\ \A e \in sd : st2[e] = st[e]

\* A sum is a number, and one over a wider range is not smaller.
LEMMA SumWider ==
  ASSUME NEW st, NEW sd, IsTable(st, sd), NEW k,
         NEW f \in Int, NEW t \in Int, NEW f2 \in Int, NEW t2 \in Int, f2 <= f, t <= t2
  PROVE  /\ SumIn(st, sd, k, f, t) \in Nat
         /\ SumIn(st, sd, k, f, t) <= SumIn(st, sd, k, f2, t2)
<1> DEFINE A == {e \in sd : Owner[e] = k /\ f <= st[e] /\ st[e] < t}
           B == {e \in sd : Owner[e] = k /\ f2 <= st[e] /\ st[e] < t2}
<1>1. IsFiniteSet(A) /\ IsFiniteSet(B)
  BY CalendarAssumption, FS_Subset DEF IsTable
<1>2. A \in SUBSET B
  BY DEF IsTable
<1>3. Cardinality(A) \in Nat /\ Cardinality(A) <= Cardinality(B)
  <2> HIDE DEF A, B
  <2> QED BY <1>1, <1>2, FS_Subset, FS_CardinalityType
<1> QED BY <1>3 DEF SumIn

\* A sum does not shrink while the table grows.
LEMMA SumGrows ==
  ASSUME NEW st, NEW sd, NEW st2, NEW sd2, Later(st, sd, st2, sd2), NEW k,
         NEW f \in Int, NEW t \in Int
  PROVE  SumIn(st, sd, k, f, t) <= SumIn(st2, sd2, k, f, t)
<1> DEFINE A == {e \in sd : Owner[e] = k /\ f <= st[e] /\ st[e] < t}
           B == {e \in sd2 : Owner[e] = k /\ f <= st2[e] /\ st2[e] < t}
<1>1. IsFiniteSet(B)
  BY CalendarAssumption, FS_Subset DEF Later, IsTable
<1>2. A \in SUBSET B
  BY DEF Later
<1>3. Cardinality(A) <= Cardinality(B)
  <2> HIDE DEF A, B
  <2> QED BY <1>1, <1>2, FS_Subset
<1> QED BY <1>3 DEF SumIn

\* Ranges that meet add up.
LEMMA SumJoins ==
  ASSUME NEW st, NEW sd, IsTable(st, sd), NEW k,
         NEW f \in Int, NEW m \in Int, NEW t \in Int, f <= m, m <= t
  PROVE  SumIn(st, sd, k, f, t) = SumIn(st, sd, k, f, m) + SumIn(st, sd, k, m, t)
<1> DEFINE A == {e \in sd : Owner[e] = k /\ f <= st[e] /\ st[e] < m}
           B == {e \in sd : Owner[e] = k /\ m <= st[e] /\ st[e] < t}
           C == {e \in sd : Owner[e] = k /\ f <= st[e] /\ st[e] < t}
<1>1. IsFiniteSet(A) /\ IsFiniteSet(B)
  BY CalendarAssumption, FS_Subset DEF IsTable
<1>2. C = A \cup B /\ A \cap B = {}
  BY DEF IsTable
<1>3. Cardinality(C) = Cardinality(A) + Cardinality(B)
  <2> HIDE DEF A, B, C
  <2>1. Cardinality({}) = 0 /\ Cardinality(A) \in Nat /\ Cardinality(B) \in Nat
    BY <1>1, FS_EmptySet, FS_CardinalityType
  <2>2. Cardinality(A \cup B) = Cardinality(A) + Cardinality(B) - Cardinality(A \cap B)
    BY <1>1, FS_Union
  <2>3. Cardinality(C) = Cardinality(A) + Cardinality(B) - 0
    BY <1>2, <2>1, <2>2
  <2> QED BY <2>1, <2>3
<1> QED BY <1>3 DEF SumIn

-----------------------------------------------------------------------------
(***************************************************************************)
(* The calendar.                                                           *)
(***************************************************************************)

\* No multiple of a day lies between a day's start and an instant in it.
LEMMA DayStarts ==
  ASSUME NEW t \in Nat
  PROVE  /\ StartOfDay(t) \in Nat /\ StartOfDay(t) <= t
         /\ \A d \in Nat : d * DayTicks <= t => d * DayTicks <= StartOfDay(t)
<1>1. DayTicks \in Nat \ {0}
  BY CalendarAssumption
<1>2. t % DayTicks \in 0..(DayTicks - 1) /\ t \div DayTicks \in Nat
      /\ t - (t % DayTicks) = DayTicks * (t \div DayTicks)
  <2>1. \A a \in Nat, b \in Nat \ {0} :
          a % b \in 0..(b - 1) /\ a \div b \in Nat /\ a - (a % b) = b * (a \div b)
    OBVIOUS
  <2> QED BY <1>1, <2>1
<1>3. ASSUME NEW d \in Nat, d * DayTicks <= t
      PROVE  d * DayTicks <= DayTicks * (t \div DayTicks)
  <2>1. d <= t \div DayTicks
    BY <1>1, <1>2, <1>3
  <2>2. \A a, b, c \in Nat : a <= b => a * c <= c * b
    OBVIOUS
  <2> QED BY <1>1, <1>2, <2>1, <2>2
<1>4. DayTicks * (t \div DayTicks) \in Nat
  <2>1. \A a, b \in Nat : a * b \in Nat
    OBVIOUS
  <2> QED BY <1>1, <1>2, <2>1
<1> QED BY <1>1, <1>2, <1>3, <1>4 DEF StartOfDay

\* A week's start is at most a week's length, less a day, before the day's.
LEMMA WeekStarts ==
  ASSUME NEW t \in Nat
  PROVE  /\ StartOfWeek(t) \in Int /\ StartOfWeek(t) <= StartOfDay(t)
         /\ StartOfDay(t) - WeekDays * DayTicks <= StartOfWeek(t)
<1>1. DayTicks \in Nat \ {0} /\ WeekDays \in Nat \ {0} /\ FirstWeekday \in Nat
  BY CalendarAssumption
<1>2. t \div DayTicks \in Nat
  BY <1>1
<1>3. Weekday(t) \in Nat
  BY <1>1, <1>2 DEF Weekday
<1>4. DaysSinceMonday(t) \in Nat /\ DaysSinceMonday(t) <= WeekDays
  BY <1>1, <1>3 DEF DaysSinceMonday
<1>5. \A a, b, c \in Nat : a <= b => a * c \in Nat /\ a * c <= b * c
  OBVIOUS
<1>6. DaysSinceMonday(t) * DayTicks \in Nat
      /\ DaysSinceMonday(t) * DayTicks <= WeekDays * DayTicks
      /\ WeekDays * DayTicks \in Nat
  BY <1>1, <1>4, <1>5
<1>7. StartOfDay(t) \in Nat
  BY DayStarts
<1> QED BY <1>6, <1>7 DEF StartOfWeek

\* There is one month that an instant is in.
LEMMA MonthIsUnique ==
  ASSUME NEW t \in Int, NEW s \in MonthStarts, IsMonthStart(s, t)
  PROVE  StartOfMonth(t) = s
<1>1. MonthStarts \subseteq Int
  BY CalendarAssumption
<1>2. IsMonthStart(StartOfMonth(t), t) /\ StartOfMonth(t) \in MonthStarts
  BY DEF StartOfMonth
<1>3. s <= StartOfMonth(t) /\ StartOfMonth(t) <= s
  BY <1>2 DEF IsMonthStart
<1>4. s \in Int /\ StartOfMonth(t) \in Int
  BY <1>1, <1>2
<1> QED BY <1>3, <1>4

\* The windows begin one after the other.
LEMMA CalendarFacts ==
  ASSUME NEW t \in Instants
  PROVE  /\ t \in Nat /\ StartOfPrevMonth(t) \in Nat /\ StartOfMonth(t) \in Nat
         /\ StartOfWeek(t) \in Int /\ StartOfDay(t) \in Nat
         /\ StartOfPrevMonth(t) <= StartOfMonth(t) /\ StartOfMonth(t) <= StartOfDay(t)
         /\ StartOfPrevMonth(t) <= StartOfWeek(t) /\ StartOfWeek(t) <= StartOfDay(t)
         /\ StartOfDay(t) <= t
<1>1. t \in Nat /\ DayTicks \in Nat \ {0} /\ WeekDays \in Nat \ {0}
  BY CalendarAssumption DEF Instants
<1>2. PICK s \in MonthStarts, p \in MonthStarts :
        /\ IsMonthStart(s, t) /\ IsMonthStart(p, s - 1)
        /\ s - p >= WeekDays * DayTicks
  BY CalendarAssumption
<1>M. MonthStarts \subseteq {d * DayTicks : d \in Nat}
  <2>1. MonthStarts \subseteq {d * DayTicks : d \in 0..LastInstant}
    BY CalendarAssumption
  <2>2. \A d \in 0..LastInstant : d \in Nat
    OBVIOUS
  <2> QED BY <2>1, <2>2
<1>3. PICK d \in Nat : s = d * DayTicks
  BY <1>M
<1>4. PICK c \in Nat : p = c * DayTicks
  BY <1>M
<1>5. s \in Nat /\ p \in Nat /\ WeekDays * DayTicks \in Nat
  <2>1. \A a, b \in Nat : a * b \in Nat
    OBVIOUS
  <2> QED BY <1>1, <1>3, <1>4, <2>1
<1>6. StartOfMonth(t) = s /\ StartOfPrevMonth(t) = p
  BY <1>1, <1>2, <1>5, MonthIsUnique DEF StartOfPrevMonth
<1>7. s <= StartOfDay(t) /\ StartOfDay(t) \in Nat /\ StartOfDay(t) <= t
  BY <1>1, <1>2, <1>3, DayStarts DEF IsMonthStart
<1>8. /\ StartOfWeek(t) \in Int /\ StartOfWeek(t) <= StartOfDay(t)
      /\ StartOfDay(t) - WeekDays * DayTicks <= StartOfWeek(t)
  BY <1>1, WeekStarts
<1> QED BY <1>1, <1>2, <1>5, <1>6, <1>7, <1>8

-----------------------------------------------------------------------------
(***************************************************************************)
(* Five sums of one moment.                                                *)
(***************************************************************************)
SumOver(st, sd, q) == SumIn(st, sd, q.key, q.range.from, q.range.to)

Buckets(st, sd, k, now) == [b \in 1..5 |-> SumOver(st, sd, Report(k, now)[b])]

Nested(f) == f[1] <= f[2] /\ f[1] <= f[3] /\ f[2] <= f[3] + f[4]

Numbers(f) == \A b \in 1..5 : f[b] \in Nat

\* The buckets of a key, spelt out.
LEMMA BucketsAre ==
  ASSUME NEW st, NEW sd, NEW k, NEW now
  PROVE  LET c == Buckets(st, sd, k, now)
         IN  /\ c[1] = SumIn(st, sd, k, StartOfDay(now), now)
             /\ c[2] = SumIn(st, sd, k, StartOfWeek(now), now)
             /\ c[3] = SumIn(st, sd, k, StartOfMonth(now), now)
             /\ c[4] = SumIn(st, sd, k, StartOfPrevMonth(now), StartOfMonth(now))
             /\ c[5] = SumIn(st, sd, k, 0, StartOfPrevMonth(now))
BY DEF Buckets, SumOver, Report, Query, ReportWindows, Span

\* At one moment the windows nest, and the last three are everything there is.
LEMMA BucketsNest ==
  ASSUME NEW st, NEW sd, IsTable(st, sd), NEW k, NEW now \in Instants
  PROVE  LET c == Buckets(st, sd, k, now)
         IN  /\ Numbers(c) /\ Nested(c)
             /\ Lifelong(c) = SumIn(st, sd, k, 0, now)
<1> DEFINE c == Buckets(st, sd, k, now)
           sum(f, t) == SumIn(st, sd, k, f, t)
           D == StartOfDay(now)
           W == StartOfWeek(now)
           M == StartOfMonth(now)
           P == StartOfPrevMonth(now)
<1>1. /\ c[1] = sum(D, now) /\ c[2] = sum(W, now) /\ c[3] = sum(M, now)
      /\ c[4] = sum(P, M) /\ c[5] = sum(0, P)
  BY BucketsAre
<1>2. /\ now \in Nat /\ P \in Nat /\ M \in Nat /\ W \in Int /\ D \in Nat
      /\ P <= M /\ M <= D /\ P <= W /\ W <= D /\ D <= now
  BY CalendarFacts
<1> HIDE DEF c, D, W, M, P
<1>3. /\ sum(D, now) \in Nat /\ sum(W, now) \in Nat /\ sum(M, now) \in Nat
      /\ sum(P, M) \in Nat /\ sum(0, P) \in Nat /\ sum(P, now) \in Nat
  BY <1>2, SumWider
<1>4. sum(D, now) <= sum(W, now) /\ sum(D, now) <= sum(M, now)
  BY <1>2, SumWider
<1>5. sum(W, now) <= sum(P, now)
  BY <1>2, SumWider
<1>6. sum(P, now) = sum(P, M) + sum(M, now)
  <2>1. M <= now
    BY <1>2
  <2> QED BY <1>2, <2>1, SumJoins
<1>7. sum(0, now) = sum(0, P) + sum(P, now)
  <2>1. P <= now /\ 0 <= P
    BY <1>2
  <2> QED BY <1>2, <2>1, SumJoins
<1> HIDE DEF sum
<1>8. Numbers(c)
  <2>1. c[1] \in Nat /\ c[2] \in Nat /\ c[3] \in Nat /\ c[4] \in Nat /\ c[5] \in Nat
    BY <1>1, <1>3
  <2> QED BY <2>1 DEF Numbers
<1>9. Nested(c)
  BY <1>1, <1>2, <1>3, <1>4, <1>5, <1>6 DEF Nested
<1>10. Lifelong(c) = sum(0, now)
  BY <1>1, <1>2, <1>3, <1>6, <1>7 DEF Lifelong, Month, Past, Before
<1> QED BY <1>8, <1>9, <1>10 DEF c, sum

\* None of them shrinks.
LEMMA BucketsGrow ==
  ASSUME NEW st, NEW sd, NEW st2, NEW sd2, Later(st, sd, st2, sd2), NEW k, NEW now \in Instants
  PROVE  \A b \in 1..5 : Buckets(st, sd, k, now)[b] <= Buckets(st2, sd2, k, now)[b]
<1>1. /\ now \in Int /\ StartOfPrevMonth(now) \in Int /\ StartOfMonth(now) \in Int
      /\ StartOfWeek(now) \in Int /\ StartOfDay(now) \in Int
  BY CalendarFacts
<1>2. \A f, t \in Int : SumIn(st, sd, k, f, t) <= SumIn(st2, sd2, k, f, t)
  BY SumGrows
<1> QED BY <1>1, <1>2, BucketsAre

-----------------------------------------------------------------------------
(***************************************************************************)
(* Five sums of five moments.                                              *)
(***************************************************************************)

\* What figures f of key k must be, over a table whose buckets are c by now.
Sound(f, c, k, floor, must) ==
  /\ Numbers(f) /\ \A b \in 1..5 : f[b] <= c[b]
  /\ Nested(f)
  /\ floor <= Lifelong(f)
  /\ must => Over(k, f)

\* Sums that were taken stand still while the ones to come grow with the table: as
\* the wider windows are read later, the figures stay sound.
LEMMA SoundLater ==
  ASSUME NEW k \in Keys, NEW floor \in Nat, NEW must \in BOOLEAN, NEW n \in Int,
         NEW f, NEW c, NEW f2, NEW c2,
         Sound(f, c, k, floor, must), Numbers(c), Numbers(c2), Nested(c2),
         \A b \in 1..5 : c[b] <= c2[b],
         \A b \in 1..5 : f2[b] = IF b <= n THEN f[b] ELSE c2[b],
         \A b \in 1..5 : b > n => f[b] = c[b]
  PROVE  Sound(f2, c2, k, floor, must)
<1>1. /\ f[1] \in Nat /\ f[2] \in Nat /\ f[3] \in Nat /\ f[4] \in Nat /\ f[5] \in Nat
      /\ f[1] <= c[1] /\ f[2] <= c[2] /\ f[3] <= c[3] /\ f[4] <= c[4] /\ f[5] <= c[5]
      /\ f[1] <= f[2] /\ f[1] <= f[3] /\ f[2] <= f[3] + f[4]
  BY DEF Sound, Numbers, Nested
<1>2. /\ c2[1] \in Nat /\ c2[2] \in Nat /\ c2[3] \in Nat /\ c2[4] \in Nat /\ c2[5] \in Nat
      /\ c[1] <= c2[1] /\ c[2] <= c2[2] /\ c[3] <= c2[3] /\ c[4] <= c2[4] /\ c[5] <= c2[5]
      /\ c2[1] <= c2[2] /\ c2[1] <= c2[3] /\ c2[2] <= c2[3] + c2[4]
      /\ c[1] \in Nat /\ c[2] \in Nat /\ c[3] \in Nat /\ c[4] \in Nat /\ c[5] \in Nat
  BY DEF Numbers, Nested
<1>3. /\ f2[1] = IF 1 <= n THEN f[1] ELSE c2[1]
      /\ f2[2] = IF 2 <= n THEN f[2] ELSE c2[2]
      /\ f2[3] = IF 3 <= n THEN f[3] ELSE c2[3]
      /\ f2[4] = IF 4 <= n THEN f[4] ELSE c2[4]
      /\ f2[5] = IF 5 <= n THEN f[5] ELSE c2[5]
  OBVIOUS
<1>4. /\ f2[1] \in Nat /\ f2[2] \in Nat /\ f2[3] \in Nat /\ f2[4] \in Nat /\ f2[5] \in Nat
      /\ f2[1] <= c2[1] /\ f2[2] <= c2[2] /\ f2[3] <= c2[3] /\ f2[4] <= c2[4] /\ f2[5] <= c2[5]
      /\ f[1] <= f2[1] /\ f[2] <= f2[2] /\ f[3] <= f2[3] /\ f[4] <= f2[4] /\ f[5] <= f2[5]
  BY <1>1, <1>2, <1>3
<1>5. Numbers(f2) /\ \A b \in 1..5 : f2[b] <= c2[b]
  BY <1>4 DEF Numbers
<1>6. Nested(f2)
  BY <1>1, <1>2, <1>3, <1>4 DEF Nested
<1>7. floor <= Lifelong(f2) /\ Lifelong(f2) \in Nat /\ Lifelong(f) \in Nat
      /\ Lifelong(f) <= Lifelong(f2)
  BY <1>1, <1>4 DEF Sound, Lifelong, Month, Past, Before
<1>8. ASSUME must PROVE Over(k, f2)
  <2>1. Over(k, f) /\ Budget[k].tokens \in Int
    BY <1>8, FiguresAssumption DEF Sound, Unlimited
  <2> QED BY <1>1, <1>4, <1>7, <2>1 DEF Over, Used, Month
<1> QED BY <1>5, <1>6, <1>7, <1>8 DEF Sound

-----------------------------------------------------------------------------
(***************************************************************************)
(* Reads under way.                                                        *)
(***************************************************************************)
Reads == [kind : Kinds, key : Keys, now : Instants, got : Seq(Nat), floor : Nat,
          must : BOOLEAN]

\* The figures of a report of which the first o sums of a read are no part: what was
\* read, and for the rest what would be read now.
Figs(st, sd, rd, o) ==
  [b \in 1..5 |-> IF o + b <= Len(rd.got) THEN rd.got[o + b]
                   ELSE Buckets(st, sd, rd.key, rd.now)[b]]

ReportInv(st, sd, rd, o) ==
  Sound(Figs(st, sd, rd, o), Buckets(st, sd, rd.key, rd.now), rd.key, rd.floor, rd.must)

\* What a check has, or would get now.
PeriodSum(st, sd, rd) == SumOver(st, sd, Query(rd.key, PeriodWindow(rd.key, rd.now)))
Verdict(st, sd, rd) == IF rd.got = << >> THEN PeriodSum(st, sd, rd) ELSE rd.got[1]

CheckInv(st, sd, rd) ==
  /\ Verdict(st, sd, rd) \in Nat /\ Verdict(st, sd, rd) <= PeriodSum(st, sd, rd)
  /\ rd.must => BudgetExhausted(rd.key, Verdict(st, sd, rd))

ListInv(st, sd, rd) ==
  /\ Len(rd.got) = 1 => rd.got[1] <= SumIn(st, sd, rd.key, 0, rd.now)
  /\ Len(rd.got) = 2 => rd.got[1] <= rd.got[2]

KindInv(st, sd, kind, rd) ==
  /\ rd.kind = kind /\ Len(rd.got) <= Len(Plan(rd))
  /\ kind = "page" /\ Listed(rd.key) => ReportInv(st, sd, rd, Len(KeyList))
  /\ kind = "report" => ReportInv(st, sd, rd, 0)
  /\ kind = "check" => CheckInv(st, sd, rd)
  /\ kind = "list" => ListInv(st, sd, rd)

\* The ranges that are asked for.
LEMMA RangesAreTyped ==
  ASSUME NEW k \in Keys, NEW now \in Instants
  PROVE  /\ \A b \in 1..5 : /\ Report(k, now)[b].key = k
                             /\ Report(k, now)[b].range.from \in Int
                             /\ Report(k, now)[b].range.to \in Int
         /\ PeriodWindow(k, now).from \in Nat /\ PeriodWindow(k, now).to = now
         /\ now \in Nat
<1>1. /\ now \in Nat /\ StartOfPrevMonth(now) \in Nat /\ StartOfMonth(now) \in Nat
      /\ StartOfWeek(now) \in Int /\ StartOfDay(now) \in Nat
  BY CalendarFacts
<1>2. \A b \in 1..5 : Report(k, now)[b] = Query(k, ReportWindows(now)[b])
  BY DEF Report
<1>3. \A b \in 1..5 : ReportWindows(now)[b].from \in Int /\ ReportWindows(now)[b].to \in Int
  BY <1>1 DEF ReportWindows, Span
<1>4. PeriodWindow(k, now).from \in Nat /\ PeriodWindow(k, now).to = now
  BY <1>1 DEF PeriodWindow, ReportWindows, Ever, Span, Month
<1> QED BY <1>1, <1>2, <1>3, <1>4 DEF Query

\* How long the plans are and where a report stands in them.
LEMMA PlanFacts ==
  ASSUME NEW rd \in Reads
  PROVE  /\ Len(KeyList) \in Nat /\ Len(Plan(rd)) \in Nat
         /\ \A i \in 1..Len(Plan(rd)) : /\ Plan(rd)[i].key \in Keys
                                        /\ Plan(rd)[i].range.from \in Int
                                        /\ Plan(rd)[i].range.to \in Int
         /\ rd.kind = "page" /\ Listed(rd.key) =>
              /\ Len(Plan(rd)) = Len(KeyList) + 5
              /\ \A b \in 1..5 : Plan(rd)[Len(KeyList) + b] = Report(rd.key, rd.now)[b]
         /\ rd.kind = "report" =>
              Len(Plan(rd)) = 5 /\ \A b \in 1..5 : Plan(rd)[b] = Report(rd.key, rd.now)[b]
         /\ rd.kind = "check" =>
              Len(Plan(rd)) = 1 /\ Plan(rd)[1] = Query(rd.key, PeriodWindow(rd.key, rd.now))
         /\ rd.kind = "list" =>
              /\ Len(Plan(rd)) = 2
              /\ Plan(rd)[1] = Query(rd.key, ReportWindows(rd.now)[Month])
              /\ Plan(rd)[2] = Query(rd.key, Ever(rd.now))
<1> DEFINE Queries == [key : Keys, range : [from : Int, to : Int]]
           k == rd.key
           now == rd.now
<1>1. k \in Keys /\ now \in Instants /\ rd.kind \in Kinds
  BY DEF Reads
<1>2. KeyList \in Seq(Keys) /\ Len(KeyList) \in Nat
  BY FiguresAssumption
<1>3. /\ now \in Int /\ StartOfPrevMonth(now) \in Int /\ StartOfMonth(now) \in Int
      /\ StartOfWeek(now) \in Int /\ StartOfDay(now) \in Int
  BY <1>1, CalendarFacts
<1>4. \A b \in 1..5 : ReportWindows(now)[b] \in [from : Int, to : Int]
  BY <1>3 DEF ReportWindows, Span
<1>5. Report(k, now) \in Seq(Queries) /\ Len(Report(k, now)) = 5
  BY <1>1, <1>4 DEF Report, Query
<1>6. Todays(now) \in Seq(Queries) /\ Len(Todays(now)) = Len(KeyList)
  <2>1. ReportWindows(now)[Today] \in [from : Int, to : Int]
    BY <1>4 DEF Today
  <2>2. DOMAIN KeyList = 1..Len(KeyList) /\ \A i \in 1..Len(KeyList) : KeyList[i] \in Keys
    BY <1>2
  <2> QED BY <1>2, <2>1, <2>2 DEF Todays, Query
<1>7. /\ Query(k, PeriodWindow(k, now)) \in Queries
      /\ Query(k, ReportWindows(now)[Month]) \in Queries
      /\ Query(k, Ever(now)) \in Queries
  BY <1>1, <1>3, <1>4 DEF Query, PeriodWindow, Ever, Span, Month
<1> HIDE DEF Queries
<1>8. CASE rd.kind = "page" /\ Listed(k)
  <2> DEFINE T == Todays(now)
             R == Report(k, now)
  <2>1. Plan(rd) = T \o R
    BY <1>8 DEF Plan
  <2>0. T \in Seq(Queries) /\ R \in Seq(Queries) /\ Len(T) = Len(KeyList) /\ Len(R) = 5
    BY <1>5, <1>6
  <2>7. T \in Seq(Queries)
    BY <2>0
  <2>8. R \in Seq(Queries)
    BY <2>0
  <2> HIDE DEF T, R
  <2>9. /\ T \o R \in Seq(Queries) /\ Len(T \o R) = Len(T) + Len(R)
        /\ \A j \in 1..(Len(T) + Len(R)) :
             (T \o R)[j] = IF j <= Len(T) THEN T[j] ELSE R[j - Len(T)]
    BY <2>7, <2>8, ConcatProperties, Zenon
  <2>2. Plan(rd) \in Seq(Queries) /\ Len(Plan(rd)) = Len(KeyList) + 5
    BY <1>2, <2>0, <2>1, <2>9
  <2>3. ASSUME NEW b \in 1..5 PROVE Plan(rd)[Len(KeyList) + b] = R[b]
    <3>1. /\ Len(KeyList) + b \in 1..(Len(T) + Len(R))
          /\ ~(Len(KeyList) + b <= Len(T))
          /\ Len(KeyList) + b - Len(T) = b
      BY <1>2, <2>0
    <3>2. (T \o R)[Len(KeyList) + b] = R[Len(KeyList) + b - Len(T)]
      <4> DEFINE i == Len(KeyList) + b
      <4> HIDE DEF i
      <4> QED BY <2>9, <3>1 DEF i
    <3> QED BY <2>1, <3>1, <3>2
  <2>4. \A i \in 1..Len(Plan(rd)) : Plan(rd)[i] \in Queries
    BY <2>2
  <2>5. rd.kind # "report" /\ rd.kind # "check" /\ rd.kind # "list"
    BY <1>8
  <2>6. \A i \in 1..Len(Plan(rd)) : /\ Plan(rd)[i].key \in Keys
                                  /\ Plan(rd)[i].range.from \in Int
                                  /\ Plan(rd)[i].range.to \in Int
    BY <2>4 DEF Queries
  <2> QED BY <1>2, <2>2, <2>3, <2>5, <2>6 DEF R
<1>9. CASE (rd.kind = "page" /\ ~Listed(k)) \/ rd.kind = "sidebar"
  <2>1. Plan(rd) = Todays(now) \/ Plan(rd) = Todays(now) \o << >>
    BY <1>9 DEF Plan
  <2>2. Plan(rd) \in Seq(Queries) /\ Len(Plan(rd)) \in Nat
    BY <1>2, <1>6, <2>1
  <2>3. \A i \in 1..Len(Plan(rd)) : Plan(rd)[i] \in Queries
    BY <2>2
  <2> QED BY <1>2, <1>9, <2>2, <2>3 DEF Queries
<1>10. CASE rd.kind = "report"
  <2>1. Plan(rd) = Report(k, now)
    BY <1>10 DEF Plan
  <2>2. \A i \in 1..Len(Plan(rd)) : Plan(rd)[i] \in Queries
    BY <1>5, <2>1
  <2> QED BY <1>2, <1>5, <1>10, <2>1, <2>2 DEF Queries
<1>11. CASE rd.kind = "check"
  <2>1. Plan(rd) = << Query(k, PeriodWindow(k, now)) >>
    BY <1>11 DEF Plan
  <2>2. \A i \in 1..Len(Plan(rd)) : Plan(rd)[i] \in Queries
    BY <1>7, <2>1
  <2> QED BY <1>2, <1>11, <2>1, <2>2 DEF Queries
<1>12. CASE rd.kind = "list"
  <2>1. Plan(rd) = << Query(k, ReportWindows(now)[Month]), Query(k, Ever(now)) >>
    BY <1>12 DEF Plan
  <2>2. \A i \in 1..Len(Plan(rd)) : Plan(rd)[i] \in Queries
    BY <1>7, <2>1
  <2> QED BY <1>2, <1>12, <2>1, <2>2 DEF Queries
<1> QED BY <1>1, <1>8, <1>9, <1>10, <1>11, <1>12 DEF Kinds

\* A report that is being read stays sound while calls are recorded.
LEMMA ReportLater ==
  ASSUME NEW st, NEW sd, NEW st2, NEW sd2, Later(st, sd, st2, sd2),
         NEW rd \in Reads, NEW o \in Nat, ReportInv(st, sd, rd, o)
  PROVE  ReportInv(st2, sd2, rd, o)
<1> DEFINE f == Figs(st, sd, rd, o)
           c == Buckets(st, sd, rd.key, rd.now)
           f2 == Figs(st2, sd2, rd, o)
           c2 == Buckets(st2, sd2, rd.key, rd.now)
           n == Len(rd.got) - o
<1>1. /\ rd.key \in Keys /\ rd.now \in Instants /\ rd.floor \in Nat /\ rd.must \in BOOLEAN
      /\ n \in Int /\ Len(rd.got) \in Nat
  BY DEF Reads
<1>2. Sound(f, c, rd.key, rd.floor, rd.must)
  BY DEF ReportInv
<1>3. Numbers(c) /\ Numbers(c2) /\ Nested(c2) /\ \A b \in 1..5 : c[b] <= c2[b]
  BY <1>1, BucketsNest, BucketsGrow DEF Later
<1>4. ASSUME NEW b \in 1..5
      PROVE  f2[b] = (IF b <= n THEN f[b] ELSE c2[b]) /\ (b > n => f[b] = c[b])
  <2>1. b <= n <=> o + b <= Len(rd.got)
    BY <1>1
  <2>2. /\ f[b] = IF o + b <= Len(rd.got) THEN rd.got[o + b] ELSE c[b]
        /\ f2[b] = IF o + b <= Len(rd.got) THEN rd.got[o + b] ELSE c2[b]
    BY DEF Figs
  <2> HIDE DEF f, c, f2, c2
  <2>3. b > n => ~(o + b <= Len(rd.got))
    BY <1>1
  <2> QED BY <2>1, <2>2, <2>3
<1> HIDE DEF f, c, f2, c2, n
<1>5. Sound(f2, c2, rd.key, rd.floor, rd.must)
  BY <1>1, <1>2, <1>3, <1>4, SoundLater
<1> QED BY <1>5 DEF ReportInv, f2, c2

\* So does every other read.
LEMMA LaterKeepsReads ==
  ASSUME NEW st, NEW sd, NEW st2, NEW sd2, Later(st, sd, st2, sd2),
         NEW kind, NEW rd \in Reads, KindInv(st, sd, kind, rd)
  PROVE  KindInv(st2, sd2, kind, rd)
<1>1. /\ rd.key \in Keys /\ rd.now \in Instants /\ rd.got \in Seq(Nat) /\ rd.must \in BOOLEAN
      /\ rd.now \in Nat /\ Len(KeyList) \in Nat /\ Len(rd.got) \in Nat
  BY RangesAreTyped, PlanFacts DEF Reads
<1>2. ASSUME kind = "page" /\ Listed(rd.key) PROVE ReportInv(st2, sd2, rd, Len(KeyList))
  BY <1>1, <1>2, ReportLater DEF KindInv
<1>3. ASSUME kind = "report" PROVE ReportInv(st2, sd2, rd, 0)
  <2>1. ReportInv(st, sd, rd, 0)
    BY <1>3 DEF KindInv
  <2> QED BY <2>1, ReportLater
<1>4. ASSUME kind = "check" PROVE CheckInv(st2, sd2, rd)
  <2> DEFINE p == PeriodSum(st, sd, rd)
             p2 == PeriodSum(st2, sd2, rd)
             v == Verdict(st, sd, rd)
             v2 == Verdict(st2, sd2, rd)
  <2>1. p \in Nat /\ p2 \in Nat /\ p <= p2
    <3>1. PeriodWindow(rd.key, rd.now).from \in Int /\ PeriodWindow(rd.key, rd.now).to \in Int
      BY <1>1, RangesAreTyped
    <3> QED BY <3>1, SumGrows, SumWider DEF PeriodSum, SumOver, Query, Later
  <2>2. v \in Nat /\ v <= p /\ (rd.must => BudgetExhausted(rd.key, v))
    BY <1>4 DEF KindInv, CheckInv
  <2>3. v2 = v \/ (v = p /\ v2 = p2)
    BY DEF Verdict
  <2> HIDE DEF p, p2, v, v2
  <2>4. v2 \in Nat /\ v <= v2 /\ v2 <= p2
    BY <2>1, <2>2, <2>3
  <2>5. rd.must => BudgetExhausted(rd.key, v2)
    <3>1. Budget[rd.key].tokens \in Int
      BY <1>1, FiguresAssumption DEF Unlimited
    <3> QED BY <2>2, <2>4, <3>1 DEF BudgetExhausted
  <2> QED BY <2>4, <2>5 DEF CheckInv, p2, v2
<1>5. ASSUME kind = "list" PROVE ListInv(st2, sd2, rd)
  <2>1. ListInv(st, sd, rd)
    BY <1>5 DEF KindInv
  <2>2. SumIn(st, sd, rd.key, 0, rd.now) <= SumIn(st2, sd2, rd.key, 0, rd.now)
    BY <1>1, SumGrows
  <2>3. SumIn(st, sd, rd.key, 0, rd.now) \in Nat /\ SumIn(st2, sd2, rd.key, 0, rd.now) \in Nat
    BY <1>1, SumWider DEF Later
  <2>4. Len(rd.got) = 1 => rd.got[1] <= SumIn(st2, sd2, rd.key, 0, rd.now)
    <3> DEFINE a == SumIn(st, sd, rd.key, 0, rd.now)
               b == SumIn(st2, sd2, rd.key, 0, rd.now)
    <3>1. a \in Nat /\ b \in Nat /\ a <= b /\ (Len(rd.got) = 1 => rd.got[1] <= a)
      BY <2>1, <2>2, <2>3 DEF ListInv
    <3>2. Len(rd.got) = 1 => rd.got[1] \in Nat
      BY <1>1
    <3> HIDE DEF a, b
    <3>3. Len(rd.got) = 1 => rd.got[1] <= b
      BY <3>1, <3>2
    <3> QED BY <3>3 DEF b
  <2> QED BY <2>1, <2>4 DEF ListInv
<1> QED BY <1>2, <1>3, <1>4, <1>5 DEF KindInv

\* What append leaves and adds.
LEMMA Appended ==
  ASSUME NEW s \in Seq(Nat), NEW x
  PROVE  /\ Len(s) \in Nat /\ Len(Append(s, x)) = Len(s) + 1
         /\ \A n \in 1..Len(s) : Append(s, x)[n] = s[n]
         /\ Append(s, x)[Len(s) + 1] = x
OBVIOUS

\* The next sum of a report is the one that it was going to be.
LEMMA ReportNext ==
  ASSUME NEW st, NEW sd, NEW rd \in Reads, NEW o \in Nat, ReportInv(st, sd, rd, o),
         NEW x, NEW rd2 \in Reads, rd2 = [rd EXCEPT !.got = Append(rd.got, x)],
         \A b \in 1..5 : o + b = Len(rd.got) + 1
           => x = SumOver(st, sd, Report(rd.key, rd.now)[b])
  PROVE  ReportInv(st, sd, rd2, o)
<1>1. rd2.key = rd.key /\ rd2.now = rd.now /\ rd2.floor = rd.floor /\ rd2.must = rd.must
      /\ rd2.got = Append(rd.got, x) /\ rd.got \in Seq(Nat) /\ Len(rd.got) \in Nat
  <2>1. rd2.key = rd.key /\ rd2.now = rd.now /\ rd2.floor = rd.floor /\ rd2.must = rd.must
    BY DEF Reads
  <2>2. rd2.got = Append(rd.got, x)
    BY DEF Reads
  <2>3. rd.got \in Seq(Nat)
    BY DEF Reads
  <2> QED BY <2>1, <2>2, <2>3, Appended
<1>2. ASSUME NEW b \in 1..5 PROVE Figs(st, sd, rd2, o)[b] = Figs(st, sd, rd, o)[b]
  <2> DEFINE c == Buckets(st, sd, rd.key, rd.now)
  <2>1. /\ Figs(st, sd, rd, o)[b] = IF o + b <= Len(rd.got) THEN rd.got[o + b] ELSE c[b]
        /\ Figs(st, sd, rd2, o)[b] = IF o + b <= Len(rd2.got) THEN rd2.got[o + b] ELSE c[b]
    <3>1. Buckets(st, sd, rd2.key, rd2.now) = c
      BY <1>1
    <3>2. Figs(st, sd, rd2, o)[b] = IF o + b <= Len(rd2.got) THEN rd2.got[o + b]
                                    ELSE Buckets(st, sd, rd2.key, rd2.now)[b]
      BY DEF Figs
    <3>3. Figs(st, sd, rd, o)[b] = IF o + b <= Len(rd.got) THEN rd.got[o + b] ELSE c[b]
      BY DEF Figs
    <3> QED BY <3>1, <3>2, <3>3
  <2>2. o + b = Len(rd.got) + 1 => x = c[b]
    BY DEF Buckets
  <2> HIDE DEF c
  <2>3. Len(rd2.got) = Len(rd.got) + 1
    BY <1>1, Appended
  <2>4. CASE o + b <= Len(rd.got)
    <3>1. o + b \in 1..Len(rd.got) /\ o + b <= Len(rd2.got)
      <4> DEFINE l == Len(rd.got)
                 l2 == Len(rd2.got)
      <4>1. l \in Nat /\ l2 = l + 1 /\ o + b <= l
        BY <1>1, <2>3, <2>4
      <4> HIDE DEF l, l2
      <4>2. o + b \in 1..l /\ o + b <= l2
        BY <4>1
      <4> QED BY <4>2 DEF l, l2
    <3>2. rd2.got[o + b] = rd.got[o + b]
      BY <1>1, <3>1, Appended
    <3> QED BY <2>1, <2>4, <3>1, <3>2
  <2>5. CASE o + b = Len(rd.got) + 1
    <3>1. rd2.got[Len(rd.got) + 1] = x
      BY <1>1, Appended
    <3>2. ~(o + b <= Len(rd.got)) /\ o + b <= Len(rd2.got)
      BY <1>1, <2>3, <2>5
    <3> QED BY <2>1, <2>2, <2>5, <3>1, <3>2
  <2>6. CASE o + b > Len(rd.got) + 1
    <3>1. ~(o + b <= Len(rd.got)) /\ ~(o + b <= Len(rd2.got))
      BY <1>1, <2>3, <2>6
    <3> QED BY <2>1, <3>1
  <2> QED BY <1>1, <2>4, <2>5, <2>6
<1>3. Figs(st, sd, rd2, o) = Figs(st, sd, rd, o)
  BY <1>2 DEF Figs
<1> QED BY <1>1, <1>3 DEF ReportInv

\* What is asked next is what the read's plan says, so every read stays sound.
LEMMA NextKeepsReads ==
  ASSUME NEW st, NEW sd, IsTable(st, sd), NEW kind, NEW rd \in Reads,
         KindInv(st, sd, kind, rd), Len(rd.got) # Len(Plan(rd)), NEW x, NEW rd2,
         x = SumOver(st, sd, Plan(rd)[Len(rd.got) + 1]),
         rd2 = [rd EXCEPT !.got = Append(rd.got, x)]
  PROVE  rd2 \in Reads /\ KindInv(st, sd, kind, rd2)
<1> DEFINE n == Len(rd.got)
<1>1. /\ rd.key \in Keys /\ rd.now \in Instants /\ rd.got \in Seq(Nat) /\ rd.must \in BOOLEAN
      /\ rd.now \in Nat /\ rd.kind = kind /\ kind \in Kinds /\ n \in Nat
  BY RangesAreTyped DEF Reads, KindInv
<1>2. n + 1 \in 1..Len(Plan(rd)) /\ Len(Plan(rd)) \in Nat /\ Len(KeyList) \in Nat
  BY <1>1, PlanFacts DEF KindInv
<1>3. x \in Nat
  <2>1. Plan(rd)[n + 1].range.from \in Int /\ Plan(rd)[n + 1].range.to \in Int
    BY <1>2, PlanFacts
  <2> QED BY <2>1, SumWider DEF SumOver
<1>4. Append(rd.got, x) \in Seq(Nat) /\ Len(Append(rd.got, x)) = n + 1
      /\ \A i \in 1..n : Append(rd.got, x)[i] = rd.got[i]
      /\ Append(rd.got, x)[n + 1] = x
  BY <1>1, <1>3
<1>5. /\ rd2 \in Reads /\ rd2.kind = kind /\ rd2.key = rd.key /\ rd2.now = rd.now
      /\ rd2.floor = rd.floor /\ rd2.must = rd.must /\ rd2.got = Append(rd.got, x)
  BY <1>1, <1>4 DEF Reads
<1>6. Plan(rd2) = Plan(rd)
  <2>1. rd2.kind = rd.kind /\ rd2.key = rd.key /\ rd2.now = rd.now
    BY <1>1, <1>5
  <2> HIDE DEF n
  <2> QED BY ONLY <2>1 DEF Plan
<1>7. Len(rd2.got) <= Len(Plan(rd2))
  BY <1>1, <1>2, <1>4, <1>5, <1>6
<1>8. ASSUME kind = "page" /\ Listed(rd2.key) PROVE ReportInv(st, sd, rd2, Len(KeyList))
  <2>1. ReportInv(st, sd, rd, Len(KeyList))
    BY <1>5, <1>8 DEF KindInv
  <2>2. \A b \in 1..5 : Plan(rd)[Len(KeyList) + b] = Report(rd.key, rd.now)[b]
    BY <1>1, <1>5, <1>8, PlanFacts
  <2>3. \A b \in 1..5 : Len(KeyList) + b = n + 1
          => x = SumOver(st, sd, Report(rd.key, rd.now)[b])
    BY <2>2
  <2> QED BY <1>2, <1>5, <2>1, <2>3, ReportNext
<1>9. ASSUME kind = "report" PROVE ReportInv(st, sd, rd2, 0)
  <2>1. ReportInv(st, sd, rd, 0)
    BY <1>9 DEF KindInv
  <2>2. \A b \in 1..5 : Plan(rd)[b] = Report(rd.key, rd.now)[b]
    BY <1>1, <1>9, PlanFacts
  <2>3. \A b \in 1..5 : 0 + b = n + 1 => x = SumOver(st, sd, Report(rd.key, rd.now)[b])
    BY <2>2
  <2> QED BY <1>5, <2>1, <2>3, ReportNext
<1>10. ASSUME kind = "check" PROVE CheckInv(st, sd, rd2)
  <2>1. CheckInv(st, sd, rd)
    BY <1>10 DEF KindInv
  <2>2. Len(Plan(rd)) = 1 /\ Plan(rd)[1] = Query(rd.key, PeriodWindow(rd.key, rd.now))
    BY <1>1, <1>10, PlanFacts
  <2>3. n = 0 /\ rd.got = << >>
    BY <1>1, <1>2, <2>2
  <2>4. x = PeriodSum(st, sd, rd) /\ PeriodSum(st, sd, rd2) = PeriodSum(st, sd, rd)
    BY <1>5, <2>2, <2>3 DEF PeriodSum
  <2>5. Verdict(st, sd, rd2) = Verdict(st, sd, rd)
    BY <1>4, <1>5, <2>3, <2>4 DEF Verdict
  <2> QED BY <1>5, <2>1, <2>4, <2>5 DEF CheckInv
<1>11. ASSUME kind = "list" PROVE ListInv(st, sd, rd2)
  <2>1. /\ Len(Plan(rd)) = 2 /\ Plan(rd)[1] = Query(rd.key, ReportWindows(rd.now)[Month])
        /\ Plan(rd)[2] = Query(rd.key, Ever(rd.now))
    BY <1>1, <1>11, PlanFacts
  <2>2. CASE n = 0
    <3>1. x = SumIn(st, sd, rd.key, StartOfMonth(rd.now), rd.now)
      BY <2>1, <2>2 DEF SumOver, Query, ReportWindows, Span, Month
    <3>2. x <= SumIn(st, sd, rd.key, 0, rd.now)
      BY <1>1, <3>1, CalendarFacts, SumWider
    <3> QED BY <1>4, <1>5, <2>2, <3>2 DEF ListInv
  <2>3. CASE n = 1
    <3>1. x = SumIn(st, sd, rd.key, 0, rd.now)
      BY <2>1, <2>3 DEF SumOver, Query, Ever, Span
    <3>2. rd.got[1] <= x
      BY <1>11, <2>3, <3>1 DEF KindInv, ListInv
    <3> QED BY <1>1, <1>4, <1>5, <2>3, <3>2 DEF ListInv
  <2>4. n = 0 \/ n = 1
    <3>1. n \in Nat /\ n + 1 \in 1..2
      BY <1>1, <1>2, <2>1
    <3> HIDE DEF n
    <3> QED BY ONLY <3>1
  <2> QED BY <2>2, <2>3, <2>4
<1> QED BY <1>5, <1>7, <1>8, <1>9, <1>10, <1>11 DEF KindInv

\* The budget period of a key has been used up by the instant t.
UsedUp(st, sd, k, s, t) ==
  Budget[k].tokens # Unlimited /\ SumIn(st, sd, k, s, t) >= Budget[k].tokens

\* A read begins sound, and one that has to find its key exhausted will.
LEMMA BeginKeepsReads ==
  ASSUME NEW st, NEW sd, IsTable(st, sd), NEW kind \in Kinds, NEW k \in Keys,
         NEW now \in Instants, NEW must \in BOOLEAN,
         must => UsedUp(st, sd, k, PeriodStart(k, now), now), NEW rd,
         rd = [kind |-> kind, key |-> k, now |-> now, got |-> << >>,
               floor |-> SumIn(st, sd, k, 0, now), must |-> must]
  PROVE  rd \in Reads /\ KindInv(st, sd, kind, rd)
<1>1. now \in Nat /\ SumIn(st, sd, k, 0, now) \in Nat
  BY SumWider, CalendarFacts
<1>2. /\ rd \in Reads /\ rd.kind = kind /\ rd.key = k /\ rd.now = now /\ rd.got = << >>
      /\ rd.floor = SumIn(st, sd, k, 0, now) /\ rd.must = must /\ Len(rd.got) = 0
  BY <1>1 DEF Reads
<1>3. Len(rd.got) <= Len(Plan(rd)) /\ Len(KeyList) \in Nat
  BY <1>2, PlanFacts
<1> DEFINE c == Buckets(st, sd, k, now)
<1>4. Numbers(c) /\ Nested(c) /\ Lifelong(c) = SumIn(st, sd, k, 0, now)
  BY BucketsNest
<1>5. must => Over(k, c)
  <2>1. Budget[k].tokens \in Int /\ Budget[k].period \in {"monthly", "lifetime"}
    BY FiguresAssumption DEF Unlimited
  <2>2. CASE Budget[k].period = "monthly"
    <3>1. PeriodStart(k, now) = StartOfMonth(now) /\ Used(k, c) = c[3]
      BY <2>2 DEF PeriodStart, PeriodWindow, ReportWindows, Span, Month, Used
    <3>2. c[3] = SumIn(st, sd, k, StartOfMonth(now), now)
      BY BucketsAre
    <3> QED BY <3>1, <3>2 DEF UsedUp, Over
  <2>3. CASE Budget[k].period # "monthly"
    <3>1. PeriodStart(k, now) = 0 /\ Used(k, c) = Lifelong(c)
      BY <2>3 DEF PeriodStart, PeriodWindow, Ever, Span, Used
    <3> QED BY <1>4, <3>1 DEF UsedUp, Over
  <2> QED BY <2>2, <2>3
<1>6. ASSUME NEW o \in Nat PROVE ReportInv(st, sd, rd, o)
  <2>1. \A b \in 1..5 : ~(o + b <= Len(rd.got))
    BY <1>2
  <2>2. Figs(st, sd, rd, o) = c
    BY <1>2, <2>1 DEF Figs, Buckets
  <2>3. \A b \in 1..5 : c[b] <= c[b]
    BY <1>4 DEF Numbers
  <2> HIDE DEF c
  <2>4. Sound(c, c, k, SumIn(st, sd, k, 0, now), must)
    BY <1>1, <1>4, <1>5, <2>3 DEF Sound
  <2> QED BY <1>2, <2>2, <2>4 DEF ReportInv, c
<1>7. CheckInv(st, sd, rd)
  <2>1. Verdict(st, sd, rd) = SumIn(st, sd, k, PeriodStart(k, now), now)
        /\ PeriodSum(st, sd, rd) = SumIn(st, sd, k, PeriodStart(k, now), now)
    BY <1>2, RangesAreTyped DEF Verdict, PeriodSum, SumOver, Query, PeriodStart
  <2>2. SumIn(st, sd, k, PeriodStart(k, now), now) \in Nat
    BY <1>1, SumWider, RangesAreTyped DEF PeriodStart
  <2> QED BY <1>2, <2>1, <2>2 DEF CheckInv, BudgetExhausted, UsedUp
<1>8. ListInv(st, sd, rd)
  BY <1>2 DEF ListInv
<1> QED BY <1>2, <1>3, <1>6, <1>7, <1>8 DEF KindInv

-----------------------------------------------------------------------------
(***************************************************************************)
(* Finished reports and verdicts.                                          *)
(***************************************************************************)
PanelInv(st, sd, p) ==
  /\ p.key \in Keys /\ p.now \in Instants /\ p.floor \in Nat /\ p.must \in BOOLEAN
  /\ Sound(p.report, Buckets(st, sd, p.key, p.now), p.key, p.floor, p.must)
  /\ p.over = Over(p.key, p.report)

\* Nothing that is recorded later is in a report's windows before they began.
LEMMA PanelLater ==
  ASSUME NEW st, NEW sd, NEW st2, NEW sd2, Later(st, sd, st2, sd2), NEW p,
         PanelInv(st, sd, p)
  PROVE  PanelInv(st2, sd2, p)
<1> DEFINE c == Buckets(st, sd, p.key, p.now)
           c2 == Buckets(st2, sd2, p.key, p.now)
<1>1. p.key \in Keys /\ p.now \in Instants
  BY DEF PanelInv
<1>2. Numbers(c) /\ Numbers(c2) /\ \A b \in 1..5 : c[b] <= c2[b]
  BY <1>1, BucketsNest, BucketsGrow DEF Later
<1>3. Sound(p.report, c, p.key, p.floor, p.must)
  BY DEF PanelInv
<1> HIDE DEF c, c2
<1>4. ASSUME NEW b \in 1..5 PROVE p.report[b] <= c2[b]
  <2>1. p.report[b] \in Nat /\ c[b] \in Nat /\ c2[b] \in Nat /\ p.report[b] <= c[b]
        /\ c[b] <= c2[b]
    BY <1>2, <1>3 DEF Sound, Numbers
  <2> QED BY <2>1
<1>5. Sound(p.report, c2, p.key, p.floor, p.must)
  BY <1>3, <1>4 DEF Sound
<1> QED BY <1>5 DEF PanelInv, c2

\* A report that has been read to its end is what was being read.
LEMMA ReportEnds ==
  ASSUME NEW st, NEW sd, NEW rd \in Reads, NEW o \in Nat, ReportInv(st, sd, rd, o),
         Len(rd.got) = o + 5, NEW report, \A b \in 1..5 : report[b] = rd.got[o + b],
         NEW p, p = Panel(rd, report)
  PROVE  PanelInv(st, sd, p)
<1> DEFINE f == Figs(st, sd, rd, o)
           c == Buckets(st, sd, rd.key, rd.now)
<1>1. /\ rd.key \in Keys /\ rd.now \in Instants /\ rd.floor \in Nat /\ rd.must \in BOOLEAN
  BY DEF Reads
<1>2. \A b \in 1..5 : f[b] = report[b]
  BY DEF Figs
<1>3. Sound(f, c, rd.key, rd.floor, rd.must)
  BY DEF ReportInv
<1> HIDE DEF f, c
<1>4. Lifelong(report) = Lifelong(f) /\ Over(rd.key, report) = Over(rd.key, f)
  BY <1>2 DEF Lifelong, Over, Used, Month, Past, Before
<1>5. Sound(report, c, rd.key, rd.floor, rd.must)
  <2>1. Numbers(f) /\ (\A b \in 1..5 : f[b] <= c[b]) /\ Nested(f)
    BY <1>3 DEF Sound
  <2>2. Numbers(report) /\ \A b \in 1..5 : report[b] <= c[b]
    BY <1>2, <2>1 DEF Numbers
  <2>3. Nested(report)
    BY <1>2, <2>1 DEF Nested
  <2> QED BY <1>3, <1>4, <2>2, <2>3 DEF Sound
<1>6. /\ p.key = rd.key /\ p.now = rd.now /\ p.floor = rd.floor /\ p.must = rd.must
      /\ p.report = report /\ p.over = Over(rd.key, report)
  BY DEF Panel
<1> QED BY <1>1, <1>5, <1>6 DEF PanelInv, c

\* The zeros of a load that failed claim nothing.
LEMMA ZerosAreSound ==
  ASSUME NEW st, NEW sd, IsTable(st, sd), NEW rd \in Reads,
         NEW p, p = Panel([rd EXCEPT !.floor = 0, !.must = FALSE], [b \in 1..5 |-> 0])
  PROVE  PanelInv(st, sd, p)
<1> DEFINE z == [b \in 1..5 |-> 0]
           c == Buckets(st, sd, rd.key, rd.now)
<1>1. rd.key \in Keys /\ rd.now \in Instants
  BY DEF Reads
<1>2. Numbers(c)
  BY <1>1, BucketsNest
<1>3. z[1] = 0 /\ z[2] = 0 /\ z[3] = 0 /\ z[4] = 0 /\ z[5] = 0
  OBVIOUS
<1> HIDE DEF z, c
<1>4. Numbers(z) /\ Nested(z) /\ Lifelong(z) = 0
  BY <1>3 DEF Numbers, Nested, Lifelong, Month, Past, Before
<1>5. \A b \in 1..5 : z[b] <= c[b]
  BY <1>2, <1>3 DEF Numbers
<1>6. Sound(z, c, rd.key, 0, FALSE)
  BY <1>4, <1>5 DEF Sound
<1>7. /\ p.key = rd.key /\ p.now = rd.now /\ p.floor = 0 /\ p.must = FALSE
      /\ p.report = z /\ p.over = Over(rd.key, z)
  BY DEF Panel, Reads, z
<1>8. Sound(p.report, Buckets(st, sd, p.key, p.now), p.key, p.floor, p.must)
  BY <1>6, <1>7 DEF c
<1>9. p.key \in Keys /\ p.now \in Instants /\ p.floor \in Nat /\ p.must \in BOOLEAN
  <2>1. p.must \in BOOLEAN
    BY <1>7, Zenon
  <2>2. p.key \in Keys /\ p.now \in Instants
    BY <1>1, <1>7, Zenon
  <2>3. p.floor = 0
    BY <1>7, Zenon
  <2>4. p.floor \in Nat
    BY ONLY <2>3
  <2> QED BY <2>1, <2>2, <2>4, Zenon
<1>10. p.over = Over(p.key, p.report)
  BY <1>7, Zenon
<1> QED BY <1>8, <1>9, <1>10, Zenon DEF PanelInv

\* Whoever finds a key exhausted is right, and stays right as the clock goes on.
LEMMA OverIsUsedUp ==
  ASSUME NEW st, NEW sd, IsTable(st, sd), NEW p, PanelInv(st, sd, p), p.over,
         NEW t \in Nat, p.now <= t
  PROVE  UsedUp(st, sd, p.key, PeriodStart(p.key, p.now), t)
<1> DEFINE k == p.key
           now == p.now
           f == p.report
           c == Buckets(st, sd, k, now)
           s == PeriodStart(k, now)
<1>1. k \in Keys /\ now \in Instants /\ Sound(f, c, k, p.floor, p.must) /\ Over(k, f)
  BY DEF PanelInv
<1>2. Numbers(c) /\ Lifelong(c) = SumIn(st, sd, k, 0, now)
  BY <1>1, BucketsNest
<1>3. s \in Nat /\ now \in Nat
  BY <1>1, RangesAreTyped DEF PeriodStart
<1>4. SumIn(st, sd, k, s, now) \in Nat /\ SumIn(st, sd, k, s, t) \in Nat
      /\ SumIn(st, sd, k, s, now) <= SumIn(st, sd, k, s, t)
  BY <1>3, SumWider
<1>5. Used(k, f) \in Int /\ Used(k, f) <= SumIn(st, sd, k, s, now)
  <2>0. /\ f[3] \in Nat /\ f[4] \in Nat /\ f[5] \in Nat /\ c[3] \in Nat /\ c[4] \in Nat
        /\ c[5] \in Nat /\ f[3] <= c[3] /\ f[4] <= c[4] /\ f[5] <= c[5]
    BY <1>1, <1>2 DEF Sound, Numbers
  <2>1. CASE Budget[k].period = "monthly"
    <3>1. s = StartOfMonth(now) /\ Used(k, f) = f[3]
      BY <2>1 DEF PeriodStart, PeriodWindow, ReportWindows, Span, Month, Used
    <3>2. c[3] = SumIn(st, sd, k, StartOfMonth(now), now)
      BY BucketsAre
    <3> HIDE DEF s, c, f
    <3> QED BY <2>0, <3>1, <3>2
  <2>2. CASE Budget[k].period # "monthly"
    <3>1. s = 0 /\ Used(k, f) = Lifelong(f)
      BY <2>2 DEF PeriodStart, PeriodWindow, Ever, Span, Used
    <3> HIDE DEF s, c, f
    <3>2. Lifelong(f) \in Int /\ Lifelong(f) <= Lifelong(c)
      BY <2>0 DEF Lifelong, Month, Past, Before
    <3> QED BY <1>2, <3>1, <3>2
  <2> QED BY <2>1, <2>2
<1>6. Budget[k].tokens # Unlimited /\ Used(k, f) >= Budget[k].tokens
      /\ Budget[k].tokens \in Int
  BY <1>1, FiguresAssumption DEF Over, Unlimited
<1> HIDE DEF f, c, s, k, now
<1>7. UsedUp(st, sd, k, s, t)
  BY <1>4, <1>5, <1>6 DEF UsedUp
<1> QED BY <1>7 DEF k, s, now

LEMMA RefusedIsUsedUp ==
  ASSUME NEW st, NEW sd, IsTable(st, sd), NEW rd \in Reads, CheckInv(st, sd, rd),
         Len(rd.got) = 1, Refused(rd), NEW t \in Nat, rd.now <= t
  PROVE  UsedUp(st, sd, rd.key, PeriodStart(rd.key, rd.now), t)
<1> DEFINE k == rd.key
           s == PeriodStart(k, rd.now)
<1>1. k \in Keys /\ rd.now \in Instants /\ s \in Nat /\ rd.now \in Nat
      /\ PeriodWindow(k, rd.now).to = rd.now
  BY RangesAreTyped DEF Reads, PeriodStart
<1>2. Verdict(st, sd, rd) = rd.got[1] /\ PeriodSum(st, sd, rd) = SumIn(st, sd, k, s, rd.now)
  BY <1>1 DEF Verdict, PeriodSum, SumOver, Query, PeriodStart
<1>3. rd.got[1] \in Nat /\ rd.got[1] <= SumIn(st, sd, k, s, rd.now)
  BY <1>2 DEF CheckInv
<1>4. SumIn(st, sd, k, s, rd.now) \in Nat /\ SumIn(st, sd, k, s, t) \in Nat
      /\ SumIn(st, sd, k, s, rd.now) <= SumIn(st, sd, k, s, t)
  BY <1>1, SumWider
<1>5. Budget[k].tokens # Unlimited /\ rd.got[1] >= Budget[k].tokens /\ Budget[k].tokens \in Int
  BY <1>1, FiguresAssumption DEF Refused, BudgetExhausted, Unlimited
<1> HIDE DEF s, k
<1>6. UsedUp(st, sd, k, s, t)
  BY <1>3, <1>4, <1>5 DEF UsedUp
<1> QED BY <1>6 DEF s, k

\* What has been seen exhausted.
SpentInv(st, sd, t, sp) ==
  /\ sp \subseteq Keys \X Nat
  /\ \A x \in sp : UsedUp(st, sd, x[1], x[2], t)

LEMMA SpentLater ==
  ASSUME NEW st, NEW sd, NEW st2, NEW sd2, Later(st, sd, st2, sd2),
         NEW t \in Nat, NEW t2 \in Nat, t <= t2, NEW sp, SpentInv(st, sd, t, sp)
  PROVE  SpentInv(st2, sd2, t2, sp)
<1> SUFFICES ASSUME NEW x \in sp PROVE UsedUp(st2, sd2, x[1], x[2], t2)
  BY DEF SpentInv
<1>1. x[1] \in Keys /\ x[2] \in Nat /\ UsedUp(st, sd, x[1], x[2], t)
  BY DEF SpentInv
<1>2. /\ SumIn(st, sd, x[1], x[2], t) \in Nat /\ SumIn(st2, sd2, x[1], x[2], t) \in Nat
      /\ SumIn(st2, sd2, x[1], x[2], t2) \in Nat
      /\ SumIn(st2, sd2, x[1], x[2], t) <= SumIn(st2, sd2, x[1], x[2], t2)
      /\ SumIn(st, sd, x[1], x[2], t) <= SumIn(st2, sd2, x[1], x[2], t)
  BY <1>1, SumWider, SumGrows DEF Later
<1>3. Budget[x[1]].tokens \in Int
  BY <1>1, FiguresAssumption DEF Unlimited
<1> QED BY <1>1, <1>2, <1>3 DEF UsedUp

\* Another finished look adds what is true.
LEMMA SpentNoted ==
  ASSUME NEW st, NEW sd, NEW t, NEW sp, SpentInv(st, sd, t, sp), NEW k \in Keys,
         NEW s \in Nat, UsedUp(st, sd, k, s, t)
  PROVE  SpentInv(st, sd, t, sp \cup {<<k, s>>})
BY DEF SpentInv

-----------------------------------------------------------------------------
(***************************************************************************)
(* The invariant.                                                          *)
(***************************************************************************)
ReadsInv ==
  /\ read \in [Kinds -> {Idle} \cup Reads]
  /\ \A kind \in Kinds : Busy(kind) => /\ KindInv(stamp, stored, kind, read[kind])
                                       /\ read[kind].now <= clock

ScreenInv ==
  /\ screen # Away => /\ {"key", "panel"} \subseteq DOMAIN screen
                      /\ PanelInv(stamp, stored, screen.panel)
                      /\ screen.panel.now <= clock /\ screen.key = screen.panel.key
  /\ Busy("sidebar") => screen # Away

SnapInv == snap # None => PanelInv(stamp, stored, snap) /\ snap.now <= clock

FiguresInv ==
  /\ TableTypeOK /\ ReadsInv /\ ScreenInv /\ SnapInv
  /\ SpentInv(stamp, stored, clock, spent)

\* The table as the lemmas above see it.
LEMMA TableFacts ==
  ASSUME TableTypeOK
  PROVE  /\ IsTable(stamp, stored) /\ clock \in Instants /\ clock \in Nat
         /\ \A k, from, to :
              SumTokens(k, Span(from, to)) = SumIn(stamp, stored, k, from, to)
         /\ \A q : SumTokens(q.key, q.range) = SumOver(stamp, stored, q)
         /\ \A k : Lifetime(k, clock) = SumIn(stamp, stored, k, 0, clock)
<1>1. \A e \in Events : stamp[e] \in Int
  BY DEF TableTypeOK, NotYet
<1>2. IsTable(stamp, stored)
  BY <1>1 DEF TableTypeOK, IsTable
<1>3. \A k, r : SumTokens(k, r) = SumIn(stamp, stored, k, r.from, r.to)
  BY DEF SumTokens, Counted, SumIn
<1>4. clock \in Instants /\ clock \in Nat
  BY CalendarFacts DEF TableTypeOK
<1> QED BY <1>2, <1>3, <1>4 DEF Span, Ever, Lifetime, SumOver

\* Events are stamped once, stored once stamped, and stay; the clock moves on.
LEMMA TableMovesOn ==
  ASSUME TableTypeOK, TableStep
  PROVE  /\ TableTypeOK' /\ Later(stamp, stored, stamp', stored')
         /\ clock <= clock' /\ clock' \in Nat
<1>1. clock \in Instants /\ clock \in Nat /\ LastInstant \in Nat /\ FirstInstant \in Nat
  BY CalendarAssumption, CalendarFacts DEF TableTypeOK
<1>2. CASE Tick
  <2>1. clock' = clock + 1 /\ clock' \in Instants /\ clock' \in Nat
    BY <1>1, <1>2, CalendarAssumption DEF Tick, Instants
  <2>2. \A e \in Events : stamp[e] \in Int /\ stamp[e] <= clock
    BY DEF TableTypeOK, NotYet
  <2> QED BY <1>1, <1>2, <2>1, <2>2 DEF Tick, TableTypeOK, Later, IsTable
<1>3. ASSUME NEW e \in Events, StampEvent(e) PROVE TableTypeOK' /\ Later(stamp, stored, stamp', stored') /\ clock' = clock
  <2>1. clock \in 0..LastInstant
    BY <1>1 DEF Instants
  <2>2. /\ stamp' \in [Events -> 0..LastInstant \cup {NotYet}] /\ stamp'[e] = clock
        /\ \A d \in Events \ {e} : stamp'[d] = stamp[d]
        /\ clock' = clock /\ stored' = stored
    BY <1>3, <2>1 DEF StampEvent, TableTypeOK
  <2>3. e \notin stored
    BY <1>3 DEF StampEvent, TableTypeOK
  <2>4. clock # NotYet
    BY <1>1 DEF NotYet
  <2>5. TableTypeOK'
    BY <1>1, <2>2, <2>4 DEF TableTypeOK
  <2>6. \A d \in Events : stamp[d] \in Int /\ stamp'[d] \in Int
    BY <1>1, <2>2 DEF TableTypeOK, NotYet
  <2>7. stored \subseteq Events /\ stored' \subseteq Events
    BY <2>2 DEF TableTypeOK
  <2> QED BY <2>2, <2>3, <2>5, <2>6, <2>7 DEF Later, IsTable
<1>4. ASSUME NEW e \in Events, Record(e) PROVE TableTypeOK' /\ Later(stamp, stored, stamp', stored') /\ clock' = clock
  <2>1. TableTypeOK'
    BY <1>4 DEF Record, TableTypeOK
  <2>2. \A d \in Events : stamp[d] \in Int
    BY DEF TableTypeOK, NotYet
  <2> QED BY <1>4, <2>1, <2>2 DEF Record, TableTypeOK, Later, IsTable
<1> QED BY <1>1, <1>2, <1>3, <1>4 DEF TableStep, Tick

\* Everything there is to say about the figures survives a step of the table.
LEMMA TableKeepsFigures ==
  ASSUME FiguresInv, TableStep, UNCHANGED figureVars
  PROVE  FiguresInv'
<1>1. /\ TableTypeOK' /\ Later(stamp, stored, stamp', stored') /\ clock <= clock'
      /\ clock \in Nat /\ clock' \in Nat
  BY TableMovesOn, TableFacts DEF FiguresInv
<1>2. read' = read /\ screen' = screen /\ snap' = snap /\ spent' = spent
  BY DEF figureVars
<1>3. ASSUME NEW p, PanelInv(stamp, stored, p), p.now <= clock
      PROVE  PanelInv(stamp', stored', p) /\ p.now <= clock'
  <2>1. p.now \in Nat
    BY <1>3, CalendarFacts DEF PanelInv
  <2> QED BY <1>1, <1>3, <2>1, PanelLater
<1>4. ReadsInv'
  <2>1. ASSUME NEW kind \in Kinds, Busy(kind)
        PROVE  KindInv(stamp', stored', kind, read[kind]) /\ read[kind].now <= clock'
    <3>1. /\ read[kind] \in Reads /\ KindInv(stamp, stored, kind, read[kind])
          /\ read[kind].now <= clock
      BY <2>1 DEF FiguresInv, ReadsInv, Busy
    <3>2. read[kind].now \in Nat
      BY <3>1, CalendarFacts DEF Reads
    <3> QED BY <1>1, <3>1, <3>2, LaterKeepsReads
  <2> QED BY <1>2, <2>1 DEF FiguresInv, ReadsInv, Busy
<1>5. ScreenInv'
  BY <1>2, <1>3 DEF FiguresInv, ScreenInv, Busy
<1>6. SnapInv'
  BY <1>2, <1>3 DEF FiguresInv, SnapInv
<1>7. SpentInv(stamp', stored', clock', spent')
  BY <1>1, <1>2, SpentLater DEF FiguresInv
<1> QED BY <1>1, <1>4, <1>5, <1>6, <1>7 DEF FiguresInv

\* A read that begins.
LEMMA BeginKeepsFigures ==
  ASSUME FiguresInv, NEW kind \in Kinds, NEW k \in Keys, Begin(kind, k),
         UNCHANGED <<tableVars, screen, snap, spent>>, kind = "sidebar" => screen # Away
  PROVE  FiguresInv'
<1> DEFINE rd == [kind |-> kind, key |-> k, now |-> clock, got |-> << >>,
                  floor |-> Lifetime(k, clock),
                  must |-> <<k, PeriodStart(k, clock)>> \in spent]
<1>1. /\ read' = [read EXCEPT ![kind] = rd] /\ clock' = clock /\ stamp' = stamp
      /\ stored' = stored /\ screen' = screen /\ snap' = snap /\ spent' = spent
  BY DEF Begin, tableVars
<1>2. /\ IsTable(stamp, stored) /\ clock \in Instants /\ clock \in Nat
      /\ Lifetime(k, clock) = SumIn(stamp, stored, k, 0, clock)
  BY TableFacts DEF FiguresInv
<1>3. rd \in Reads /\ KindInv(stamp, stored, kind, rd)
  <2> DEFINE must == <<k, PeriodStart(k, clock)>> \in spent
  <2>1. must => UsedUp(stamp, stored, k, PeriodStart(k, clock), clock)
    BY DEF FiguresInv, SpentInv
  <2>2. must \in BOOLEAN
    OBVIOUS
  <2>3. rd = [kind |-> kind, key |-> k, now |-> clock, got |-> << >>,
              floor |-> SumIn(stamp, stored, k, 0, clock), must |-> must]
    BY <1>2
  <2> HIDE DEF must, rd
  <2> QED BY <1>2, <2>1, <2>2, <2>3, BeginKeepsReads
<1>4. rd.now = clock
  OBVIOUS
<1> HIDE DEF rd
<1>5. ReadsInv'
  <2>1. read' \in [Kinds -> {Idle} \cup Reads]
    BY <1>1, <1>3 DEF FiguresInv, ReadsInv
  <2>2. read'[kind] = rd /\ \A j \in Kinds \ {kind} : read'[j] = read[j]
    BY <1>1 DEF FiguresInv, ReadsInv
  <2>3. clock <= clock
    BY <1>2
  <2>4. ASSUME NEW j \in Kinds, Busy(j)'
        PROVE  KindInv(stamp, stored, j, read'[j]) /\ read'[j].now <= clock
    <3>1. CASE j = kind
      BY <1>3, <1>4, <2>2, <2>3, <3>1
    <3>2. CASE j # kind
      BY <2>2, <2>4, <3>2 DEF FiguresInv, ReadsInv, Busy
    <3> QED BY <3>1, <3>2
  <2> QED BY <1>1, <2>1, <2>4 DEF ReadsInv
<1>6. ScreenInv'
  <2>1. Busy("sidebar")' => screen # Away
    BY <1>1 DEF FiguresInv, ReadsInv, ScreenInv, Busy, Kinds
  <2> QED BY <1>1, <2>1 DEF FiguresInv, ScreenInv
<1> QED BY <1>1, <1>5, <1>6 DEF FiguresInv, TableTypeOK, SnapInv

\* A read that ends, or is given up.
LEMMA FinishKeepsReads ==
  ASSUME FiguresInv, NEW kind \in Kinds, read' = [read EXCEPT ![kind] = Idle],
         UNCHANGED tableVars
  PROVE  ReadsInv' /\ (Busy("sidebar")' => Busy("sidebar")) /\ TableTypeOK'
<1>1. clock' = clock /\ stamp' = stamp /\ stored' = stored
  BY DEF tableVars
<1>2. read'[kind] = Idle /\ \A j \in Kinds \ {kind} : read'[j] = read[j]
  BY DEF FiguresInv, ReadsInv
<1>3. read' \in [Kinds -> {Idle} \cup Reads]
  BY DEF FiguresInv, ReadsInv
<1>4. ReadsInv'
  BY <1>1, <1>2, <1>3 DEF FiguresInv, ReadsInv, Busy
<1>5. Busy("sidebar")' => Busy("sidebar")
  BY <1>2 DEF Busy, Kinds
<1> QED BY <1>1, <1>4, <1>5 DEF FiguresInv, TableTypeOK

-----------------------------------------------------------------------------
(***************************************************************************)
(* The actions.                                                            *)
(***************************************************************************)

\* The key that GET /admin redirects to is one of the table's.
LEMMA DefaultIsListed ==
  ASSUME KeyList # << >>
  PROVE  DefaultKey \in Keys
<1> DEFINE inUse == {i \in DOMAIN KeyList : KeyList[i] \notin Revoked}
<1>1. KeyList \in Seq(Keys) /\ Len(KeyList) \in Nat /\ Len(KeyList) > 0
      /\ DOMAIN KeyList = 1..Len(KeyList)
  BY FiguresAssumption
<1>2. inUse # {} => Min(inUse) \in inUse
  <2>1. inUse \in SUBSET Nat
    BY <1>1
  <2> HIDE DEF inUse
  <2> QED BY <2>1, MinIsLeast
<1>3. (IF inUse = {} THEN 1 ELSE Min(inUse)) \in 1..Len(KeyList)
  BY <1>1, <1>2
<1>4. \A i \in 1..Len(KeyList) : KeyList[i] \in Keys
  BY <1>1
<1> QED BY <1>3, <1>4 DEF DefaultKey

\* What the reads that are not begun, asked or answered by an action see of it.
LEMMA ReadsStand ==
  ASSUME FiguresInv, UNCHANGED <<tableVars, read>>
  PROVE  ReadsInv' /\ TableTypeOK' /\ Busy("sidebar")' = Busy("sidebar")
BY DEF FiguresInv, ReadsInv, TableTypeOK, tableVars, Busy

\* The next sum of a read.
LEMMA NextSumKeepsFigures ==
  ASSUME FiguresInv, NEW kind \in Kinds, NextSum(kind)
  PROVE  FiguresInv'
<1> DEFINE rd == read[kind]
           q == Plan(rd)[Len(rd.got) + 1]
           x == SumTokens(q.key, q.range)
           rd2 == [rd EXCEPT !.got = Append(rd.got, x)]
<1>1. /\ read' = [read EXCEPT ![kind] = rd2] /\ clock' = clock /\ stamp' = stamp
      /\ stored' = stored /\ screen' = screen /\ snap' = snap /\ spent' = spent
  BY DEF NextSum, tableVars
<1>2. /\ rd \in Reads /\ KindInv(stamp, stored, kind, rd) /\ rd.now <= clock
      /\ Len(rd.got) # Len(Plan(rd))
  BY DEF NextSum, FiguresInv, ReadsInv, Busy, Complete
<1>3. IsTable(stamp, stored) /\ x = SumOver(stamp, stored, Plan(rd)[Len(rd.got) + 1])
  BY TableFacts DEF FiguresInv
<1>4. rd2 \in Reads /\ KindInv(stamp, stored, kind, rd2)
  <2> HIDE DEF rd, x
  <2> QED BY <1>2, <1>3, NextKeepsReads
<1>5. rd2.now = rd.now
  BY <1>2 DEF Reads
<1> HIDE DEF rd2
<1>6. ReadsInv'
  <2>1. read' \in [Kinds -> {Idle} \cup Reads]
    BY <1>1, <1>4 DEF FiguresInv, ReadsInv
  <2>2. read'[kind] = rd2 /\ \A j \in Kinds \ {kind} : read'[j] = read[j]
    BY <1>1 DEF FiguresInv, ReadsInv
  <2>3. ASSUME NEW j \in Kinds, Busy(j)'
        PROVE  KindInv(stamp, stored, j, read'[j]) /\ read'[j].now <= clock
    <3>1. CASE j = kind
      BY <1>2, <1>4, <1>5, <2>2, <3>1
    <3>2. CASE j # kind
      BY <2>2, <2>3, <3>2 DEF FiguresInv, ReadsInv, Busy
    <3> QED BY <3>1, <3>2
  <2> QED BY <1>1, <2>1, <2>3 DEF ReadsInv
<1>7. Busy("sidebar")' => Busy("sidebar")
  <2>1. Busy(kind) /\ \A j \in Kinds \ {kind} : read'[j] = read[j]
    BY <1>1 DEF NextSum, FiguresInv, ReadsInv
  <2> QED BY <2>1 DEF Busy, Kinds
<1> QED BY <1>1, <1>6, <1>7 DEF FiguresInv, TableTypeOK, ScreenInv, SnapInv

\* A panel that is shown, and noted if its key is exhausted.
LEMMA PanelIsNoted ==
  ASSUME FiguresInv, NEW p, PanelInv(stamp, stored, p), p.now <= clock,
         Noted(p.key, p.now, p.over)
  PROVE  SpentInv(stamp, stored, clock, spent')
<1>1. IsTable(stamp, stored) /\ clock \in Nat
  BY TableFacts DEF FiguresInv
<1>2. p.key \in Keys /\ PeriodStart(p.key, p.now) \in Nat
  BY RangesAreTyped DEF PanelInv, PeriodStart
<1>3. CASE p.over
  <2>1. UsedUp(stamp, stored, p.key, PeriodStart(p.key, p.now), clock)
    BY <1>1, <1>3, OverIsUsedUp
  <2>2. spent' = spent \cup {<<p.key, PeriodStart(p.key, p.now)>>}
    BY <1>3 DEF Noted
  <2> QED BY <1>2, <2>1, <2>2, SpentNoted DEF FiguresInv
<1>4. CASE ~p.over
  BY <1>4 DEF Noted, FiguresInv
<1> QED BY <1>3, <1>4

\* The page's report is the last five of its sums.
LEMMA ShowPageKeepsFigures ==
  ASSUME FiguresInv, ShowPage
  PROVE  FiguresInv'
<1> DEFINE rd == read["page"]
           n == Len(KeyList)
           report == SubSeq(rd.got, n + 1, n + 5)
           p == Panel(rd, report)
<1>0. "page" \in Kinds
  BY DEF Kinds
<1>1. /\ rd \in Reads /\ KindInv(stamp, stored, "page", rd) /\ rd.now <= clock
      /\ Len(rd.got) = Len(Plan(rd)) /\ rd.got \in Seq(Nat) /\ n \in Nat /\ rd.kind = "page"
  <2>1. rd \in Reads /\ KindInv(stamp, stored, "page", rd) /\ rd.now <= clock
        /\ Len(rd.got) = Len(Plan(rd))
    BY <1>0 DEF ShowPage, Finish, Complete, Busy, FiguresInv, ReadsInv
  <2> QED BY <2>1, PlanFacts DEF Reads, KindInv
<1>2. read' = [read EXCEPT !["page"] = Idle] /\ UNCHANGED tableVars /\ snap' = snap
  BY DEF ShowPage, Finish
<1>3. ReadsInv' /\ (Busy("sidebar")' => Busy("sidebar")) /\ TableTypeOK'
  BY <1>0, <1>2, FinishKeepsReads
<1>4. clock' = clock /\ stamp' = stamp /\ stored' = stored
  BY <1>2 DEF tableVars
<1>5. CASE ~Listed(rd.key)
  BY <1>2, <1>3, <1>4, <1>5 DEF ShowPage, FiguresInv, ScreenInv, SnapInv
<1>6. CASE Listed(rd.key)
  <2>1. Len(rd.got) = n + 5
    BY <1>1, <1>6, PlanFacts
  <2>2. ASSUME NEW b \in 1..5 PROVE report[b] = rd.got[n + b]
    <3> DEFINE s == rd.got
    <3>1. s \in Seq(Nat) /\ Len(s) = n + 5 /\ n \in Nat
      BY <1>1, <2>1
    <3> HIDE DEF s, n
    <3>2. SubSeq(s, n + 1, n + 5)[b] = s[n + b]
      BY ONLY <3>1
    <3> QED BY <3>2 DEF s, n
  <2>3. ReportInv(stamp, stored, rd, n)
    BY <1>1, <1>6 DEF KindInv
  <2>4. PanelInv(stamp, stored, p) /\ p.key = rd.key /\ p.now = rd.now
    <3>1. p.key = rd.key /\ p.now = rd.now
      BY DEF Panel
    <3> HIDE DEF p, rd, n, report
    <3> QED BY <1>1, <2>1, <2>2, <2>3, <3>1, ReportEnds DEF p
  <2> HIDE DEF report, p
  <2>5. /\ screen' # Away /\ {"key", "panel"} \subseteq DOMAIN screen'
        /\ screen'.panel = p /\ screen'.key = rd.key
    BY <1>6 DEF ShowPage, Away, p, report
  <2>6. Noted(p.key, p.now, p.over)
    BY <1>6, <2>4 DEF ShowPage, p, report
  <2>7. SpentInv(stamp, stored, clock, spent')
    BY <1>1, <2>4, <2>6, PanelIsNoted
  <2>8. ScreenInv'
    BY <1>1, <1>4, <2>4, <2>5 DEF ScreenInv
  <2> QED BY <1>2, <1>3, <1>4, <2>7, <2>8 DEF FiguresInv, SnapInv
<1> QED BY <1>5, <1>6

\* The stream takes the page's figures over.
LEMMA OpenStreamKeepsFigures ==
  ASSUME FiguresInv, OpenStream
  PROVE  FiguresInv'
<1>1. "sidebar" \in Kinds /\ Busy("sidebar")
  BY DEF Kinds, OpenStream, Finish, Complete
<1>2. /\ read' = [read EXCEPT !["sidebar"] = Idle] /\ UNCHANGED tableVars
      /\ snap' = snap /\ spent' = spent
  BY DEF OpenStream, Finish
<1>3. ReadsInv' /\ TableTypeOK'
  BY <1>1, <1>2, FinishKeepsReads
<1>4. clock' = clock /\ stamp' = stamp /\ stored' = stored
  BY <1>2 DEF tableVars
<1>5. /\ screen' # Away /\ {"key", "panel"} \subseteq DOMAIN screen'
      /\ screen'.panel = screen.panel /\ screen'.key = screen.key
  BY DEF OpenStream, Away
<1>6. ScreenInv'
  BY <1>1, <1>4, <1>5 DEF FiguresInv, ScreenInv
<1> QED BY <1>2, <1>3, <1>4, <1>6 DEF FiguresInv, SnapInv

\* The actor publishes the report that it has read.
LEMMA PublishKeepsFigures ==
  ASSUME FiguresInv, Publish
  PROVE  FiguresInv'
<1> DEFINE rd == read["report"]
           p == Panel(rd, rd.got)
<1>0. "report" \in Kinds
  BY DEF Kinds
<1>1. /\ rd \in Reads /\ KindInv(stamp, stored, "report", rd) /\ rd.now <= clock
      /\ Len(rd.got) = Len(Plan(rd)) /\ rd.kind = "report"
  BY <1>0 DEF Publish, Finish, Complete, Busy, FiguresInv, ReadsInv, KindInv
<1>2. /\ read' = [read EXCEPT !["report"] = Idle] /\ UNCHANGED tableVars
      /\ screen' = screen /\ spent' = spent /\ snap' = p
  BY DEF Publish, Finish
<1>3. ReadsInv' /\ (Busy("sidebar")' => Busy("sidebar")) /\ TableTypeOK'
  BY <1>0, <1>2, FinishKeepsReads
<1>4. clock' = clock /\ stamp' = stamp /\ stored' = stored
  BY <1>2 DEF tableVars
<1>5. p.key = rd.key /\ p.now = rd.now
  BY DEF Panel
<1>6. PanelInv(stamp, stored, p)
  <2>1. Len(rd.got) = 0 + 5 /\ ReportInv(stamp, stored, rd, 0)
    BY <1>1, PlanFacts DEF KindInv
  <2>2. \A b \in 1..5 : rd.got[b] = rd.got[0 + b]
    OBVIOUS
  <2> HIDE DEF p, rd
  <2> QED BY <1>1, <2>1, <2>2, ReportEnds DEF p
<1>7. SnapInv'
  BY <1>1, <1>2, <1>4, <1>5, <1>6 DEF SnapInv
<1> QED BY <1>2, <1>3, <1>4, <1>7 DEF FiguresInv, ScreenInv

\* The stream is sent a snapshot.
LEMMA PushKeepsFigures ==
  ASSUME FiguresInv, Push
  PROVE  FiguresInv'
<1>1. UNCHANGED <<tableVars, read>> /\ snap' = snap
  BY DEF Push
<1>2. clock' = clock /\ stamp' = stamp /\ stored' = stored
  BY <1>1 DEF tableVars
<1>3. PanelInv(stamp, stored, snap) /\ snap.now <= clock /\ snap.key = screen.key
  BY DEF Push, FiguresInv, SnapInv
<1>4. /\ {"key", "panel"} \subseteq DOMAIN screen /\ screen # Away
  BY DEF Push, FiguresInv, ScreenInv
<1>5. /\ {"key", "panel"} \subseteq DOMAIN screen'
      /\ screen'.panel = snap /\ screen'.key = screen.key
  BY <1>4 DEF Push
<1>6. screen' # Away
  <2>1. "key" \notin DOMAIN Away
    BY DEF Away
  <2> QED BY <1>5, <2>1
<1>7. ReadsInv' /\ TableTypeOK' /\ Busy("sidebar")' = Busy("sidebar")
  BY <1>1, ReadsStand
<1>8. SpentInv(stamp, stored, clock, spent')
  BY <1>3, PanelIsNoted DEF Push
<1>9. ScreenInv'
  BY <1>2, <1>3, <1>5, <1>6 DEF ScreenInv
<1> QED BY <1>1, <1>2, <1>7, <1>8, <1>9 DEF FiguresInv, SnapInv

\* The tab is closed.
LEMMA LeaveKeepsFigures ==
  ASSUME FiguresInv, Leave
  PROVE  FiguresInv'
<1>1. /\ screen' = Away /\ snap' = snap /\ spent' = spent /\ UNCHANGED tableVars
      /\ read' = [read EXCEPT !["page"] = Idle, !["sidebar"] = Idle]
  BY DEF Leave
<1>2. clock' = clock /\ stamp' = stamp /\ stored' = stored
  BY <1>1 DEF tableVars
<1>3. /\ read' \in [Kinds -> {Idle} \cup Reads]
      /\ \A j \in Kinds : read'[j] = Idle \/ read'[j] = read[j]
      /\ read'["sidebar"] = Idle
  BY <1>1 DEF FiguresInv, ReadsInv, Kinds
<1>4. ReadsInv' /\ ~Busy("sidebar")'
  BY <1>2, <1>3 DEF FiguresInv, ReadsInv, Busy
<1> QED BY <1>1, <1>2, <1>4 DEF FiguresInv, TableTypeOK, ScreenInv, SnapInv

\* A check answers.
LEMMA AnswerKeepsFigures ==
  ASSUME FiguresInv, Answer
  PROVE  FiguresInv'
<1> DEFINE rd == read["check"]
<1>0. "check" \in Kinds
  BY DEF Kinds
<1>1. /\ rd \in Reads /\ KindInv(stamp, stored, "check", rd) /\ rd.now <= clock
      /\ Len(rd.got) = Len(Plan(rd)) /\ rd.kind = "check"
  BY <1>0 DEF Answer, Finish, Complete, Busy, FiguresInv, ReadsInv, KindInv
<1>2. /\ read' = [read EXCEPT !["check"] = Idle] /\ UNCHANGED tableVars
      /\ screen' = screen /\ snap' = snap
  BY DEF Answer, Finish
<1>3. ReadsInv' /\ (Busy("sidebar")' => Busy("sidebar")) /\ TableTypeOK'
  BY <1>0, <1>2, FinishKeepsReads
<1>4. clock' = clock /\ stamp' = stamp /\ stored' = stored
  BY <1>2 DEF tableVars
<1>5. IsTable(stamp, stored) /\ clock \in Nat
  BY TableFacts DEF FiguresInv
<1>6. rd.key \in Keys /\ PeriodStart(rd.key, rd.now) \in Nat
  BY <1>1, RangesAreTyped DEF Reads, PeriodStart
<1>7. SpentInv(stamp, stored, clock, spent')
  <2>1. CASE Refused(rd)
    <3>1. Len(rd.got) = 1 /\ CheckInv(stamp, stored, rd)
      BY <1>1, PlanFacts DEF KindInv
    <3>2. UsedUp(stamp, stored, rd.key, PeriodStart(rd.key, rd.now), clock)
      BY <1>1, <1>5, <2>1, <3>1, RefusedIsUsedUp
    <3>3. spent' = spent \cup {<<rd.key, PeriodStart(rd.key, rd.now)>>}
      BY <2>1 DEF Answer, Noted
    <3> QED BY <1>6, <3>2, <3>3, SpentNoted DEF FiguresInv
  <2>2. CASE ~Refused(rd)
    BY <2>2 DEF Answer, Noted, FiguresInv
  <2> QED BY <2>1, <2>2
<1> QED BY <1>2, <1>3, <1>4, <1>7 DEF FiguresInv, ScreenInv, SnapInv

\* A query fails.
LEMMA FailureKeepsFigures ==
  ASSUME FiguresInv, NEW kind \in Kinds, QueryFails(kind)
  PROVE  FiguresInv'
<1> DEFINE rd == read[kind]
           p == Panel([rd EXCEPT !.floor = 0, !.must = FALSE], [b \in 1..5 |-> 0])
<1>1. rd \in Reads /\ rd.now <= clock
  BY DEF QueryFails, Busy, FiguresInv, ReadsInv
<1>2. /\ read' = [read EXCEPT ![kind] = Idle] /\ UNCHANGED tableVars
      /\ screen' = screen /\ spent' = spent /\ (snap' = snap \/ snap' = p)
  BY DEF QueryFails
<1>3. ReadsInv' /\ (Busy("sidebar")' => Busy("sidebar")) /\ TableTypeOK'
  BY <1>2, FinishKeepsReads
<1>4. clock' = clock /\ stamp' = stamp /\ stored' = stored
  BY <1>2 DEF tableVars
<1>5. PanelInv(stamp, stored, p) /\ p.now = rd.now
  <2>1. IsTable(stamp, stored)
    BY TableFacts DEF FiguresInv
  <2>2. p.now = rd.now
    BY <1>1 DEF Panel, Reads
  <2> HIDE DEF rd, p
  <2> QED BY <1>1, <2>1, <2>2, ZerosAreSound DEF p
<1> HIDE DEF p
<1>6. SnapInv'
  BY <1>1, <1>2, <1>4, <1>5 DEF FiguresInv, SnapInv
<1> QED BY <1>2, <1>3, <1>4, <1>6 DEF FiguresInv, ScreenInv

-----------------------------------------------------------------------------
(***************************************************************************)
(* Every behaviour.                                                        *)
(***************************************************************************)

\* The readers start with nothing.
LEMMA FiguresInitInv ==
  ASSUME FiguresInit
  PROVE  FiguresInv
<1>1. TableTypeOK
  <2>1. clock \in Instants
    BY FiguresAssumption DEF FiguresInit, TableInit
  <2>2. clock \in Nat /\ History \subseteq 0..LastInstant
    BY <2>1, CalendarFacts, FiguresAssumption
  <2>3. /\ stamp \in [Events -> {t \in History : t <= clock} \cup {NotYet}]
        /\ stored = {e \in Events : stamp[e] # NotYet}
    BY DEF FiguresInit, TableInit
  <2>4. \A e \in Events : stamp[e] <= clock
    BY <2>2, <2>3 DEF NotYet
  <2>5. stamp \in [Events -> 0..LastInstant \cup {NotYet}]
    BY <2>2, <2>3
  <2> QED BY <2>1, <2>3, <2>4, <2>5 DEF TableTypeOK
<1>2. /\ read = [kind \in Kinds |-> Idle] /\ screen = Away /\ snap = None /\ spent = {}
  BY DEF FiguresInit
<1>3. ReadsInv
  BY <1>2 DEF ReadsInv, Busy
<1>4. ~Busy("sidebar")
  BY <1>2 DEF Busy, Kinds
<1> QED BY <1>1, <1>2, <1>3, <1>4 DEF FiguresInv, ScreenInv, SnapInv, SpentInv

LEMMA FiguresNextInv ==
  ASSUME FiguresInv, [FiguresNext]_fvars
  PROVE  FiguresInv'
<1>1. CASE TableStep /\ UNCHANGED figureVars
  BY <1>1, TableKeepsFigures
<1>2. ASSUME NEW k \in Keys, OpenPage(k) PROVE FiguresInv'
  <2>1. "page" \in Kinds /\ "page" # "sidebar" /\ Begin("page", k)
        /\ UNCHANGED <<tableVars, screen, snap, spent>>
    BY <1>2 DEF OpenPage, Kinds
  <2> QED BY <2>1, BeginKeepsFigures
<1>3. CASE OpenIndex
  BY <1>2, <1>3, DefaultIsListed DEF OpenIndex
<1>4. CASE ShowPage
  BY <1>4, ShowPageKeepsFigures
<1>5. CASE ConnectStream
  <2>1. "sidebar" \in Kinds /\ Begin("sidebar", screen.key) /\ screen # Away
        /\ UNCHANGED <<tableVars, screen, snap, spent>>
    BY <1>5 DEF ConnectStream, Kinds
  <2>2. screen.key \in Keys
    BY <2>1 DEF FiguresInv, ScreenInv, PanelInv
  <2> QED BY <2>1, <2>2, BeginKeepsFigures
<1>6. CASE OpenStream
  BY <1>6, OpenStreamKeepsFigures
<1>7. CASE Publish
  BY <1>7, PublishKeepsFigures
<1>8. CASE Retire
  <2>1. UNCHANGED <<tableVars, read>> /\ UNCHANGED tableVars /\ snap' = None
        /\ screen' = screen /\ spent' = spent
    BY <1>8 DEF Retire
  <2>2. ReadsInv' /\ TableTypeOK' /\ Busy("sidebar")' = Busy("sidebar")
    BY <2>1, ReadsStand
  <2>3. clock' = clock /\ stamp' = stamp /\ stored' = stored
    BY <2>1 DEF tableVars
  <2> QED BY <2>1, <2>2, <2>3 DEF FiguresInv, ScreenInv, SnapInv
<1>9. CASE Push
  BY <1>9, PushKeepsFigures
<1>10. CASE Leave
  BY <1>10, LeaveKeepsFigures
<1>11. CASE Answer
  BY <1>11, AnswerKeepsFigures
<1>12. CASE PrintLine
  <2>1. "list" \in Kinds /\ read' = [read EXCEPT !["list"] = Idle] /\ UNCHANGED tableVars
        /\ screen' = screen /\ snap' = snap /\ spent' = spent
    BY <1>12 DEF PrintLine, Finish, Kinds
  <2>2. ReadsInv' /\ (Busy("sidebar")' => Busy("sidebar")) /\ TableTypeOK'
    BY <2>1, FinishKeepsReads
  <2>3. clock' = clock /\ stamp' = stamp /\ stored' = stored
    BY <2>1 DEF tableVars
  <2> QED BY <2>1, <2>2, <2>3 DEF FiguresInv, ScreenInv, SnapInv
<1>13. ASSUME NEW k \in Opened, OpenPage(k) \/ Load(k) \/ Check(k) \/ List(k)
       PROVE  FiguresInv'
  <2>1. k \in Keys
    BY FiguresAssumption
  <2>2. {"report", "check", "list"} \subseteq Kinds /\ "sidebar" \notin {"report", "check", "list"}
    BY DEF Kinds
  <2>3. ASSUME NEW kind \in {"report", "check", "list"}, Begin(kind, k),
               UNCHANGED <<tableVars, screen, snap, spent>>
        PROVE  FiguresInv'
    BY <2>1, <2>2, <2>3, BeginKeepsFigures
  <2>4. CASE OpenPage(k)
    BY <1>2, <2>1, <2>4
  <2>5. CASE Load(k)
    BY <2>3, <2>5 DEF Load
  <2>6. CASE Check(k)
    BY <2>3, <2>6 DEF Check
  <2>7. CASE List(k)
    BY <2>3, <2>7 DEF List
  <2> QED BY <1>13, <2>4, <2>5, <2>6, <2>7
<1>14. ASSUME NEW kind \in Kinds, NextSum(kind) \/ QueryFails(kind) PROVE FiguresInv'
  BY <1>14, NextSumKeepsFigures, FailureKeepsFigures
<1>15. CASE UNCHANGED fvars
  <2>1. UNCHANGED <<tableVars, read>> /\ UNCHANGED tableVars /\ snap' = snap
        /\ screen' = screen /\ spent' = spent
    BY <1>15 DEF fvars, figureVars
  <2>2. ReadsInv' /\ TableTypeOK' /\ Busy("sidebar")' = Busy("sidebar")
    BY <2>1, ReadsStand
  <2>3. clock' = clock /\ stamp' = stamp /\ stored' = stored
    BY <2>1 DEF tableVars
  <2> QED BY <2>1, <2>2, <2>3 DEF FiguresInv, ScreenInv, SnapInv
<1> QED BY <1>1, <1>3, <1>4, <1>5, <1>6, <1>7, <1>8, <1>9, <1>10, <1>11, <1>12, <1>13,
           <1>14, <1>15 DEF FiguresNext

\* Every panel is what its read's queries can add up to, whatever was recorded and
\* however often the clock went through a midnight between them.
THEOREM FiguresAreSound == FiguresSpec => []FiguresInv
<1>1. FiguresInit => FiguresInv
  BY FiguresInitInv
<1>2. FiguresInv /\ [FiguresNext]_fvars => FiguresInv'
  BY FiguresNextInv
<1> QED BY <1>1, <1>2, PTL DEF FiguresSpec

\* Whoever's report is looked at has an invariant.
LEMMA PanelsAreSound ==
  ASSUME FiguresInv, NEW p \in Panels
  PROVE  PanelInv(stamp, stored, p)
BY DEF FiguresInv, ScreenInv, SnapInv, Panels

\* BuildReport's windows nest on every screen: no panel shows less for a window than
\* for one inside it, and no line of ragctl list a month above its total.
THEOREM FiguresNest == FiguresSpec => []NestedFigures
<1>1. FiguresInv => NestedFigures
  <2> SUFFICES ASSUME FiguresInv PROVE NestedFigures
    OBVIOUS
  <2>1. ASSUME NEW p \in Panels
        PROVE  /\ p.report[Today] <= p.report[Week] /\ p.report[Today] <= p.report[Month]
               /\ p.report[Week] <= p.report[Month] + p.report[Past]
    BY PanelsAreSound DEF PanelInv, Sound, Nested, Today, Week, Month, Past
  <2>2. ASSUME Complete("list") PROVE read["list"].got[1] <= read["list"].got[2]
    <3>1. /\ read["list"] \in Reads /\ ListInv(stamp, stored, read["list"])
          /\ read["list"].kind = "list" /\ Len(read["list"].got) = Len(Plan(read["list"]))
      BY <2>2 DEF FiguresInv, ReadsInv, Complete, Busy, KindInv, Kinds
    <3>2. Len(read["list"].got) = 2
      BY <3>1, PlanFacts
    <3> QED BY <3>1, <3>2 DEF ListInv
  <2> QED BY <2>1, <2>2 DEF NestedFigures
<1> QED BY <1>1, FiguresAreSound, PTL

\* The figure a lifetime budget is drawn from misses nothing that was in the table when
\* BuildReport began, and counts nothing twice.
THEOREM LifetimesAreBracketed == FiguresSpec => []LifetimeBracketed
<1>1. FiguresInv => LifetimeBracketed
  <2> SUFFICES ASSUME FiguresInv, NEW p \in Panels
               PROVE  p.floor <= Lifelong(p.report)
                      /\ Lifelong(p.report) <= Lifetime(p.key, p.now)
    BY DEF LifetimeBracketed
  <2> DEFINE c == Buckets(stamp, stored, p.key, p.now)
  <2>1. p.key \in Keys /\ p.now \in Instants /\ Sound(p.report, c, p.key, p.floor, p.must)
    BY PanelsAreSound DEF PanelInv
  <2>2. Numbers(c) /\ Lifelong(c) = Lifetime(p.key, p.now)
    <3>1. IsTable(stamp, stored)
      BY TableFacts DEF FiguresInv
    <3>2. Lifetime(p.key, p.now) = SumIn(stamp, stored, p.key, 0, p.now)
      BY TableFacts DEF FiguresInv, Lifetime, Ever
    <3> QED BY <2>1, <3>1, <3>2, BucketsNest
  <2> HIDE DEF c
  <2>3. /\ p.report[3] \in Nat /\ p.report[4] \in Nat /\ p.report[5] \in Nat
        /\ c[3] \in Nat /\ c[4] \in Nat /\ c[5] \in Nat
        /\ p.report[3] <= c[3] /\ p.report[4] <= c[4] /\ p.report[5] <= c[5]
    BY <2>1, <2>2 DEF Sound, Numbers
  <2>4. Lifelong(p.report) <= Lifelong(c)
    BY <2>3 DEF Lifelong, Month, Past, Before
  <2> QED BY <2>1, <2>2, <2>4 DEF Sound
<1> QED BY <1>1, FiguresAreSound, PTL

\* The budget check and the panels agree: who has been found exhausted is found
\* exhausted until the period ends.
THEOREM ExhaustionStays == FiguresSpec => []ExhaustionIsFinal
<1>1. FiguresInv => ExhaustionIsFinal
  <2> SUFFICES ASSUME FiguresInv PROVE ExhaustionIsFinal
    OBVIOUS
  <2>1. ASSUME NEW p \in Panels, p.must PROVE p.over
    BY <2>1, PanelsAreSound DEF PanelInv, Sound
  <2>2. ASSUME Complete("check"), read["check"].must PROVE Refused(read["check"])
    <3>1. /\ read["check"] \in Reads /\ CheckInv(stamp, stored, read["check"])
          /\ read["check"].kind = "check" /\ Len(read["check"].got) = Len(Plan(read["check"]))
      BY <2>2 DEF FiguresInv, ReadsInv, Complete, Busy, KindInv, Kinds
    <3>2. Len(read["check"].got) = 1
      BY <3>1, PlanFacts
    <3>3. Verdict(stamp, stored, read["check"]) = read["check"].got[1]
      BY <3>2 DEF Verdict
    <3> QED BY <2>2, <3>1, <3>3 DEF CheckInv, Refused
  <2> QED BY <2>1, <2>2 DEF ExhaustionIsFinal
<1> QED BY <1>1, FiguresAreSound, PTL
-----------------------------------------------------------------------------
(***************************************************************************)
(* What is shown: the bars, the rows and the masthead.                     *)
(***************************************************************************)
\* A bar that neither overflows its track nor hides a figure.
Fits(width, value) == width \in 0..100 /\ (width = 0 <=> value = 0)

PanelFits(p) ==
  /\ \A b \in 1..5 : Fits(p.widths[b], p.report[b])
  /\ Budget[p.key].tokens # Unlimited => /\ p.over <=> p.meter = 100
                                         /\ p.over <=> p.remaining = 0

\* The events from an instant on, and those of them that are not a key's.
Since(st, sd, from) == Cardinality({e \in sd : st[e] >= from})
OthersSince(st, sd, k, from) == Cardinality({e \in sd : Owner[e] # k /\ st[e] >= from})

\* A sum that has been read is one the table still holds.
GotInv(st, sd, rd) == \A i \in 1..Len(rd.got) : rd.got[i] <= SumOver(st, sd, Plan(rd)[i])

\* The sums of a page: the row of its key was read before its panel.
PageInv(rd) ==
  Listed(rd.key) /\ Len(rd.got) > Len(KeyList) =>
    \A i \in 1..Len(KeyList) : KeyList[i] = rd.key => rd.got[i] <= rd.got[Len(KeyList) + 1]

\* A page is loaded into an empty screen, a stream connected from a page.
ReadsShown ==
  /\ \A kind \in Kinds : Busy(kind) => GotInv(stamp, stored, read[kind])
  /\ Busy("page") => screen = Away /\ PageInv(read["page"])
  /\ Busy("sidebar") => /\ screen # Away /\ screen.stage = "page"
                        /\ read["sidebar"].key = screen.key

\* What a screen shows is in the table; the parts of a masthead share no event.
ScreenShows(st, sd, s) ==
  /\ {"stage", "key", "panel", "row", "total", "since"} \subseteq DOMAIN s
  /\ s.stage \in {"page", "stream"} /\ Listed(s.key) /\ PanelFits(s.panel)
  /\ s.row.today \in Nat /\ Fits(s.row.width, s.row.today)
  /\ s.row.today <= s.panel.report[Today] /\ s.row.today <= s.total
  /\ s.total \in Nat /\ s.since \in Instants /\ s.total <= Since(st, sd, StartOfDay(s.since))
  /\ s.stage = "stream" =>
       /\ "side" \in DOMAIN s
       /\ s.side.others \in Nat /\ s.side.peak \in Nat /\ s.side.now \in Instants
       /\ s.side.others <= OthersSince(st, sd, s.key, StartOfDay(s.side.now))

ShownInv ==
  /\ ReadsShown
  /\ screen # Away => ScreenShows(stamp, stored, screen)
  /\ snap # None => PanelFits(snap)
  /\ spent \subseteq Keys \X (0..LastInstant)

-----------------------------------------------------------------------------
\* A bar drawn against a peak that is no smaller than its value.
LEMMA BarIsInTrack ==
  ASSUME NEW v \in Nat, NEW peak \in Int, v <= peak
  PROVE  Fits(BarWidth(v, peak), v)
<1>1. CASE v = 0
  BY <1>1 DEF Fits, BarWidth
<1>2. CASE v > 0
  <2> DEFINE pct == (v * 100) \div peak
  <2>1. \A a \in Nat, b \in Nat \ {0} : a <= b => (a * 100) \div b \in 0..100
    <3>1. ASSUME NEW a \in Nat, NEW b \in Nat \ {0}, a <= b PROVE (a * 100) \div b \in 0..100
      <4> DEFINE x == a * 100
                 q == x \div b
      <4>1. x \in Nat /\ x <= 100 * b
        BY <3>1
      <4>2. \A y \in Nat, c \in Nat \ {0} : y \div c \in Nat /\ c * (y \div c) <= y
        OBVIOUS
      <4> HIDE DEF x
      <4>3. q \in Nat /\ b * q <= x
        BY <4>1, <4>2
      <4> HIDE DEF q
      <4>4. b * q <= b * 100
        BY <4>1, <4>3
      <4>5. q <= 100
        <5>1. \A m, n \in Nat, c \in Nat \ {0} : c * m <= c * n => m <= n
          OBVIOUS
        <5> QED BY <4>3, <4>4, <5>1
      <4> QED BY <4>3, <4>5 DEF q, x
    <3> QED BY <3>1
  <2>2. pct \in 0..100 /\ peak > 0
    BY <1>2, <2>1
  <2>3. BarWidth(v, peak) = IF pct < 2 THEN 2 ELSE pct
    BY <1>2, <2>2 DEF BarWidth
  <2> HIDE DEF pct
  <2> QED BY <1>2, <2>2, <2>3 DEF Fits
<1> QED BY <1>1, <1>2

\* The meter is full, and nothing remains, exactly when the budget is used up.
LEMMA MeterTells ==
  ASSUME NEW k \in Keys, Budget[k].tokens # Unlimited, NEW report, Used(k, report) \in Nat
  PROVE  /\ Over(k, report) <=> MeterWidth(k, report) = 100
         /\ Over(k, report) <=> Remaining(k, report) = 0
<1> DEFINE u == Used(k, report)
           t == Budget[k].tokens
           q == (u * 100) \div t
<1>1. u \in Nat /\ t \in Nat \ {0}
  BY FiguresAssumption
<1>2. Over(k, report) <=> u >= t
  BY <1>1 DEF Over, Unlimited
<1>3. MeterWidth(k, report) = Min({q, 100}) /\ Remaining(k, report) = Max({t - u, 0})
  BY DEF MeterWidth, Remaining
<1> HIDE DEF u, t
<1>4. q \in Nat /\ (q >= 100 <=> u >= t)
  <2>1. \A x \in Nat, c \in Nat \ {0} :
          x \div c \in Nat /\ c * (x \div c) <= x /\ x < c * (x \div c) + c
    OBVIOUS
  <2>2. u * 100 \in Nat
    BY <1>1
  <2>3. q \in Nat /\ t * q <= u * 100 /\ u * 100 < t * q + t
    BY <1>1, <2>1, <2>2
  <2> HIDE DEF q
  <2>4. ASSUME u >= t PROVE q >= 100
    <3> SUFFICES ASSUME q + 1 <= 100 PROVE FALSE
      BY <2>3
    <3>1. \A a, b \in Nat, c \in Nat : a <= b => c * a <= c * b
      OBVIOUS
    <3>2. t * (q + 1) <= t * 100
      BY <1>1, <2>3, <3>1
    <3>3. t * (q + 1) = t * q + t /\ t * 100 <= u * 100
      BY <1>1, <2>3, <2>4
    <3> QED BY <1>1, <2>3, <3>2, <3>3
  <2>5. ASSUME q >= 100 PROVE u >= t
    <3>1. \A a, b \in Nat, c \in Nat : a <= b => c * a <= c * b
      OBVIOUS
    <3>2. t * 100 <= t * q
      BY <1>1, <2>3, <2>5, <3>1
    <3> QED BY <1>1, <2>3, <3>2
  <2> QED BY <2>3, <2>4, <2>5
<1>5. Min({q, 100}) = (IF q <= 100 THEN q ELSE 100) /\ t - u \in Int
      /\ Max({t - u, 0}) = IF t - u >= 0 THEN t - u ELSE 0
  <2>1. q \in Int /\ 100 \in Int /\ 0 \in Int /\ t - u \in Int
    BY <1>1, <1>4
  <2>2. Min({q, 100}) = IF q <= 100 THEN q ELSE 100
    <3> DEFINE d == 100
    <3> HIDE DEF d
    <3>1. d \in Int
      BY <2>1 DEF d
    <3>2. Min({q, d}) = IF q <= d THEN q ELSE d
      BY <2>1, <3>1, TwoNumbers
    <3> QED BY <3>2 DEF d
  <2>3. Max({t - u, 0}) = IF t - u >= 0 THEN t - u ELSE 0
    <3> DEFINE d == t - u
    <3> HIDE DEF d
    <3> QED BY <2>1, TwoNumbers DEF d
  <2> QED BY <2>1, <2>2, <2>3
<1> HIDE DEF q
<1> QED BY <1>1, <1>2, <1>3, <1>4, <1>5

\* The highest of some numbers is no smaller than any of them.
LEMMA PeakIsHighest ==
  ASSUME NEW n \in Nat, NEW m \in Nat, NEW s \in [1..n -> 0..m]
  PROVE  Peak(s) \in Nat /\ \A i \in 1..n : s[i] <= Peak(s)
<1> DEFINE S == ToSet(s) \cup {0}
<1>1. S \in SUBSET (0..m) /\ S # {} /\ \A i \in 1..n : s[i] \in S
  BY DEF ToSet
<1> HIDE DEF S
<1>2. Max(S) \in S /\ \A y \in S : y <= Max(S)
  BY <1>1, MaxIsGreatest
<1>3. Peak(s) = Max(S)
  BY DEF Peak, S
<1>4. Max(S) \in Nat
  <2>1. Max(S) \in 0..m
    BY <1>1, <1>2
  <2> QED BY <2>1
<1> QED BY <1>1, <1>2, <1>3, <1>4

\* A panel of five figures is drawn as it should be.
LEMMA PanelIsDrawn ==
  ASSUME NEW rd, rd.key \in Keys, NEW m \in Nat, NEW report \in [1..5 -> 0..m],
         NEW p, p = Panel(rd, report)
  PROVE  PanelFits(p)
<1>1. /\ p.key = rd.key /\ p.report = report /\ p.over = Over(rd.key, report)
      /\ p.widths = Widths(report) /\ p.meter = MeterWidth(rd.key, report)
      /\ p.remaining = Remaining(rd.key, report)
  BY DEF Panel
<1>2. Peak(report) \in Nat /\ \A b \in 1..5 : report[b] \in Nat /\ report[b] <= Peak(report)
  <2>1. 5 \in Nat /\ \A b \in 1..5 : report[b] \in Nat
    OBVIOUS
  <2>2. Peak(report) \in Nat /\ \A b \in 1..5 : report[b] <= Peak(report)
    BY <2>1, PeakIsHighest
  <2> QED BY <2>1, <2>2
<1>3. ASSUME NEW b \in 1..5 PROVE Fits(p.widths[b], p.report[b])
  <2>1. p.widths[b] = BarWidth(report[b], Peak(report))
    BY <1>1 DEF Widths
  <2> QED BY <1>1, <1>2, <2>1, BarIsInTrack
<1>4. Used(rd.key, report) \in Nat
  <2>1. report[3] \in Nat /\ report[4] \in Nat /\ report[5] \in Nat
    BY <1>2
  <2> QED BY <2>1 DEF Used, Lifelong, Month, Past, Before
<1>5. ASSUME Budget[rd.key].tokens # Unlimited
      PROVE  (p.over <=> p.meter = 100) /\ (p.over <=> p.remaining = 0)
  BY <1>1, <1>4, <1>5, MeterTells
<1> QED BY <1>1, <1>3, <1>5 DEF PanelFits

-----------------------------------------------------------------------------
\* A sum is no more than there are events.
LEMMA SumAtMostAll ==
  ASSUME NEW st, NEW sd, IsTable(st, sd), NEW k, NEW f \in Int, NEW t \in Int
  PROVE  /\ Cardinality(Events) \in Nat
         /\ SumIn(st, sd, k, f, t) \in 0..Cardinality(Events)
<1> DEFINE A == {e \in sd : Owner[e] = k /\ f <= st[e] /\ st[e] < t}
<1>1. A \in SUBSET Events /\ IsFiniteSet(Events)
  BY CalendarAssumption DEF IsTable
<1> HIDE DEF A
<1>2. /\ Cardinality(A) \in Nat /\ Cardinality(Events) \in Nat
      /\ Cardinality(A) <= Cardinality(Events)
  BY <1>1, FS_Subset, FS_CardinalityType
<1> QED BY <1>2 DEF SumIn, A

\* More is recorded from an instant on, never less.
LEMMA SinceGrows ==
  ASSUME NEW st, NEW sd, NEW st2, NEW sd2, Later(st, sd, st2, sd2), NEW k, NEW f \in Int
  PROVE  /\ Since(st, sd, f) \in Nat /\ Since(st2, sd2, f) \in Nat
         /\ Since(st, sd, f) <= Since(st2, sd2, f)
         /\ OthersSince(st, sd, k, f) \in Nat /\ OthersSince(st2, sd2, k, f) \in Nat
         /\ OthersSince(st, sd, k, f) <= OthersSince(st2, sd2, k, f)
<1> DEFINE A == {e \in sd : st[e] >= f}
           B == {e \in sd2 : st2[e] >= f}
           C == {e \in sd : Owner[e] # k /\ st[e] >= f}
           D == {e \in sd2 : Owner[e] # k /\ st2[e] >= f}
<1>1. B \in SUBSET Events /\ D \in SUBSET Events /\ IsFiniteSet(Events)
  BY CalendarAssumption DEF Later, IsTable
<1>2. A \in SUBSET B /\ C \in SUBSET D
  BY DEF Later
<1> HIDE DEF A, B, C, D
<1>3. IsFiniteSet(B) /\ IsFiniteSet(D)
  BY <1>1, FS_Subset
<1>4. IsFiniteSet(A) /\ IsFiniteSet(C)
  BY <1>2, <1>3, FS_Subset
<1>5. Cardinality(A) <= Cardinality(B) /\ Cardinality(C) <= Cardinality(D)
  BY <1>2, <1>3, FS_Subset
<1>6. /\ Cardinality(A) \in Nat /\ Cardinality(B) \in Nat
      /\ Cardinality(C) \in Nat /\ Cardinality(D) \in Nat
  BY <1>3, <1>4, FS_CardinalityType
<1> QED BY <1>5, <1>6 DEF Since, OthersSince, A, B, C, D

\* A later instant is not in an earlier day.
LEMMA DaysInOrder ==
  ASSUME NEW a \in Nat, NEW b \in Nat, a <= b
  PROVE  StartOfDay(a) <= StartOfDay(b)
<1>1. DayTicks \in Nat \ {0}
  BY CalendarAssumption
<1> DEFINE d == a \div DayTicks
<1>2. d \in Nat /\ StartOfDay(a) = d * DayTicks
  <2>1. \A x \in Nat, c \in Nat \ {0} : x \div c \in Nat /\ x - (x % c) = (x \div c) * c
    OBVIOUS
  <2> QED BY <1>1, <2>1 DEF StartOfDay
<1> HIDE DEF d
<1>3. StartOfDay(a) <= a /\ StartOfDay(a) \in Nat
  BY DayStarts
<1>4. d * DayTicks <= b
  BY <1>2, <1>3
<1> QED BY <1>2, <1>4, DayStarts

\* The sum of the keys' figures for a day is no more than the events they come from:
\* each event has one owner.
LEMMA TotalOfKeys ==
  ASSUME NEW st, NEW sd, IsTable(st, sd), NEW now \in Instants, NEW m \in Nat,
         NEW t \in [1..Len(KeyList) -> 0..m], NEW U, IsFiniteSet(U),
         \A i \in 1..Len(KeyList) :
            t[i] <= SumIn(st, sd, KeyList[i], StartOfDay(now), now),
         \A i \in 1..Len(KeyList), e \in sd :
            t[i] > 0 /\ Owner[e] = KeyList[i] /\ st[e] >= StartOfDay(now) => e \in U
  PROVE  /\ Total(t) \in Nat /\ Total(t) <= Cardinality(U)
         /\ \A i \in 1..Len(KeyList) : t[i] <= Total(t)
<1> DEFINE n == Len(KeyList)
           of(i) == {e \in sd : Owner[e] = KeyList[i] /\ StartOfDay(now) <= st[e] /\ st[e] < now}
           A == [i \in 1..n |-> IF t[i] = 0 THEN {} ELSE of(i)]
<1>1. /\ n \in Nat /\ DOMAIN KeyList = 1..n /\ IsFiniteSet(1..n)
      /\ \A i, j \in 1..n : KeyList[i] = KeyList[j] => i = j
  <2>1. KeyList \in Seq(Keys) /\ \A i, j \in DOMAIN KeyList : KeyList[i] = KeyList[j] => i = j
    BY FiguresAssumption DEF IsInjective
  <2>2. Len(KeyList) \in Nat /\ DOMAIN KeyList = 1..Len(KeyList)
    BY <2>1
  <2>3. IsFiniteSet(1..Len(KeyList))
    BY <2>2, FS_Interval
  <2> QED BY <2>1, <2>2, <2>3
<1>2. Total(t) = Cardinality(Units(t, 1..n))
  BY <1>1, SumIsCount DEF Total
<1>3. A \in [1..n -> SUBSET U]
  <2>1. ASSUME NEW i \in 1..n PROVE A[i] \in SUBSET U
    <3>1. t[i] \in 0..m
      OBVIOUS
    <3>2. CASE t[i] = 0
      BY <3>2
    <3>3. CASE t[i] > 0
      <4>1. \A e \in sd : StartOfDay(now) <= st[e] => st[e] >= StartOfDay(now)
        BY CalendarFacts DEF IsTable
      <4>2. of(i) \in SUBSET U
        BY <3>3, <4>1
      <4> QED BY <3>3, <4>2
    <3> QED BY <3>1, <3>2, <3>3
  <2> QED BY <2>1
<1>4. \A i, j \in 1..n : i # j => A[i] \cap A[j] = {}
  <2>1. ASSUME NEW i \in 1..n, NEW j \in 1..n, i # j PROVE A[i] \cap A[j] = {}
    <3>1. A[i] \subseteq of(i) /\ A[j] \subseteq of(j)
      OBVIOUS
    <3>2. KeyList[i] # KeyList[j]
      BY <1>1, <2>1
    <3> QED BY <3>1, <3>2
  <2> QED BY <2>1
<1>5. ASSUME NEW i \in 1..n PROVE t[i] \in Nat /\ t[i] <= Cardinality(A[i])
  <2>1. t[i] \in 0..m /\ t[i] <= Cardinality(of(i))
    BY DEF SumIn
  <2>2. CASE t[i] = 0
    <3>1. A[i] = {}
      BY <2>2
    <3>2. Cardinality(A[i]) = 0
      BY <3>1, FS_EmptySet
    <3> QED BY <2>2, <3>2
  <2>3. CASE t[i] # 0
    <3>1. A[i] = of(i)
      BY <2>3
    <3> HIDE DEF A, of
    <3> QED BY <2>1, <3>1
  <2> QED BY <2>2, <2>3
<1>6. \A i \in 1..n : t[i] \in 0..m
  OBVIOUS
<1> HIDE DEF A
<1>7. Cardinality(Units(t, 1..n)) <= Cardinality(U)
  BY <1>3, <1>4, <1>5, UnitsOfParts
<1>8. Cardinality(Units(t, 1..n)) \in Nat
  BY <1>1, <1>6, UnitsCount
<1>9. ASSUME NEW i \in 1..n PROVE t[i] <= Cardinality(Units(t, 1..n))
  <2> DEFINE R == (1..n) \ {i}
  <2>1. IsFiniteSet(R) /\ \A j \in R : t[j] \in 0..m
    BY <1>1, <1>6, FS_RemoveElement
  <2>2. \A j \in 1..n :
          Cardinality(Units(t, 1..n)) = t[j] + Cardinality(Units(t, (1..n) \ {j}))
    <3> DEFINE S == 1..n
    <3>1. IsFiniteSet(S) /\ m \in Nat /\ Counts(t, S, m)
      BY <1>1, <1>6 DEF Counts
    <3> HIDE DEF S
    <3>2. \A j \in S : Cardinality(Units(t, S)) = t[j] + Cardinality(Units(t, S \ {j}))
      BY <3>1, UnitsTaken
    <3> QED BY <3>2 DEF S
  <2> HIDE DEF R
  <2>3. Cardinality(Units(t, R)) \in Nat
    BY <2>1, UnitsCount
  <2>4. Cardinality(Units(t, 1..n)) = t[i] + Cardinality(Units(t, R))
    BY <2>2 DEF R
  <2>5. t[i] \in Nat
    BY <1>5
  <2> QED BY <2>3, <2>4, <2>5
<1> QED BY <1>2, <1>7, <1>8, <1>9

\* The first sums of a page, and all of a sidebar's, are the keys' todays.
LEMMA TodaysFirst ==
  ASSUME NEW st, NEW sd, NEW rd \in Reads, rd.kind \in {"page", "sidebar"}
  PROVE  /\ \A i \in 1..Len(KeyList) :
              SumOver(st, sd, Plan(rd)[i])
                = SumIn(st, sd, KeyList[i], StartOfDay(rd.now), rd.now)
         /\ Len(KeyList) \in Nat /\ Len(KeyList) <= Len(Plan(rd))
         /\ rd.kind = "sidebar" => Len(Plan(rd)) = Len(KeyList)
         /\ rd.kind = "page" /\ Listed(rd.key) => Len(Plan(rd)) = Len(KeyList) + 5
<1> DEFINE n == Len(KeyList)
           T == Todays(rd.now)
           R == IF rd.kind = "page" /\ Listed(rd.key) THEN Report(rd.key, rd.now) ELSE << >>
<1>1. KeyList \in Seq(Keys) /\ n \in Nat /\ DOMAIN KeyList = 1..n
  BY FiguresAssumption
<1>2. T = [i \in 1..n |-> Query(KeyList[i], ReportWindows(rd.now)[1])]
  BY <1>1 DEF Todays, Today
<1> DEFINE Queried == {T[i] : i \in 1..n} \cup {R[i] : i \in 1..5}
<1>3. T \in Seq(Queried) /\ Len(T) = n
  BY <1>1, <1>2
<1>4. R \in Seq(Queried) /\ (Len(R) = 5 \/ Len(R) = 0)
  <2>1. CASE rd.kind = "page" /\ Listed(rd.key)
    <3>1. R = [b \in 1..5 |-> Query(rd.key, ReportWindows(rd.now)[b])]
      BY <2>1 DEF Report
    <3>2. \A b \in 1..5 : R[b] \in Queried
      OBVIOUS
    <3> HIDE DEF R, Queried
    <3> QED BY <3>1, <3>2
  <2>2. CASE ~(rd.kind = "page" /\ Listed(rd.key))
    <3>1. R = << >>
      BY <2>2
    <3> HIDE DEF R
    <3> QED BY <3>1
  <2> QED BY <2>1, <2>2
<1>5. Plan(rd) = T \o R \/ Plan(rd) = T
  BY DEF Plan
<1>6. T \o R \in Seq(Queried) /\ Len(T \o R) = Len(T) + Len(R)
      /\ \A i \in 1..(Len(T) + Len(R)) :
           (T \o R)[i] = IF i <= Len(T) THEN T[i] ELSE R[i - Len(T)]
  <2> HIDE DEF T, R, Queried
  <2>1. T \in Seq(Queried)
    BY <1>3
  <2>2. R \in Seq(Queried)
    BY <1>4
  <2> QED BY <2>1, <2>2, ConcatProperties, Zenon
<1>7. ASSUME NEW i \in 1..n PROVE Plan(rd)[i] = T[i]
  <2>1. i \in 1..(Len(T) + Len(R)) /\ i <= Len(T)
    BY <1>1, <1>3, <1>4
  <2> HIDE DEF T, R
  <2>2. (T \o R)[i] = T[i]
    BY <1>6, <2>1
  <2> QED BY <1>5, <2>2
<1>8. ASSUME NEW i \in 1..n
      PROVE  SumOver(st, sd, T[i]) = SumIn(st, sd, KeyList[i], StartOfDay(rd.now), rd.now)
  <2>1. T[i] = Query(KeyList[i], ReportWindows(rd.now)[1])
    BY <1>2
  <2> QED BY <2>1 DEF SumOver, Query, ReportWindows, Span
<1>9. n <= Len(Plan(rd))
  <2> HIDE DEF T, R
  <2> QED BY <1>1, <1>3, <1>4, <1>5, <1>6
<1>10. rd.kind = "sidebar" => Len(Plan(rd)) = n
  <2>1. rd.kind = "sidebar" => Plan(rd) = T
    BY DEF Plan
  <2> QED BY <1>3, <2>1
<1>11. rd.kind = "page" /\ Listed(rd.key) => Len(Plan(rd)) = n + 5
  BY PlanFacts
<1> QED BY <1>1, <1>7, <1>8, <1>9, <1>10, <1>11

-----------------------------------------------------------------------------
\* A budget period begins before the instant it is looked at.
LEMMA PeriodStartsEarly ==
  ASSUME NEW k \in Keys, NEW now \in Instants
  PROVE  PeriodStart(k, now) \in 0..LastInstant
<1>1. /\ StartOfMonth(now) \in Nat /\ StartOfMonth(now) <= StartOfDay(now)
      /\ StartOfDay(now) \in Nat /\ StartOfDay(now) <= now /\ now \in Nat
  BY CalendarFacts
<1>2. now <= LastInstant /\ LastInstant \in Nat
  BY CalendarAssumption DEF Instants
<1> QED BY <1>1, <1>2 DEF PeriodStart, PeriodWindow, ReportWindows, Ever, Span, Month

\* What has been read was in the table, and still is.
LEMMA GotTyped ==
  ASSUME NEW st, NEW sd, IsTable(st, sd), NEW rd \in Reads, Len(rd.got) <= Len(Plan(rd)),
         GotInv(st, sd, rd)
  PROVE  \A i \in 1..Len(rd.got) : rd.got[i] \in 0..Cardinality(Events)
<1> SUFFICES ASSUME NEW i \in 1..Len(rd.got) PROVE rd.got[i] \in 0..Cardinality(Events)
  OBVIOUS
<1>1. rd.got[i] \in Nat /\ rd.got[i] <= SumOver(st, sd, Plan(rd)[i])
      /\ i \in 1..Len(Plan(rd))
  BY PlanFacts DEF GotInv, Reads
<1>2. Plan(rd)[i].range.from \in Int /\ Plan(rd)[i].range.to \in Int
  BY <1>1, PlanFacts
<1>3. SumOver(st, sd, Plan(rd)[i]) \in 0..Cardinality(Events) /\ Cardinality(Events) \in Nat
  BY <1>2, SumAtMostAll DEF SumOver
<1> QED BY <1>1, <1>3

LEMMA GotLater ==
  ASSUME NEW st, NEW sd, NEW st2, NEW sd2, Later(st, sd, st2, sd2), NEW rd \in Reads,
         Len(rd.got) <= Len(Plan(rd)), GotInv(st, sd, rd)
  PROVE  GotInv(st2, sd2, rd)
<1> SUFFICES ASSUME NEW i \in 1..Len(rd.got)
             PROVE  rd.got[i] <= SumOver(st2, sd2, Plan(rd)[i])
  BY DEF GotInv
<1> DEFINE q == Plan(rd)[i]
<1>1. rd.got[i] \in Nat /\ rd.got[i] <= SumOver(st, sd, q) /\ i \in 1..Len(Plan(rd))
  BY PlanFacts DEF GotInv, Reads
<1>2. q.range.from \in Int /\ q.range.to \in Int
  BY <1>1, PlanFacts
<1> HIDE DEF q
<1>3. /\ SumOver(st, sd, q) <= SumOver(st2, sd2, q)
      /\ SumOver(st, sd, q) \in Nat /\ SumOver(st2, sd2, q) \in Nat
  BY <1>2, SumGrows, SumWider DEF SumOver, Later
<1> QED BY <1>1, <1>3 DEF q

\* The next sum is read from the table as it is; a page's panel starts with the figure
\* its row started with, read again.
LEMMA GotNext ==
  ASSUME NEW st, NEW sd, IsTable(st, sd), NEW rd \in Reads, Len(rd.got) <= Len(Plan(rd)),
         Len(rd.got) # Len(Plan(rd)), GotInv(st, sd, rd), NEW x, NEW rd2,
         x = SumOver(st, sd, Plan(rd)[Len(rd.got) + 1]),
         rd2 = [rd EXCEPT !.got = Append(rd.got, x)]
  PROVE  /\ GotInv(st, sd, rd2)
         /\ rd.kind = "page" /\ PageInv(rd) => PageInv(rd2)
<1> DEFINE n == Len(rd.got)
           N == Len(KeyList)
<1>1. /\ n \in Nat /\ N \in Nat /\ rd.got \in Seq(Nat) /\ n + 1 \in 1..Len(Plan(rd))
      /\ n <= Len(Plan(rd)) /\ Len(Plan(rd)) \in Nat
  BY PlanFacts DEF Reads
<1>2. x \in Nat
  <2>1. Plan(rd)[n + 1].range.from \in Int /\ Plan(rd)[n + 1].range.to \in Int
    BY <1>1, PlanFacts
  <2> QED BY <2>1, SumWider DEF SumOver
<1>3. /\ rd2.kind = rd.kind /\ rd2.key = rd.key /\ rd2.now = rd.now
      /\ rd2.got = Append(rd.got, x) /\ Len(rd2.got) = n + 1 /\ rd2.got[n + 1] = x
      /\ \A i \in 1..n : rd2.got[i] = rd.got[i]
  BY <1>1, <1>2 DEF Reads
<1>4. Plan(rd2) = Plan(rd)
  <2>1. rd2.kind = rd.kind /\ rd2.key = rd.key /\ rd2.now = rd.now
    BY <1>3
  <2> QED BY ONLY <2>1 DEF Plan
<1>5. GotInv(st, sd, rd2)
  <2>1. ASSUME NEW i \in 1..(n + 1) PROVE rd2.got[i] <= SumOver(st, sd, Plan(rd)[i])
    <3>1. CASE i = n + 1
      BY <1>2, <1>3, <3>1
    <3>2. CASE i # n + 1
      <4>1. i \in 1..n
        BY <1>1, <3>2
      <4> QED BY <1>3, <4>1 DEF GotInv
    <3> QED BY <3>1, <3>2
  <2> QED BY <1>3, <1>4, <2>1 DEF GotInv
<1>6. ASSUME rd.kind = "page", PageInv(rd) PROVE PageInv(rd2)
  <2> SUFFICES ASSUME Listed(rd.key), n + 1 > N, NEW i \in 1..N, KeyList[i] = rd.key
               PROVE  rd2.got[i] <= rd2.got[N + 1]
    BY <1>3 DEF PageInv
  <2>1. CASE n > N
    <3>1. i \in 1..n /\ N + 1 \in 1..n
      BY <1>1, <2>1
    <3>2. \A j \in 1..N : KeyList[j] = rd.key => rd.got[j] <= rd.got[N + 1]
      BY ONLY <1>6, <2>1, Listed(rd.key) DEF PageInv
    <3>3. rd.got[i] <= rd.got[N + 1]
      BY <3>2
    <3> QED BY <1>3, <3>1, <3>3
  <2>2. CASE n = N
    <3>1. rd2.got[i] = rd.got[i] /\ rd.got[i] <= SumOver(st, sd, Plan(rd)[i])
      BY <1>3, <2>2 DEF GotInv
    <3>2. SumOver(st, sd, Plan(rd)[i])
            = SumIn(st, sd, rd.key, StartOfDay(rd.now), rd.now)
      BY <1>6, TodaysFirst
    <3>3. Plan(rd)[N + 1] = Report(rd.key, rd.now)[1]
      BY <1>6, PlanFacts
    <3>4. x = SumIn(st, sd, rd.key, StartOfDay(rd.now), rd.now)
      BY <2>2, <3>3 DEF SumOver, Report, Query, ReportWindows, Span
    <3> QED BY <1>3, <2>2, <3>1, <3>2, <3>4
  <2>3. n > N \/ n = N
    BY <1>1
  <2> QED BY <2>1, <2>2, <2>3
<1> QED BY <1>5, <1>6

\* What a screen shows stays true while calls are recorded.
LEMMA ScreenLater ==
  ASSUME NEW st, NEW sd, NEW st2, NEW sd2, Later(st, sd, st2, sd2), NEW s,
         ScreenShows(st, sd, s)
  PROVE  ScreenShows(st2, sd2, s)
<1>1. s.since \in Instants /\ s.total \in Nat /\ s.total <= Since(st, sd, StartOfDay(s.since))
  BY DEF ScreenShows
<1>2. s.total <= Since(st2, sd2, StartOfDay(s.since))
  <2>1. StartOfDay(s.since) \in Int
    BY <1>1, CalendarFacts
  <2>2. /\ Since(st, sd, StartOfDay(s.since)) \in Nat
        /\ Since(st2, sd2, StartOfDay(s.since)) \in Nat
        /\ Since(st, sd, StartOfDay(s.since)) <= Since(st2, sd2, StartOfDay(s.since))
    BY <2>1, SinceGrows
  <2> QED BY <1>1, <2>2
<1>3. ASSUME s.stage = "stream"
      PROVE  s.side.others <= OthersSince(st2, sd2, s.key, StartOfDay(s.side.now))
  <2> DEFINE f == StartOfDay(s.side.now)
  <2>1. s.side.others \in Nat /\ s.side.now \in Instants
        /\ s.side.others <= OthersSince(st, sd, s.key, f)
    BY <1>3 DEF ScreenShows
  <2>2. f \in Int
    BY <2>1, CalendarFacts
  <2> HIDE DEF f
  <2>3. /\ OthersSince(st, sd, s.key, f) \in Nat /\ OthersSince(st2, sd2, s.key, f) \in Nat
        /\ OthersSince(st, sd, s.key, f) <= OthersSince(st2, sd2, s.key, f)
    BY <2>2, SinceGrows
  <2>4. s.side.others <= OthersSince(st2, sd2, s.key, f)
    BY <2>1, <2>3
  <2> QED BY <2>4 DEF f
<1> QED BY <1>2, <1>3 DEF ScreenShows

-----------------------------------------------------------------------------
\* The masthead of a stream: the others' figures and the key's own.
LEMMA OwnAndOthers ==
  ASSUME NEW st, NEW sd, IsTable(st, sd), NEW k, NEW f \in Int, NEW f1 \in Int,
         NEW t \in Int, NEW f2 \in Int, f <= f1, f <= f2
  PROVE  SumIn(st, sd, k, f1, t) + OthersSince(st, sd, k, f2) <= Since(st, sd, f)
<1> DEFINE A == {e \in sd : Owner[e] = k /\ f1 <= st[e] /\ st[e] < t}
           B == {e \in sd : Owner[e] # k /\ st[e] >= f2}
           C == {e \in sd : st[e] >= f}
<1>1. C \in SUBSET Events /\ A \cap B = {} /\ A \cup B \in SUBSET C /\ IsFiniteSet(Events)
  BY CalendarAssumption DEF IsTable
<1> HIDE DEF A, B, C
<1>2. IsFiniteSet(C)
  BY <1>1, FS_Subset
<1>3. A \in SUBSET C /\ B \in SUBSET C
  BY <1>1
<1>4. IsFiniteSet(A) /\ IsFiniteSet(B) /\ Cardinality(A \cup B) <= Cardinality(C)
  BY <1>1, <1>2, <1>3, FS_Subset
<1>5. /\ Cardinality({}) = 0 /\ Cardinality(A) \in Nat /\ Cardinality(B) \in Nat
      /\ Cardinality(A \cup B) = Cardinality(A) + Cardinality(B) - Cardinality(A \cap B)
  BY <1>4, FS_EmptySet, FS_CardinalityType, FS_Union
<1>6. Cardinality(A) + Cardinality(B) <= Cardinality(C)
  <2>1. Cardinality(A \cap B) = 0
    BY <1>1, <1>5
  <2> QED BY <1>4, <1>5, <2>1
<1> QED BY <1>6 DEF SumIn, OthersSince, Since, A, B, C

\* What is noted is in the calendar.
LEMMA NotedInTime ==
  ASSUME NEW k \in Keys, NEW now \in Instants, NEW x, Noted(k, now, x),
         spent \subseteq Keys \X (0..LastInstant)
  PROVE  spent' \subseteq Keys \X (0..LastInstant)
<1>1. PeriodStart(k, now) \in 0..LastInstant
  BY PeriodStartsEarly
<1> QED BY <1>1 DEF Noted

\* A panel is drawn as it should be whatever is recorded.
LEMMA PanelOfRead ==
  ASSUME NEW rd \in Reads, NEW st, NEW sd, IsTable(st, sd), NEW o \in Nat,
         Len(rd.got) = o + 5, Len(rd.got) <= Len(Plan(rd)), GotInv(st, sd, rd),
         NEW report, report \in [1..5 -> Nat], \A b \in 1..5 : report[b] = rd.got[o + b]
  PROVE  PanelFits(Panel(rd, report))
<1> DEFINE m == Cardinality(Events)
<1>1. m \in Nat
  BY CalendarAssumption, FS_CardinalityType
<1>2. \A i \in 1..Len(rd.got) : rd.got[i] \in 0..m
  BY GotTyped
<1>3. rd.key \in Keys
  BY DEF Reads
<1> HIDE DEF m
<1>4. report \in [1..5 -> 0..m]
  <2>1. ASSUME NEW b \in 1..5 PROVE report[b] \in 0..m
    <3>1. o + b \in 1..Len(rd.got)
      OBVIOUS
    <3> QED BY <1>2, <3>1
  <2> QED BY <2>1
<1> QED BY <1>1, <1>3, <1>4, PanelIsDrawn

\* Reads that end, or are given up, leave the others as they were.
LEMMA ReadsGivenUp ==
  ASSUME ReadsShown, UNCHANGED <<stamp, stored>>,
         \A j \in Kinds : read'[j] = Idle \/ read'[j] = read[j]
  PROVE  /\ \A kind \in Kinds : Busy(kind)' => GotInv(stamp', stored', read'[kind])
         /\ Busy("page")' => screen = Away /\ PageInv(read'["page"])
         /\ Busy("sidebar")' => /\ screen # Away /\ screen.stage = "page"
                                /\ read'["sidebar"].key = screen.key
BY DEF ReadsShown, Busy, Kinds

-----------------------------------------------------------------------------
\* What is shown survives a step of the table.
LEMMA TableKeepsShown ==
  ASSUME FiguresInv, ShownInv, TableStep, UNCHANGED figureVars
  PROVE  ShownInv'
<1>1. Later(stamp, stored, stamp', stored')
  BY TableMovesOn DEF FiguresInv
<1>2. read' = read /\ screen' = screen /\ snap' = snap /\ spent' = spent
  BY DEF figureVars
<1>3. ASSUME NEW kind \in Kinds, Busy(kind) PROVE GotInv(stamp', stored', read[kind])
  <2>1. /\ read[kind] \in Reads /\ Len(read[kind].got) <= Len(Plan(read[kind]))
        /\ GotInv(stamp, stored, read[kind])
    BY <1>3 DEF FiguresInv, ReadsInv, Busy, KindInv, ShownInv, ReadsShown
  <2> QED BY <1>1, <2>1, GotLater
<1>4. ReadsShown'
  BY <1>2, <1>3 DEF ShownInv, ReadsShown, Busy
<1>5. screen # Away => ScreenShows(stamp', stored', screen)
  BY <1>1, ScreenLater DEF ShownInv
<1> QED BY <1>2, <1>4, <1>5 DEF ShownInv

\* A read that begins has read nothing.
LEMMA BeginKeepsShown ==
  ASSUME FiguresInv, ShownInv, NEW kind \in Kinds, NEW k \in Keys, Begin(kind, k),
         UNCHANGED <<tableVars, screen, snap, spent>>, kind = "page" => screen = Away,
         kind = "sidebar" => screen # Away /\ screen.stage = "page" /\ k = screen.key
  PROVE  ShownInv'
<1> DEFINE rd == [kind |-> kind, key |-> k, now |-> clock, got |-> << >>,
                  floor |-> Lifetime(k, clock),
                  must |-> <<k, PeriodStart(k, clock)>> \in spent]
<1>1. /\ read' = [read EXCEPT ![kind] = rd] /\ stamp' = stamp
      /\ stored' = stored /\ screen' = screen /\ snap' = snap /\ spent' = spent
  BY DEF Begin, tableVars
<1>2. rd.got = << >> /\ rd.key = k /\ Len(rd.got) = 0 /\ Len(KeyList) \in Nat
  BY FiguresAssumption
<1> HIDE DEF rd
<1>3. GotInv(stamp, stored, rd) /\ PageInv(rd)
  BY <1>2 DEF GotInv, PageInv
<1>4. read'[kind] = rd /\ \A j \in Kinds \ {kind} : read'[j] = read[j]
  BY <1>1 DEF FiguresInv, ReadsInv
<1>5. \A j \in Kinds : Busy(j)' => GotInv(stamp, stored, read'[j])
  BY <1>3, <1>4 DEF ShownInv, ReadsShown, Busy
<1>6. Busy("page")' => screen = Away /\ PageInv(read'["page"])
  BY <1>3, <1>4 DEF ShownInv, ReadsShown, Busy, Kinds
<1>7. Busy("sidebar")' => /\ screen # Away /\ screen.stage = "page"
                          /\ read'["sidebar"].key = screen.key
  BY <1>2, <1>4 DEF ShownInv, ReadsShown, Busy, Kinds
<1>8. ReadsShown'
  BY <1>1, <1>5, <1>6, <1>7 DEF ReadsShown
<1> QED BY <1>1, <1>8 DEF ShownInv

\* The next sum of a read.
LEMMA NextSumKeepsShown ==
  ASSUME FiguresInv, ShownInv, NEW kind \in Kinds, NextSum(kind)
  PROVE  ShownInv'
<1> DEFINE rd == read[kind]
           q == Plan(rd)[Len(rd.got) + 1]
           x == SumTokens(q.key, q.range)
           rd2 == [rd EXCEPT !.got = Append(rd.got, x)]
<1>1. /\ read' = [read EXCEPT ![kind] = rd2] /\ stamp' = stamp /\ Busy(kind)
      /\ stored' = stored /\ screen' = screen /\ snap' = snap /\ spent' = spent
  BY DEF NextSum, tableVars
<1>2. /\ rd \in Reads /\ rd.kind = kind /\ Len(rd.got) <= Len(Plan(rd))
      /\ Len(rd.got) # Len(Plan(rd)) /\ GotInv(stamp, stored, rd)
  BY DEF NextSum, FiguresInv, ReadsInv, Busy, Complete, KindInv, ShownInv, ReadsShown
<1>3. IsTable(stamp, stored) /\ x = SumOver(stamp, stored, Plan(rd)[Len(rd.got) + 1])
  BY TableFacts DEF FiguresInv
<1>4. /\ GotInv(stamp, stored, rd2)
      /\ kind = "page" /\ PageInv(rd) => PageInv(rd2)
  <2> HIDE DEF rd, x
  <2> QED BY <1>2, <1>3, GotNext
<1>5. rd2.key = rd.key
  BY <1>2 DEF Reads
<1> HIDE DEF rd2
<1>6. read'[kind] = rd2 /\ \A j \in Kinds \ {kind} : read'[j] = read[j]
  BY <1>1 DEF FiguresInv, ReadsInv
<1>7. \A j \in Kinds : Busy(j)' => GotInv(stamp, stored, read'[j])
  BY <1>4, <1>6 DEF ShownInv, ReadsShown, Busy
<1>8. Busy("page")' => screen = Away /\ PageInv(read'["page"])
  BY <1>1, <1>4, <1>6 DEF ShownInv, ReadsShown, Busy, Kinds
<1>9. Busy("sidebar")' => /\ screen # Away /\ screen.stage = "page"
                          /\ read'["sidebar"].key = screen.key
  BY <1>1, <1>5, <1>6 DEF ShownInv, ReadsShown, Busy, Kinds
<1>10. ReadsShown'
  BY <1>1, <1>7, <1>8, <1>9 DEF ReadsShown
<1> QED BY <1>1, <1>10 DEF ShownInv
-----------------------------------------------------------------------------
\* The key of a page has one row.
LEMMA OwnRow ==
  ASSUME NEW key, Listed(key), NEW own, own = SelectInSeq(KeyList, LAMBDA k : k = key)
  PROVE  own \in 1..Len(KeyList) /\ KeyList[own] = key
<1> DEFINE I == {i \in 1..Len(KeyList) : KeyList[i] = key}
<1>1. Len(KeyList) \in Nat /\ ToSet(KeyList) = {KeyList[i] : i \in 1..Len(KeyList)}
  BY FiguresAssumption DEF ToSet
<1>2. I # {} /\ I \in SUBSET Nat
  BY <1>1 DEF Listed
<1>3. own = IF I # {} THEN Min(I) ELSE 0
  BY DEF SelectInSeq
<1> HIDE DEF I
<1>4. own \in I
  BY <1>2, <1>3, MinIsLeast
<1> QED BY <1>4 DEF I

\* The page's rows were read before its panel, and from the same table.
LEMMA ShowPageKeepsShown ==
  ASSUME FiguresInv, ShownInv, ShowPage
  PROVE  ShownInv'
<1> DEFINE rd == read["page"]
           n == Len(KeyList)
           m == Cardinality(Events)
           todays == SubSeq(rd.got, 1, n)
           own == SelectInSeq(KeyList, LAMBDA k : k = rd.key)
           report == SubSeq(rd.got, n + 1, n + 5)
           p == Panel(rd, report)
<1>0. "page" \in Kinds
  BY DEF Kinds
<1>1. /\ rd \in Reads /\ KindInv(stamp, stored, "page", rd) /\ Len(rd.got) = Len(Plan(rd))
      /\ rd.kind = "page" /\ GotInv(stamp, stored, rd) /\ PageInv(rd) /\ screen = Away
  BY <1>0 DEF ShowPage, Finish, Complete, Busy, FiguresInv, ReadsInv, KindInv,
              ShownInv, ReadsShown
<1>2. /\ read' = [read EXCEPT !["page"] = Idle] /\ stamp' = stamp /\ stored' = stored
      /\ snap' = snap
  BY DEF ShowPage, Finish, tableVars
<1>3. read'["page"] = Idle /\ \A j \in Kinds : read'[j] = Idle \/ read'[j] = read[j]
  BY <1>0, <1>2 DEF FiguresInv, ReadsInv
<1>4. /\ \A kind \in Kinds : Busy(kind)' => GotInv(stamp', stored', read'[kind])
      /\ ~Busy("page")' /\ ~Busy("sidebar")'
  BY <1>1, <1>2, <1>3, ReadsGivenUp DEF ShownInv, Busy
<1>5. ReadsShown'
  BY <1>4 DEF ReadsShown
<1>6. CASE ~Listed(rd.key)
  BY <1>1, <1>2, <1>5, <1>6 DEF ShowPage, ShownInv
<1>7. CASE Listed(rd.key)
  <2>1. /\ IsTable(stamp, stored) /\ n \in Nat /\ m \in Nat /\ rd.got \in Seq(Nat)
        /\ rd.key \in Keys /\ rd.now \in Instants /\ Len(rd.got) = n + 5
    BY <1>1, <1>7, TableFacts, PlanFacts, CalendarAssumption, FS_CardinalityType
       DEF FiguresInv, Reads
  <2>2. /\ Len(rd.got) <= Len(Plan(rd))
        /\ \A i \in 1..(n + 5) : rd.got[i] \in 0..m
    <3>1. Len(rd.got) <= Len(Plan(rd))
      BY <1>1, <2>1
    <3>2. \A i \in 1..Len(rd.got) : rd.got[i] \in 0..m
      <4> HIDE DEF rd
      <4> QED BY <1>1, <2>1, <3>1, GotTyped
    <3> QED BY <2>1, <3>1, <3>2
  <2>3. /\ todays \in [1..n -> 0..m] /\ \A i \in 1..n : todays[i] = rd.got[i]
    <3> DEFINE s == rd.got
    <3>1. s \in Seq(Nat) /\ Len(s) = n + 5 /\ n \in Nat /\ m \in Nat
          /\ \A i \in 1..(n + 5) : s[i] \in 0..m
      BY <2>1, <2>2
    <3> HIDE DEF s, n, m
    <3>2. SubSeq(s, 1, n) = [i \in 1..n |-> s[i]]
      BY ONLY <3>1
    <3>3. \A i \in 1..n : s[i] \in 0..m
      BY ONLY <3>1
    <3> QED BY <3>2, <3>3 DEF s
  <2>4. report \in [1..5 -> Nat] /\ \A b \in 1..5 : report[b] = rd.got[n + b]
    <3> DEFINE s == rd.got
    <3>1. s \in Seq(Nat) /\ Len(s) = n + 5 /\ n \in Nat
      BY <2>1
    <3> HIDE DEF s, n
    <3>2. SubSeq(s, n + 1, n + 5) = [b \in 1..5 |-> s[n + b]]
      BY ONLY <3>1
    <3>3. \A b \in 1..5 : s[n + b] \in Nat
      BY ONLY <3>1
    <3> QED BY <3>2, <3>3 DEF s
  <2>5. PanelFits(p) /\ p.key = rd.key /\ p.now = rd.now /\ p.report = report
    <3>1. p.key = rd.key /\ p.now = rd.now /\ p.report = report
      BY DEF Panel
    <3> HIDE DEF rd, n, report
    <3>2. PanelFits(Panel(rd, report))
      BY <1>1, <2>1, <2>2, <2>4, PanelOfRead
    <3> QED BY <3>1, <3>2
  <2>6. own \in 1..n /\ KeyList[own] = rd.key
    BY <1>7, OwnRow
  <2>7. /\ screen' = [stage |-> "page", key |-> rd.key, panel |-> p,
                      row |-> Row(todays[own], Peak(todays)),
                      total |-> Total(todays), since |-> rd.now]
        /\ Noted(rd.key, rd.now, p.over)
    BY <1>7 DEF ShowPage
  <2> HIDE DEF rd, n, m, todays, own, report, p
  <2>8. /\ Total(todays) \in Nat
        /\ Total(todays) <= Since(stamp, stored, StartOfDay(rd.now))
        /\ todays[own] <= Total(todays)
    <3> DEFINE U == {e \in stored : stamp[e] >= StartOfDay(rd.now)}
    <3>1. IsFiniteSet(U)
      <4>1. U \in SUBSET Events
        BY <2>1 DEF IsTable
      <4> QED BY <4>1, CalendarAssumption, FS_Subset
    <3>2. \A i \in 1..n :
            todays[i] <= SumIn(stamp, stored, KeyList[i], StartOfDay(rd.now), rd.now)
      <4>1. ASSUME NEW i \in 1..n
            PROVE  todays[i] <= SumIn(stamp, stored, KeyList[i], StartOfDay(rd.now), rd.now)
        <5>1. SumOver(stamp, stored, Plan(rd)[i])
                = SumIn(stamp, stored, KeyList[i], StartOfDay(rd.now), rd.now)
          BY <1>1, TodaysFirst DEF n
        <5>2. i \in 1..Len(rd.got)
          BY <2>1
        <5> QED BY <1>1, <2>3, <5>1, <5>2 DEF GotInv
      <4> QED BY <4>1
    <3>3. \A i \in 1..n, e \in stored :
            todays[i] > 0 /\ Owner[e] = KeyList[i] /\ stamp[e] >= StartOfDay(rd.now) => e \in U
      OBVIOUS
    <3> HIDE DEF U
    <3>4. /\ Total(todays) \in Nat /\ Total(todays) <= Cardinality(U)
          /\ \A i \in 1..n : todays[i] <= Total(todays)
      BY <2>1, <2>3, <3>1, <3>2, <3>3, TotalOfKeys DEF n
    <3> QED BY <2>6, <3>4 DEF Since, U
  <2>9. /\ todays[own] \in Nat /\ Fits(BarWidth(todays[own], Peak(todays)), todays[own])
    <3>1. todays[own] \in 0..m /\ Peak(todays) \in Nat /\ todays[own] <= Peak(todays)
      BY <2>1, <2>3, <2>6, PeakIsHighest
    <3>2. todays[own] \in Nat
      BY <2>1, <3>1
    <3> QED BY <3>1, <3>2, BarIsInTrack
  <2>10. todays[own] <= p.report[Today]
    <3>1. rd.got[own] <= rd.got[n + 1]
      BY <1>1, <1>7, <2>1, <2>6 DEF PageInv, n
    <3>2. report[1] = rd.got[n + 1]
      BY <2>4
    <3> QED BY <2>3, <2>5, <2>6, <3>1, <3>2 DEF Today
  <2>11. ScreenShows(stamp, stored, screen')
    BY <1>7, <2>1, <2>5, <2>7, <2>8, <2>9, <2>10 DEF ScreenShows, Row
  <2>12. spent' \subseteq Keys \X (0..LastInstant)
    BY <2>1, <2>7, NotedInTime DEF ShownInv
  <2> QED BY <1>2, <1>5, <2>11, <2>12 DEF ShownInv
<1> QED BY <1>6, <1>7

\* The sidebar's figures, without the key that is watched.
LEMMA OpenStreamKeepsShown ==
  ASSUME FiguresInv, ShownInv, OpenStream
  PROVE  ShownInv'
<1> DEFINE rd == read["sidebar"]
           n == Len(KeyList)
           m == Cardinality(Events)
           t == [i \in DOMAIN rd.got |-> IF KeyList[i] = rd.key THEN 0 ELSE rd.got[i]]
           f == StartOfDay(rd.now)
           U == {e \in stored : Owner[e] # rd.key /\ stamp[e] >= f}
<1>0. "sidebar" \in Kinds
  BY DEF Kinds
<1>1. /\ rd \in Reads /\ rd.kind = "sidebar" /\ Len(rd.got) = Len(Plan(rd))
      /\ GotInv(stamp, stored, rd) /\ screen # Away /\ screen.stage = "page"
      /\ rd.key = screen.key /\ ScreenShows(stamp, stored, screen)
  BY <1>0 DEF OpenStream, Finish, Complete, Busy, FiguresInv, ReadsInv, KindInv,
              ShownInv, ReadsShown
<1>2. /\ read' = [read EXCEPT !["sidebar"] = Idle] /\ stamp' = stamp /\ stored' = stored
      /\ snap' = snap /\ spent' = spent
      /\ screen' = [stage |-> "stream", key |-> screen.key, panel |-> screen.panel,
                    row |-> screen.row, total |-> screen.total, since |-> screen.since,
                    side |-> Sidebar(rd)]
  BY DEF OpenStream, Finish, tableVars
<1>3. read'["sidebar"] = Idle /\ \A j \in Kinds : read'[j] = Idle \/ read'[j] = read[j]
  BY <1>0, <1>2 DEF FiguresInv, ReadsInv
<1>4. ReadsShown'
  <2>1. /\ \A kind \in Kinds : Busy(kind)' => GotInv(stamp', stored', read'[kind])
        /\ ~Busy("page")' /\ ~Busy("sidebar")'
    BY <1>1, <1>2, <1>3, ReadsGivenUp DEF ShownInv, Busy
  <2> QED BY <2>1 DEF ReadsShown
<1>5. /\ IsTable(stamp, stored) /\ n \in Nat /\ m \in Nat /\ rd.got \in Seq(Nat)
      /\ rd.now \in Instants /\ Len(rd.got) = n /\ DOMAIN rd.got = 1..n
      /\ Len(rd.got) <= Len(Plan(rd))
  <2>1. IsTable(stamp, stored) /\ m \in Nat
    BY TableFacts, CalendarAssumption, FS_CardinalityType DEF FiguresInv
  <2>2. n \in Nat /\ Len(Plan(rd)) = n
    <3> HIDE DEF rd
    <3> QED BY <1>1, TodaysFirst
  <2>3. rd.got \in Seq(Nat) /\ rd.now \in Instants
    BY <1>1 DEF Reads
  <2> QED BY <1>1, <2>1, <2>2, <2>3
<1>6. \A i \in 1..n : rd.got[i] \in 0..m
  <2> HIDE DEF rd
  <2> QED BY <1>1, <1>5, GotTyped
<1>7. Peak(rd.got) \in Nat
  <2>1. rd.got \in [1..n -> 0..m]
    <3> DEFINE s == rd.got
    <3>1. s \in Seq(Nat) /\ DOMAIN s = 1..n /\ \A i \in 1..n : s[i] \in 0..m
      BY <1>5, <1>6
    <3> HIDE DEF s, n, m
    <3>2. s \in [1..n -> 0..m]
      BY ONLY <3>1
    <3> QED BY <3>2 DEF s
  <2> HIDE DEF n, m, rd
  <2> QED BY <1>5, <2>1, PeakIsHighest
<1>8. Total(t) \in Nat /\ Total(t) <= Cardinality(U)
  <2>1. IsFiniteSet(U) /\ U \in SUBSET Events
    <3>1. U \in SUBSET Events
      BY <1>5 DEF IsTable
    <3> QED BY <3>1, CalendarAssumption, FS_Subset
  <2>2. t \in [1..n -> 0..m]
    BY <1>5, <1>6
  <2>3. ASSUME NEW i \in 1..n
        PROVE  t[i] <= SumIn(stamp, stored, KeyList[i], f, rd.now)
    <3>1. SumOver(stamp, stored, Plan(rd)[i]) = SumIn(stamp, stored, KeyList[i], f, rd.now)
      BY <1>1, TodaysFirst
    <3>2. i \in 1..Len(rd.got) /\ rd.got[i] <= SumIn(stamp, stored, KeyList[i], f, rd.now)
      BY <1>1, <1>5, <3>1 DEF GotInv
    <3>3. SumIn(stamp, stored, KeyList[i], f, rd.now) \in Nat
      BY <1>5, CalendarFacts, SumWider
    <3> QED BY <1>5, <3>2, <3>3
  <2>4. \A i \in 1..n, e \in stored :
          t[i] > 0 /\ Owner[e] = KeyList[i] /\ stamp[e] >= f => e \in U
    <3>1. ASSUME NEW i \in 1..n, t[i] > 0 PROVE KeyList[i] # rd.key
      BY <1>5, <3>1
    <3> QED BY <3>1
  <2>5. \A i \in 1..n : t[i] <= SumIn(stamp, stored, KeyList[i], f, rd.now)
    BY <2>3
  <2> HIDE DEF t, U, m
  <2> QED BY <1>5, <2>1, <2>2, <2>4, <2>5, TotalOfKeys
<1>9. /\ Sidebar(rd).others = Total(t) /\ Sidebar(rd).peak = Peak(rd.got)
      /\ Sidebar(rd).now = rd.now
  BY DEF Sidebar
<1>10. Total(t) <= OthersSince(stamp, stored, screen.key, StartOfDay(Sidebar(rd).now))
  BY <1>1, <1>8, <1>9 DEF OthersSince
<1> HIDE DEF rd, n, m, t, U, f
<1>11. ScreenShows(stamp, stored, screen')
  BY <1>1, <1>2, <1>5, <1>7, <1>8, <1>9, <1>10 DEF ScreenShows
<1> QED BY <1>2, <1>4, <1>11 DEF ShownInv
\* The actor publishes the report that it has read.
LEMMA PublishKeepsShown ==
  ASSUME FiguresInv, ShownInv, Publish
  PROVE  ShownInv'
<1> DEFINE rd == read["report"]
<1>0. "report" \in Kinds
  BY DEF Kinds
<1>1. /\ rd \in Reads /\ rd.kind = "report" /\ Len(rd.got) = Len(Plan(rd))
      /\ GotInv(stamp, stored, rd)
  BY <1>0 DEF Publish, Finish, Complete, Busy, FiguresInv, ReadsInv, KindInv,
              ShownInv, ReadsShown
<1>2. /\ read' = [read EXCEPT !["report"] = Idle] /\ stamp' = stamp /\ stored' = stored
      /\ screen' = screen /\ spent' = spent /\ snap' = Panel(rd, rd.got)
  BY DEF Publish, Finish, tableVars
<1>3. \A j \in Kinds : read'[j] = Idle \/ read'[j] = read[j]
  BY <1>0, <1>2 DEF FiguresInv, ReadsInv
<1>4. ReadsShown'
  BY <1>2, <1>3, ReadsGivenUp DEF ShownInv, ReadsShown
<1>5. PanelFits(Panel(rd, rd.got))
  <2> HIDE DEF rd
  <2>1. IsTable(stamp, stored) /\ Len(Plan(rd)) = 5 /\ rd.got \in Seq(Nat)
    BY <1>1, TableFacts, PlanFacts DEF FiguresInv, Reads
  <2>2. Len(rd.got) = 0 + 5 /\ Len(rd.got) <= Len(Plan(rd))
    BY <1>1, <2>1
  <2>3. rd.got \in [1..5 -> Nat] /\ \A b \in 1..5 : rd.got[b] = rd.got[0 + b]
    <3> DEFINE s == rd.got
    <3>1. s \in Seq(Nat) /\ Len(s) = 5
      BY <2>1, <2>2
    <3> HIDE DEF s
    <3>2. s \in [1..5 -> Nat]
      BY <3>1, LenProperties
    <3> QED BY <3>2 DEF s
  <2>4. 0 \in Nat
    OBVIOUS
  <2> QED BY <1>1, <2>1, <2>2, <2>3, <2>4, PanelOfRead
<1> QED BY <1>2, <1>4, <1>5 DEF ShownInv

\* A query fails; the zeros of a first load are drawn as nothing.
LEMMA FailureKeepsShown ==
  ASSUME FiguresInv, ShownInv, NEW kind \in Kinds, QueryFails(kind)
  PROVE  ShownInv'
<1> DEFINE rd == [read[kind] EXCEPT !.floor = 0, !.must = FALSE]
           z == [b \in 1..5 |-> 0]
<1>1. /\ read' = [read EXCEPT ![kind] = Idle] /\ stamp' = stamp /\ stored' = stored
      /\ screen' = screen /\ spent' = spent /\ (snap' = snap \/ snap' = Panel(rd, z))
  BY DEF QueryFails, tableVars
<1>2. \A j \in Kinds : read'[j] = Idle \/ read'[j] = read[j]
  BY <1>1 DEF FiguresInv, ReadsInv
<1>3. ReadsShown'
  BY <1>1, <1>2, ReadsGivenUp DEF ShownInv, ReadsShown
<1>4. rd.key \in Keys
  BY DEF QueryFails, Busy, FiguresInv, ReadsInv, Reads
<1>5. PanelFits(Panel(rd, z))
  <2>1. 0 \in Nat /\ z \in [1..5 -> 0..0]
    OBVIOUS
  <2> HIDE DEF rd, z
  <2> QED BY <1>4, <2>1, PanelIsDrawn
<1> HIDE DEF rd, z
<1> QED BY <1>1, <1>3, <1>5 DEF ShownInv

\* A snapshot goes to all of the screen: its panel, its row and its masthead.
LEMMA PushKeepsShown ==
  ASSUME FiguresInv, ShownInv, Push
  PROVE  ShownInv'
<1> DEFINE s == screen.side
           today == snap.report[Today]
           since == Min({s.now, snap.now})
<1>1. /\ stamp' = stamp /\ stored' = stored /\ read' = read /\ snap' = snap
      /\ screen # Away /\ screen.stage = "stream" /\ ScreenShows(stamp, stored, screen)
      /\ snap # None /\ snap.key = screen.key /\ PanelFits(snap)
      /\ PanelInv(stamp, stored, snap) /\ Noted(snap.key, snap.now, snap.over)
  BY DEF Push, tableVars, ShownInv, FiguresInv, SnapInv
<1>2. screen' = [screen EXCEPT !.panel = snap, !.row = SideRow(s, today),
                               !.total = s.others + today, !.since = since]
  BY DEF Push
<1>3. /\ s.others \in Nat /\ s.peak \in Nat /\ s.now \in Instants /\ "side" \in DOMAIN screen
      /\ s.others <= OthersSince(stamp, stored, screen.key, StartOfDay(s.now))
  BY <1>1 DEF ScreenShows
<1>4. /\ IsTable(stamp, stored) /\ snap.key \in Keys /\ snap.now \in Instants
      /\ s.now \in Nat /\ snap.now \in Nat
  BY <1>1, <1>3, TableFacts, CalendarFacts DEF FiguresInv, PanelInv
<1>5. today \in Nat
      /\ today <= SumIn(stamp, stored, snap.key, StartOfDay(snap.now), snap.now)
  BY <1>1, BucketsAre DEF PanelInv, Sound, Numbers, Today
<1>6. ReadsShown'
  <2>1. ~Busy("page") /\ ~Busy("sidebar")
    BY <1>1 DEF ShownInv, ReadsShown
  <2> QED BY <1>1, <2>1 DEF ShownInv, ReadsShown, Busy
<1>7. since \in Instants /\ since \in Nat /\ since <= s.now /\ since <= snap.now
  <2> DEFINE a == s.now
             b == snap.now
  <2>1. a \in Instants /\ b \in Instants /\ a \in Int /\ b \in Int
    BY <1>3, <1>4
  <2>2. since = Min({a, b})
    OBVIOUS
  <2> HIDE DEF a, b, since
  <2>3. since = IF a <= b THEN a ELSE b
    BY <2>1, <2>2, TwoNumbers
  <2>4. since \in Instants /\ since <= a /\ since <= b
    BY <2>1, <2>3
  <2> QED BY <2>4, CalendarFacts DEF a, b
<1>8. /\ SideRow(s, today).today = today
      /\ Fits(SideRow(s, today).width, today)
  <2> DEFINE peak == Max({s.peak, today})
  <2>1. peak \in Int /\ today <= peak
    <3> DEFINE a == s.peak
    <3>1. a \in Int /\ today \in Int
      BY <1>3, <1>5
    <3> HIDE DEF a, today
    <3>2. Max({a, today}) = IF a >= today THEN a ELSE today
      BY <3>1, TwoNumbers
    <3> QED BY <3>1, <3>2 DEF a
  <2>2. SideRow(s, today) = [today |-> today, width |-> BarWidth(today, peak)]
    BY DEF SideRow, Row
  <2> HIDE DEF peak, today
  <2> QED BY <1>5, <2>1, <2>2, BarIsInTrack
<1>9. s.others + today <= Since(stamp, stored, StartOfDay(since))
  <2> DEFINE f == StartOfDay(since)
             f1 == StartOfDay(snap.now)
             f2 == StartOfDay(s.now)
             A == SumIn(stamp, stored, snap.key, f1, snap.now)
             B == OthersSince(stamp, stored, snap.key, f2)
             C == Since(stamp, stored, f)
  <2> HIDE DEF s, today, since
  <2>1. f \in Int /\ f1 \in Int /\ f2 \in Int /\ f <= f1 /\ f <= f2
    BY <1>3, <1>4, <1>7, CalendarFacts, DaysInOrder
  <2>2. A \in Nat /\ B \in Nat /\ C \in Nat
    <3>1. Later(stamp, stored, stamp, stored)
      BY <1>4 DEF Later
    <3> QED BY <1>4, <2>1, <3>1, SumWider, SinceGrows
  <2>3. A + B <= C
    <3> HIDE DEF f, f1, f2
    <3> QED BY <1>4, <2>1, OwnAndOthers
  <2>4. today \in Nat /\ today <= A /\ s.others \in Nat /\ s.others <= B
    BY <1>1, <1>3, <1>5
  <2> HIDE DEF A, B, C
  <2>5. s.others + today <= C
    BY <2>2, <2>3, <2>4
  <2> QED BY <2>5 DEF C
<1> HIDE DEF s, today, since
<1>10. /\ DOMAIN screen' = DOMAIN screen /\ screen'.stage = screen.stage
       /\ screen'.key = screen.key /\ screen'.panel = snap
       /\ screen'.row = SideRow(s, today) /\ screen'.total = s.others + today
       /\ screen'.since = since /\ screen'.side = s
  BY <1>1, <1>2, <1>3 DEF ScreenShows, s
<1>11. ScreenShows(stamp, stored, screen')
  <2>1. /\ s.others + today \in Nat /\ today <= s.others + today
        /\ today = snap.report[Today]
    BY <1>3, <1>5 DEF today
  <2> QED BY <1>1, <1>3, <1>5, <1>7, <1>8, <1>9, <1>10, <2>1 DEF ScreenShows
<1>12. spent' \subseteq Keys \X (0..LastInstant)
  BY <1>1, <1>4, NotedInTime DEF ShownInv
<1> QED BY <1>1, <1>6, <1>11, <1>12 DEF ShownInv

\* A check answers.
LEMMA AnswerKeepsShown ==
  ASSUME FiguresInv, ShownInv, Answer
  PROVE  ShownInv'
<1> DEFINE rd == read["check"]
<1>0. "check" \in Kinds
  BY DEF Kinds
<1>1. rd \in Reads /\ rd.key \in Keys /\ rd.now \in Instants
  BY <1>0 DEF Answer, Finish, Complete, Busy, FiguresInv, ReadsInv, Reads
<1>2. /\ read' = [read EXCEPT !["check"] = Idle] /\ stamp' = stamp /\ stored' = stored
      /\ screen' = screen /\ snap' = snap /\ Noted(rd.key, rd.now, Refused(rd))
  BY DEF Answer, Finish, tableVars
<1>3. \A j \in Kinds : read'[j] = Idle \/ read'[j] = read[j]
  BY <1>0, <1>2 DEF FiguresInv, ReadsInv
<1>4. ReadsShown'
  BY <1>2, <1>3, ReadsGivenUp DEF ShownInv, ReadsShown
<1>5. spent' \subseteq Keys \X (0..LastInstant)
  BY <1>1, <1>2, NotedInTime DEF ShownInv
<1> QED BY <1>2, <1>4, <1>5 DEF ShownInv

-----------------------------------------------------------------------------
LEMMA ShownInitInv ==
  ASSUME FiguresInit
  PROVE  ShownInv
<1>1. read = [kind \in Kinds |-> Idle] /\ screen = Away /\ snap = None /\ spent = {}
  BY DEF FiguresInit
<1>2. \A kind \in Kinds : ~Busy(kind)
  BY <1>1 DEF Busy
<1> QED BY <1>1, <1>2 DEF ShownInv, ReadsShown, Kinds

LEMMA ShownNextInv ==
  ASSUME FiguresInv, ShownInv, [FiguresNext]_fvars
  PROVE  ShownInv'
<1>1. CASE TableStep /\ UNCHANGED figureVars
  BY <1>1, TableKeepsShown
<1>2. ASSUME NEW k \in Keys, OpenPage(k) PROVE ShownInv'
  <2>1. "page" \in Kinds /\ "page" # "sidebar" /\ Begin("page", k) /\ screen = Away
        /\ UNCHANGED <<tableVars, screen, snap, spent>>
    BY <1>2 DEF OpenPage, Kinds
  <2> QED BY <2>1, BeginKeepsShown
<1>3. CASE OpenIndex
  BY <1>2, <1>3, DefaultIsListed DEF OpenIndex
<1>4. CASE ShowPage
  BY <1>4, ShowPageKeepsShown
<1>5. CASE ConnectStream
  <2>1. /\ "sidebar" \in Kinds /\ "sidebar" # "page" /\ Begin("sidebar", screen.key)
        /\ screen # Away /\ screen.stage = "page"
        /\ UNCHANGED <<tableVars, screen, snap, spent>>
    BY <1>5 DEF ConnectStream, Kinds
  <2>2. screen.key \in Keys
    BY <2>1 DEF FiguresInv, ScreenInv, PanelInv
  <2> QED BY <2>1, <2>2, BeginKeepsShown
<1>6. CASE OpenStream
  BY <1>6, OpenStreamKeepsShown
<1>7. CASE Publish
  BY <1>7, PublishKeepsShown
<1>8. ASSUME UNCHANGED <<tableVars, read, screen, spent>>, snap' = None \/ snap' = snap
      PROVE  ShownInv'
  <2>1. stamp' = stamp /\ stored' = stored /\ read' = read /\ screen' = screen /\ spent' = spent
    BY <1>8 DEF tableVars
  <2> QED BY <1>8, <2>1 DEF ShownInv, ReadsShown, Busy
<1>9. CASE Retire
  BY <1>8, <1>9 DEF Retire
<1>10. CASE Push
  BY <1>10, PushKeepsShown
<1>11. CASE Leave
  <2>1. /\ screen' = Away /\ snap' = snap /\ spent' = spent /\ stamp' = stamp
        /\ stored' = stored
        /\ read' = [read EXCEPT !["page"] = Idle, !["sidebar"] = Idle]
    BY <1>11 DEF Leave, tableVars
  <2>2. /\ \A j \in Kinds : read'[j] = Idle \/ read'[j] = read[j]
        /\ read'["page"] = Idle /\ read'["sidebar"] = Idle
    BY <2>1 DEF FiguresInv, ReadsInv, Kinds
  <2>3. /\ \A kind \in Kinds : Busy(kind)' => GotInv(stamp', stored', read'[kind])
        /\ ~Busy("page")' /\ ~Busy("sidebar")'
    BY <2>1, <2>2, ReadsGivenUp DEF ShownInv, Busy
  <2>4. ReadsShown'
    BY <2>3 DEF ReadsShown
  <2> QED BY <2>1, <2>4 DEF ShownInv
<1>12. CASE Answer
  BY <1>12, AnswerKeepsShown
<1>13. CASE PrintLine
  <2>1. /\ "list" \in Kinds /\ read' = [read EXCEPT !["list"] = Idle] /\ stamp' = stamp
        /\ stored' = stored /\ screen' = screen /\ snap' = snap /\ spent' = spent
    BY <1>13 DEF PrintLine, Finish, Kinds, tableVars
  <2>2. \A j \in Kinds : read'[j] = Idle \/ read'[j] = read[j]
    BY <2>1 DEF FiguresInv, ReadsInv
  <2>3. ReadsShown'
    BY <2>1, <2>2, ReadsGivenUp DEF ShownInv, ReadsShown
  <2> QED BY <2>1, <2>3 DEF ShownInv
<1>14. ASSUME NEW k \in Opened, OpenPage(k) \/ Load(k) \/ Check(k) \/ List(k)
       PROVE  ShownInv'
  <2>1. k \in Keys
    BY FiguresAssumption
  <2>2. ASSUME NEW kind \in {"report", "check", "list"}, Begin(kind, k),
               UNCHANGED <<tableVars, screen, snap, spent>>
        PROVE  ShownInv'
    <3>1. kind \in Kinds /\ kind # "page" /\ kind # "sidebar"
      BY DEF Kinds
    <3> QED BY <2>1, <2>2, <3>1, BeginKeepsShown
  <2>3. CASE OpenPage(k)
    BY <1>2, <2>1, <2>3
  <2>4. CASE Load(k)
    BY <2>2, <2>4 DEF Load
  <2>5. CASE Check(k)
    BY <2>2, <2>5 DEF Check
  <2>6. CASE List(k)
    BY <2>2, <2>6 DEF List
  <2> QED BY <1>14, <2>3, <2>4, <2>5, <2>6
<1>15. ASSUME NEW kind \in Kinds, NextSum(kind) \/ QueryFails(kind) PROVE ShownInv'
  BY <1>15, NextSumKeepsShown, FailureKeepsShown
<1>16. CASE UNCHANGED fvars
  BY <1>8, <1>16 DEF fvars, figureVars
<1> QED BY <1>1, <1>3, <1>4, <1>5, <1>6, <1>7, <1>9, <1>10, <1>11, <1>12, <1>13,
           <1>14, <1>15, <1>16 DEF FiguresNext

\* What is on a screen is drawn from sums the table bears out, together with the
\* reads that will change it.
THEOREM FiguresAreShown == FiguresSpec => [](FiguresInv /\ ShownInv)
<1>1. FiguresInit => FiguresInv /\ ShownInv
  BY FiguresInitInv, ShownInitInv
<1>2. FiguresInv /\ ShownInv /\ [FiguresNext]_fvars => (FiguresInv /\ ShownInv)'
  BY FiguresNextInv, ShownNextInv
<1> QED BY <1>1, <1>2, PTL DEF FiguresSpec

\* Every variable of the readers has its type: a read holds as many sums as its plan
\* has queries at most, and none is more than the events there are.
THEOREM FiguresTypeCorrect == FiguresSpec => []FiguresTypeOK
<1>1. FiguresInv /\ ShownInv => FiguresTypeOK
  <2> SUFFICES ASSUME FiguresInv, ShownInv PROVE FiguresTypeOK
    OBVIOUS
  <2>1. ASSUME NEW kind \in Kinds, Busy(kind)
        PROVE  /\ read[kind].kind = kind /\ read[kind].key \in Keys
               /\ read[kind].now \in Instants
               /\ read[kind].got \in Seq(0..Cardinality(Events))
               /\ Len(read[kind].got) <= Len(Plan(read[kind]))
    <3> DEFINE rd == read[kind]
               m == Cardinality(Events)
    <3>1. /\ rd \in Reads /\ rd.kind = kind /\ Len(rd.got) <= Len(Plan(rd))
          /\ GotInv(stamp, stored, rd)
      BY <2>1 DEF FiguresInv, ReadsInv, Busy, KindInv, ShownInv, ReadsShown
    <3> HIDE DEF rd, m
    <3>2. rd.key \in Keys /\ rd.now \in Instants /\ rd.got \in Seq(Nat)
      BY <3>1 DEF Reads
    <3>3. \A i \in 1..Len(rd.got) : rd.got[i] \in 0..m
      BY <3>1, TableFacts, GotTyped DEF FiguresInv, m
    <3>4. rd.got \in Seq(0..m)
      <4> DEFINE s == rd.got
      <4>1. s \in Seq(Nat) /\ \A i \in 1..Len(s) : s[i] \in 0..m
        BY <3>2, <3>3
      <4> HIDE DEF s
      <4>2. s \in Seq(0..m)
        <5> DEFINE n == Len(s)
        <5>1. n \in Nat /\ s \in [1..n -> Nat] /\ \A i \in 1..n : s[i] \in 0..m
          BY <4>1, LenProperties
        <5> HIDE DEF n, m
        <5>2. s \in [1..n -> 0..m]
          BY ONLY <5>1
        <5>3. \A T, k : k \in Nat => [1..k -> T] \subseteq Seq(T)
          OBVIOUS
        <5> QED BY <5>1, <5>2, <5>3
      <4> QED BY <4>2 DEF s
    <3> QED BY <3>1, <3>2, <3>4 DEF rd, m
  <2>2. screen # Away => /\ screen.stage \in {"page", "stream"}
                         /\ Listed(screen.key) /\ screen.key = screen.panel.key
    BY DEF FiguresInv, ScreenInv, ShownInv, ScreenShows
  <2> QED BY <2>1, <2>2 DEF FiguresTypeOK, FiguresInv, ShownInv
<1> QED BY <1>1, FiguresAreShown, PTL

\* barWidth and the meter: no bar overflows its track or hides a figure that is not
\* zero, the row of a key that a snapshot has taken past all the others included, and
\* the meter is full exactly when the budget is used up.
THEOREM BarsAreDrawn == FiguresSpec => []BarsFit
<1>1. FiguresInv /\ ShownInv => BarsFit
  <2> SUFFICES ASSUME FiguresInv, ShownInv PROVE BarsFit
    OBVIOUS
  <2>1. ASSUME NEW p \in Panels PROVE PanelFits(p)
    BY DEF Panels, ShownInv, ScreenShows
  <2>2. screen # Away => Fits(screen.row.width, screen.row.today)
    BY DEF ShownInv, ScreenShows
  <2> QED BY <2>1, <2>2 DEF BarsFit, PanelFits, Fits
<1> QED BY <1>1, FiguresAreShown, PTL

\* "so the whole screen agrees": with any number of keys and calls, through midnights,
\* the row is never ahead of the panel or of the masthead, and the masthead counts no
\* token twice.
THEOREM TheScreenAgrees == FiguresSpec => []ScreenAgrees
<1>1. FiguresInv /\ ShownInv => ScreenAgrees
  BY DEF ShownInv, ScreenShows, Since, ScreenAgrees
<1> QED BY <1>1, FiguresAreShown, PTL
=============================================================================
