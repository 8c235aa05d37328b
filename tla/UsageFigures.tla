---------------------------- MODULE UsageFigures ----------------------------
(***************************************************************************)
(* Everything that reads usage, while calls are being recorded and the     *)
(* clock goes through midnights: the dashboard page and the stream that    *)
(* takes over from it, the live hub's reports, the budget check and ragctl *)
(* list.  Each is a few SumTokens queries that share one `now`, taken at   *)
(* the start, and are NOT one transaction.                                 *)
(*                                                                         *)
(* The key table stands still here (KeyStore changes it); a stream keeps   *)
(* the row it opened with in any case.  A snapshot is a report the hub     *)
(* loaded: the credits it adds in between belong to LiveHub.               *)
(***************************************************************************)
EXTENDS UsageReport, FiniteSetsExt, SequencesExt

CONSTANTS
  KeyList,   \* the api_keys table as List returns it, newest first
  Revoked,   \* the keys in it that are revoked
  Budget,    \* each key's TokenBudget and BudgetPeriod
  Opened,    \* bound of the model: keys that readers ask about
  History,   \* bound of the model: stamps of the events that were there before
  StartClocks, \* bound of the model: when the behaviours start
  MaxReads   \* bound of the model: reads under way at once

Unlimited == -1

ASSUME FiguresAssumption ==
  /\ KeyList \in Seq(Keys) /\ IsInjective(KeyList)
  /\ Revoked \subseteq Keys /\ Opened \subseteq Keys
  /\ Budget \in [Keys -> [tokens : (Nat \ {0}) \cup {Unlimited},
                          period : {"monthly", "lifetime"}]]
  /\ History \subseteq 0..LastInstant /\ StartClocks \subseteq Instants
  /\ MaxReads \in Nat

VARIABLES
  read,    \* each kind of read: Idle, or the queries it has behind it
  screen,  \* what the operator's browser shows
  snap,    \* the hub's latest snapshot, None without an actor
  spent    \* history: <<key, start of its budget period>> seen exhausted by anyone

figureVars == <<read, screen, snap, spent>>
fvars == <<tableVars, figureVars>>

-----------------------------------------------------------------------------
(***************************************************************************)
(* The reads: which sums, in which order.                                  *)
(***************************************************************************)
Kinds == {"page", "sidebar", "report", "check", "list"}

Query(k, range) == [key |-> k, range |-> range]

Todays(now) ==
  [i \in DOMAIN KeyList |-> Query(KeyList[i], ReportWindows(now)[Today])]

\* BuildReport.
Report(k, now) == [b \in 1..5 |-> Query(k, ReportWindows(now)[b])]

Listed(k) == k \in ToSet(KeyList)

\* Checker.Status sums one window; listCommand's line for a key sums two.
PeriodWindow(k, now) ==
  IF Budget[k].period = "monthly" THEN ReportWindows(now)[Month] ELSE Ever(now)

\* buildPage asks for every key's today before it finds out that the key in the
\* URL is not there; sidebarContext asks for them again when the stream opens.
Plan(rd) ==
  CASE rd.kind = "page"    -> Todays(rd.now) \o (IF Listed(rd.key) THEN Report(rd.key, rd.now)
                                                 ELSE << >>)
    [] rd.kind = "sidebar" -> Todays(rd.now)
    [] rd.kind = "report"  -> Report(rd.key, rd.now)
    [] rd.kind = "check"   -> << Query(rd.key, PeriodWindow(rd.key, rd.now)) >>
    [] rd.kind = "list"    -> << Query(rd.key, ReportWindows(rd.now)[Month]),
                                 Query(rd.key, Ever(rd.now)) >>

Idle == [kind |-> "idle"]
None == [key |-> "none"]

Busy(kind) == read[kind] # Idle
Complete(kind) == Busy(kind) /\ Len(read[kind].got) = Len(Plan(read[kind]))

\* The sum over a key's whole history that is in the table, up to t.
Lifetime(k, t) == SumTokens(k, Ever(t))

PeriodStart(k, now) == PeriodWindow(k, now).from

\* A read starts: the clock is read once, and it is noted what it has to live
\* up to.
Begin(kind, k) ==
  /\ Cardinality({j \in Kinds : Busy(j)}) < MaxReads
  /\ read[kind] = Idle
  /\ read' = [read EXCEPT ![kind] =
       [kind |-> kind, key |-> k, now |-> clock, got |-> << >>,
        floor |-> Lifetime(k, clock),
        must |-> <<k, PeriodStart(k, clock)>> \in spent]]

\* Its next sum.
NextSum(kind) ==
  LET rd == read[kind]
      q == Plan(rd)[Len(rd.got) + 1]
  IN  /\ Busy(kind) /\ ~Complete(kind)
      /\ read' = [read EXCEPT ![kind].got = Append(@, SumTokens(q.key, q.range))]
      /\ UNCHANGED <<tableVars, screen, snap, spent>>

Finish(kind) == Complete(kind) /\ read' = [read EXCEPT ![kind] = Idle]

-----------------------------------------------------------------------------
(***************************************************************************)
(* What a report is made into.                                             *)
(***************************************************************************)
Lifelong(report) == report[Month] + report[Past] + report[Before]

Used(k, report) ==
  IF Budget[k].period = "monthly" THEN report[Month] ELSE Lifelong(report)

\* APIKey.BudgetExhausted, and the Over of the panel's meter, restated in
\* detailVM.
BudgetExhausted(k, used) ==
  Budget[k].tokens # Unlimited /\ used >= Budget[k].tokens

\* (Variant: over only past the budget.)
OverPast(k, report) == Budget[k].tokens # Unlimited /\ Used(k, report) > Budget[k].tokens
Over(k, report) == Budget[k].tokens # Unlimited /\ Used(k, report) >= Budget[k].tokens

\* barWidth, in percent.
BarWidth(value, peak) ==
  IF peak <= 0 \/ value <= 0 THEN 0
  ELSE LET pct == (value * 100) \div peak IN IF pct < 2 THEN 2 ELSE pct

Peak(s) == Max(ToSet(s) \cup {0})

Widths(report) == [b \in 1..5 |-> BarWidth(report[b], Peak(report))]

MeterWidth(k, report) ==
  IF Budget[k].tokens = Unlimited THEN 0
  ELSE Min({(Used(k, report) * 100) \div Budget[k].tokens, 100})

Remaining(k, report) == Max({Budget[k].tokens - Used(k, report), 0})

\* detailVM, with what the history needs to know about the read behind it.
Panel(rd, report) ==
  [key |-> rd.key, report |-> report, over |-> Over(rd.key, report), widths |-> Widths(report),
   meter |-> MeterWidth(rd.key, report), remaining |-> Remaining(rd.key, report),
   now |-> rd.now, floor |-> rd.floor, must |-> rd.must]

\* A finished look at an exhausted key is remembered.
Noted(k, now, exhausted) ==
  spent' = IF exhausted THEN spent \cup {<<k, PeriodStart(k, now)>>} ELSE spent

-----------------------------------------------------------------------------
(***************************************************************************)
(* The dashboard.                                                          *)
(***************************************************************************)
Away == [stage |-> "away"]

\* defaultKeyID: the first key that is in use, or the first of all.
DefaultKey ==
  LET inUse == {i \in DOMAIN KeyList : KeyList[i] \notin Revoked}
  IN  KeyList[IF inUse = {} THEN 1 ELSE Min(inUse)]

\* GET /admin/keys/{id}, for a key that may not be there; and GET /admin, which
\* redirects to a page unless there are no keys.
OpenPage(k) ==
  /\ screen = Away
  /\ Begin("page", k)
  /\ UNCHANGED <<tableVars, screen, snap, spent>>
OpenIndex == KeyList # << >> /\ OpenPage(DefaultKey)

Total(todays) == FoldFunction(+, 0, todays)

\* The watched key's sidebar row, and sidebarCtx.row, which scales a key that has
\* overtaken the others against itself.  (Variant: against the old peak.)
Row(today, peak) == [today |-> today, width |-> BarWidth(today, peak)]
OldPeakRow(side, today) == Row(today, side.peak)
SideRow(side, today) == Row(today, Max({side.peak, today}))

\* buildPage answers: 404, or a page whose masthead is the sum of its rows.
ShowPage ==
  LET rd == read["page"]
      n == Len(KeyList)
      todays == SubSeq(rd.got, 1, n)
      own == SelectInSeq(KeyList, LAMBDA k : k = rd.key)
      panel == Panel(rd, SubSeq(rd.got, n + 1, n + 5))
  IN  /\ Finish("page")
      /\ IF ~Listed(rd.key)
         THEN UNCHANGED <<screen, spent>>
         ELSE /\ screen' = [stage |-> "page", key |-> rd.key, panel |-> panel,
                            row |-> Row(todays[own], Peak(todays)),
                            total |-> Total(todays), since |-> rd.now]
              /\ Noted(rd.key, rd.now, panel.over)
      /\ UNCHANGED <<tableVars, snap>>

\* The page connects its stream: handleKeyLive finds the key and reads the sidebar
\* figures.
ConnectStream ==
  /\ screen # Away /\ screen.stage = "page"
  /\ Begin("sidebar", screen.key)
  /\ UNCHANGED <<tableVars, screen, snap, spent>>

\* sidebarContext.  (Variant: the watched key is counted among the others.)
SidebarOfAll(rd) ==
  [others |-> Total(rd.got), peak |-> Peak(rd.got), now |-> rd.now]
Sidebar(rd) ==
  [others |-> Total([i \in DOMAIN rd.got |-> IF KeyList[i] = rd.key THEN 0 ELSE rd.got[i]]),
   peak |-> Peak(rd.got), now |-> rd.now]

\* The stream is subscribed; what the page shows stays until a snapshot comes.
OpenStream ==
  /\ Finish("sidebar")
  /\ screen' = [stage |-> "stream", key |-> screen.key, panel |-> screen.panel,
                row |-> screen.row, total |-> screen.total, since |-> screen.since,
                side |-> Sidebar(read["sidebar"])]
  /\ UNCHANGED <<tableVars, snap, spent>>

\* An actor's first load, or its resync: hub.clock() is read, then the report.
Load(k) ==
  /\ snap = None \/ snap.key = k
  /\ Begin("report", k)
  /\ UNCHANGED <<tableVars, screen, snap, spent>>

Publish ==
  LET rd == read["report"]
  IN  /\ Finish("report")
      /\ snap' = Panel(rd, rd.got)
      /\ UNCHANGED <<tableVars, screen, spent>>

\* The last watcher of the key leaves, and its actor with the snapshot.
Retire ==
  /\ screen = Away \/ screen.stage = "page"
  /\ read["report"] = Idle /\ snap # None
  /\ snap' = None
  /\ UNCHANGED <<tableVars, read, screen, spent>>

\* The stream receives a snapshot, which may be the one that primed it and older
\* than the page: one snapshot, three fragments.
Push ==
  LET today == snap.report[Today]
  IN  /\ screen # Away /\ screen.stage = "stream"
      /\ snap # None /\ snap.key = screen.key
      /\ screen' = [screen EXCEPT !.panel = snap,
                                  !.row = SideRow(screen.side, today),
                                  !.total = screen.side.others + today,
                                  !.since = Min({screen.side.now, snap.now})]
      /\ Noted(snap.key, snap.now, snap.over)
      /\ UNCHANGED <<tableVars, read, snap>>

\* The tab is closed or another page opened; a page that was loading or connecting
\* is given up.
Leave ==
  /\ screen' = Away
  /\ read' = [read EXCEPT !["page"] = Idle, !["sidebar"] = Idle]
  /\ UNCHANGED <<tableVars, snap, spent>>

-----------------------------------------------------------------------------
\* Checker.Status: an unlimited key costs no query.
Check(k) ==
  /\ Budget[k].tokens # Unlimited
  /\ Begin("check", k)
  /\ UNCHANGED <<tableVars, screen, snap, spent>>

\* The check's verdict.
Refused(rd) == BudgetExhausted(rd.key, rd.got[1])

Answer ==
  /\ Finish("check")
  /\ Noted(read["check"].key, read["check"].now, Refused(read["check"]))
  /\ UNCHANGED <<tableVars, screen, snap>>

\* One line of ragctl list.
List(k) ==
  /\ Listed(k)
  /\ Begin("list", k)
  /\ UNCHANGED <<tableVars, screen, snap, spent>>

PrintLine == Finish("list") /\ UNCHANGED <<tableVars, screen, snap, spent>>

\* A query fails: a page or a stream answers 500, a check too, and list stops; the
\* actor publishes the figures it had, which before its first load are zeros.
QueryFails(kind) ==
  /\ Busy(kind) /\ ~Complete(kind)
  /\ read' = [read EXCEPT ![kind] = Idle]
  /\ snap' = IF kind = "report" /\ snap = None
             THEN Panel([read[kind] EXCEPT !.floor = 0, !.must = FALSE],
                        [b \in 1..5 |-> 0])
             ELSE snap
  /\ UNCHANGED <<tableVars, screen, spent>>

-----------------------------------------------------------------------------
FiguresInit ==
  /\ TableInit(History, StartClocks)
  /\ read = [kind \in Kinds |-> Idle]
  /\ screen = Away
  /\ snap = None
  /\ spent = {}

FiguresNext ==
  \/ TableStep /\ UNCHANGED figureVars
  \/ OpenIndex \/ ShowPage \/ ConnectStream \/ OpenStream \/ Publish \/ Retire
  \/ Push \/ Leave \/ Answer \/ PrintLine
  \/ \E k \in Opened : OpenPage(k) \/ Load(k) \/ Check(k) \/ List(k)
  \/ \E kind \in Kinds : NextSum(kind) \/ QueryFails(kind)

FiguresSpec == FiguresInit /\ [][FiguresNext]_fvars

-----------------------------------------------------------------------------
\* The reports that somebody looks at.
Panels == (IF screen = Away THEN {} ELSE {screen.panel}) \cup ({snap} \ {None})

\* Every variable has its type.
FiguresTypeOK ==
  /\ TableTypeOK
  /\ \A kind \in Kinds : Busy(kind) =>
       /\ read[kind].kind = kind /\ read[kind].key \in Keys /\ read[kind].now \in Instants
       /\ read[kind].got \in Seq(0..Cardinality(Events))
       /\ Len(read[kind].got) <= Len(Plan(read[kind]))
  /\ screen # Away => /\ screen.stage \in {"page", "stream"}
                      /\ Listed(screen.key) /\ screen.key = screen.panel.key
  /\ spent \subseteq Keys \X (0..LastInstant)

\* "cumulative and nested (each includes the ones before it)": although the five
\* sums are five queries with calls recorded between them, a panel never shows
\* less for a window than for one inside it.  A week may begin in the past month,
\* and is within the two months together.
NestedFigures ==
  /\ \A p \in Panels : /\ p.report[Today] <= p.report[Week]
                        /\ p.report[Today] <= p.report[Month]
                        /\ p.report[Week] <= p.report[Month] + p.report[Past]
  /\ Complete("list") => read["list"].got[1] <= read["list"].got[2]

\* "this month + past month + before = all time": the sum the meter of a lifetime
\* budget is drawn from misses nothing that was there when the read began, and
\* counts nothing twice, through midnights and calls recorded meanwhile.
LifetimeBracketed ==
  \A p \in Panels : p.floor <= Lifelong(p.report) /\ Lifelong(p.report) <= Lifetime(p.key, p.now)

\* The budget is judged in two places: whoever has seen a key exhausted, the check
\* that refused it or a panel, no later look within the period finds otherwise.
ExhaustionIsFinal ==
  /\ \A p \in Panels : p.must => p.over
  /\ Complete("check") /\ read["check"].must => Refused(read["check"])

\* No bar overflows its track or hides a figure that is not zero, the row of a key
\* that has just overtaken the others included; and the meter is full, with
\* nothing remaining, exactly when the key is over its budget.
BarsFit ==
  LET fits(width, value) == width \in 0..100 /\ (width = 0 <=> value = 0)
  IN  /\ \A p \in Panels :
           /\ \A b \in 1..5 : fits(p.widths[b], p.report[b])
           /\ Budget[p.key].tokens # Unlimited =>
                /\ p.over <=> p.meter = 100
                /\ p.over <=> p.remaining = 0
      /\ screen # Away => fits(screen.row.width, screen.row.today)

\* "so the whole screen agrees": a row is never ahead of the panel or of the
\* masthead, and the masthead counts no token twice although its parts are of
\* different ages, through midnights too.
ScreenAgrees ==
  screen # Away =>
    /\ screen.row.today <= screen.panel.report[Today]
    /\ screen.row.today <= screen.total
    /\ screen.total <= Cardinality({e \in stored : stamp[e] >= StartOfDay(screen.since)})
=============================================================================
