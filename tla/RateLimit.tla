----------------------------- MODULE RateLimit -----------------------------
(***************************************************************************)
(* internal/ratelimit: the fixed-window counter of ONE key (keys share     *)
(* nothing but the mutex).  Time is counted in ticks, a fraction of a      *)
(* second, so that the rounding of Retry-After to whole seconds shows.     *)
(*                                                                         *)
(* The model keeps age = now - start, capped at Window: from there on, and *)
(* before the first request, the next call opens a fresh window.           *)
(***************************************************************************)
EXTENDS Integers, FiniteSetsExt, Functions

CONSTANTS
  Limits,          \* RatePerMin values the key may carry over time
  TicksPerSecond,
  WindowSeconds    \* 60 in the code

ASSUME RateAssumption ==
  /\ Limits \subseteq Nat \ {0} /\ Limits # {} /\ IsFiniteSet(Limits)
  /\ TicksPerSecond \in Nat \ {0}
  /\ WindowSeconds \in Nat \ {0}

Window == WindowSeconds * TicksPerSecond

VARIABLES
  age,      \* ticks since the window opened, at most Window
  count,    \* w.count
  recent,   \* history: requests admitted k ticks ago, for k < Window
  told      \* history: a client denied in this window and the ticks left of the
            \* Retry-After it was given, -1 when there is none

vars == <<age, count, recent, told>>

\* Every variable has its type; in particular the count of a window never passes
\* the highest limit the key has carried.
TypeOK ==
  /\ age \in 0..Window
  /\ count \in 0..Max(Limits)
  /\ recent \in [0..(Window - 1) -> 0..Max(Limits)]
  /\ told \in -1..(Window + TicksPerSecond)

Init ==
  /\ age = Window
  /\ count = 0
  /\ recent = [k \in 0..(Window - 1) |-> 0]
  /\ told = -1

-----------------------------------------------------------------------------
\* A fresh window opens on the first request, or once the old one has elapsed.
\* (Variant: the elapsed time is rounded up to whole seconds before it is compared.)
RollsEarly == (age + TicksPerSecond - 1) \div TicksPerSecond >= WindowSeconds
Rolls == age >= Window

\* The window has no room for one more request.
Full(c, limit) == c >= limit

\* RetryAfterSeconds of a denial: the time to the end of the window, rounded up,
\* at least one second.  (Variant: rounded down.)
RetryAfterFloor(a) == LET secs == (Window - a) \div TicksPerSecond
                      IN  IF secs < 1 THEN 1 ELSE secs
RetryAfterSeconds(a) == LET secs == (Window - a + TicksPerSecond - 1) \div TicksPerSecond
                        IN  IF secs < 1 THEN 1 ELSE secs

\* Allow, with the limit on the caller's copy of the key row.
Allow(limit) ==
  LET a == IF Rolls THEN 0 ELSE age
      c == IF Rolls THEN 0 ELSE count
      t == IF Rolls THEN -1 ELSE told
  IN  /\ age' = a
      /\ IF Full(c, limit)
         THEN /\ count' = c
              /\ told' = IF t = -1 THEN RetryAfterSeconds(a) * TicksPerSecond ELSE t
              /\ UNCHANGED recent
         ELSE /\ count' = c + 1
              /\ recent' = [recent EXCEPT ![0] = @ + 1]
              /\ told' = t

Tick ==
  /\ age' = IF age < Window THEN age + 1 ELSE age
  /\ recent' = [k \in 0..(Window - 1) |-> IF k = 0 THEN 0 ELSE recent[k - 1]]
  /\ told' = IF told > 0 THEN told - 1 ELSE told
  /\ UNCHANGED count

-----------------------------------------------------------------------------
\* "rounding up so a client never retries a fraction of a second too early", "the
\* Retry-After hint exact (time until *this* window ends)": a client that has
\* waited as told finds the window that denied it over, and was not told to wait
\* a whole second longer than that.
RetryAfterIsExact ==
  /\ told = 0 => age >= Window
  /\ age >= Window => told < TicksPerSecond

\* A fixed window lets a burst straddle its boundary: within any one window's
\* length at most two windows' worth of requests is admitted, whatever the
\* operator does to the limit.
AtMostTwoWindows == FoldFunction(+, 0, recent) <= 2 * Max(Limits)
=============================================================================
