-------------------------- MODULE QueueOrderProofs --------------------------
(***************************************************************************)
(* The two scheduling promises of internal/queue/doc.go, for any number of *)
(* requests, any capacity, ranks and promotion window.                     *)
(*                                                                         *)
(* TopInv: whoever is first by rank has been passed at most once, and then *)
(* by a promotion, after which the next pop cannot be one.  AgedInv: while *)
(* an aged request waits, each slot that goes to somebody else either      *)
(* takes away one of those ahead of it (at least as old), or is a strict   *)
(* pick that makes the next one a promotion.                               *)
(***************************************************************************)
EXTENDS QueueOrder, QueueProofs

\* Who may be served before r on account of age.
Ahead(r) == {s \in Waiting \ {r} : age[s] >= age[r]}

Turn == IF justPromoted THEN 1 ELSE 0

TopInv ==
  \A r \in Requests : /\ passedTop[r] \in {0, 1}
                      /\ passedTop[r] = 1 => justPromoted /\ IsTopHead(r)

AgedInv ==
  \A r \in Requests :
    /\ passedAged[r] \in Nat
    /\ r \notin Waiting => passedAged[r] = 0
    /\ age[r] < PromoteAfter => passedAged[r] = 0
    /\ r \in Waiting /\ age[r] >= PromoteAfter =>
         passedAged[r] + 2 * Cardinality(Ahead(r)) + Turn
           <= 2 * (Cardinality(Requests) - Capacity - 1) + 1

OrderInv == IInv /\ TopInv /\ AgedInv

-----------------------------------------------------------------------------
(***************************************************************************)
(* What a step does to the waiters.                                        *)
(***************************************************************************)

\* A slot goes to the head that popLocked picks.
Passes(top, oldest) ==
  LET promote == Promotes(top, oldest)
      w == Head(classes[IF promote THEN oldest ELSE top])
  IN  /\ top \in InPlay /\ oldest \in InPlay /\ IsTop(top) /\ IsOldest(oldest)
      /\ justPromoted' = promote
      /\ w \in Waiting /\ Waiting' = Waiting \ {w}
      /\ \A s \in Waiting' : age'[s] = age[s]

\* Nobody is handed a slot: waiters come, at age zero, or go, or grow older together.
Stays ==
  /\ justPromoted' = justPromoted
  /\ \A s \in Waiting : stage'[s] # "granted"
  /\ \/ /\ \A s \in Waiting' \cap Waiting : age'[s] = age[s]
        /\ \A s \in Waiting' \ Waiting : age'[s] = 0
     \/ Waiting' = Waiting /\ \A s \in Waiting : age'[s] = age[s] + 1

\* The heads of the classes are waiting, and so is everybody in them.
LEMMA Heads ==
  ASSUME IInv
  PROVE  /\ \A p \in InPlay : /\ p \in Priorities /\ p \in Int
                              /\ Head(classes[p]) = classes[p][1] /\ 1 \in DOMAIN classes[p]
                              /\ Head(classes[p]) \in Waiting
         /\ \A r : IsTopHead(r) => r \in Waiting
<1>1. ASSUME NEW p \in InPlay
      PROVE  /\ p \in Priorities /\ p \in Int
             /\ Head(classes[p]) = classes[p][1] /\ 1 \in DOMAIN classes[p]
             /\ Head(classes[p]) \in Waiting
  <2>1. p \in Priorities /\ classes[p] # << >> /\ classes[p] \in Seq(Requests) /\ p \in Int
    BY QueueAssumption DEF InPlay, IInv, TypeOK
  <2>2. Head(classes[p]) = classes[p][1] /\ 1 \in DOMAIN classes[p]
        /\ classes[p][1] \in Requests
    BY <2>1
  <2>3. stage[classes[p][1]] = "waiting"
    BY <2>1, <2>2 DEF IInv, WaitersLinked
  <2> QED BY <2>1, <2>2, <2>3 DEF Waiting
<1>2. \A r : IsTopHead(r) => r \in Waiting
  BY <1>1 DEF IsTopHead
<1> QED BY <1>1, <1>2

\* releaseLocked, by a request that is not parked.
LEMMA ReleaseKinds ==
  ASSUME IInv, NEW r \in Requests, stage[r] \in {"granted", "holding"},
         NEW x \in {"idle", "released"}, ReleaseLocked([stage EXCEPT ![r] = x])
  PROVE  Stays \/ \E top, oldest \in InPlay : Passes(top, oldest)
<1> DEFINE st == [stage EXCEPT ![r] = x]
<1>1. stage \in [Requests -> Stages] /\ age \in [Requests -> 0..MaxAge]
      /\ st \in [Requests -> Stages] /\ r \notin Waiting
  BY DEF IInv, TypeOK, Stages, Waiting
<1>2. CASE /\ stage' = st /\ UNCHANGED <<age, justPromoted>>
  <2>1. Waiting' = Waiting /\ \A s \in Waiting : stage'[s] # "granted"
    BY <1>1, <1>2 DEF Waiting
  <2> QED BY <1>2, <2>1 DEF Stays
<1>3. ASSUME NEW top \in InPlay, NEW oldest \in InPlay, IsTop(top), IsOldest(oldest),
             NEW promote, promote = Promotes(top, oldest),
             NEW w, w = Head(classes[IF promote THEN oldest ELSE top]),
             justPromoted' = promote, stage' = [st EXCEPT ![w] = "granted"],
             age' = [age EXCEPT ![w] = 0]
      PROVE  Passes(top, oldest)
  <2>1. w \in Waiting
    BY <1>3, Heads
  <2>2. Waiting' = Waiting \ {w}
    BY <1>1, <1>3, <2>1 DEF Waiting
  <2>3. \A s \in Waiting' : age'[s] = age[s]
    BY <1>1, <1>3, <2>2 DEF Waiting
  <2> QED BY <1>3, <2>1, <2>2, <2>3 DEF Passes
<1> QED BY <1>2, <1>3 DEF ReleaseLocked

LEMMA StepKinds ==
  ASSUME IInv, [Next]_vars
  PROVE  Stays \/ \E top, oldest \in InPlay : Passes(top, oldest)
<1>1. stage \in [Requests -> Stages] /\ age \in [Requests -> 0..MaxAge]
      /\ AgesAreWaits
  BY DEF IInv, TypeOK
<1>2. ASSUME stage' = stage, age' = age, justPromoted' = justPromoted PROVE Stays
  BY <1>1, <1>2 DEF Stays, Waiting
<1>3. ASSUME NEW r \in Requests, RequestStep(r)
      PROVE  Stays \/ \E top, oldest \in InPlay : Passes(top, oldest)
  <2>1. CASE AcquireFast(r)
    BY <1>1, <2>1 DEF AcquireFast, Stays, Waiting
  <2>2. ASSUME NEW p \in Priorities, AcquireSlow(r, p) PROVE Stays
    BY <1>1, <2>2 DEF AcquireSlow, Stays, Waiting, AgesAreWaits
  <2>3. CASE TakeGrant(r)
    BY <1>1, <2>3 DEF TakeGrant, gateVars, Stays, Waiting
  <2>4. CASE CancelWaiting(r)
    BY <1>1, <2>4 DEF CancelWaiting, Stays, Waiting
  <2>5. CASE CancelGranted(r)
    BY <2>5, ReleaseKinds DEF CancelGranted
  <2>6. ASSUME NEW x \in {"idle", "released"}, stage[r] \in {"holding", "released"},
               CallRelease(r, x)
        PROVE  Stays \/ \E top, oldest \in InPlay : Passes(top, oldest)
    <3>1. CASE stage[r] = "holding"
      BY <2>6, <3>1, ReleaseKinds DEF CallRelease, OnceDone
    <3>2. CASE stage[r] = "released"
      BY <1>1, <2>6, <3>2 DEF CallRelease, OnceDone, gateVars, Stays, Waiting
    <3> QED BY <2>6, <3>1, <3>2
  <2>7. CASE Release(r)
    BY <2>6, <2>7 DEF Release
  <2>8. CASE DeferredRelease(r)
    BY <2>6, <2>8 DEF DeferredRelease
  <2> QED BY <1>3, <2>1, <2>2, <2>3, <2>4, <2>5, <2>7, <2>8 DEF RequestStep, Acquire, Cancel
<1>4. CASE Tick
  BY <1>1, <1>4 DEF Tick, gateVars, Stays, Waiting
<1>5. ASSUME NEW v \in Watchers, WatcherStep(v) PROVE Stays
  BY <1>2, <1>5 DEF WatcherStep, Watch, Unwatch, Receive, gateVars
<1>6. CASE UNCHANGED vars
  BY <1>2, <1>6 DEF vars, gateVars
<1> QED BY <1>3, <1>4, <1>5, <1>6 DEF Next

-----------------------------------------------------------------------------
(***************************************************************************)
(* First by rank.                                                          *)
(***************************************************************************)

TopHeadsWait == \A r : IsTopHead(r) => r \in Waiting

LEMMA TopHeadWaits == IInv => TopHeadsWait
BY Heads DEF TopHeadsWait

\* There is one top class.
LEMMA TopIsUnique ==
  ASSUME IInv, NEW p \in InPlay, NEW q \in InPlay, IsTop(p), IsTop(q)
  PROVE  p = q
<1>1. p \in Int /\ q \in Int
  BY Heads
<1> QED BY <1>1 DEF IsTop

LEMMA TopStep ==
  ASSUME OrderInv, IInv', [Next]_vars, HistoryNext
  PROVE  TopInv'
<1> SUFFICES ASSUME NEW r \in Requests
             PROVE  /\ passedTop'[r] \in {0, 1}
                    /\ passedTop'[r] = 1 => justPromoted' /\ IsTopHead(r)'
  BY DEF TopInv
<1>0. IsTopHead(r)' => r \in Waiting'
  <2>1. TopHeadsWait'
    BY TopHeadWaits, PTL
  <2> QED BY <2>1 DEF TopHeadsWait
<1>1. /\ passedTop[r] \in {0, 1} /\ (passedTop[r] = 1 => justPromoted /\ IsTopHead(r))
      /\ IInv
  BY DEF OrderInv, TopInv
<1>2. passedTop'[r] = IF ~IsTopHead(r)' THEN 0
                      ELSE IF IsTopHead(r) /\ HandsOver THEN passedTop[r] + 1
                      ELSE passedTop[r]
  BY DEF HistoryNext
<1>3. CASE Stays
  <2>1. ~HandsOver /\ justPromoted' = justPromoted
    BY <1>3 DEF Stays, HandsOver, Waiting
  <2> QED BY <1>1, <1>2, <2>1
<1>4. ASSUME NEW top \in InPlay, NEW oldest \in InPlay, Passes(top, oldest)
      PROVE  /\ passedTop'[r] \in {0, 1}
             /\ passedTop'[r] = 1 => justPromoted' /\ IsTopHead(r)'
  <2>1. CASE ~IsTopHead(r)'
    BY <1>2, <2>1
  <2>2. CASE ~IsTopHead(r)
    BY <1>1, <1>2, <2>2
  <2>3. CASE IsTopHead(r) /\ IsTopHead(r)'
    <3>1. r \in Waiting'
      BY <2>3, <1>0
    <3>2. r = Head(classes[top])
      BY <1>1, <1>4, <2>3, TopIsUnique DEF IsTopHead, Passes
    <3>3. Promotes(top, oldest)
      BY <1>4, <3>1, <3>2 DEF Passes
    <3>4. ~justPromoted /\ justPromoted'
      BY <1>4, <3>3 DEF Passes, Promotes
    <3>5. passedTop[r] = 0
      BY <1>1, <3>4
    <3> QED BY <1>2, <2>3, <3>4, <3>5
  <2> QED BY <2>1, <2>2, <2>3
<1> QED BY <1>1, <1>3, <1>4, StepKinds

-----------------------------------------------------------------------------
(***************************************************************************)
(* The aged.                                                               *)
(***************************************************************************)

\* While somebody waits every slot is taken, so not many can be ahead.
LEMMA AheadIsBounded ==
  ASSUME IInv, NEW r \in Waiting
  PROVE  /\ Cardinality(Ahead(r)) \in Nat /\ IsFiniteSet(Ahead(r))
         /\ Cardinality(Ahead(r)) <= Cardinality(Requests) - Capacity - 1
         /\ Cardinality(Requests) \in Nat /\ Capacity \in Nat
<1>1. /\ IsFiniteSet(Requests) /\ Cardinality(Requests) \in Nat /\ Capacity \in Nat
  BY QueueAssumption, FS_CardinalityType
<1>2. /\ Waiting \in SUBSET Requests /\ Busy \in SUBSET Requests /\ Waiting \cap Busy = {}
      /\ free = 0
  BY DEF Waiting, Busy, IInv, TypeOK, NoBarging
<1>3. Cardinality(Busy) = Capacity
  BY <1>2, RequestCounts DEF IInv, SlotConservation
<1>4. IsFiniteSet(Waiting) /\ IsFiniteSet(Busy) /\ Cardinality(Waiting) \in Nat
      /\ Cardinality(Busy) \in Nat
  BY <1>1, <1>2, FS_Subset, FS_CardinalityType
<1>5. Cardinality(Waiting \cup Busy) = Cardinality(Waiting) + Cardinality(Busy)
  <2>1. Cardinality(Waiting \cup Busy)
          = Cardinality(Waiting) + Cardinality(Busy) - Cardinality(Waiting \cap Busy)
    BY <1>4, FS_Union
  <2>2. Cardinality(Waiting \cap Busy) = 0
    BY <1>2, FS_EmptySet
  <2> QED BY <1>4, <2>1, <2>2
<1>6. Cardinality(Waiting \cup Busy) <= Cardinality(Requests)
  <2>1. Waiting \cup Busy \in SUBSET Requests
    BY <1>2
  <2> QED BY <1>1, <2>1, FS_Subset
<1>7. Cardinality(Waiting \ {r}) = Cardinality(Waiting) - 1 /\ IsFiniteSet(Waiting \ {r})
  BY <1>4, FS_RemoveElement
<1>8. Cardinality(Ahead(r)) <= Cardinality(Waiting \ {r}) /\ IsFiniteSet(Ahead(r))
      /\ Cardinality(Ahead(r)) \in Nat
  <2>1. Ahead(r) \in SUBSET (Waiting \ {r})
    BY DEF Ahead
  <2> QED BY <1>7, <2>1, FS_Subset, FS_CardinalityType
<1> QED BY <1>1, <1>3, <1>4, <1>5, <1>6, <1>7, <1>8

FewAhead ==
  \A r \in Waiting : /\ Cardinality(Ahead(r)) \in Nat
                     /\ Cardinality(Ahead(r)) <= Cardinality(Requests) - Capacity - 1

LEMMA AheadBound == IInv => FewAhead
BY AheadIsBounded DEF FewAhead

\* The oldest head is at least as old as anybody.
LEMMA OldestIsOldest ==
  ASSUME IInv, NEW r \in Waiting, NEW oldest \in InPlay, IsOldest(oldest)
  PROVE  HeadAge(oldest) >= age[r]
<1>1. r \in Requests /\ stage[r] = "waiting"
  BY DEF Waiting
<1>2a. PICK q \in Priorities : \E i \in DOMAIN classes[q] : classes[q][i] = r
  BY DEF IInv, WaitersLinked
<1>2. PICK i \in DOMAIN classes[q] : classes[q][i] = r
  BY <1>2a
<1>3. classes[q] \in Seq(Requests) /\ classes[q] # << >> /\ i \in 1..Len(classes[q])
      /\ Len(classes[q]) \in Nat
  BY <1>2 DEF IInv, TypeOK
<1>4. q \in InPlay
  BY <1>3 DEF InPlay
<1>5. 1 \in DOMAIN classes[q] /\ Head(classes[q]) = classes[q][1]
      /\ Head(classes[q]) \in Requests /\ Head(classes[oldest]) \in Requests
  BY <1>4, Heads DEF Waiting
<1>6. age \in [Requests -> 0..MaxAge]
  BY DEF IInv, TypeOK
<1>7. HeadAge(q) >= age[r]
  <2>1. CASE i = 1
    BY <1>1, <1>2, <1>5, <1>6, <2>1 DEF HeadAge
  <2>2. CASE i # 1
    <3>1. 1 < i
      BY <1>3, <2>2
    <3> QED BY <1>2, <1>5, <3>1 DEF IInv, ClassesAreFIFO, HeadAge
  <2> QED BY <2>1, <2>2
<1>8. HeadAge(q) <= HeadAge(oldest)
  BY <1>4 DEF IsOldest
<1>9. age[r] \in Int /\ HeadAge(q) \in Int /\ HeadAge(oldest) \in Int
  BY <1>1, <1>5, <1>6 DEF HeadAge
<1> QED BY <1>7, <1>8, <1>9

LEMMA AgedStep ==
  ASSUME OrderInv, IInv', [Next]_vars, HistoryNext
  PROVE  AgedInv'
<1> DEFINE B == 2 * (Cardinality(Requests) - Capacity - 1) + 1
<1> SUFFICES ASSUME NEW r \in Requests
             PROVE  /\ passedAged'[r] \in Nat
                    /\ r \notin Waiting' => passedAged'[r] = 0
                    /\ age'[r] < PromoteAfter => passedAged'[r] = 0
                    /\ r \in Waiting' /\ age'[r] >= PromoteAfter =>
                         passedAged'[r] + 2 * Cardinality(Ahead(r)') + Turn' <= B
  BY DEF AgedInv
<1>1. /\ IInv /\ PromoteAfter \in Nat /\ PromoteAfter > 0
      /\ passedAged[r] \in Nat
      /\ r \notin Waiting => passedAged[r] = 0
      /\ age[r] < PromoteAfter => passedAged[r] = 0
  BY QueueAssumption DEF OrderInv, AgedInv
<1>2. passedAged'[r] = IF r \notin Waiting' THEN 0
                       ELSE IF age[r] >= PromoteAfter /\ HandsOver THEN passedAged[r] + 1
                       ELSE passedAged[r]
  BY DEF HistoryNext, Waiting
<1>3. /\ \A s \in Requests : age[s] \in Nat
      /\ age' \in [Requests -> 0..MaxAge] /\ \A s \in Waiting : s \in Requests
      /\ Turn \in {0, 1} /\ Turn' \in {0, 1}
  BY <1>1 DEF IInv, TypeOK, Waiting, Turn
<1>4. CASE r \notin Waiting'
  <2>1. age'[r] < PromoteAfter => passedAged'[r] = 0
    BY <1>2, <1>4
  <2> QED BY <1>2, <1>4, <2>1
<1>5. ASSUME r \in Waiting'
      PROVE  /\ Cardinality(Ahead(r)') \in Nat
             /\ 2 * Cardinality(Ahead(r)') + 1 <= B /\ B \in Int
  <2>1. FewAhead'
    BY AheadBound, PTL
  <2>2. Cardinality(Requests) \in Nat /\ Capacity \in Nat
    BY QueueAssumption, FS_CardinalityType
  <2>3. /\ Cardinality(Ahead(r)') \in Nat
        /\ Cardinality(Ahead(r)') <= Cardinality(Requests) - Capacity - 1
    BY <1>5, <2>1 DEF FewAhead
  <2> QED BY <2>2, <2>3
<1>6. ASSUME r \in Waiting
      PROVE  /\ Cardinality(Ahead(r)) \in Nat /\ IsFiniteSet(Ahead(r))
             /\ age[r] >= PromoteAfter
                  => passedAged[r] + 2 * Cardinality(Ahead(r)) + Turn <= B
  BY <1>1, <1>6, AheadIsBounded DEF OrderInv, AgedInv
<1> HIDE DEF B
<1>7. CASE r \in Waiting' /\ Stays
  <2>1. ~HandsOver /\ Turn' = Turn /\ passedAged'[r] = passedAged[r]
    BY <1>2, <1>7 DEF Stays, HandsOver, Waiting, Turn
  <2>2. CASE r \notin Waiting
    <3>1. age'[r] = 0
      BY <1>7, <2>2 DEF Stays
    <3> QED BY <1>1, <2>1, <2>2, <3>1
  <2>3. CASE r \in Waiting /\ age'[r] = age[r] /\ age[r] < PromoteAfter
    BY <1>1, <1>3, <2>1, <2>3
  <2>4. CASE r \in Waiting /\ age'[r] = age[r] /\ age[r] >= PromoteAfter
    <3>1. Ahead(r)' \in SUBSET Ahead(r)
      BY <1>1, <1>3, <1>7, <2>4 DEF Stays, Ahead
    <3>2. Cardinality(Ahead(r)') <= Cardinality(Ahead(r))
      BY <1>6, <2>4, <3>1, FS_Subset
    <3> HIDE DEF Ahead, Turn
    <3>3. /\ passedAged[r] + 2 * Cardinality(Ahead(r)) + Turn <= B
          /\ Cardinality(Ahead(r)) \in Nat /\ Cardinality(Ahead(r)') \in Nat /\ B \in Int
      BY <1>5, <1>6, <1>7, <2>4
    <3> QED BY <1>1, <1>3, <1>7, <2>1, <2>4, <3>2, <3>3
  <2>5. CASE Waiting' = Waiting /\ \A s \in Waiting : age'[s] = age[s] + 1
    <3>1. Ahead(r)' = Ahead(r) /\ r \in Waiting /\ age'[r] = age[r] + 1
      BY <1>3, <1>7, <2>5 DEF Ahead
    <3>2. CASE age[r] >= PromoteAfter
      <4>1. /\ passedAged[r] + 2 * Cardinality(Ahead(r)') + Turn <= B
            /\ age'[r] >= PromoteAfter
        BY <1>1, <1>3, <1>6, <3>1, <3>2
      <4> QED BY <1>1, <1>3, <1>7, <2>1, <3>1, <4>1
    <3>3. CASE age[r] < PromoteAfter
      <4>1. passedAged'[r] = 0
        BY <1>1, <2>1, <3>3
      <4> QED BY <1>1, <1>3, <1>5, <1>7, <4>1
    <3> QED BY <1>1, <1>3, <3>2, <3>3
  <2> QED BY <1>1, <1>3, <1>7, <2>2, <2>3, <2>4, <2>5 DEF Stays
<1>8. ASSUME r \in Waiting', NEW top \in InPlay, NEW oldest \in InPlay, Passes(top, oldest)
      PROVE  /\ passedAged'[r] \in Nat
             /\ age'[r] < PromoteAfter => passedAged'[r] = 0
             /\ age'[r] >= PromoteAfter =>
                  passedAged'[r] + 2 * Cardinality(Ahead(r)') + Turn' <= B
  <2> DEFINE w == Head(classes[IF Promotes(top, oldest) THEN oldest ELSE top])
  <2>1. /\ Waiting' = Waiting \ {w} /\ w \in Waiting /\ \A s \in Waiting' : age'[s] = age[s]
        /\ justPromoted' = Promotes(top, oldest) /\ IsOldest(oldest)
    BY <1>8 DEF Passes
  <2> HIDE DEF w
  <2>2. r \in Waiting /\ r # w /\ age'[r] = age[r]
    BY <1>8, <2>1
  <2>3. passedAged'[r] \in Nat /\ passedAged'[r] <= passedAged[r] + 1
        /\ (age[r] < PromoteAfter => passedAged'[r] = 0)
    BY <1>1, <1>2, <1>3, <1>8
  <2>4. CASE age[r] < PromoteAfter
    BY <1>1, <1>3, <2>2, <2>3, <2>4
  <2>5. CASE age[r] >= PromoteAfter
    <3>1. Ahead(r)' = Ahead(r) \ {w}
      BY <2>1, <2>2 DEF Ahead
    <3>2. HeadAge(oldest) >= age[r] /\ HeadAge(oldest) \in Int
      <4>1. Head(classes[oldest]) \in Waiting
        BY <1>1, Heads
      <4> QED BY <1>1, <1>3, <2>1, <2>2, <4>1, OldestIsOldest DEF HeadAge
    <3>3. /\ passedAged[r] + 2 * Cardinality(Ahead(r)) + Turn <= B
          /\ Cardinality(Ahead(r)) \in Nat /\ IsFiniteSet(Ahead(r))
          /\ Cardinality(Ahead(r)') \in Nat /\ B \in Int
      BY <1>5, <1>6, <1>8, <2>2, <2>5
    <3>4. ASSUME w = Head(classes[oldest])
          PROVE  Cardinality(Ahead(r)') = Cardinality(Ahead(r)) - 1
      <4>1. w \in Ahead(r)
        BY <2>1, <2>2, <3>2, <3>4 DEF Ahead, HeadAge
      <4> QED BY <3>1, <3>3, <4>1, FS_RemoveElement
    <3> HIDE DEF Ahead
    <3>5. CASE Promotes(top, oldest)
      <4>1. Cardinality(Ahead(r)') = Cardinality(Ahead(r)) - 1 /\ Turn = 0 /\ Turn' \in {0, 1}
        BY <1>3, <3>4, <3>5 DEF w, Promotes, Turn
      <4> QED BY <1>1, <2>3, <2>2, <2>5, <3>3, <4>1
    <3>6. CASE ~Promotes(top, oldest) /\ oldest = top
      <4>1. Cardinality(Ahead(r)') = Cardinality(Ahead(r)) - 1 /\ Turn' = 0
        BY <2>1, <3>4, <3>6 DEF w, Turn
      <4> QED BY <1>1, <1>3, <2>3, <2>2, <2>5, <3>3, <4>1
    <3>7. CASE ~Promotes(top, oldest) /\ oldest # top
      <4>1. justPromoted
        BY <1>1, <1>3, <2>2, <2>5, <3>2, <3>7 DEF Promotes
      <4>2. Turn = 1 /\ Turn' = 0
        BY <2>1, <3>7, <4>1 DEF Turn
      <4>3. Cardinality(Ahead(r)') <= Cardinality(Ahead(r))
        BY <3>1, <3>3, FS_Subset
      <4> QED BY <1>1, <2>3, <2>2, <2>5, <3>3, <4>2, <4>3
    <3> QED BY <3>5, <3>6, <3>7
  <2> QED BY <1>1, <1>3, <2>2, <2>4, <2>5
<1> QED BY <1>1, <1>4, <1>7, <1>8, StepKinds

-----------------------------------------------------------------------------
LEMMA OrderInitInv == OrderInit => OrderInv
<1> SUFFICES ASSUME OrderInit PROVE OrderInv
  OBVIOUS
<1>1. IInv /\ \A r \in Requests : stage[r] = "idle"
  BY InitIInv DEF OrderInit, Init
<1>2. TopInv
  BY DEF OrderInit, HistoryInit, TopInv
<1>3. AgedInv
  BY <1>1 DEF OrderInit, HistoryInit, AgedInv, Waiting
<1> QED BY <1>1, <1>2, <1>3 DEF OrderInv

LEMMA OrderStepInv == OrderInv /\ [OrderNext]_orderVars => OrderInv'
<1> SUFFICES ASSUME OrderInv, [OrderNext]_orderVars PROVE OrderInv'
  OBVIOUS
<1>1. IInv /\ [Next]_vars
  BY DEF OrderInv, OrderNext, orderVars
<1>2. IInv'
  BY <1>1, StepIInv
<1>3. CASE OrderNext
  BY <1>1, <1>2, <1>3, TopStep, AgedStep DEF OrderInv, OrderNext
<1>4. CASE UNCHANGED orderVars
  <2>1. UNCHANGED <<stage, age, classes, justPromoted, passedTop, passedAged>>
    BY <1>4 DEF orderVars, vars, gateVars
  <2>2. TopInv'
    BY <2>1 DEF OrderInv, TopInv, IsTopHead, InPlay, IsTop
  <2>3. AgedInv'
    BY <2>1 DEF OrderInv, AgedInv, Ahead, Waiting, Turn
  <2> QED BY <1>2, <2>2, <2>3 DEF OrderInv
<1> QED BY <1>3, <1>4

LEMMA OrderInvariance == OrderSpec => []OrderInv
BY OrderInitInv, OrderStepInv, PTL DEF OrderSpec

\* The priority request's promise of doc.go: while it is first by rank, at most
\* one slot goes past it, however deep the backlog and whatever the ranks.
THEOREM FirstByRankIsNext == OrderSpec => []OneExtraAdmission
<1>1. OrderInv => OneExtraAdmission
  BY DEF OrderInv, TopInv, OneExtraAdmission
<1> QED BY <1>1, OrderInvariance, PTL

\* The aged request's promise of doc.go: it is passed at most twice for each
\* request that can stand ahead of it, plus once, however many keep arriving.
THEOREM AgedAreDrained == OrderSpec => []AgedDrain
<1>1. ASSUME OrderInv PROVE AgedDrain
  <2> SUFFICES ASSUME NEW r \in Waiting
               PROVE  passedAged[r] <= 2 * (Cardinality(Requests) - Capacity - 1) + 1
    BY DEF AgedDrain
  <2>1. /\ Cardinality(Ahead(r)) \in Nat
        /\ Cardinality(Ahead(r)) <= Cardinality(Requests) - Capacity - 1
        /\ Cardinality(Requests) \in Nat /\ Capacity \in Nat
    BY <1>1, AheadIsBounded DEF OrderInv
  <2>2. r \in Requests /\ age[r] \in Nat /\ PromoteAfter \in Nat /\ passedAged[r] \in Nat
        /\ Turn \in {0, 1}
    BY <1>1, QueueAssumption DEF OrderInv, IInv, TypeOK, AgedInv, Waiting, Turn
  <2>3. CASE age[r] < PromoteAfter
    <3>1. passedAged[r] = 0
      BY <1>1, <2>2, <2>3 DEF OrderInv, AgedInv
    <3> QED BY <2>1, <3>1
  <2>4. CASE age[r] >= PromoteAfter
    <3>1. passedAged[r] + 2 * Cardinality(Ahead(r)) + Turn
            <= 2 * (Cardinality(Requests) - Capacity - 1) + 1
      BY <1>1, <2>2, <2>4 DEF OrderInv, AgedInv
    <3> HIDE DEF Ahead, Turn
    <3> QED BY <2>1, <2>2, <3>1
  <2> QED BY <2>2, <2>3, <2>4
<1> QED BY <1>1, OrderInvariance, PTL
=============================================================================
