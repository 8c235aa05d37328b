---------------------------- MODULE QueueProofs ----------------------------
(***************************************************************************)
(* Proofs about Queue for every set of requests, every set of ranks, every *)
(* capacity, window and number of watchers.  IInv is the inductive         *)
(* invariant: the safety properties are not inductive one by one, because  *)
(* handing a slot over is sound only if the class lists hold exactly the   *)
(* parked requests, and an arrival keeps a class FIFO only if it starts at *)
(* age zero.                                                               *)
(***************************************************************************)
EXTENDS Queue, TLAPS, FiniteSetTheorems, SequenceTheorems

\* Only a parked request has an age.
AgesAreWaits == \A r \in Requests : stage[r] # "waiting" => age[r] = 0

\* The part of TypeOK that the gate itself owns.
GateTypes ==
  /\ stage \in [Requests -> Stages]
  /\ age \in [Requests -> 0..MaxAge]
  /\ promotedBy \in [Requests -> BOOLEAN]
  /\ free \in 0..Capacity
  /\ classes \in [Priorities -> Seq(Requests)]
  /\ waiting \in Nat
  /\ justPromoted \in BOOLEAN

\* The part of TypeOK about watchers and counters.
SideTypes ==
  /\ watchers \subseteq Watchers
  /\ signalled \subseteq watchers
  /\ admitted \in 0..(CounterMod - 1)
  /\ promoted \in 0..(CounterMod - 1)
  /\ cancelled \in 0..(CounterMod - 1)

\* What the gate's own variables satisfy.
GateInv ==
  /\ GateTypes
  /\ SlotConservation
  /\ NoBarging
  /\ WaitersLinked
  /\ ClassesAreFIFO
  /\ AgesAreWaits

IInv ==
  /\ TypeOK
  /\ SlotConservation
  /\ NoBarging
  /\ WaitersLinked
  /\ ClassesAreFIFO
  /\ AgesAreWaits

-----------------------------------------------------------------------------
(***************************************************************************)
(* Facts about the helpers.                                                *)
(***************************************************************************)

\* What list.Remove leaves of a class: the others, in their order.
LEMMA RemoveAtFacts ==
  ASSUME NEW S, NEW s \in Seq(S), NEW i \in 1..Len(s)
  PROVE  /\ RemoveAt(s, i) \in Seq(S)
         /\ Len(RemoveAt(s, i)) = Len(s) - 1
         /\ \A j \in 1..(Len(s) - 1) :
              RemoveAt(s, i)[j] = IF j < i THEN s[j] ELSE s[j + 1]
<1> DEFINE front == SubSeq(s, 1, i - 1)
           back == SubSeq(s, i + 1, Len(s))
<1>1. /\ front \in Seq(S) /\ Len(front) = i - 1
      /\ \A j \in 1..(i - 1) : front[j] = s[j]
  OBVIOUS
<1>2. /\ back \in Seq(S) /\ Len(back) = Len(s) - i
      /\ \A j \in 1..(Len(s) - i) : back[j] = s[j + i]
  OBVIOUS
<1>3. RemoveAt(s, i) = front \o back
  BY DEF RemoveAt
<1> HIDE DEF front, back
<1>4. /\ front \o back \in Seq(S)
      /\ Len(front \o back) = Len(front) + Len(back)
      /\ \A j \in 1..(Len(front) + Len(back)) :
           (front \o back)[j] =
             IF j <= Len(front) THEN front[j] ELSE back[j - Len(front)]
  BY <1>1, <1>2, ConcatProperties
<1>5. ASSUME NEW j \in 1..(Len(s) - 1)
      PROVE  (front \o back)[j] = IF j < i THEN s[j] ELSE s[j + 1]
  <2>1. i \in Int /\ j \in Int /\ Len(s) \in Nat /\ j \in 1..(Len(front) + Len(back))
    BY <1>1, <1>2
  <2>2. CASE j < i
    BY <1>1, <1>4, <2>1, <2>2
  <2>3. CASE j >= i
    <3>1. j - (i - 1) \in 1..(Len(s) - i) /\ (j - (i - 1)) + i = j + 1
      BY <2>1, <2>3
    <3>2. back[j - (i - 1)] = s[j + 1]
      BY <1>2, <3>1
    <3>3. ~(j <= Len(front)) /\ j - Len(front) = j - (i - 1)
      BY <1>1, <2>1, <2>3
    <3>4. QED
      BY <1>4, <2>1, <2>3, <3>2, <3>3
  <2>4. QED
    BY <2>1, <2>2, <2>3
<1>6. QED
  BY <1>1, <1>2, <1>3, <1>4, <1>5

\* Finite sets of requests have cardinalities, and adding or removing one
\* request changes them by one.
LEMMA RequestCounts ==
  ASSUME NEW A \in SUBSET Requests
  PROVE  /\ Cardinality(A) \in Nat
         /\ Cardinality(A) = 0 <=> A = {}
         /\ \A r \in Requests \ A : Cardinality(A \cup {r}) = Cardinality(A) + 1
         /\ \A r \in A : Cardinality(A \ {r}) = Cardinality(A) - 1
<1>1. IsFiniteSet(A)
  BY QueueAssumption, FS_Subset
<1>2. Cardinality(A) \in Nat
  BY <1>1, FS_CardinalityType
<1>3. Cardinality(A) = 0 <=> A = {}
  BY <1>1, FS_EmptySet
<1>4. \A r \in Requests \ A : Cardinality(A \cup {r}) = Cardinality(A) + 1
  BY <1>1, FS_AddElement
<1>5. \A r \in A : Cardinality(A \ {r}) = Cardinality(A) - 1
  BY <1>1, FS_RemoveElement
<1>6. QED
  BY <1>2, <1>3, <1>4, <1>5

\* The class lists are well linked: every entry is parked, every parked request
\* has an entry, and no request has two.
Linked(cl, st) ==
  /\ \A p \in Priorities : \A i \in DOMAIN cl[p] : st[cl[p][i]] = "waiting"
  /\ \A r \in Requests : st[r] = "waiting" =>
       \E p \in Priorities : \E i \in DOMAIN cl[p] : cl[p][i] = r
  /\ \A p, q \in Priorities : \A i \in DOMAIN cl[p], j \in DOMAIN cl[q] :
       cl[p][i] = cl[q][j] => p = q /\ i = j

\* WaitersLinked in two parts: the lists, and the count of the parked requests.
LEMMA WaitersLinkedSplit ==
  WaitersLinked <=> Linked(classes, stage) /\ waiting = Cardinality(Waiting)
  BY DEF WaitersLinked, Linked, Waiting

\* The lists `new` are `cl` without the entry i of class p, whose request is no
\* longer parked; nobody else's parking changed from st0 to st1.
UnlinkPre(cl, st0, p, i, st1, new) ==
  /\ cl \in [Priorities -> Seq(Requests)]
  /\ Linked(cl, st0)
  /\ p \in Priorities /\ i \in DOMAIN cl[p]
  /\ st1[cl[p][i]] # "waiting"
  /\ \A r \in Requests \ {cl[p][i]} : st1[r] = "waiting" <=> st0[r] = "waiting"
  /\ new = [cl EXCEPT ![p] = RemoveAt(cl[p], i)]

\* They are well linked, the request is gone, and the others keep their order.
UnlinkPost(cl, p, i, st1, new) ==
  /\ new \in [Priorities -> Seq(Requests)]
  /\ Linked(new, st1)
  /\ \A q \in Priorities : \A j \in DOMAIN new[q] : new[q][j] # cl[p][i]
  /\ \A q \in Priorities : \A j, k \in DOMAIN new[q] :
       j < k => \E a, b \in DOMAIN cl[q] :
         a < b /\ new[q][j] = cl[q][a] /\ new[q][k] = cl[q][b]

\* removeLocked takes one waiter out of the lists and disturbs nobody else.
LEMMA UnlinkFacts ==
  ASSUME NEW cl, NEW st0, NEW p, NEW i, NEW st1, NEW new,
         UnlinkPre(cl, st0, p, i, st1, new)
  PROVE  UnlinkPost(cl, p, i, st1, new)
<1> USE DEF UnlinkPre
<1> DEFINE s == cl[p]
           t == RemoveAt(s, i)
<1>1. s \in Seq(Requests) /\ i \in 1..Len(s)
  OBVIOUS
<1>2. /\ t \in Seq(Requests) /\ Len(t) = Len(s) - 1
      /\ \A j \in 1..(Len(s) - 1) : t[j] = IF j < i THEN s[j] ELSE s[j + 1]
  BY <1>1, RemoveAtFacts
<1>3. new = [q \in Priorities |-> IF q = p THEN t ELSE cl[q]]
  OBVIOUS
<1> DEFINE old(q, j) == IF q = p /\ j >= i THEN j + 1 ELSE j
<1>4. \A q \in Priorities : \A j \in DOMAIN new[q] :
        /\ j \in Int
        /\ old(q, j) \in DOMAIN cl[q]
        /\ new[q][j] = cl[q][old(q, j)]
        /\ q = p => old(q, j) # i
  <2> SUFFICES ASSUME NEW q \in Priorities, NEW j \in DOMAIN new[q]
               PROVE  /\ j \in Int
                      /\ old(q, j) \in DOMAIN cl[q]
                      /\ new[q][j] = cl[q][old(q, j)]
                      /\ q = p => old(q, j) # i
    OBVIOUS
  <2>1. CASE q = p
    BY <1>1, <1>2, <1>3, <2>1
  <2>2. CASE q # p
    BY <1>3, <2>2
  <2>3. QED
    BY <2>1, <2>2
<1>5. \A q \in Priorities : \A a \in DOMAIN cl[q] :
        ~(q = p /\ a = i) =>
          \E j \in DOMAIN new[q] : new[q][j] = cl[q][a]
  <2> SUFFICES ASSUME NEW q \in Priorities, NEW a \in DOMAIN cl[q],
                      ~(q = p /\ a = i)
               PROVE  \E j \in DOMAIN new[q] : new[q][j] = cl[q][a]
    OBVIOUS
  <2>1. CASE q # p
    BY <1>3, <2>1
  <2>2. CASE q = p /\ a < i
    <3>1. a \in DOMAIN t /\ t[a] = s[a]
      BY <1>1, <1>2, <2>2
    <3>2. QED
      BY <3>1, <1>3, <2>2
  <2>3. CASE q = p /\ a > i
    <3>1. a - 1 \in DOMAIN t /\ t[a - 1] = s[a]
      BY <1>1, <1>2, <2>3
    <3>2. QED
      BY <3>1, <1>3, <2>3
  <2>4. QED
    BY <1>1, <2>1, <2>2, <2>3
<1>6. new \in [Priorities -> Seq(Requests)]
  BY <1>2, <1>3
<1>7. \A q \in Priorities : \A j \in DOMAIN new[q] : new[q][j] # cl[p][i]
  BY <1>4 DEF Linked
<1>8. \A q \in Priorities : \A j, k \in DOMAIN new[q] :
        j < k => old(q, j) < old(q, k)
  BY <1>1, <1>4
<1>9. \A q \in Priorities : \A j, k \in DOMAIN new[q] :
        j < k => \E a, b \in DOMAIN cl[q] :
          /\ a < b /\ new[q][j] = cl[q][a] /\ new[q][k] = cl[q][b]
  <2> HIDE DEF old
  <2> QED BY <1>4, <1>8
<1>10. \A q \in Priorities : \A j \in DOMAIN new[q] : st1[new[q][j]] = "waiting"
  <2> SUFFICES ASSUME NEW q \in Priorities, NEW j \in DOMAIN new[q]
               PROVE  st1[new[q][j]] = "waiting"
    OBVIOUS
  <2>1. new[q][j] \in Requests
    BY <1>6
  <2>2. st0[new[q][j]] = "waiting"
    <3> HIDE DEF old
    <3> QED BY <1>4 DEF Linked
  <2>3. QED
    BY <1>7, <2>1, <2>2
<1>11. \A r \in Requests : st1[r] = "waiting" =>
         \E q \in Priorities : \E j \in DOMAIN new[q] : new[q][j] = r
  <2> SUFFICES ASSUME NEW r \in Requests, st1[r] = "waiting"
               PROVE  \E q \in Priorities : \E j \in DOMAIN new[q] : new[q][j] = r
    OBVIOUS
  <2>1. st0[r] = "waiting" /\ r # cl[p][i]
    OBVIOUS
  <2>2. PICK q \in Priorities : \E a \in DOMAIN cl[q] : cl[q][a] = r
    BY <2>1 DEF Linked
  <2>3. PICK a \in DOMAIN cl[q] : cl[q][a] = r
    BY <2>2
  <2>4. QED
    BY <1>5, <2>1, <2>3
<1>12. \A q1, q2 \in Priorities : \A j \in DOMAIN new[q1], k \in DOMAIN new[q2] :
         new[q1][j] = new[q2][k] => q1 = q2 /\ j = k
  <2> SUFFICES ASSUME NEW q1 \in Priorities, NEW q2 \in Priorities,
                      NEW j \in DOMAIN new[q1], NEW k \in DOMAIN new[q2],
                      new[q1][j] = new[q2][k]
               PROVE  q1 = q2 /\ j = k
    OBVIOUS
  <2>1. q1 = q2 /\ old(q1, j) = old(q2, k)
    <3> HIDE DEF old
    <3> QED BY <1>4 DEF Linked
  <2>2. j \in Int /\ k \in Int
    BY <1>4
  <2>3. QED
    BY <1>1, <2>1, <2>2
<1>13. Linked(new, st1)
  BY <1>10, <1>11, <1>12 DEF Linked
<1>14. QED
  BY <1>6, <1>7, <1>9, <1>13 DEF UnlinkPost

-----------------------------------------------------------------------------
\* The invariant is the gate's part and the types of watchers and counters.
LEMMA InvSplit == IInv <=> GateInv /\ SideTypes
  BY DEF IInv, GateInv, TypeOK, GateTypes, SideTypes

\* A counter stays within its width.
LEMMA IncType == \A n \in Nat : Inc(n) \in 0..(CounterMod - 1)
  BY QueueAssumption DEF Inc

\* releaseLocked keeps the gate's invariant, and either nobody is parked and the
\* slot is free again, or exactly one parked request takes it over.
LEMMA HandOver ==
  ASSUME IInv, NEW r \in Requests, stage[r] \in {"granted", "holding"},
         NEW x \in {"idle", "released"},
         ReleaseLocked([stage EXCEPT ![r] = x])
  PROVE  /\ GateInv'
         /\ \/ Waiting = {} /\ Waiting' = {} /\ Busy' = Busy \ {r}
            \/ \E w \in Waiting : /\ Busy' = (Busy \ {r}) \cup {w}
                                 /\ Waiting' = Waiting \ {w}
<1> DEFINE st == [stage EXCEPT ![r] = x]
<1> USE DEF Stages
<1>1. /\ TypeOK /\ Linked(classes, stage) /\ waiting = Cardinality(Waiting)
      /\ st \in [Requests -> Stages] /\ r \in Busy /\ r \notin Waiting
      /\ Busy \in SUBSET Requests /\ Waiting \in SUBSET Requests
  BY WaitersLinkedSplit DEF IInv, TypeOK, Busy, Waiting
<1>2. CASE /\ InPlay = {}
           /\ free' = free + 1
           /\ stage' = st
           /\ UNCHANGED <<age, promotedBy, classes, waiting, justPromoted>>
  <2>1. Waiting = {}
    BY <1>1, <1>2 DEF InPlay, Linked, Waiting, TypeOK
  <2>2. Waiting' = {} /\ Busy' = Busy \ {r}
    BY <1>1, <1>2, <2>1 DEF Waiting, Busy, TypeOK
  <2>3. Cardinality(Busy') = Cardinality(Busy) - 1 /\ Cardinality(Busy) \in Nat
        /\ Cardinality(Busy') \in Nat
    BY <1>1, <2>2, RequestCounts
  <2>4. SlotConservation' /\ free' \in 0..Capacity
    BY <1>1, <1>2, <2>3, QueueAssumption DEF SlotConservation, IInv, TypeOK
  <2>5. WaitersLinked'
    <3>1. waiting' = Cardinality(Waiting')
      BY <1>1, <1>2, <2>1, <2>2
    <3>2. \A q \in Requests : stage'[q] = "waiting" <=> stage[q] = "waiting"
      BY <2>1, <2>2 DEF Waiting
    <3>3. \A q \in Priorities : \A i \in DOMAIN classes[q] : classes[q][i] \in Requests
      BY <1>1 DEF TypeOK
    <3>4. Linked(classes', stage')
      BY <1>1, <1>2, <3>2, <3>3 DEF Linked
    <3>5. QED
      BY <3>1, <3>4 DEF WaitersLinked, Linked, Waiting
  <2>6. AgesAreWaits'
    BY <1>1, <1>2 DEF IInv, AgesAreWaits, TypeOK
  <2>7. GateInv'
    BY <1>1, <1>2, <2>2, <2>4, <2>5, <2>6
       DEF GateInv, GateTypes, TypeOK, NoBarging, ClassesAreFIFO, IInv
  <2>8. QED
    BY <2>1, <2>2, <2>7
<1>3. ASSUME NEW p \in InPlay, NEW promote \in BOOLEAN,
             LET w == Head(classes[p])
             IN  /\ justPromoted' = promote
                 /\ classes' = Unlinked(p, 1)
                 /\ waiting' = waiting - 1
                 /\ stage' = [st EXCEPT ![w] = "granted"]
                 /\ promotedBy' = [promotedBy EXCEPT ![w] = promote]
                 /\ age' = [age EXCEPT ![w] = 0],
             UNCHANGED free
      PROVE  /\ GateInv'
             /\ \E w \in Waiting : /\ Busy' = (Busy \ {r}) \cup {w}
                                   /\ Waiting' = Waiting \ {w}
  <2> DEFINE w == classes[p][1]
  <2>1. /\ p \in Priorities /\ 1 \in DOMAIN classes[p] /\ w = Head(classes[p])
        /\ w \in Requests
    BY <1>1 DEF InPlay, TypeOK
  <2>2. stage[w] = "waiting" /\ w # r
    BY <1>1, <2>1 DEF Linked
  <2>3. /\ stage' = [st EXCEPT ![w] = "granted"]
        /\ stage' \in [Requests -> Stages]
        /\ stage'[w] = "granted" /\ stage'[r] = x
        /\ \A q \in Requests \ {w, r} : stage'[q] = stage[q]
    BY <1>1, <1>3, <2>1, <2>2 DEF TypeOK
  <2>4. w \in Waiting /\ Waiting' = Waiting \ {w} /\ Busy' = (Busy \ {r}) \cup {w}
    BY <1>1, <2>1, <2>2, <2>3 DEF Waiting, Busy, TypeOK
  <2>5. Cardinality(Busy') = Cardinality(Busy)
    <3>1. Busy \ {r} \in SUBSET Requests /\ w \in Requests \ (Busy \ {r})
      BY <1>1, <2>1, <2>2 DEF Busy
    <3>2. Cardinality(Busy \ {r}) = Cardinality(Busy) - 1 /\ Cardinality(Busy) \in Nat
      BY <1>1, RequestCounts
    <3>3. Cardinality((Busy \ {r}) \cup {w}) = Cardinality(Busy \ {r}) + 1
      BY <3>1, RequestCounts
    <3>4. QED
      BY <2>4, <3>2, <3>3
  <2>6. SlotConservation' /\ free' \in 0..Capacity
    BY <1>1, <1>3, <2>5 DEF SlotConservation, IInv, TypeOK
  <2>7. NoBarging'
    <3>1. free = 0
      BY <1>1, <2>4 DEF IInv, NoBarging, TypeOK
    <3>2. QED
      BY <1>3, <3>1 DEF NoBarging
  <2>8. waiting' \in Nat /\ waiting' = Cardinality(Waiting')
    <3>1. Cardinality(Waiting \ {w}) = Cardinality(Waiting) - 1
      BY <1>1, <2>4, RequestCounts
    <3>2. Cardinality(Waiting \ {w}) \in Nat
      BY <1>1, RequestCounts
    <3>3. QED
      BY <1>1, <1>3, <2>4, <3>1, <3>2
  <2>9. /\ classes' \in [Priorities -> Seq(Requests)]
        /\ Linked(classes', stage')
        /\ \A q \in Priorities : \A j \in DOMAIN classes'[q] : classes'[q][j] # w
        /\ \A q \in Priorities : \A j, k \in DOMAIN classes'[q] :
             j < k => \E a, b \in DOMAIN classes[q] :
               a < b /\ classes'[q][j] = classes[q][a] /\ classes'[q][k] = classes[q][b]
    <3>1. \A q \in Requests \ {w} : stage'[q] = "waiting" <=> stage[q] = "waiting"
      BY <2>3, <1>1
    <3>2. /\ classes \in [Priorities -> Seq(Requests)] /\ Linked(classes, stage)
          /\ p \in Priorities /\ 1 \in DOMAIN classes[p]
          /\ stage'[classes[p][1]] # "waiting"
      BY <1>1, <2>1, <2>3 DEF TypeOK
    <3>3. classes' = [classes EXCEPT ![p] = RemoveAt(classes[p], 1)]
      BY <1>3 DEF Unlinked
    <3>4. QED
      <4>1. UnlinkPre(classes, stage, p, 1, stage', classes')
        BY <3>1, <3>2, <3>3, Zenon DEF UnlinkPre
      <4>2. UnlinkPost(classes, p, 1, stage', classes')
        BY <4>1, UnlinkFacts, Zenon
      <4>3. QED
        BY <4>2, Zenon DEF UnlinkPost
  <2>10. WaitersLinked'
    BY <2>8, <2>9 DEF WaitersLinked, Linked, Waiting
  <2>11. age' = [age EXCEPT ![w] = 0]
    BY <1>3, <2>1
  <2>12. ClassesAreFIFO'
    <3> SUFFICES ASSUME NEW q \in Priorities,
                        NEW j \in DOMAIN classes'[q], NEW k \in DOMAIN classes'[q],
                        j < k
                 PROVE  age'[classes'[q][j]] >= age'[classes'[q][k]]
      BY Zenon DEF ClassesAreFIFO
    <3>1. PICK a, b \in DOMAIN classes[q] :
            a < b /\ classes'[q][j] = classes[q][a] /\ classes'[q][k] = classes[q][b]
      BY <2>9, Zenon
    <3>2. age[classes[q][a]] >= age[classes[q][b]]
      BY <1>1, <3>1, Zenon DEF IInv, ClassesAreFIFO
    <3>3. classes'[q][j] # w /\ classes'[q][k] # w
      BY <2>9, Zenon
    <3>4. classes[q] \in Seq(Requests)
      BY <1>1, Zenon DEF TypeOK
    <3>5. classes[q][a] \in Requests /\ classes[q][b] \in Requests
      BY <3>4
    <3>6. /\ age'[classes[q][a]] = age[classes[q][a]]
          /\ age'[classes[q][b]] = age[classes[q][b]]
      BY <1>1, <2>11, <3>1, <3>3, <3>5 DEF TypeOK
    <3>7. QED
      BY <3>1, <3>2, <3>6
  <2>13. AgesAreWaits'
    <3> SUFFICES ASSUME NEW q \in Requests, stage'[q] # "waiting"
                 PROVE  age'[q] = 0
      BY DEF AgesAreWaits
    <3>1. CASE q = w
      BY <1>1, <2>11, <3>1 DEF TypeOK
    <3>2. CASE q = r
      BY <1>1, <2>2, <2>11, <3>2 DEF TypeOK, IInv, AgesAreWaits
    <3>3. CASE q \notin {w, r}
      BY <1>1, <2>3, <2>11, <3>3 DEF TypeOK, IInv, AgesAreWaits
    <3>4. QED
      BY <3>1, <3>2, <3>3
  <2>14. GateTypes'
    <3>1. promotedBy' \in [Requests -> BOOLEAN] /\ justPromoted' \in BOOLEAN
      BY <1>1, <1>3, Zenon DEF TypeOK
    <3>2. 0 \in 0..MaxAge
      BY QueueAssumption
    <3>3. age' \in [Requests -> 0..MaxAge]
      BY <1>1, <2>11, <3>2, Zenon DEF TypeOK
    <3>4. QED
      BY <2>3, <2>6, <2>8, <2>9, <3>1, <3>3 DEF GateTypes
  <2>15. QED
    BY <2>4, <2>6, <2>7, <2>10, <2>12, <2>13, <2>14 DEF GateInv
<1>4. CASE \E top, oldest \in InPlay :
             /\ IsTop(top) /\ IsOldest(oldest)
             /\ LET promote == Promotes(top, oldest)
                    p == IF promote THEN oldest ELSE top
                    w == Head(classes[p])
                IN  /\ justPromoted' = promote
                    /\ classes' = Unlinked(p, 1)
                    /\ waiting' = waiting - 1
                    /\ stage' = [st EXCEPT ![w] = "granted"]
                    /\ promotedBy' = [promotedBy EXCEPT ![w] = promote]
                    /\ age' = [age EXCEPT ![w] = 0]
             /\ UNCHANGED free
  <2>1. PICK top \in InPlay, oldest \in InPlay :
             /\ LET promote == Promotes(top, oldest)
                    p == IF promote THEN oldest ELSE top
                    w == Head(classes[p])
                IN  /\ justPromoted' = promote
                    /\ classes' = Unlinked(p, 1)
                    /\ waiting' = waiting - 1
                    /\ stage' = [st EXCEPT ![w] = "granted"]
                    /\ promotedBy' = [promotedBy EXCEPT ![w] = promote]
                    /\ age' = [age EXCEPT ![w] = 0]
             /\ UNCHANGED free
    BY <1>4, Zenon
  <2>2. Promotes(top, oldest) \in BOOLEAN
    BY Zenon DEF Promotes
  <2>3. CASE Promotes(top, oldest) = TRUE
    BY <1>3, <2>1, <2>2, <2>3, Zenon
  <2>4. CASE Promotes(top, oldest) = FALSE
    BY <1>3, <2>1, <2>2, <2>4, Zenon
  <2>5. QED
    BY <2>2, <2>3, <2>4, Zenon
<1>5. QED
  BY <1>2, <1>4, Zenon DEF ReleaseLocked

-----------------------------------------------------------------------------
(***************************************************************************)
(* One lemma per action that changes the gate: it keeps GateInv, and says  *)
(* how the sets of running and parked requests change.                     *)
(***************************************************************************)
LEMMA FastStep ==
  ASSUME IInv, NEW r \in Requests, AcquireFast(r)
  PROVE  /\ GateInv'
         /\ r \notin Busy \cup Waiting /\ Waiting = {} /\ Waiting' = {}
         /\ Busy' = Busy \cup {r} /\ Cardinality(Busy) < Capacity
<1> USE DEF Stages
<1>1. /\ TypeOK /\ stage[r] = "idle" /\ free > 0
      /\ stage' = [stage EXCEPT ![r] = "holding"] /\ free' = free - 1
      /\ UNCHANGED <<age, promotedBy, classes, waiting, justPromoted>>
      /\ Busy \in SUBSET Requests
  BY DEF AcquireFast, FastPath, IInv, Busy
<1>2. Waiting = {}
  BY <1>1 DEF IInv, NoBarging
<1>3. r \notin Busy \cup Waiting /\ Waiting' = {} /\ Busy' = Busy \cup {r}
  BY <1>1, <1>2 DEF Busy, Waiting, TypeOK
<1>4. Cardinality(Busy') = Cardinality(Busy) + 1 /\ Cardinality(Busy) \in Nat
  BY <1>1, <1>3, RequestCounts
<1>5. SlotConservation' /\ free' \in 0..Capacity /\ Cardinality(Busy) < Capacity
  <2>1. Capacity \in Nat /\ free \in 0..Capacity /\ free + Cardinality(Busy) = Capacity
    BY <1>1, QueueAssumption DEF IInv, SlotConservation, TypeOK
  <2>2. free' + Cardinality(Busy') = Capacity
    BY <1>1, <1>4, <2>1
  <2>3. free' \in 0..Capacity /\ Cardinality(Busy) < Capacity
    BY <1>1, <1>4, <2>1
  <2>4. QED
    BY <2>2, <2>3 DEF SlotConservation
<1>6. WaitersLinked'
  <2>1. \A q \in Requests : stage'[q] = "waiting" <=> stage[q] = "waiting"
    BY <1>1 DEF TypeOK
  <2>2. \A q \in Priorities : \A i \in DOMAIN classes[q] : classes[q][i] \in Requests
    BY <1>1 DEF TypeOK
  <2>3. QED
    BY <1>1, <1>2, <1>3, <2>1, <2>2 DEF WaitersLinked, IInv, Waiting
<1>7. AgesAreWaits' /\ ClassesAreFIFO' /\ NoBarging'
  BY <1>1, <1>3 DEF AgesAreWaits, ClassesAreFIFO, NoBarging, IInv, TypeOK
<1>8. GateInv'
  BY <1>1, <1>5, <1>6, <1>7 DEF GateInv, GateTypes, TypeOK
<1>9. QED
  BY <1>2, <1>3, <1>5, <1>8

\* Parking behind a full gate keeps the invariant: the newcomer joins the tail of its
\* class at age zero.
LEMMA SlowStep ==
  ASSUME IInv, NEW r \in Requests, NEW p \in Priorities, AcquireSlow(r, p)
  PROVE  /\ GateInv'
         /\ r \notin Busy \cup Waiting /\ Waiting' = Waiting \cup {r}
         /\ Busy' = Busy /\ Cardinality(Busy) = Capacity
<1> USE DEF Stages
<1>1. /\ TypeOK /\ stage[r] = "idle" /\ ~(free > 0 /\ waiting = 0)
      /\ stage' = [stage EXCEPT ![r] = "waiting"]
      /\ classes' = [classes EXCEPT ![p] = Append(classes[p], r)]
      /\ waiting' = waiting + 1
      /\ UNCHANGED <<age, promotedBy, free, justPromoted>>
      /\ Busy \in SUBSET Requests /\ Waiting \in SUBSET Requests
      /\ Linked(classes, stage) /\ waiting = Cardinality(Waiting)
  BY WaitersLinkedSplit DEF AcquireSlow, FastPath, Pushed, IInv, Busy, Waiting
<1>2. r \notin Busy \cup Waiting /\ Waiting' = Waiting \cup {r} /\ Busy' = Busy
  BY <1>1 DEF Busy, Waiting, TypeOK
<1>3. Cardinality(Waiting') = Cardinality(Waiting) + 1 /\ Cardinality(Waiting) \in Nat
  BY <1>1, <1>2, RequestCounts
<1>4. free = 0
  <2>1. CASE free > 0
    <3>1. Waiting = {}
      BY <2>1 DEF IInv, NoBarging
    <3>2. Cardinality(Waiting) = 0
      BY <1>1, <3>1, RequestCounts
    <3>3. QED
      BY <1>1, <2>1, <3>2
  <2>2. QED
    BY <1>1, <2>1 DEF TypeOK
<1>5. Cardinality(Busy) = Capacity
  <2>1. Cardinality(Busy) \in Nat
    BY <1>1, RequestCounts
  <2>2. QED
    BY <1>4, <2>1 DEF IInv, SlotConservation
<1> DEFINE s == classes[p]
<1>6. /\ s \in Seq(Requests) /\ Append(s, r) \in Seq(Requests)
      /\ Len(Append(s, r)) = Len(s) + 1
      /\ Append(s, r)[Len(s) + 1] = r
      /\ \A j \in 1..Len(s) : Append(s, r)[j] = s[j]
  BY <1>1 DEF TypeOK
<1>7. /\ classes' \in [Priorities -> Seq(Requests)]
      /\ classes'[p] = Append(s, r)
      /\ \A q \in Priorities : q # p => classes'[q] = classes[q]
  BY <1>1, <1>6 DEF TypeOK
<1>8. \A q \in Priorities : \A i \in DOMAIN classes'[q] :
        \/ q = p /\ i = Len(s) + 1 /\ classes'[q][i] = r
        \/ i \in DOMAIN classes[q] /\ classes'[q][i] = classes[q][i]
           /\ ~(q = p /\ i = Len(s) + 1)
  BY <1>6, <1>7
<1>9. \A q \in Priorities : \A i \in DOMAIN classes[q] :
        /\ i \in DOMAIN classes'[q] /\ classes'[q][i] = classes[q][i]
        /\ classes[q][i] \in Requests /\ classes[q][i] # r
  <2>1. \A q \in Priorities : \A i \in DOMAIN classes[q] :
          i \in DOMAIN classes'[q] /\ classes'[q][i] = classes[q][i]
    BY <1>6, <1>7
  <2>2. \A q \in Priorities : \A i \in DOMAIN classes[q] :
          classes[q][i] \in Requests /\ stage[classes[q][i]] = "waiting"
    BY <1>1 DEF TypeOK, Linked
  <2>3. QED
    BY <1>1, <2>1, <2>2
<1>10. \A q \in Requests : stage'[q] = IF q = r THEN "waiting" ELSE stage[q]
  BY <1>1 DEF TypeOK
<1>11. WaitersLinked'
  <2>1. \A q \in Priorities : \A i \in DOMAIN classes'[q] :
          stage'[classes'[q][i]] = "waiting"
    BY <1>1, <1>8, <1>9, <1>10 DEF Linked
  <2>2. \A x \in Waiting' : \E q \in Priorities : \E i \in DOMAIN classes'[q] :
          classes'[q][i] = x
    <3> SUFFICES ASSUME NEW x \in Waiting'
                 PROVE  \E q \in Priorities : \E i \in DOMAIN classes'[q] :
                          classes'[q][i] = x
      OBVIOUS
    <3>1. CASE x = r
      <4>1. Len(s) + 1 \in DOMAIN classes'[p] /\ classes'[p][Len(s) + 1] = r
        BY <1>6, <1>7
      <4>2. QED
        BY <3>1, <4>1
    <3>2. CASE x # r
      <4>1. x \in Requests /\ stage[x] = "waiting"
        BY <1>2, <3>2 DEF Waiting
      <4>2. PICK q \in Priorities : \E i \in DOMAIN classes[q] : classes[q][i] = x
        BY <1>1, <4>1 DEF Linked
      <4>3. QED
        BY <1>9, <4>2
    <3>3. QED
      BY <3>1, <3>2
  <2>3. \A q1, q2 \in Priorities :
          \A i \in DOMAIN classes'[q1], j \in DOMAIN classes'[q2] :
            classes'[q1][i] = classes'[q2][j] => q1 = q2 /\ i = j
    BY <1>1, <1>8, <1>9 DEF Linked
  <2>4. waiting' = Cardinality(Waiting')
    BY <1>1, <1>3
  <2>5. QED
    BY <2>1, <2>2, <2>3, <2>4 DEF WaitersLinked
<1>12. ClassesAreFIFO'
  <2> SUFFICES ASSUME NEW q \in Priorities,
                      NEW i \in DOMAIN classes'[q], NEW j \in DOMAIN classes'[q],
                      i < j
               PROVE  age[classes'[q][i]] >= age[classes'[q][j]]
    BY <1>1 DEF ClassesAreFIFO
  <2>1. classes'[q][i] \in Requests /\ classes'[q][j] \in Requests
    BY <1>7
  <2>2. CASE q = p /\ j = Len(s) + 1
    <3>1. age[classes'[q][j]] = 0
      BY <1>1, <1>6, <1>7, <2>2 DEF IInv, AgesAreWaits
    <3>2. QED
      BY <1>1, <2>1, <3>1 DEF TypeOK
  <2>3. CASE ~(q = p /\ j = Len(s) + 1)
    <3>1. j \in DOMAIN classes[q] /\ classes'[q][j] = classes[q][j]
      BY <1>8, <2>3
    <3>2. i \in DOMAIN classes[q] /\ classes'[q][i] = classes[q][i]
      BY <1>6, <1>7, <1>8, <3>1
    <3>3. QED
      BY <3>1, <3>2 DEF IInv, ClassesAreFIFO
  <2>4. QED
    BY <2>2, <2>3
<1>13. AgesAreWaits' /\ NoBarging' /\ SlotConservation'
  BY <1>1, <1>2, <1>4, <1>10 DEF AgesAreWaits, NoBarging, SlotConservation, IInv
<1>14. GateTypes'
  BY <1>1, <1>3, <1>7 DEF GateTypes, TypeOK
<1>15. QED
  BY <1>2, <1>5, <1>11, <1>12, <1>13, <1>14 DEF GateInv

\* A granted request that resumes keeps the slot it was handed.
LEMMA GrantStep ==
  ASSUME IInv, NEW r \in Requests, TakeGrant(r)
  PROVE  GateInv' /\ Busy' = Busy /\ Waiting' = Waiting
<1> USE DEF Stages
<1>1. /\ TypeOK /\ stage[r] = "granted"
      /\ stage' = [stage EXCEPT ![r] = "holding"]
      /\ promotedBy' = [promotedBy EXCEPT ![r] = FALSE]
      /\ UNCHANGED <<age, free, classes, waiting, justPromoted>>
  BY DEF TakeGrant, gateVars, IInv
<1>2. Busy' = Busy /\ Waiting' = Waiting
  BY <1>1 DEF Busy, Waiting, TypeOK
<1>3. \A q \in Requests : stage'[q] = "waiting" <=> stage[q] = "waiting"
  BY <1>1 DEF TypeOK
<1>4. WaitersLinked'
  <2>1. \A q \in Priorities : \A i \in DOMAIN classes[q] : classes[q][i] \in Requests
    BY <1>1 DEF TypeOK
  <2>2. QED
    BY <1>1, <1>2, <1>3, <2>1 DEF WaitersLinked, IInv
<1>5. AgesAreWaits' /\ ClassesAreFIFO' /\ NoBarging' /\ SlotConservation'
  BY <1>1, <1>2, <1>3 DEF AgesAreWaits, ClassesAreFIFO, NoBarging,
                           SlotConservation, IInv
<1>6. promotedBy' \in [Requests -> BOOLEAN]
  BY <1>1, Zenon DEF TypeOK
<1>7. GateTypes'
  BY <1>1, <1>6 DEF GateTypes, TypeOK
<1>8. QED
  BY <1>2, <1>4, <1>5, <1>7 DEF GateInv

\* A waiter that gives up is unlinked from wherever it stands in its class.
LEMMA CancelStep ==
  ASSUME IInv, NEW r \in Requests, CancelWaiting(r)
  PROVE  GateInv' /\ r \in Waiting /\ Waiting' = Waiting \ {r} /\ Busy' = Busy
<1> USE DEF Stages
<1>1. /\ TypeOK /\ stage[r] = "waiting"
      /\ stage' = [stage EXCEPT ![r] = "idle"] /\ age' = [age EXCEPT ![r] = 0]
      /\ waiting' = waiting - 1
      /\ UNCHANGED <<promotedBy, free, justPromoted>>
      /\ Busy \in SUBSET Requests /\ Waiting \in SUBSET Requests
      /\ Linked(classes, stage) /\ waiting = Cardinality(Waiting)
  BY WaitersLinkedSplit DEF CancelWaiting, IInv, Busy, Waiting
<1>2. PICK p \in Priorities : \E i \in DOMAIN classes[p] :
        classes[p][i] = r /\ classes' = Unlinked(p, i)
  BY DEF CancelWaiting
<1>3. PICK i \in DOMAIN classes[p] : classes[p][i] = r /\ classes' = Unlinked(p, i)
  BY <1>2
<1>4. r \in Waiting /\ Waiting' = Waiting \ {r} /\ Busy' = Busy
  BY <1>1 DEF Busy, Waiting, TypeOK
<1>5. UnlinkPost(classes, p, i, stage', classes')
  <2>1. /\ classes \in [Priorities -> Seq(Requests)]
        /\ \A q \in Requests \ {r} : stage'[q] = "waiting" <=> stage[q] = "waiting"
        /\ stage'[r] # "waiting"
    BY <1>1 DEF TypeOK
  <2>2. classes' = [classes EXCEPT ![p] = RemoveAt(classes[p], i)]
    BY <1>3 DEF Unlinked
  <2>3. UnlinkPre(classes, stage, p, i, stage', classes')
    BY <1>1, <1>3, <2>1, <2>2, Zenon DEF UnlinkPre
  <2>4. QED
    BY <2>3, UnlinkFacts, Zenon
<1>6. /\ classes' \in [Priorities -> Seq(Requests)] /\ Linked(classes', stage')
      /\ \A q \in Priorities : \A j \in DOMAIN classes'[q] : classes'[q][j] # r
      /\ \A q \in Priorities : \A j, k \in DOMAIN classes'[q] :
           j < k => \E a, b \in DOMAIN classes[q] :
             a < b /\ classes'[q][j] = classes[q][a] /\ classes'[q][k] = classes[q][b]
  BY <1>3, <1>5, Zenon DEF UnlinkPost
<1>7. waiting' \in Nat /\ waiting' = Cardinality(Waiting')
  <2>1. Cardinality(Waiting \ {r}) = Cardinality(Waiting) - 1
    BY <1>1, <1>4, RequestCounts
  <2>2. Cardinality(Waiting \ {r}) \in Nat
    BY <1>1, RequestCounts
  <2>3. QED
    BY <1>1, <1>4, <2>1, <2>2
<1>8. WaitersLinked'
  BY <1>6, <1>7 DEF WaitersLinked, Linked, Waiting
<1>9. ClassesAreFIFO'
  BY <1>1, <1>6 DEF ClassesAreFIFO, IInv, TypeOK
<1>10. AgesAreWaits'
  BY <1>1 DEF AgesAreWaits, IInv, TypeOK
<1>11. NoBarging' /\ SlotConservation'
  BY <1>1, <1>4 DEF NoBarging, SlotConservation, IInv
<1>12. age' \in [Requests -> 0..MaxAge]
  <2>1. 0 \in 0..MaxAge
    BY QueueAssumption
  <2>2. QED
    BY <1>1, <2>1, Zenon DEF TypeOK
<1>13. GateTypes'
  BY <1>1, <1>6, <1>7, <1>12 DEF GateTypes, TypeOK
<1>14. QED
  BY <1>4, <1>8, <1>9, <1>10, <1>11, <1>13 DEF GateInv

\* Time passes for all waiters alike, so no class changes its order.
LEMMA TickStep ==
  ASSUME IInv, Tick
  PROVE  GateInv' /\ Busy' = Busy /\ Waiting' = Waiting
<1>1. /\ TypeOK
      /\ \A r \in Requests : stage[r] = "waiting" => age[r] < MaxAge
      /\ age' = [r \in Requests |-> IF stage[r] = "waiting" THEN age[r] + 1
                                                            ELSE age[r]]
      /\ UNCHANGED <<stage, promotedBy, free, classes, waiting, justPromoted>>
  BY DEF Tick, gateVars, IInv
<1>2. Busy' = Busy /\ Waiting' = Waiting
  BY <1>1 DEF Busy, Waiting
<1>3. age' \in [Requests -> 0..MaxAge]
  BY <1>1, QueueAssumption DEF TypeOK
<1>4. ClassesAreFIFO'
  <2>1. \A q \in Priorities : \A i \in DOMAIN classes[q] :
          /\ classes[q][i] \in Requests
          /\ age[classes[q][i]] \in Int
          /\ age'[classes[q][i]] = age[classes[q][i]] + 1
    BY <1>1 DEF TypeOK, IInv, WaitersLinked
  <2>2. QED
    BY <1>1, <2>1 DEF ClassesAreFIFO, IInv
<1>5. AgesAreWaits'
  BY <1>1 DEF AgesAreWaits, IInv
<1>6. WaitersLinked' /\ NoBarging' /\ SlotConservation'
  BY <1>1, <1>2 DEF WaitersLinked, NoBarging, SlotConservation, IInv
<1>7. QED
  BY <1>1, <1>2, <1>3, <1>4, <1>5, <1>6 DEF GateInv, GateTypes, TypeOK

\* A release call: the first one of a request hands the slot over, the second
\* one leaves the gate alone.
LEMMA ReleaseStep ==
  ASSUME IInv, NEW r \in Requests, stage[r] \in {"holding", "released"},
         NEW x \in {"idle", "released"}, CallRelease(r, x)
  PROVE  /\ GateInv'
         /\ signalled' \in {signalled, signalled \cup watchers}
         /\ \/ r \in Busy /\ Waiting = {} /\ Waiting' = {} /\ Busy' = Busy \ {r}
            \/ r \in Busy /\ \E w \in Waiting : /\ Busy' = (Busy \ {r}) \cup {w}
                                               /\ Waiting' = Waiting \ {w}
            \/ Busy' = Busy /\ Waiting' = Waiting
<1>1. CASE stage[r] = "holding"
  <2>1. ReleaseLocked([stage EXCEPT ![r] = x])
    BY <1>1 DEF CallRelease, OnceDone
  <2>2. r \in Busy
    BY <1>1 DEF Busy
  <2>3. signalled' = signalled \cup watchers
    BY <2>1 DEF ReleaseLocked, NotifyLocked
  <2>4. QED
    BY <1>1, <2>1, <2>2, <2>3, HandOver
<1>2. CASE stage[r] = "released"
  <2>1. /\ TypeOK /\ stage' = [stage EXCEPT ![r] = x]
        /\ UNCHANGED <<age, promotedBy, free, classes, waiting, justPromoted, signalled>>
    BY <1>2 DEF CallRelease, OnceDone, gateVars, IInv
  <2>2. Busy' = Busy /\ Waiting' = Waiting
    BY <1>2, <2>1 DEF Busy, Waiting, TypeOK, Stages
  <2>3. \A q \in Requests : stage'[q] = "waiting" <=> stage[q] = "waiting"
    BY <1>2, <2>1 DEF TypeOK
  <2>4. WaitersLinked'
    <3>1. \A q \in Priorities : \A i \in DOMAIN classes[q] : classes[q][i] \in Requests
      BY <2>1 DEF TypeOK
    <3>2. QED
      BY <2>1, <2>2, <2>3, <3>1 DEF WaitersLinked, IInv
  <2>5. AgesAreWaits' /\ ClassesAreFIFO' /\ NoBarging' /\ SlotConservation'
    BY <2>1, <2>2, <2>3 DEF AgesAreWaits, ClassesAreFIFO, NoBarging,
                             SlotConservation, IInv
  <2>6. GateTypes'
    BY <2>1 DEF GateTypes, TypeOK, Stages
  <2>7. QED
    BY <2>1, <2>2, <2>4, <2>5, <2>6 DEF GateInv
<1>3. QED
  BY <1>1, <1>2

-----------------------------------------------------------------------------
(***************************************************************************)
(* The theorems.                                                           *)
(***************************************************************************)

\* A new queue satisfies the invariant.
LEMMA InitIInv == Init => IInv
<1> SUFFICES ASSUME Init PROVE IInv
  OBVIOUS
<1>1. Waiting = {} /\ Busy = {}
  BY DEF Init, Waiting, Busy
<1>2. Cardinality({}) = 0
  BY FS_EmptySet
<1>3. SlotConservation /\ NoBarging
  BY <1>1, <1>2, QueueAssumption DEF Init, SlotConservation, NoBarging
<1>4. WaitersLinked /\ ClassesAreFIFO
  BY <1>1, <1>2 DEF Init, WaitersLinked, ClassesAreFIFO
<1>5. promotedBy \in [Requests -> BOOLEAN] /\ justPromoted \in BOOLEAN
  BY Zenon DEF Init
<1>6. TypeOK /\ AgesAreWaits
  <2>1. 0 \in 0..MaxAge /\ Capacity \in 0..Capacity /\ 0 \in 0..(CounterMod - 1)
    BY QueueAssumption
  <2>2. /\ stage \in [Requests -> Stages] /\ age \in [Requests -> 0..MaxAge]
        /\ classes \in [Priorities -> Seq(Requests)] /\ AgesAreWaits
    BY <2>1 DEF Init, Stages, AgesAreWaits
  <2>3. QED
    BY <1>5, <2>1, <2>2 DEF Init, TypeOK
<1>7. QED
  BY <1>3, <1>4, <1>6 DEF IInv

\* Every critical section of the queue keeps the invariant.
LEMMA StepIInv == IInv /\ [Next]_vars => IInv'
<1> SUFFICES ASSUME IInv, [Next]_vars PROVE GateInv' /\ SideTypes'
  BY InvSplit, PTL
<1>1. TypeOK /\ SideTypes /\ CounterMod \in Nat \ {0}
  BY QueueAssumption DEF IInv, TypeOK, SideTypes
<1>2. \A n \in 0..(CounterMod - 1) : Inc(n) \in 0..(CounterMod - 1)
  BY <1>1, IncType
<1>3. CASE \E r \in Requests : RequestStep(r)
  <2>1. PICK r \in Requests : RequestStep(r)
    BY <1>3
  <2>2. CASE AcquireFast(r)
    BY <1>1, <1>2, <2>2, FastStep DEF AcquireFast, NotifyLocked, SideTypes
  <2>3. CASE \E p \in Priorities : AcquireSlow(r, p)
    <3>1. PICK p \in Priorities : AcquireSlow(r, p)
      BY <2>3
    <3>2. QED
      BY <1>1, <3>1, SlowStep DEF AcquireSlow, NotifyLocked, SideTypes, counterVars
  <2>4. CASE TakeGrant(r)
    <3>1. GateInv'
      BY <2>4, GrantStep
    <3>2. SideTypes'
      BY <1>1, <1>2, <2>4 DEF TakeGrant, SideTypes, watchVars
    <3>3. QED
      BY <3>1, <3>2
  <2>5. CASE CancelWaiting(r)
    BY <1>1, <1>2, <2>5, CancelStep DEF CancelWaiting, NotifyLocked, SideTypes
  <2>6. CASE CancelGranted(r)
    <3>1. GateInv'
      BY <2>6, HandOver DEF CancelGranted
    <3>2. SideTypes'
      BY <1>1, <1>2, <2>6 DEF CancelGranted, ReleaseLocked, NotifyLocked, SideTypes
    <3>3. QED
      BY <3>1, <3>2
  <2>7. CASE Release(r)
    <3>1. GateInv' /\ signalled' \in {signalled, signalled \cup watchers}
      BY <2>7, ReleaseStep DEF Release
    <3>2. SideTypes'
      BY <1>1, <2>7, <3>1 DEF Release, SideTypes, counterVars
    <3>3. QED
      BY <3>1, <3>2
  <2>8. CASE DeferredRelease(r)
    <3>1. GateInv' /\ signalled' \in {signalled, signalled \cup watchers}
      BY <2>8, ReleaseStep DEF DeferredRelease
    <3>2. SideTypes'
      BY <1>1, <2>8, <3>1 DEF DeferredRelease, SideTypes, counterVars
    <3>3. QED
      BY <3>1, <3>2
  <2>9. QED
    BY <2>1, <2>2, <2>3, <2>4, <2>5, <2>6, <2>7, <2>8 DEF RequestStep, Acquire, Cancel
<1>4. CASE \E v \in Watchers : WatcherStep(v)
  <2>1. PICK v \in Watchers : WatcherStep(v)
    BY <1>4
  <2>2. UNCHANGED <<stage, age, promotedBy, gateVars, counterVars>>
    BY <2>1 DEF WatcherStep, Watch, Unwatch, Receive
  <2>3. SideTypes'
    BY <1>1, <2>1, <2>2
       DEF WatcherStep, Watch, Unwatch, Receive, SideTypes, counterVars
  <2>4. GateInv
    BY InvSplit
  <2>5. GateInv'
    BY <2>2, <2>4 DEF GateInv, GateTypes, SlotConservation, NoBarging, WaitersLinked,
                      ClassesAreFIFO, AgesAreWaits, Busy, Waiting, gateVars
  <2>6. QED
    BY <2>3, <2>5
<1>5. CASE Tick
  BY <1>1, <1>5, TickStep DEF Tick, SideTypes, watchVars, counterVars
<1>6. CASE UNCHANGED vars
  <2>1. GateInv
    BY InvSplit
  <2>2. GateInv'
    BY <1>6, <2>1 DEF GateInv, GateTypes, SlotConservation, NoBarging, WaitersLinked,
                      ClassesAreFIFO, AgesAreWaits, Busy, Waiting, gateVars, vars
  <2>3. SideTypes'
    BY <1>1, <1>6 DEF vars, SideTypes, watchVars, counterVars
  <2>4. QED
    BY <2>2, <2>3
<1>7. QED
  BY <1>3, <1>4, <1>5, <1>6 DEF Next

\* The inductive invariant holds in every reachable state of the gate.
LEMMA Invariance == Spec => []IInv
<1>1. Init => IInv
  BY InitIInv
<1>2. IInv /\ [Next]_vars => IInv'
  BY StepIInv
<1>3. QED
  BY <1>1, <1>2, PTL DEF Spec

\* Every variable of the gate keeps its type: the slot counter never leaves
\* 0..Capacity and only registered watchers are signalled.
THEOREM TypeCorrect == Spec => []TypeOK
<1>1. IInv => TypeOK
  BY DEF IInv
<1>2. QED
  BY <1>1, Invariance, PTL

\* For every number of callers and any capacity: no interleaving of releases,
\* double releases and cancellations racing a grant leaks or inflates capacity.
THEOREM SlotsConserved == Spec => []SlotConservation
<1>1. IInv => SlotConservation
  BY DEF IInv
<1>2. QED
  BY <1>1, Invariance, PTL

\* A slot is free only when nobody is parked, so Acquire's fast path never passes
\* a waiter.
THEOREM NobodyBarges == Spec => []NoBarging
<1>1. IInv => NoBarging
  BY DEF IInv
<1>2. QED
  BY <1>1, Invariance, PTL

\* No slot idles while somebody waits for one: a caller blocked in Acquire means that
\* all of the capacity is claimed, at every moment of a release or a cancellation.
THEOREM NoSlotIdles == Spec => [](Waiting # {} => Cardinality(Busy) = Capacity)
<1>1. IInv => (Waiting # {} => Cardinality(Busy) = Capacity)
  <2> SUFFICES ASSUME IInv, Waiting # {} PROVE Cardinality(Busy) = Capacity
    OBVIOUS
  <2>1. free + Cardinality(Busy) = Capacity /\ ~(free > 0) /\ free \in 0..Capacity
    BY DEF IInv, SlotConservation, NoBarging, TypeOK
  <2>2. Cardinality(Busy) \in Nat
    <3>1. Busy \in SUBSET Requests
      BY DEF Busy
    <3> QED BY <3>1, RequestCounts
  <2> QED BY <2>1, <2>2
<1>2. QED
  BY <1>1, Invariance, PTL

\* The class lists and the waiting counter describe exactly the parked requests.
THEOREM ListsAreExact == Spec => []WaitersLinked
<1>1. IInv => WaitersLinked
  BY DEF IInv
<1>2. QED
  BY <1>1, Invariance, PTL

\* Along a class list nobody is older than somebody in front of it.
THEOREM ListsAreFIFO == Spec => []ClassesAreFIFO
<1>1. IInv => ClassesAreFIFO
  BY DEF IInv
<1>2. QED
  BY <1>1, Invariance, PTL

\* Ages are integers.
LEMMA WaitersAge == ASSUME IInv PROVE \A r \in Waiting : age[r] \in Int
<1>1. 0..MaxAge \subseteq Int
  OBVIOUS
<1>2. QED
  BY <1>1 DEF IInv, TypeOK, Waiting

\* The head of a class in play is parked, and nobody in the class is older.
LEMMA HeadFacts ==
  ASSUME IInv, NEW p \in InPlay
  PROVE  /\ p \in Priorities /\ 1 \in DOMAIN classes[p]
         /\ Head(classes[p]) = classes[p][1] /\ classes[p][1] \in Waiting
         /\ \A j \in DOMAIN classes[p] : age[classes[p][j]] <= HeadAge(p)
<1>1. /\ p \in Priorities /\ classes[p] \in Seq(Requests) /\ classes[p] # <<>>
      /\ age \in [Requests -> 0..MaxAge]
  BY DEF IInv, TypeOK, InPlay
<1>2. /\ 1 \in DOMAIN classes[p] /\ Head(classes[p]) = classes[p][1]
      /\ \A j \in DOMAIN classes[p] : j \in Nat /\ classes[p][j] \in Requests
                                      /\ (j = 1 \/ 1 < j)
  BY <1>1
<1>3. classes[p][1] \in Waiting
  BY <1>1, <1>2, Zenon DEF IInv, WaitersLinked, Waiting
<1>4. ASSUME NEW j \in DOMAIN classes[p]
      PROVE  age[classes[p][j]] <= HeadAge(p)
  <2>1. j = 1 \/ age[classes[p][1]] >= age[classes[p][j]]
    BY <1>1, <1>2, Zenon DEF IInv, ClassesAreFIFO
  <2>2. age[classes[p][1]] \in 0..MaxAge /\ age[classes[p][j]] \in 0..MaxAge
    BY <1>1, <1>2
  <2>3. 0..MaxAge \subseteq Int
    OBVIOUS
  <2>4. QED
    BY <1>2, <2>1, <2>2, <2>3 DEF HeadAge
<1>5. QED
  BY <1>1, <1>2, <1>3, <1>4

\* Every parked request sits in the list of some class in play.
LEMMA ParkedInAClass ==
  ASSUME IInv, NEW r \in Waiting
  PROVE  \E q \in InPlay : \E j \in DOMAIN classes[q] : classes[q][j] = r
<1>1. PICK q \in Priorities : \E j \in DOMAIN classes[q] : classes[q][j] = r
  BY Zenon DEF IInv, WaitersLinked
<1>2. classes[q] # <<>>
  BY <1>1
<1>3. QED
  BY <1>1, <1>2 DEF InPlay

\* Looking at the heads settles both rules for every parked request: the top head
\* is first by rank, the oldest head has waited longest.
LEMMA HeadsDecide ==
  ASSUME IInv, NEW p \in InPlay
  PROVE  /\ IsTop(p) => FirstByRank(classes[p][1])
         /\ IsOldest(p) => \A r \in Waiting : age[r] <= age[classes[p][1]]
<1>1. /\ p \in Priorities /\ 1 \in DOMAIN classes[p]
      /\ HeadAge(p) = age[classes[p][1]]
  BY HeadFacts DEF HeadAge
<1>2. \A r \in Requests : age[r] \in Int
  <2>1. 0..MaxAge \subseteq Int
    OBVIOUS
  <2>2. QED
    BY <2>1 DEF IInv, TypeOK
<1>3. Waiting \subseteq Requests /\ Priorities \subseteq Int
  BY QueueAssumption DEF Waiting
<1>4. ASSUME IsTop(p) PROVE FirstByRank(classes[p][1])
  <2> SUFFICES ASSUME NEW r \in Waiting \ {classes[p][1]}
               PROVE  Precedes(classes[p][1], r)
    BY DEF FirstByRank
  <2>1. PICK q \in InPlay : \E j \in DOMAIN classes[q] : classes[q][j] = r
    BY ParkedInAClass
  <2>2. PICK j \in DOMAIN classes[q] : classes[q][j] = r
    BY <2>1
  <2>3. q \in Priorities /\ q <= p
    BY <1>4, <2>1, HeadFacts DEF IsTop
  <2>4. p > q \/ (p = q /\ age[classes[p][1]] >= age[r])
    <3>1. CASE p = q
      <4>1. age[r] <= age[classes[p][1]]
        BY <1>1, <2>2, <3>1, HeadFacts
      <4>2. age[r] \in Int /\ age[classes[p][1]] \in Int
        BY <1>2, <1>3, HeadFacts
      <4>3. QED
        BY <3>1, <4>1, <4>2
    <3>2. CASE p # q
      BY <1>1, <1>3, <2>3, <3>2
    <3>3. QED
      BY <3>1, <3>2
  <2>5. QED
    BY <1>1, <2>2, <2>3, <2>4, Zenon DEF Precedes
<1>5. ASSUME IsOldest(p), NEW r \in Waiting
      PROVE  age[r] <= age[classes[p][1]]
  <2>1. PICK q \in InPlay : \E j \in DOMAIN classes[q] : classes[q][j] = r
    BY ParkedInAClass
  <2>2. age[r] <= HeadAge(q) /\ HeadAge(q) <= HeadAge(p)
    BY <1>5, <2>1, HeadFacts DEF IsOldest
  <2>3. HeadAge(q) \in Int /\ HeadAge(p) \in Int /\ age[r] \in Int
    BY <1>2, <1>3, <2>1, HeadFacts DEF HeadAge
  <2>4. QED
    BY <1>1, <2>2, <2>3
<1>6. QED
  BY <1>4, <1>5

\* A promoted head is not the first by rank: the strict rule picks another.
LEMMA PromotedIsPassedUp ==
  ASSUME IInv, NEW top \in InPlay, NEW p \in InPlay, IsTop(top), p # top
  PROVE  ~FirstByRank(classes[p][1])
<1> SUFFICES ASSUME FirstByRank(classes[p][1]) PROVE FALSE
  OBVIOUS
<1> DEFINE w == classes[p][1]
           r == classes[top][1]
<1>1. /\ p \in Priorities /\ 1 \in DOMAIN classes[p]
      /\ top \in Priorities /\ 1 \in DOMAIN classes[top] /\ r \in Waiting
  BY HeadFacts
<1>2. \A a, b \in Priorities : \A i \in DOMAIN classes[a], j \in DOMAIN classes[b] :
        classes[a][i] = classes[b][j] => a = b
  BY Zenon DEF IInv, WaitersLinked
<1>3. r # w
  BY <1>1, <1>2, Zenon
<1>4. Precedes(w, r)
  BY <1>1, <1>3 DEF FirstByRank
<1>5. PICK a, b \in Priorities : \E i \in DOMAIN classes[a], j \in DOMAIN classes[b] :
        classes[a][i] = w /\ classes[b][j] = r /\ (a > b \/ a = b)
  BY <1>4, Zenon DEF Precedes
<1>6. a = p /\ b = top
  BY <1>1, <1>2, <1>5, Zenon
<1>7. p <= top /\ p \in Int /\ top \in Int
  BY <1>1, QueueAssumption DEF IsTop
<1>8. QED
  BY <1>5, <1>6, <1>7

\* Whoever a released slot goes to, the two rules of doc.go name it.
LEMMA GrantOrder ==
  ASSUME IInv, NEW st \in [Requests -> Stages],
         \A q \in Waiting : st[q] = "waiting", ReleaseLocked(st),
         NEW w \in Waiting, stage'[w] = "granted"
  PROVE  GrantIsDue(w)
<1>1. CASE stage' = st
  BY <1>1
<1>2. ASSUME NEW top \in InPlay, NEW oldest \in InPlay,
             IsTop(top), IsOldest(oldest),
             NEW promote, promote = Promotes(top, oldest),
             NEW p, p = IF promote THEN oldest ELSE top,
             justPromoted' = promote,
             stage' = [st EXCEPT ![Head(classes[p])] = "granted"]
      PROVE  GrantIsDue(w)
  <2>1. p \in InPlay /\ w = classes[p][1]
    <3>1. p \in InPlay
      BY <1>2
    <3>2. Head(classes[p]) = classes[p][1] /\ w \in Requests
      BY <3>1, HeadFacts DEF Waiting
    <3>3. w # classes[p][1] => stage'[w] = st[w]
      BY <1>2, <3>2
    <3>4. QED
      BY <3>1, <3>3
  <2>2. CASE promote
    <3>1. /\ p = oldest /\ ~justPromoted /\ oldest # top
          /\ HeadAge(oldest) >= PromoteAfter
      BY <1>2, <2>2 DEF Promotes
    <3>2. ~FirstByRank(w)
      BY <1>2, <2>1, <3>1, PromotedIsPassedUp
    <3>3. \A r \in Waiting : age[r] <= age[w]
      BY <1>2, <2>1, <3>1, HeadsDecide
    <3>4. age[w] = HeadAge(oldest)
      BY <1>2, <2>1, <3>1, HeadFacts DEF HeadAge
    <3>5. \A r \in Waiting : age[r] \in Int
      BY WaitersAge
    <3>6. LongestParked(w)
      BY <3>3, <3>5 DEF LongestParked
    <3>7. QED
      BY <1>2, <2>2, <3>1, <3>2, <3>4, <3>6 DEF GrantIsDue
  <2>3. CASE ~promote
    <3>1. p = top /\ FirstByRank(w)
      BY <1>2, <2>1, <2>3, HeadsDecide
    <3>2. justPromoted \/ oldest = top \/ ~(HeadAge(oldest) >= PromoteAfter)
      BY <1>2, <2>3 DEF Promotes
    <3>3. /\ HeadAge(oldest) = age[classes[oldest][1]]
          /\ \A r \in Waiting : age[r] <= age[classes[oldest][1]]
          /\ classes[oldest][1] \in Waiting
      BY <1>2, HeadFacts, HeadsDecide DEF HeadAge
    <3>4. /\ \A r \in Waiting : age[r] \in Int
          /\ PromoteAfter \in Int
      BY WaitersAge, QueueAssumption
    <3>5. oldest = top => LongestParked(w)
      BY <2>1, <3>1, <3>3, <3>4 DEF LongestParked
    <3>6. ~(HeadAge(oldest) >= PromoteAfter) => \A r \in Waiting : age[r] < PromoteAfter
      BY <3>3, <3>4
    <3>7. QED
      BY <1>2, <2>3, <3>1, <3>2, <3>5, <3>6 DEF GrantIsDue
  <2>4. QED
    BY <2>2, <2>3
<1>3. QED
  BY <1>1, <1>2 DEF ReleaseLocked

\* Every step that hands a slot to a parked request hands it to the right one.
LEMMA StepGrantsInOrder ==
  ASSUME IInv, [Next]_vars, NEW w \in Waiting, stage'[w] = "granted"
  PROVE  GrantIsDue(w)
<1>1. /\ stage \in [Requests -> Stages] /\ w \in Requests /\ stage[w] = "waiting"
  BY DEF IInv, TypeOK, Waiting
<1>2. ASSUME NEW r \in Requests, NEW x \in {"idle", "released"},
             stage[r] \in {"granted", "holding"},
             ReleaseLocked([stage EXCEPT ![r] = x])
      PROVE  GrantIsDue(w)
  <2>1. [stage EXCEPT ![r] = x] \in [Requests -> Stages]
    BY <1>1, <1>2 DEF Stages
  <2>2. \A q \in Waiting : [stage EXCEPT ![r] = x][q] = "waiting"
    BY <1>1, <1>2 DEF Waiting
  <2>3. QED
    BY <1>2, <2>1, <2>2, GrantOrder
<1>3. ASSUME NEW r \in Requests, NEW x \in Stages \ {"granted"},
             stage' = [stage EXCEPT ![r] = x]
      PROVE  FALSE
  BY <1>1, <1>3
<1>4. ASSUME NEW r \in Requests, NEW x \in {"idle", "released"},
             stage[r] \in {"holding", "released"}, CallRelease(r, x)
      PROVE  GrantIsDue(w)
  <2>1. CASE stage[r] = "holding"
    BY <1>2, <1>4, <2>1 DEF CallRelease, OnceDone
  <2>2. CASE stage[r] = "released"
    BY <1>3, <1>4, <2>2 DEF CallRelease, OnceDone, Stages
  <2>3. QED
    BY <1>4, <2>1, <2>2
<1>5. ASSUME NEW r \in Requests, RequestStep(r) PROVE GrantIsDue(w)
  <2>1. CASE AcquireFast(r) \/ \E p \in Priorities : AcquireSlow(r, p)
    BY <1>3, <1>5, <2>1 DEF AcquireFast, AcquireSlow, Stages
  <2>2. CASE TakeGrant(r) \/ CancelWaiting(r)
    BY <1>3, <1>5, <2>2 DEF TakeGrant, CancelWaiting, Stages
  <2>3. CASE CancelGranted(r)
    BY <1>2, <1>5, <2>3 DEF CancelGranted
  <2>4. CASE Release(r) \/ DeferredRelease(r)
    BY <1>4, <1>5, <2>4 DEF Release, DeferredRelease
  <2>5. QED
    BY <1>5, <2>1, <2>2, <2>3, <2>4 DEF RequestStep, Acquire, Cancel
<1>6. ASSUME UNCHANGED stage PROVE FALSE
  BY <1>1, <1>6
<1>7. CASE (\E v \in Watchers : WatcherStep(v)) \/ Tick \/ UNCHANGED vars
  BY <1>6, <1>7 DEF WatcherStep, Watch, Unwatch, Receive, Tick, vars
<1>8. QED
  BY <1>5, <1>7 DEF Next

\* The queue's two scheduling rules, for any number of callers and ranks: every slot
\* that is handed over goes to the first by rank of everybody parked or, as a due
\* promotion, to the one parked longest, although popLocked compares only heads.
THEOREM SlotsGoInOrder == Spec => GrantsInOrder
<1>1. IInv /\ [Next]_vars =>
        [\A w \in Waiting : stage'[w] = "granted" => GrantIsDue(w)]_vars
  BY StepGrantsInOrder
<1>2. QED
  BY <1>1, Invariance, PTL DEF Spec, GrantsInOrder

\* Pool counts with the same operator.
LEMMA SameCount == \A S : P!Cardinality(S) = Cardinality(S)
  BY Zenon DEF P!Cardinality, Cardinality

\* Every step of the gate is a step of the admission contract or a stutter.
LEMMA StepRefines == IInv /\ [Next]_vars => [P!Next]_(P!pvars)
<1> SUFFICES ASSUME IInv, [Next]_vars PROVE P!Next \/ UNCHANGED P!pvars
  OBVIOUS
<1>1. CASE \E r \in Requests : RequestStep(r)
  <2>1. PICK r \in Requests : RequestStep(r)
    BY <1>1
  <2>2. CASE AcquireFast(r)
    <3>1. P!Enter(r)
      BY <2>2, FastStep, SameCount DEF P!Enter
    <3>2. QED
      BY <3>1 DEF P!Next
  <2>3. CASE \E p \in Priorities : AcquireSlow(r, p)
    <3>1. P!Park(r)
      BY <2>3, SlowStep, SameCount DEF P!Park
    <3>2. QED
      BY <3>1 DEF P!Next
  <2>4. CASE TakeGrant(r)
    BY <2>4, GrantStep DEF P!pvars
  <2>5. CASE CancelWaiting(r)
    <3>1. P!GiveUp(r)
      BY <2>5, CancelStep DEF P!GiveUp
    <3>2. QED
      BY <3>1 DEF P!Next
  <2>6. CASE CancelGranted(r)
    <3>1. r \in Busy
      BY <2>6 DEF CancelGranted, Busy
    <3>2. P!Leave(r)
      BY <2>6, <3>1, HandOver DEF CancelGranted, P!Leave
    <3>3. QED
      BY <3>2 DEF P!Next
  <2>7. CASE Release(r) \/ DeferredRelease(r)
    <3>1. P!Leave(r) \/ UNCHANGED P!pvars
      BY <2>7, ReleaseStep DEF Release, DeferredRelease, P!Leave, P!pvars
    <3>2. QED
      BY <3>1 DEF P!Next
  <2>8. QED
    BY <2>1, <2>2, <2>3, <2>4, <2>5, <2>6, <2>7 DEF RequestStep, Acquire, Cancel
<1>2. CASE \E v \in Watchers : WatcherStep(v)
  BY <1>2 DEF WatcherStep, Watch, Unwatch, Receive, P!pvars, Busy, Waiting
<1>3. CASE Tick
  BY <1>3, TickStep DEF P!pvars
<1>4. CASE UNCHANGED vars
  BY <1>4 DEF vars, P!pvars, Busy, Waiting
<1>5. QED
  BY <1>1, <1>2, <1>3, <1>4 DEF Next

\* The gate implements the admission contract of Pool: at most Capacity requests
\* run, requests park only while the pool is full, and a slot given back while
\* somebody is parked is handed over in the same step.
THEOREM GateImplementsPool == Spec => ImplementsPool
<1>1. Init => P!Init
  BY DEF Init, P!Init, Busy, Waiting
<1>2. IInv /\ [Next]_vars => [P!Next]_(P!pvars)
  BY StepRefines
<1>3. QED
  BY <1>1, <1>2, Invariance, PTL DEF Spec, ImplementsPool, P!Spec
=============================================================================
