--------------------------- MODULE FrontDoorProofs ---------------------------
(***************************************************************************)
(* Theorems about FrontDoor, for every environment, every array of JSON    *)
(* tokens, every set of key limits and every window.                       *)
(***************************************************************************)
EXTENDS FrontDoor, Aggregates

-----------------------------------------------------------------------------
(***************************************************************************)
(* Startup.                                                                *)
(***************************************************************************)

\* A configuration that is there is one that validate let through, resolved from
\* the environment of the process.
StartupInv ==
  /\ phase # "panicked"
  /\ cfg # NoConfig => /\ ValidConfig(cfg) /\ cfg = Configured(env)
                       /\ cfg["slots"] \in Int /\ cfg["promote"] \in Int
  /\ phase \in {"loaded", "stored", "wired", "serving"} => cfg # NoConfig

\* A numeric setting resolves to a number, whatever was typed.
LEMMA NumbersResolve ==
  ASSUME NEW e \in Environments, e.file # BadFile, NEW s \in Settings \ TextSettings
  PROVE  Configured(e)[s] \in Int
<1>1. DefaultSetting[s] \in Int
  BY DEF DefaultSetting, Settings, TextSettings
<1>2. Seen(e, s) \in Int \cup {Unset, Empty, Garbage}
  BY StartupAssumption DEF Seen
<1>3. Getenv(e, s) \in Int \cup {Empty, Garbage}
  BY <1>2 DEF Getenv
<1>4. s # "password" /\ Ignored(s) = {Empty, Garbage}
  BY DEF TextSettings, Ignored
<1>5. Resolved(e, s) \in Int
  BY <1>1, <1>3, <1>4 DEF Resolved
<1> QED BY <1>5 DEF Configured

\* The process never panics over its queue and keeps its configuration.
LEMMA StartupInvStep ==
  ASSUME StartupInv, ComeUp \/ Stop \/ UNCHANGED startupVars
  PROVE  StartupInv'
<1> USE DEF StartupInv
<1>1. CASE \E e \in Environments : LoadConfig(e)
  <2>1. PICK e \in Environments : LoadConfig(e)
    BY <1>1
  <2>2. CASE phase' = "failed" /\ UNCHANGED <<env, cfg>>
    BY <2>2 DEF ValidConfig, Enabled, Configured, Resolved, Getenv, Seen, Ignored
  <2>3. CASE /\ e.file # BadFile /\ ValidConfig(Configured(e))
             /\ phase' = "loaded" /\ env' = e /\ cfg' = Configured(e)
    <3>1. Configured(e) # NoConfig
      <4>1. "batch" \in DOMAIN Configured(e) /\ "batch" \notin DOMAIN NoConfig
        BY DEF Configured, NoConfig, Settings, DefaultSetting
      <4> QED BY <4>1
    <3>2. "slots" \in Settings \ TextSettings /\ "promote" \in Settings \ TextSettings
      BY DEF Settings, TextSettings, DefaultSetting
    <3>3. Configured(e)["slots"] \in Int /\ Configured(e)["promote"] \in Int
      BY <2>3, <3>2, NumbersResolve
    <3> QED BY <2>3, <3>1, <3>3
  <2> QED BY <2>1, <2>2, <2>3 DEF LoadConfig
<1>2. CASE OpenStore
  BY <1>2 DEF OpenStore
<1>3. CASE Wire
  <2>1. ~NewQueuePanics
    BY <1>3 DEF Wire, NewQueuePanics, ValidConfig
  <2> QED BY <1>3, <2>1 DEF Wire
<1>4. CASE Listen
  BY <1>4 DEF Listen
<1>5. CASE Stop
  BY <1>5 DEF Stop
<1>6. CASE UNCHANGED startupVars
  BY <1>6 DEF startupVars
<1> QED BY <1>1, <1>2, <1>3, <1>4, <1>5, <1>6 DEF ComeUp

\* What validate lets through, the domain and the queue accept.
LEMMA ValidIsSound ==
  ASSUME StartupInv
  PROVE  ServesSound
<1>1. CASE cfg = NoConfig
  BY <1>1 DEF StartupInv, ServesSound
<1>2. CASE cfg # NoConfig
  <2>1. ValidConfig(cfg) /\ phase # "panicked"
    BY <1>2 DEF StartupInv
  <2>2. Validate([f \in Fields |-> cfg[f]])
    BY <2>1 DEF ValidConfig, Validate, Fields, Periods, Unlimited
  <2> QED BY <2>1, <2>2 DEF ServesSound, ValidConfig
<1> QED BY <1>1, <1>2

\* What opens the dashboard is the credential of the environment.
LEMMA OnlyTheCredential ==
  ASSUME StartupInv
  PROVE  DashboardGuarded
<1> SUFFICES ASSUME phase = "serving",
                    NEW h \in Headers({cfg["user"], "other"} \cup Blanks,
                                      {cfg["password"], Empty, "wrong"}),
                    Reply("dashboard", h) = "ok"
             PROVE  /\ Seen(env, "password") \notin {Unset, Empty}
                    /\ h.secret = Seen(env, "password")
                    /\ h.user \notin Blanks /\ h.user = cfg["user"]
                    /\ Reply("api", h) = "unauthorized"
  BY DEF DashboardGuarded
<1>1. ValidConfig(cfg) /\ cfg = Configured(env)
  BY DEF StartupInv
<1>2. Enabled(cfg) /\ BasicAuthPasses(h)
  BY DEF Reply
<1>3. h.scheme = "basic" /\ h.user = cfg["user"] /\ h.secret = cfg["password"]
  BY <1>2 DEF BasicAuthPasses
<1>4. cfg["password"] # Empty /\ cfg["user"] \notin Blanks
  BY <1>1, <1>2 DEF Enabled, ValidConfig
<1>5. cfg["password"] = Getenv(env, "password")
  <2>1. "password" \in Settings
    BY DEF Settings, DefaultSetting
  <2> QED BY <1>1, <2>1 DEF Configured, Resolved
<1>6. Seen(env, "password") \notin {Unset, Empty} /\ cfg["password"] = Seen(env, "password")
  BY <1>4, <1>5 DEF Getenv
<1>7. Reply("api", h) = "unauthorized"
  BY <1>3 DEF Reply, BearerGiven
<1> QED BY <1>3, <1>4, <1>6, <1>7

-----------------------------------------------------------------------------
(***************************************************************************)
(* InputCount: the operators it is judged by.                              *)
(***************************************************************************)

\* Places among the first n of an array form a finite set.
LEMMA PlacesAreFinite ==
  ASSUME NEW n \in Nat, NEW S \in SUBSET (1..n)
  PROVE  IsFiniteSet(S) /\ Cardinality(S) \in Nat
<1>1. IsFiniteSet(1..n)
  BY FS_Interval
<1>2. IsFiniteSet(S)
  BY <1>1, FS_Subset
<1> QED BY <1>2, FS_CardinalityType

\* One more place counts one more.
LEMMA OneMorePlace ==
  ASSUME NEW n \in Nat, NEW S \in SUBSET (1..n)
  PROVE  Cardinality(S \cup {n + 1}) = Cardinality(S) + 1
<1>1. IsFiniteSet(S)
  BY PlacesAreFinite
<1>2. n + 1 \notin S
  OBVIOUS
<1> QED BY <1>1, <1>2, FS_AddElement

\* What the next token does to the depth.
LEMMA DepthStep ==
  ASSUME NEW b \in Seq(Tokens), NEW i \in 0..(Len(b) - 1)
  PROVE  /\ Depth(b, i) \in Int
         /\ Depth(b, i + 1) = Depth(b, i) + Nesting(b[i + 1])
<1>1. i \in Nat /\ Opens(b, i) \in SUBSET (1..i) /\ Closes(b, i) \in SUBSET (1..i)
  BY DEF Opens, Closes
<1>2. Cardinality(Opens(b, i)) \in Nat /\ Cardinality(Closes(b, i)) \in Nat
  BY <1>1, PlacesAreFinite
<1>3. Opens(b, i + 1) = IF b[i + 1] = "open" THEN Opens(b, i) \cup {i + 1} ELSE Opens(b, i)
  BY <1>1 DEF Opens
<1>4. Closes(b, i + 1) = IF b[i + 1] = "close" THEN Closes(b, i) \cup {i + 1} ELSE Closes(b, i)
  BY <1>1 DEF Closes
<1>5. Cardinality(Opens(b, i) \cup {i + 1}) = Cardinality(Opens(b, i)) + 1
  BY <1>1, OneMorePlace
<1>6. Cardinality(Closes(b, i) \cup {i + 1}) = Cardinality(Closes(b, i)) + 1
  BY <1>1, OneMorePlace
<1> QED BY <1>2, <1>3, <1>4, <1>5, <1>6 DEF Depth, Nesting

\* What the next token does to the elements begun.
LEMMA ElementsStep ==
  ASSUME NEW b \in Seq(Tokens), NEW i \in 0..(Len(b) - 1)
  PROVE  /\ Cardinality(Elements(b, i)) \in Nat
         /\ Cardinality(Elements(b, i + 1)) =
              IF b[i + 1] # "close" /\ Depth(b, i) = 0
              THEN Cardinality(Elements(b, i)) + 1 ELSE Cardinality(Elements(b, i))
<1>1. i \in Nat /\ Elements(b, i) \in SUBSET (1..i)
  BY DEF Elements
<1>2. Elements(b, i + 1) = IF b[i + 1] # "close" /\ Depth(b, i) = 0
                           THEN Elements(b, i) \cup {i + 1} ELSE Elements(b, i)
  BY <1>1 DEF Elements
<1> QED BY <1>1, <1>2, PlacesAreFinite, OneMorePlace

\* The elements begun so far are no more than those of the whole array.
LEMMA ElementsGrow ==
  ASSUME NEW b \in Seq(Tokens), NEW i \in 0..Len(b)
  PROVE  /\ AllElements(b) \in Nat
         /\ Cardinality(Elements(b, i)) \in Nat
         /\ Cardinality(Elements(b, i)) <= AllElements(b)
<1>1. Elements(b, i) \subseteq Elements(b, Len(b)) /\ Elements(b, i) \in SUBSET (1..i)
  BY DEF Elements
<1>2. Elements(b, Len(b)) \in SUBSET (1..Len(b)) /\ Len(b) \in Nat /\ i \in Nat
  BY DEF Elements
<1>3. IsFiniteSet(Elements(b, Len(b))) /\ Cardinality(Elements(b, Len(b))) \in Nat
  BY <1>2, PlacesAreFinite
<1> QED BY <1>1, <1>2, <1>3, FS_Subset, PlacesAreFinite DEF AllElements

\* Nothing has been seen at the start.
LEMMA NothingSeen ==
  ASSUME NEW b \in Seq(Tokens)
  PROVE  Depth(b, 0) = 0 /\ Cardinality(Elements(b, 0)) = 0
<1>1. Opens(b, 0) = {} /\ Closes(b, 0) = {} /\ Elements(b, 0) = {}
  BY DEF Opens, Closes, Elements
<1>2. Cardinality({}) = 0
  BY FS_EmptySet
<1>3. /\ Cardinality(Opens(b, 0)) = 0 /\ Cardinality(Closes(b, 0)) = 0
      /\ Cardinality(Elements(b, 0)) = 0
  BY <1>1, <1>2, Zenon
<1> QED BY <1>3 DEF Depth

-----------------------------------------------------------------------------
(***************************************************************************)
(* InputCount: the walk.                                                   *)
(***************************************************************************)

\* In the middle of an array, the walk knows its depth and has counted the elements
\* it has left behind.
Scanned ==
  /\ depth = Depth(body, pos)
  /\ counted = Cardinality(Elements(body, pos)) - (IF depth > 0 THEN 1 ELSE 0)
  /\ allNumbers <=> \A i \in 1..pos : body[i] = "number"
  /\ depth > 0 => ~allNumbers
  /\ counted <= MaxElements

\* The array meets its assumptions, the walk is right so far, and so is a verdict.
CountInv ==
  /\ CountTypeOK /\ body \in Seq(Tokens)
  /\ verdict = "none" => NothingCounted
  /\ verdict = "scanning" => body \in Bodies \cup {<< >>} /\ Scanned
  /\ CountIsExact
  /\ body = << >> /\ verdict = "counted" => counted \in {0, 1}

\* An array that has a token in it which is no number is not pre-tokenized.
LEMMA NotPretokenized ==
  ASSUME NEW b \in Seq(Tokens), NEW n \in 0..Len(b),
         ~(\A i \in 1..n : b[i] = "number")
  PROVE  Inputs(b) = AllElements(b)
BY DEF Inputs, Pretokenized

\* The bodies, and the empty array, are balanced sequences of tokens.
LEMMA BodiesAreBalanced ==
  ASSUME NEW b \in Bodies \cup {<< >>}
  PROVE  /\ b \in Seq(Tokens)
         /\ \A i \in 0..Len(b) : Depth(b, i) \in Nat
         /\ Depth(b, Len(b)) = 0
<1>1. b \in Seq(Tokens) /\ Depth(b, 0) = 0
  <2>1. b \in Seq(Tokens)
    <3>1. CASE b \in Bodies
      BY <3>1, InputCountAssumption
    <3>2. CASE b = << >>
      BY <3>2
    <3> QED BY <3>1, <3>2
  <2> QED BY <2>1, NothingSeen
<1>2. \A i \in 1..Len(b) : Depth(b, i) >= 0
  BY InputCountAssumption
<1>3. Depth(b, Len(b)) = 0
  BY <1>1, InputCountAssumption
<1>4. ASSUME NEW i \in 0..Len(b) PROVE Depth(b, i) \in Nat
  <2>1. CASE i = Len(b)
    BY <2>1, <1>3
  <2>2. CASE i \in 1..(Len(b) - 1)
    <3>1. Depth(b, i) \in Int
      BY <2>2, <1>1, DepthStep
    <3> QED BY <2>2, <3>1, <1>2
  <2>3. CASE i = 0
    BY <2>3, <1>1
  <2> QED BY <1>1, <2>1, <2>2, <2>3
<1> QED BY <1>1, <1>3, <1>4

\* After a top-level element: the count is exact, whether or not the walk goes on.
LEMMA JudgedIsExact ==
  ASSUME CountTypeOK, body \in Seq(Tokens), pos < Len(body), body' = body, limit' = limit,
         pos' = pos + 1, depth' = 0,
         body \in Bodies \cup {<< >>},
         allNumbers' \in BOOLEAN,
         allNumbers' <=> \A i \in 1..(pos + 1) : body[i] = "number",
         Depth(body, pos + 1) = 0,
         counted \in 0..MaxElements,
         counted' = counted + 1,
         counted' = Cardinality(Elements(body, pos + 1)),
         verdict' = Judged(counted', allNumbers')
  PROVE  CountInv'
<1>1. pos + 1 \in 1..Len(body) /\ MaxElements \in Nat /\ limit \in Nat /\ body # << >>
  BY InputCountAssumption DEF CountTypeOK
<1>2. counted' <= AllElements(body) /\ AllElements(body) \in Nat
  BY <1>1, ElementsGrow
<1>3. CountTypeOK'
  BY <1>1 DEF CountTypeOK, Judged
<1>4. CASE counted' > MaxElements
  <2>1. verdict' = "tooLarge"
    BY <1>4 DEF Judged
  <2>2. AllElements(body) > MaxElements
    BY <1>1, <1>2, <1>4
  <2>3. CountIsExact'
    BY <2>1, <2>2 DEF CountIsExact, AllElements, Elements, Depth, Opens, Closes
  <2> QED BY <1>3, <2>1, <2>3 DEF CountInv
<1>5. CASE ~(counted' > MaxElements) /\ ~allNumbers' /\ counted' > limit
  <2>1. verdict' = "counted"
    BY <1>5 DEF Judged
  <2>2. Inputs(body) = AllElements(body)
    BY <1>1, <1>5, NotPretokenized
  <2>3. Inputs(body) \notin 1..limit /\ counted' \notin 1..limit
    BY <1>1, <1>2, <1>5, <2>2
  <2>4. CountIsExact'
    BY <2>1, <2>3 DEF CountIsExact, Permitted, Inputs, Pretokenized, AllElements, Elements,
                      Depth, Opens, Closes
  <2> QED BY <1>1, <1>3, <2>1, <2>4 DEF CountInv
<1>6. CASE ~(counted' > MaxElements) /\ ~(~allNumbers' /\ counted' > limit)
  <2>1. verdict' = "scanning"
    BY <1>6 DEF Judged
  <2>2. Scanned'
    BY <1>1, <1>6 DEF Scanned, Depth, Opens, Closes, Elements
  <2>3. CountIsExact'
    BY <2>1 DEF CountIsExact
  <2> QED BY <1>3, <2>1, <2>2, <2>3 DEF CountInv
<1> QED BY <1>4, <1>5, <1>6

\* Every step of the walk keeps the invariant.
LEMMA CountInvStep ==
  ASSUME CountInv, CountStep
  PROVE  CountInv'
<1> USE DEF CountInv
<1>1. verdict = "scanning" /\ Scanned /\ body' = body /\ limit' = limit
      /\ body \in Bodies \cup {<< >>} /\ body \in Seq(Tokens)
  BY DEF CountStep, NextAtom, NextNested, SkipToken, EndArray
<1>2. /\ pos \in 0..Len(body) /\ Len(body) \in Nat /\ counted \in 0..MaxElements
      /\ depth \in Nat /\ allNumbers \in BOOLEAN /\ limit \in Nat /\ MaxElements \in Nat
  BY <1>1, InputCountAssumption DEF CountTypeOK, Scanned
<1>3. ASSUME pos < Len(body)
      PROVE  /\ Token \in Tokens
             /\ Depth(body, pos + 1) = depth + Nesting(Token)
             /\ Depth(body, pos + 1) \in Nat
             /\ Cardinality(Elements(body, pos)) \in Nat
             /\ Cardinality(Elements(body, pos + 1)) =
                  IF Token # "close" /\ depth = 0
                  THEN Cardinality(Elements(body, pos)) + 1
                  ELSE Cardinality(Elements(body, pos))
             /\ (\A i \in 1..(pos + 1) : body[i] = "number")
                  <=> allNumbers /\ Token = "number"
  <2>1. pos \in 0..(Len(body) - 1) /\ pos + 1 \in 1..Len(body) /\ pos + 1 \in 0..Len(body)
    BY <1>2, <1>3
  <2>2. Token \in Tokens
    BY <1>1, <2>1 DEF Token
  <2>3. Depth(body, pos + 1) = depth + Nesting(Token)
    BY <1>1, <2>1, DepthStep DEF Scanned, Token
  <2>4. Depth(body, pos + 1) \in Nat
    BY <1>1, <2>1, BodiesAreBalanced
  <2>5. /\ Cardinality(Elements(body, pos)) \in Nat
        /\ Cardinality(Elements(body, pos + 1)) =
             IF Token # "close" /\ depth = 0
             THEN Cardinality(Elements(body, pos)) + 1
             ELSE Cardinality(Elements(body, pos))
    BY <1>1, <2>1, ElementsStep DEF Scanned, Token
  <2>6. (\A i \in 1..(pos + 1) : body[i] = "number") <=> allNumbers /\ Token = "number"
    BY <1>1, <1>2, <2>1 DEF Scanned, Token
  <2> QED BY <2>2, <2>3, <2>4, <2>5, <2>6
<1>4. CASE NextAtom
  <2>1. pos < Len(body) /\ depth = 0 /\ Token # "open"
    BY <1>4 DEF NextAtom
  <2>2. Nesting(Token) \in {0, -1} /\ depth + Nesting(Token) \in Nat
    BY <1>3, <2>1 DEF Nesting
  <2>3. Token # "close" /\ Nesting(Token) = 0 /\ Depth(body, pos + 1) = 0
    <3>1. Nesting("close") = -1
      BY DEF Nesting
    <3>2. Token # "close"
      BY <2>1, <2>2, <3>1
    <3>3. Nesting(Token) = 0
      BY <2>1, <3>2 DEF Nesting
    <3> QED BY <1>3, <2>1, <3>2, <3>3
  <2>4. counted' = Cardinality(Elements(body, pos + 1)) /\ counted' = counted + 1
    <3>1. counted = Cardinality(Elements(body, pos))
      BY <1>1, <1>3, <2>1 DEF Scanned
    <3>2. counted' = counted + 1
      BY <1>4 DEF NextAtom
    <3> QED BY <1>3, <2>1, <2>3, <3>1, <3>2
  <2>5. /\ allNumbers' \in BOOLEAN
        /\ allNumbers' <=> \A i \in 1..(pos + 1) : body[i] = "number"
    BY <1>2, <1>3, <1>4, <2>1 DEF NextAtom
  <2>6. pos' = pos + 1 /\ depth' = 0 /\ verdict' = Judged(counted', allNumbers')
    BY <1>4, <2>1 DEF NextAtom
  <2> QED BY <1>1, <1>2, <2>1, <2>3, <2>4, <2>5, <2>6, JudgedIsExact
<1>5. CASE NextNested
  <2>1. pos < Len(body) /\ depth = 0 /\ Token = "open"
    BY <1>5 DEF NextNested
  <2>2. /\ pos' = pos + 1 /\ allNumbers' = FALSE /\ depth' = 1 /\ counted' = counted
        /\ verdict' = "scanning"
    BY <1>1, <1>5 DEF NextNested
  <2>3. Depth(body, pos + 1) = 1
    BY <1>3, <2>1 DEF Nesting
  <2>4. counted = Cardinality(Elements(body, pos + 1)) - 1
    BY <1>1, <1>3, <2>1 DEF Scanned
  <2>5. ~(\A i \in 1..(pos + 1) : body[i] = "number")
    BY <1>3, <2>1
  <2>6. Scanned'
    <3>1. depth' = Depth(body', pos') /\ depth' > 0 /\ ~allNumbers'
      BY <1>1, <2>2, <2>3
    <3>2. counted' = Cardinality(Elements(body', pos')) - 1 /\ counted' <= MaxElements
      BY <1>1, <1>2, <2>2, <2>4
    <3>3. ~(\A i \in 1..pos' : body'[i] = "number")
      BY <1>1, <2>2, <2>5
    <3> QED BY <3>1, <3>2, <3>3 DEF Scanned, Depth, Opens, Closes, Elements
  <2>7. CountTypeOK'
    <3>1. pos' \in 0..Len(body') /\ counted' \in 0..(MaxElements + 1)
      BY <1>1, <1>2, <2>1, <2>2
    <3> QED BY <1>1, <1>2, <2>2, <3>1 DEF CountTypeOK
  <2>8. CountIsExact'
    BY <2>2 DEF CountIsExact
  <2> QED BY <1>1, <2>2, <2>6, <2>7, <2>8
<1>6. CASE SkipToken
  <2>1. depth > 0 /\ pos < Len(body)
    <3>1. depth > 0
      BY <1>6 DEF SkipToken
    <3>2. Depth(body, Len(body)) = 0
      BY <1>1, BodiesAreBalanced
    <3> QED BY <1>1, <1>2, <3>1, <3>2 DEF Scanned
  <2>2. /\ pos' = pos + 1 /\ allNumbers' = allNumbers /\ ~allNumbers
        /\ depth' = Depth(body, pos + 1)
    BY <1>1, <1>3, <1>6, <2>1 DEF SkipToken, Scanned
  <2>3. /\ depth' \in Nat
        /\ counted + 1 = Cardinality(Elements(body, pos + 1))
        /\ ~(\A i \in 1..(pos + 1) : body[i] = "number")
    BY <1>1, <1>2, <1>3, <2>1, <2>2 DEF Scanned
  <2>4. CASE depth' = 0
    <3>1. counted' = counted + 1 /\ verdict' = Judged(counted', allNumbers')
      BY <1>6, <2>2, <2>4 DEF SkipToken, Judged
    <3>2. Depth(body, pos + 1) = 0 /\ allNumbers' \in BOOLEAN
      BY <1>2, <2>2, <2>4
    <3>3. allNumbers' <=> \A i \in 1..(pos + 1) : body[i] = "number"
      BY <2>2, <2>3
    <3> QED BY <1>1, <1>2, <2>1, <2>2, <2>3, <2>4, <3>1, <3>2, <3>3, JudgedIsExact
  <2>5. CASE depth' # 0
    <3>1. counted' = counted /\ verdict' = "scanning"
      BY <1>1, <1>6, <2>5 DEF SkipToken
    <3>2. Scanned'
      BY <1>1, <1>2, <2>2, <2>3, <2>5, <3>1 DEF Scanned, Depth, Opens, Closes, Elements
    <3>3. CountTypeOK'
      <4>1. pos' \in 0..Len(body') /\ counted' \in 0..(MaxElements + 1)
        BY <1>1, <1>2, <2>1, <2>2, <3>1
      <4> QED BY <1>1, <1>2, <2>2, <2>3, <3>1, <4>1 DEF CountTypeOK
    <3>4. CountIsExact'
      BY <3>1 DEF CountIsExact
    <3> QED BY <1>1, <3>1, <3>2, <3>3, <3>4
  <2> QED BY <2>4, <2>5
<1>7. CASE EndArray
  <2>1. /\ depth = 0 /\ pos = Len(body) /\ verdict' = "counted"
        /\ counted' = IF counted > 0 /\ allNumbers THEN 1 ELSE counted
        /\ UNCHANGED <<body, limit, pos, depth, allNumbers>>
    BY <1>7 DEF EndArray
  <2>2. counted = AllElements(body)
    <3>1. counted = Cardinality(Elements(body, pos)) - 0
      BY <1>1, <2>1 DEF Scanned
    <3>2. Cardinality(Elements(body, pos)) \in Nat
      BY <1>1, <1>2, ElementsGrow
    <3> QED BY <2>1, <3>1, <3>2 DEF AllElements
  <2>3. CountTypeOK'
    <3>1. counted' \in 0..(MaxElements + 1)
      BY <1>2, <2>1
    <3> QED BY <1>1, <1>2, <2>1, <3>1 DEF CountTypeOK
  <2>4. CASE body = << >>
    <3>1. counted = 0
      <4>1. AllElements(<< >>) = 0
        BY <1>1, <2>4, NothingSeen DEF AllElements
      <4> QED BY <2>2, <2>4, <4>1
    <3>2. counted' = 0 /\ body' = << >>
      BY <2>1, <2>4, <3>1
    <3>3. CountIsExact'
      BY <3>2 DEF CountIsExact
    <3> QED BY <1>1, <2>1, <2>3, <3>2, <3>3
  <2>5. CASE body # << >>
    <3>1. counted' = Inputs(body)
      <4>1. CASE allNumbers
        <5>1. Pretokenized(body)
          BY <1>1, <2>1, <2>5, <4>1 DEF Pretokenized, Scanned
        <5>2. counted > 0
          <6>1. 1 \in Elements(body, Len(body)) /\ Len(body) >= 1
            <7>1. Len(body) >= 1 /\ body[1] = "number"
              BY <1>1, <5>1, <2>5 DEF Pretokenized
            <7>2. Depth(body, 0) = 0
              BY <1>1, NothingSeen
            <7> QED BY <1>2, <7>1, <7>2 DEF Elements
          <6>2. Elements(body, Len(body)) \in SUBSET (1..Len(body))
            BY DEF Elements
          <6>3. IsFiniteSet(Elements(body, Len(body))) /\ Elements(body, Len(body)) # {}
            BY <1>2, <6>1, <6>2, PlacesAreFinite
          <6>4. Cardinality(Elements(body, Len(body))) # 0
            BY <6>3, FS_EmptySet
          <6> QED BY <1>2, <2>2, <6>4 DEF AllElements
        <5> QED BY <2>1, <4>1, <5>1, <5>2 DEF Inputs
      <4>2. CASE ~allNumbers
        <5>1. Inputs(body) = AllElements(body)
          BY <1>1, <1>2, <2>1, <4>2, NotPretokenized DEF Scanned
        <5> QED BY <2>1, <2>2, <4>2, <5>1
      <4> QED BY <1>2, <4>1, <4>2
    <3>2. AllElements(body) <= MaxElements
      BY <1>2, <2>2
    <3>3. CountIsExact'
      BY <1>1, <2>1, <3>1, <3>2
         DEF CountIsExact, Permitted, Inputs, Pretokenized, AllElements, Elements, Depth,
             Opens, Closes
    <3> QED BY <1>1, <2>1, <2>3, <2>5, <3>3
  <2> QED BY <2>4, <2>5
<1> QED BY <1>4, <1>5, <1>6, <1>7 DEF CountStep

\* Nothing counted is a state of the invariant.
LEMMA NothingIsRight ==
  ASSUME NothingCounted
  PROVE  CountInv
<1>1. body = << >> /\ body \in Seq(Tokens) /\ Len(body) = 0 /\ MaxElements \in Nat
  BY InputCountAssumption DEF NothingCounted
<1> QED BY <1>1 DEF NothingCounted, CountInv, CountTypeOK, CountIsExact

\* So is what stands when a body has been read for a key that allows l inputs.
LEMMA ReadingIsRight ==
  ASSUME CountInv, NEW l \in Nat,
         \/ \E b \in Bodies : BeginArray(b, l)
         \/ \E isString \in BOOLEAN : CountOther(isString, l)
  PROVE  CountInv' /\ limit' = l /\ verdict' # "none"
<1>1. verdict = "none" /\ NothingCounted /\ MaxElements \in Nat \ {0}
  BY InputCountAssumption DEF BeginArray, CountOther, CountInv
<1>2. CASE \E b \in Bodies : BeginArray(b, l)
  <2>1. PICK b \in Bodies : BeginArray(b, l)
    BY <1>2
  <2>2. /\ body' = b /\ limit' = l /\ verdict' = "scanning" /\ pos' = 0 /\ depth' = 0
        /\ counted' = 0 /\ allNumbers' = TRUE
    BY <1>1, <2>1 DEF BeginArray, NothingCounted
  <2>3. b \in Seq(Tokens) /\ Len(b) \in Nat /\ Depth(b, 0) = 0
        /\ Cardinality(Elements(b, 0)) = 0
    BY BodiesAreBalanced, NothingSeen
  <2>4. Scanned'
    <3>1. depth' = Depth(body', pos') /\ counted' = Cardinality(Elements(body', pos'))
      BY <2>2, <2>3
    <3>2. allNumbers' <=> \A i \in 1..pos' : body'[i] = "number"
      BY <2>2
    <3> QED BY <1>1, <2>2, <3>1, <3>2 DEF Scanned, Depth, Opens, Closes, Elements
  <2>5. CountTypeOK' /\ CountIsExact'
    BY <1>1, <2>2, <2>3 DEF CountTypeOK, CountIsExact
  <2> QED BY <2>2, <2>3, <2>4, <2>5 DEF CountInv
<1>3. CASE \E isString \in BOOLEAN : CountOther(isString, l)
  <2>1. /\ UNCHANGED <<body, pos, depth, allNumbers>> /\ limit' = l
        /\ counted' \in {0, 1} /\ verdict' \in {"counted", "invalid"}
    BY <1>1, <1>3 DEF CountOther, NothingCounted
  <2>2. body' = << >> /\ body' \in Seq(Tokens) /\ Len(body') = 0
    BY <1>1, <2>1 DEF NothingCounted
  <2>3. CountTypeOK' /\ CountIsExact'
    BY <1>1, <2>1, <2>2 DEF CountTypeOK, CountIsExact, NothingCounted
  <2> QED BY <2>1, <2>2, <2>3 DEF CountInv
<1> QED BY <1>2, <1>3

-----------------------------------------------------------------------------
(***************************************************************************)
(* RateLimit.                                                              *)
(***************************************************************************)

\* A client that was denied has been told to wait at least until the window ends,
\* and less than a second more.
ToldInv == told >= 0 => Window - age <= told /\ told < Window - age + TicksPerSecond

\* Where in the past the requests of the present window lie, and those before it.
Current == {k \in 0..(Window - 1) : k <= age}
Earlier == {k \in 0..(Window - 1) : k > age}

\* What was admitted since the window opened is in its count; what was admitted
\* before it, and less than a window's length ago, came from one earlier window.
BurstInv ==
  /\ age = Window => recent[0] = 0
  /\ Cardinality(Units(recent, Current)) <= count
  /\ Cardinality(Units(recent, Earlier)) <= Max(Limits)

RateInv == TypeOK /\ ToldInv /\ BurstInv

\* A window lasts.
LEMMA WindowLasts == Window \in Nat \ {0} /\ TicksPerSecond \in Nat \ {0}
<1>1. \A a, b \in Nat \ {0} : a * b \in Nat \ {0}
  OBVIOUS
<1> QED BY <1>1, RateAssumption DEF Window

\* There is a highest limit, and it lets requests in.
LEMMA HighestLimit == Max(Limits) \in Nat \ {0} /\ \A l \in Limits : l \in 1..Max(Limits)
<1>1. Limits \in SUBSET Nat /\ Limits # {} /\ 0 \notin Limits
  BY RateAssumption
<1>2. PICK n \in Nat : Limits \subseteq 0..n
  BY <1>1, RateAssumption, FiniteIsBounded
<1>3. Max(Limits) \in Limits /\ \A l \in Limits : l <= Max(Limits)
  BY <1>1, <1>2, MaxIsGreatest
<1>4. Max(Limits) \in Nat \ {0}
  BY <1>1, <1>3
<1>5. ASSUME NEW l \in Limits PROVE l \in 1..Max(Limits)
  <2>1. l \in Nat /\ l # 0 /\ l <= Max(Limits)
    BY <1>1, <1>3
  <2> QED BY <1>4, <2>1
<1> QED BY <1>4, <1>5

\* Places of the window are finitely many.
LEMMA PlacesOfWindow ==
  ASSUME NEW S \in SUBSET (0..(Window - 1))
  PROVE  IsFiniteSet(S)
<1>1. 0 \in Int /\ Window - 1 \in Int
  BY WindowLasts
<1>2. IsFiniteSet(0..(Window - 1))
  BY <1>1, FS_Interval
<1> QED BY <1>2, FS_Subset

\* Rounding up reaches what is rounded, by less than a unit.
LEMMA RoundingUp ==
  ASSUME NEW x \in Nat \ {0}, NEW t \in Nat \ {0}
  PROVE  LET s == (x + t - 1) \div t
         IN  s \in Nat \ {0} /\ x <= s * t /\ s * t < x + t
OBVIOUS

\* A tick carries the requests of every tick one tick further into the past.
LEMMA TickShifts ==
  ASSUME RateInv, Tick, NEW S \in SUBSET (0..(Window - 1)), NEW T \in SUBSET (0..(Window - 1)),
         \A k \in T : k = 0 \/ k - 1 \in S
  PROVE  Cardinality(Units(recent', T)) <= Cardinality(Units(recent, S))
<1> DEFINE U == T \ {0}
           h == [k \in U |-> k - 1]
<1>1. Window \in Nat \ {0} /\ Max(Limits) \in Nat
  BY WindowLasts, HighestLimit
<1>2. recent \in [0..(Window - 1) -> 0..Max(Limits)]
  BY DEF RateInv, TypeOK
<1>3. /\ recent' = [k \in 0..(Window - 1) |-> IF k = 0 THEN 0 ELSE recent[k - 1]]
      /\ recent' \in [0..(Window - 1) -> 0..Max(Limits)]
  BY <1>1, <1>2 DEF Tick
<1>4. h \in Injection(U, S)
  <2>1. \A k \in U : h[k] \in S
    OBVIOUS
  <2>2. \A j, k \in U : h[j] = h[k] => j = k
    OBVIOUS
  <2> QED BY <2>1, <2>2 DEF Injection, IsInjective
<1>5. \A k \in U : recent'[k] \in Nat /\ recent'[k] <= recent[h[k]]
  <2>1. ASSUME NEW k \in U PROVE recent'[k] = recent[k - 1] /\ recent'[k] \in Nat
    BY <1>1, <1>3
  <2> QED BY <2>1
<1>6. IsFiniteSet(S) /\ IsFiniteSet(T) /\ (\A k \in S : recent[k] \in 0..Max(Limits))
      /\ (\A k \in T : recent'[k] \in 0..Max(Limits))
  BY <1>2, <1>3, PlacesOfWindow
<1> HIDE DEF h, U
<1>7. Cardinality(Units(recent', U)) <= Cardinality(Units(recent, S))
  BY <1>1, <1>4, <1>5, <1>6, UnitsEmbed
<1>8. Cardinality(Units(recent', T)) = Cardinality(Units(recent', U))
  <2>1. CASE 0 \in T
    <3>1. recent'[0] = 0
      BY <1>1, <1>3
    <3>2. Cardinality(Units(recent', T)) = recent'[0] + Cardinality(Units(recent', T \ {0}))
      <4>1. Counts(recent', T, Max(Limits))
        BY <1>6 DEF Counts
      <4>2. IsFiniteSet(T) /\ Max(Limits) \in Nat /\ 0 \in T
        BY <1>1, <1>6, <2>1
      <4> QED BY <4>1, <4>2, UnitsTaken
    <3>3. IsFiniteSet(U) /\ \A k \in U : recent'[k] \in 0..Max(Limits)
      BY <1>6, FS_Subset DEF U
    <3>4. Cardinality(Units(recent', U)) \in Nat
      BY <1>1, <3>3, UnitsCount
    <3> QED BY <3>1, <3>2, <3>4 DEF U
  <2>2. CASE 0 \notin T
    <3>1. U = T
      BY <2>2 DEF U
    <3> QED BY <3>1
  <2> QED BY <2>1, <2>2
<1> QED BY <1>7, <1>8

LEMMA TickKeeps ==
  ASSUME RateInv, Tick
  PROVE  RateInv'
<1>1. Window \in Nat \ {0} /\ TicksPerSecond \in Nat \ {0} /\ Max(Limits) \in Nat
  BY WindowLasts, HighestLimit
<1>2. /\ age \in 0..Window /\ count \in 0..Max(Limits) /\ told \in Int /\ told >= -1
      /\ recent \in [0..(Window - 1) -> 0..Max(Limits)]
  BY <1>1 DEF RateInv, TypeOK
<1>3. ToldInv'
  BY <1>1, <1>2 DEF Tick, RateInv, ToldInv, Window
<1>4. age' \in 0..Window /\ count' = count /\ age <= age' /\ age' <= age + 1
      /\ (age' = age => age = Window)
  BY <1>1, <1>2 DEF Tick
<1>5. TypeOK'
  <2>1. recent' \in [0..(Window - 1) -> 0..Max(Limits)]
    BY <1>1, <1>2 DEF Tick
  <2>2. told' \in -1..(Window + TicksPerSecond)
    BY <1>1, <1>2 DEF Tick, RateInv, TypeOK
  <2> QED BY <1>2, <1>4, <2>1, <2>2 DEF TypeOK, Window
<1>6. recent'[0] = 0
  BY <1>1 DEF Tick
<1>7. Cardinality(Units(recent', Current')) <= Cardinality(Units(recent, Current))
  <2>1. Current' = {k \in 0..(Window - 1) : k <= age'}
    BY DEF Current, Window
  <2>2. \A k \in Current' : k = 0 \/ k - 1 \in Current
    BY <1>1, <1>2, <1>4, <2>1 DEF Current
  <2>3. Current \in SUBSET (0..(Window - 1)) /\ Current' \in SUBSET (0..(Window - 1))
    BY <2>1 DEF Current
  <2> QED BY <2>2, <2>3, TickShifts
<1>8. Cardinality(Units(recent', Earlier')) <= Cardinality(Units(recent, Earlier))
  <2>1. Earlier' = {k \in 0..(Window - 1) : k > age'}
    BY DEF Earlier, Window
  <2>2. \A k \in Earlier' : k = 0 \/ k - 1 \in Earlier
    BY <1>1, <1>2, <1>4, <2>1 DEF Earlier
  <2>3. Earlier \in SUBSET (0..(Window - 1)) /\ Earlier' \in SUBSET (0..(Window - 1))
    BY <2>1 DEF Earlier
  <2> QED BY <2>2, <2>3, TickShifts
<1>9. /\ Cardinality(Units(recent, Current)) \in Nat
      /\ Cardinality(Units(recent, Earlier)) \in Nat
      /\ Cardinality(Units(recent', Current')) \in Nat
      /\ Cardinality(Units(recent', Earlier')) \in Nat
  <2>1. /\ IsFiniteSet(Current) /\ IsFiniteSet(Earlier)
        /\ IsFiniteSet(Current') /\ IsFiniteSet(Earlier')
    <3>1. /\ Current \in SUBSET (0..(Window - 1)) /\ Earlier \in SUBSET (0..(Window - 1))
          /\ Current' \in SUBSET (0..(Window - 1)) /\ Earlier' \in SUBSET (0..(Window - 1))
      BY DEF Current, Earlier, Window
    <3> QED BY <3>1, PlacesOfWindow
  <2>2. recent' \in [0..(Window - 1) -> 0..Max(Limits)]
    BY <1>1, <1>2 DEF Tick
  <2>3. /\ \A k \in Current \cup Earlier : recent[k] \in 0..Max(Limits)
        /\ \A k \in Current' \cup Earlier' : recent'[k] \in 0..Max(Limits)
    BY <1>2, <2>2 DEF Current, Earlier, Window
  <2> QED BY <1>1, <2>1, <2>3, UnitsCount
<1>10. BurstInv'
  <2>1. Cardinality(Units(recent', Current')) <= count'
    BY <1>2, <1>4, <1>7, <1>9 DEF RateInv, BurstInv
  <2>2. Cardinality(Units(recent', Earlier')) <= Max(Limits)
    BY <1>1, <1>8, <1>9 DEF RateInv, BurstInv
  <2> QED BY <1>6, <2>1, <2>2 DEF BurstInv
<1> QED BY <1>3, <1>5, <1>10 DEF RateInv

\* The window a call finds, or opens: what was admitted before is in order.
LEMMA WindowFound ==
  ASSUME RateInv, NEW a, NEW c, NEW t,
         a = IF Rolls THEN 0 ELSE age, c = IF Rolls THEN 0 ELSE count,
         t = IF Rolls THEN -1 ELSE told
  PROVE  /\ a \in 0..(Window - 1) /\ c \in 0..Max(Limits)
         /\ t \in -1..(Window + TicksPerSecond)
         /\ t >= 0 => Window - a <= t /\ t < Window - a + TicksPerSecond
         /\ Cardinality(Units(recent, {k \in 0..(Window - 1) : k <= a})) <= c
         /\ Cardinality(Units(recent, {k \in 0..(Window - 1) : k > a})) <= Max(Limits)
<1>1. Window \in Nat \ {0} /\ TicksPerSecond \in Nat \ {0} /\ Max(Limits) \in Nat
  BY WindowLasts, HighestLimit
<1>2. /\ age \in 0..Window /\ count \in 0..Max(Limits)
      /\ told \in -1..(Window + TicksPerSecond)
      /\ recent \in [0..(Window - 1) -> 0..Max(Limits)]
  BY DEF RateInv, TypeOK
<1>3. /\ a \in 0..(Window - 1) /\ c \in 0..Max(Limits)
      /\ t \in -1..(Window + TicksPerSecond)
      /\ t >= 0 => Window - a <= t /\ t < Window - a + TicksPerSecond
  BY <1>1, <1>2 DEF Rolls, RateInv, ToldInv
<1> DEFINE C == {k \in 0..(Window - 1) : k <= a}
           E == {k \in 0..(Window - 1) : k > a}
<1>4. CASE ~Rolls
  <2>1. a = age /\ c = count
    BY <1>4
  <2>2. C = Current /\ E = Earlier
    BY <2>1 DEF Current, Earlier
  <2> QED BY <1>3, <2>1, <2>2 DEF RateInv, BurstInv
<1>5. CASE Rolls
  <2>1. age = Window /\ a = 0 /\ c = 0 /\ recent[0] = 0
    BY <1>1, <1>2, <1>5 DEF Rolls, RateInv, BurstInv
  <2>2. C = {0} /\ E \in SUBSET Current /\ Current \in SUBSET (0..(Window - 1))
    BY <1>1, <2>1 DEF Current
  <2>3. Units(recent, C) = {}
    BY <2>1, <2>2 DEF Units
  <2>4. Cardinality(Units(recent, C)) = 0
    BY <2>3, FS_EmptySet
  <2>5. IsFiniteSet(Current) /\ \A k \in Current : recent[k] \in 0..Max(Limits)
    BY <1>2, <2>2, PlacesOfWindow
  <2>6. Units(recent, E) \in SUBSET Units(recent, Current)
    BY <2>2 DEF Units
  <2>7. IsFiniteSet(E) /\ \A k \in E : recent[k] \in 0..Max(Limits)
    BY <2>2, <2>5, FS_Subset
  <2> HIDE DEF E
  <2>8. /\ IsFiniteSet(Units(recent, Current)) /\ Cardinality(Units(recent, Current)) \in Nat
        /\ Cardinality(Units(recent, E)) \in Nat
    BY <1>1, <2>5, <2>7, UnitsCount
  <2>9. Cardinality(Units(recent, E)) <= Cardinality(Units(recent, Current))
    BY <2>6, <2>8, FS_Subset
  <2>10. Cardinality(Units(recent, Current)) <= count
    BY DEF RateInv, BurstInv
  <2>11. Cardinality(Units(recent, E)) <= Max(Limits)
    BY <1>1, <1>2, <2>8, <2>9, <2>10
  <2> QED BY <1>3, <2>1, <2>4, <2>11 DEF E
<1> QED BY <1>4, <1>5

\* One more request now is one more in the present window, and none in those before.
LEMMA OneMoreRequest ==
  ASSUME NEW f \in [0..(Window - 1) -> 0..Max(Limits)],
         NEW g, g[0] = f[0] + 1, \A k \in 1..(Window - 1) : g[k] = f[k],
         NEW C \in SUBSET (0..(Window - 1)), 0 \in C,
         NEW E \in SUBSET (0..(Window - 1)), 0 \notin E
  PROVE  /\ Cardinality(Units(f, C)) \in Nat /\ Cardinality(Units(f, E)) \in Nat
         /\ Cardinality(Units(g, C)) = Cardinality(Units(f, C)) + 1
         /\ Cardinality(Units(g, E)) = Cardinality(Units(f, E))
         /\ g[0] <= Cardinality(Units(g, C))
<1> DEFINE m == Max(Limits) + 1
<1>1. Window \in Nat \ {0} /\ m \in Nat /\ Max(Limits) \in Nat
  BY WindowLasts, HighestLimit
<1>2. /\ 0 \in C /\ 0 \notin E
      /\ C \in SUBSET (0..(Window - 1)) /\ E \in SUBSET (0..(Window - 1))
  OBVIOUS
<1>3. IsFiniteSet(C) /\ IsFiniteSet(E) /\ IsFiniteSet(C \ {0})
  BY <1>2, PlacesOfWindow, FS_Subset
<1>4. /\ g[0] = f[0] + 1 /\ f[0] \in 0..Max(Limits)
      /\ \A k \in 0..(Window - 1) : k # 0 => g[k] = f[k]
      /\ \A k \in 0..(Window - 1) : f[k] \in 0..m /\ g[k] \in 0..m
  BY <1>1
<1> HIDE DEF m
<1>5. Units(g, C \ {0}) = Units(f, C \ {0}) /\ Units(g, E) = Units(f, E)
  BY <1>2, <1>4 DEF Units
<1>6. /\ Cardinality(Units(f, C)) = f[0] + Cardinality(Units(f, C \ {0}))
      /\ Cardinality(Units(g, C)) = g[0] + Cardinality(Units(g, C \ {0}))
  <2>1. IsFiniteSet(C) /\ m \in Nat /\ 0 \in C
    BY <1>1, <1>2, <1>3
  <2>2. Counts(f, C, m) /\ Counts(g, C, m)
    BY <1>2, <1>4 DEF Counts
  <2>3. Cardinality(Units(f, C)) = f[0] + Cardinality(Units(f, C \ {0}))
    BY <2>1, <2>2, UnitsTaken, Zenon
  <2>4. Cardinality(Units(g, C)) = g[0] + Cardinality(Units(g, C \ {0}))
    BY <2>1, <2>2, UnitsTaken, Zenon
  <2> QED BY <2>3, <2>4
<1>7. /\ Cardinality(Units(f, C)) \in Nat /\ Cardinality(Units(f, E)) \in Nat
      /\ Cardinality(Units(f, C \ {0})) \in Nat
  <2>1. (\A k \in C \ {0} : f[k] \in 0..m) /\ (\A k \in C : f[k] \in 0..m)
        /\ (\A k \in E : f[k] \in 0..m)
    BY <1>2, <1>4
  <2> DEFINE F == C \ {0}
  <2>2. IsFiniteSet(F) /\ \A k \in F : f[k] \in 0..m
    BY <1>3, <2>1
  <2> HIDE DEF F
  <2>3. Cardinality(Units(f, F)) \in Nat
    BY <1>1, <2>2, UnitsCount
  <2>4. Cardinality(Units(f, C)) \in Nat
    BY <1>1, <1>3, <2>1, UnitsCount
  <2>5. Cardinality(Units(f, E)) \in Nat
    BY <1>1, <1>3, <2>1, UnitsCount
  <2> QED BY <2>3, <2>4, <2>5 DEF F
<1> QED BY <1>4, <1>5, <1>6, <1>7

\* Whatever limit the row carries, a call of Allow keeps the limiter in order.
LEMMA AllowKeeps ==
  ASSUME RateInv, NEW l \in Limits, Allow(l)
  PROVE  RateInv'
<1> DEFINE a == IF Rolls THEN 0 ELSE age
           c == IF Rolls THEN 0 ELSE count
           t == IF Rolls THEN -1 ELSE told
           C == {k \in 0..(Window - 1) : k <= a}
           E == {k \in 0..(Window - 1) : k > a}
<1>1. Window \in Nat \ {0} /\ TicksPerSecond \in Nat \ {0} /\ Max(Limits) \in Nat
      /\ l \in 1..Max(Limits)
  BY WindowLasts, HighestLimit
<1>2. recent \in [0..(Window - 1) -> 0..Max(Limits)]
  BY DEF RateInv, TypeOK
<1>3. /\ a \in 0..(Window - 1) /\ c \in 0..Max(Limits)
      /\ t \in -1..(Window + TicksPerSecond)
      /\ t >= 0 => Window - a <= t /\ t < Window - a + TicksPerSecond
      /\ Cardinality(Units(recent, C)) <= c
      /\ Cardinality(Units(recent, E)) <= Max(Limits)
  BY WindowFound
<1>4. /\ age' = a
      /\ \/ /\ c >= l /\ count' = c /\ recent' = recent
            /\ told' = IF t = -1 THEN RetryAfterSeconds(a) * TicksPerSecond ELSE t
         \/ /\ ~(c >= l) /\ count' = c + 1 /\ told' = t
            /\ recent' = [recent EXCEPT ![0] = @ + 1]
  BY DEF Allow, Full
<1>5. Current' = C /\ Earlier' = E
  BY <1>4 DEF Current, Earlier, Window
<1> HIDE DEF a, c, t, C, E
<1>6. told' \in -1..(Window + TicksPerSecond) /\ ToldInv'
  <2>1. CASE told' = t
    BY <1>1, <1>3, <1>4, <2>1 DEF ToldInv, Window
  <2>2. CASE told' = RetryAfterSeconds(a) * TicksPerSecond
    <3> DEFINE s == (Window - a + TicksPerSecond - 1) \div TicksPerSecond
    <3>1. Window - a \in Nat \ {0}
      BY <1>1, <1>3
    <3>2. /\ s \in Nat \ {0} /\ Window - a <= s * TicksPerSecond
          /\ s * TicksPerSecond < Window - a + TicksPerSecond
      BY <1>1, <3>1, RoundingUp
    <3>3. told' = s * TicksPerSecond
      BY <2>2, <3>2 DEF RetryAfterSeconds
    <3> HIDE DEF s
    <3>4. s * TicksPerSecond \in Nat
      BY <1>1, <3>2
    <3> QED BY <1>1, <1>3, <1>4, <3>2, <3>3, <3>4 DEF ToldInv, Window
  <2> QED BY <1>4, <2>1, <2>2
<1>7. CASE recent' = recent /\ count' = c
  <2>1. TypeOK'
    BY <1>1, <1>2, <1>3, <1>4, <1>6, <1>7 DEF TypeOK, Window
  <2>2. BurstInv'
    BY <1>1, <1>3, <1>4, <1>5, <1>7 DEF BurstInv, Window
  <2> QED BY <1>6, <2>1, <2>2 DEF RateInv
<1>8. CASE count' = c + 1 /\ c < l /\ recent' = [recent EXCEPT ![0] = @ + 1]
  <2>1. /\ Cardinality(Units(recent, C)) \in Nat
        /\ Cardinality(Units(recent', C)) = Cardinality(Units(recent, C)) + 1
        /\ Cardinality(Units(recent', E)) = Cardinality(Units(recent, E))
        /\ recent'[0] <= Cardinality(Units(recent', C))
    <3>1. C \in SUBSET (0..(Window - 1)) /\ E \in SUBSET (0..(Window - 1))
          /\ 0 \in C /\ 0 \notin E
      BY <1>1, <1>3 DEF C, E
    <3>2. /\ recent'[0] = recent[0] + 1
          /\ \A k \in 1..(Window - 1) : recent'[k] = recent[k]
      BY <1>1, <1>2, <1>8
    <3> QED BY <1>2, <3>1, <3>2, OneMoreRequest
  <2>2. recent'[0] = recent[0] + 1 /\ recent[0] \in 0..Max(Limits)
    BY <1>1, <1>2, <1>8
  <2>3. count' \in 0..Max(Limits) /\ recent'[0] \in 0..Max(Limits)
    BY <1>1, <1>3, <1>8, <2>1, <2>2
  <2>4. recent' \in [0..(Window - 1) -> 0..Max(Limits)]
    BY <1>2, <1>8, <2>3
  <2>5. TypeOK'
    BY <1>1, <1>3, <1>4, <1>6, <2>3, <2>4 DEF TypeOK, Window
  <2>6. BurstInv'
    BY <1>1, <1>3, <1>4, <1>5, <1>8, <2>1 DEF BurstInv, Window
  <2> QED BY <1>6, <2>5, <2>6 DEF RateInv
<1>9. c \in Int /\ l \in Int
  BY <1>1, <1>3
<1> QED BY <1>4, <1>7, <1>8, <1>9

\* A limiter that has seen nothing is in order.
LEMMA NothingAdmitted ==
  ASSUME Init
  PROVE  RateInv
<1>1. Window \in Nat \ {0} /\ TicksPerSecond \in Nat \ {0} /\ Max(Limits) \in Nat
  BY WindowLasts, HighestLimit
<1>2. TypeOK /\ ToldInv /\ recent[0] = 0
  BY <1>1 DEF Init, TypeOK, ToldInv
<1>3. Units(recent, Current) = {} /\ Units(recent, Earlier) = {}
  BY DEF Init, Units, Current, Earlier
<1>4. /\ Cardinality(Units(recent, Current)) = 0
      /\ Cardinality(Units(recent, Earlier)) = 0
  BY <1>3, FS_EmptySet
<1>5. count = 0
  BY DEF Init
<1> QED BY <1>1, <1>2, <1>4, <1>5 DEF RateInv, BurstInv

\* Whatever window the past is cut into, two limits bound what was admitted in it.
LEMMA TwoWindows ==
  ASSUME RateInv
  PROVE  AtMostTwoWindows
<1>1. Window \in Nat \ {0} /\ Max(Limits) \in Nat
  BY WindowLasts, HighestLimit
<1>2. age \in 0..Window /\ recent \in [0..(Window - 1) -> 0..Max(Limits)] /\ count \in 0..Max(Limits)
  BY DEF RateInv, TypeOK
<1> DEFINE W == 0..(Window - 1)
<1>3. IsFiniteSet(W) /\ \A k \in W : recent[k] \in 0..Max(Limits)
  BY <1>2, PlacesOfWindow
<1>4. Current \cup Earlier = W /\ Current \cap Earlier = {}
  BY <1>1, <1>2 DEF Current, Earlier
<1>5. Current \in SUBSET W /\ Earlier \in SUBSET W
  BY <1>4
<1>6. FoldFunction(+, 0, recent) = Cardinality(Units(recent, W))
  BY <1>1, <1>2, <1>3, SumIsCount
<1>7. Cardinality(Units(recent, W))
        = Cardinality(Units(recent, Current)) + Cardinality(Units(recent, Earlier))
  BY <1>1, <1>3, <1>4, UnitsUnion
<1>8. /\ Cardinality(Units(recent, Current)) \in Nat
      /\ Cardinality(Units(recent, Earlier)) \in Nat
  <2>1. IsFiniteSet(Current) /\ IsFiniteSet(Earlier)
    BY <1>3, <1>5, FS_Subset
  <2>2. /\ \A k \in Current : recent[k] \in 0..Max(Limits)
        /\ \A k \in Earlier : recent[k] \in 0..Max(Limits)
    BY <1>3, <1>5
  <2> QED BY <1>1, <2>1, <2>2, UnitsCount
<1>9. /\ Cardinality(Units(recent, Current)) <= count
      /\ Cardinality(Units(recent, Earlier)) <= Max(Limits)
  BY DEF RateInv, BurstInv
<1>10. Cardinality(Units(recent, W)) <= 2 * Max(Limits)
  BY <1>1, <1>2, <1>7, <1>8, <1>9
<1> QED BY <1>6, <1>10 DEF AtMostTwoWindows

-----------------------------------------------------------------------------
(***************************************************************************)
(* FrontDoor.                                                              *)
(***************************************************************************)

\* Where the handler of the request stands against the count.
CallInv ==
  /\ call \in Calls
  /\ call.pc \in {"idle", "decode"} => verdict = "none"
  /\ call.pc \in {"count", "limit"} => verdict # "none" /\ limit = call.row.batch
  /\ call.pc = "limit" => verdict = "counted" /\ AllowsBatch(call.row, counted)

FrontDoorInv == StartupInv /\ CountInv /\ RateInv /\ CallInv

\* Nothing of the count moves.
LEMMA CountStutters ==
  ASSUME CountInv, UNCHANGED countVars
  PROVE  CountInv'
<1>1. /\ body' = body /\ limit' = limit /\ pos' = pos /\ depth' = depth
      /\ counted' = counted /\ allNumbers' = allNumbers /\ verdict' = verdict
  BY DEF countVars
<1>2. CountTypeOK' /\ CountIsExact'
  BY <1>1 DEF CountInv, CountTypeOK, CountIsExact, Permitted, Inputs, Pretokenized,
              AllElements, Elements, Depth, Opens, Closes
<1>3. verdict = "scanning" => (Scanned => Scanned')
  BY <1>1 DEF Scanned, Elements, Depth, Opens, Closes
<1> QED BY <1>1, <1>2, <1>3 DEF CountInv, NothingCounted

\* Nothing of the limiter moves.
LEMMA RateStutters ==
  ASSUME RateInv, UNCHANGED vars
  PROVE  RateInv'
<1>1. age' = age /\ count' = count /\ recent' = recent /\ told' = told
  BY DEF vars
<1>2. Current' = Current /\ Earlier' = Earlier
  BY <1>1 DEF Current, Earlier, Window
<1> QED BY <1>1, <1>2 DEF RateInv, TypeOK, ToldInv, BurstInv, Window

LEMMA FrontDoorInit_Inv ==
  ASSUME FrontDoorInit
  PROVE  FrontDoorInv
<1>1. StartupInv
  BY DEF FrontDoorInit, StartupInit, StartupInv
<1>2. CountInv
  BY NothingIsRight DEF FrontDoorInit
<1>3. RateInv
  BY NothingAdmitted DEF FrontDoorInit
<1>4. CallInv
  BY DEF FrontDoorInit, NothingCounted, CallInv, Calls, NoCall
<1> QED BY <1>1, <1>2, <1>3, <1>4 DEF FrontDoorInv

LEMMA FrontDoorInv_Step ==
  ASSUME FrontDoorInv, [FrontDoorNext]_frontVars
  PROVE  FrontDoorInv'
<1> USE DEF FrontDoorInv
<1>0. ASSUME call.pc \in {"decode", "count", "limit"}
      PROVE  call \in [pc : {"decode", "count", "limit"}, row : KeyRows]
             /\ call.row \in KeyRows /\ call.row.batch \in Nat /\ call.row.rate \in Limits
  <2>1. call \in [pc : {"decode", "count", "limit"}, row : KeyRows]
    BY <1>0 DEF CallInv, Calls, NoCall
  <2> QED BY <2>1, FrontDoorAssumption
<1>1. CASE ComeUp /\ UNCHANGED <<countVars, vars, call>>
  <2>1. StartupInv'
    BY <1>1, StartupInvStep
  <2>2. CountInv' /\ RateInv'
    BY <1>1, CountStutters, RateStutters
  <2>3. CallInv'
    BY <1>1 DEF CallInv, countVars
  <2> QED BY <2>1, <2>2, <2>3
<1>2. CASE StopServing
  <2>1. StartupInv'
    BY <1>2, StartupInvStep DEF StopServing
  <2>2. NothingCounted' /\ call' = NoCall
    BY <1>2 DEF StopServing, NothingCounted
  <2>3. CountInv'
    BY <2>2, NothingIsRight, PTL
  <2>4. RateInv'
    <3>1. Init'
      BY <1>2 DEF StopServing, Init, Window
    <3> QED BY <3>1, NothingAdmitted, PTL
  <2>5. CallInv'
    BY <2>2 DEF CallInv, Calls, NoCall, NothingCounted
  <2> QED BY <2>1, <2>3, <2>4, <2>5
<1>3. CASE \E row \in KeyRows : Arrive(row)
  <2>1. PICK row \in KeyRows : Arrive(row)
    BY <1>3
  <2>2. UNCHANGED <<startupVars, countVars, vars>>
    BY <2>1 DEF Arrive
  <2>3. StartupInv' /\ CountInv' /\ RateInv'
    BY <2>2, StartupInvStep, CountStutters, RateStutters
  <2>4. CallInv'
    BY <2>1 DEF Arrive, CallInv, Calls, NoCall, countVars
  <2> QED BY <2>3, <2>4
<1>4. CASE RefuseBody
  <2>1. StartupInv' /\ CountInv' /\ RateInv'
    BY <1>4, StartupInvStep, CountStutters, RateStutters DEF RefuseBody
  <2>2. CallInv'
    BY <1>4 DEF RefuseBody, CallInv, Calls, NoCall, countVars
  <2> QED BY <2>1, <2>2
<1>5. CASE ReadBody
  <2>1. call.pc = "decode" /\ UNCHANGED <<startupVars, vars>>
        /\ call' = [call EXCEPT !.pc = "count"]
    BY <1>5 DEF ReadBody
  <2>2. StartupInv' /\ RateInv'
    BY <2>1, StartupInvStep, RateStutters
  <2>3. CountInv' /\ limit' = call.row.batch /\ verdict' # "none"
    BY <1>0, <1>5, <2>1, ReadingIsRight DEF ReadBody
  <2>4. CallInv'
    BY <1>0, <2>1, <2>3 DEF CallInv, Calls
  <2> QED BY <2>2, <2>3, <2>4
<1>6. CASE Count
  <2>1. CountStep /\ UNCHANGED <<startupVars, vars, call>> /\ call.pc = "count"
    BY <1>6 DEF Count
  <2>2. StartupInv' /\ CountInv' /\ RateInv'
    BY <2>1, StartupInvStep, CountInvStep, RateStutters
  <2>3. limit' = limit /\ verdict' # "none"
    BY <2>1 DEF CountStep, NextAtom, NextNested, SkipToken, EndArray, Judged
  <2>4. CallInv'
    BY <2>1, <2>3 DEF CallInv
  <2> QED BY <2>2, <2>4
<1>7. CASE Judge
  <2>1. call.pc = "count" /\ UNCHANGED <<startupVars, vars>>
    BY <1>7 DEF Judge
  <2>2. StartupInv' /\ RateInv'
    BY <2>1, StartupInvStep, RateStutters
  <2>3. CASE /\ verdict = "counted" /\ AllowsBatch(call.row, counted)
             /\ call' = [call EXCEPT !.pc = "limit"] /\ UNCHANGED countVars
    <3>1. CountInv'
      BY <2>3, CountStutters
    <3>2. CallInv'
      BY <1>0, <2>1, <2>3 DEF CallInv, Calls, countVars, AllowsBatch
    <3> QED BY <2>2, <3>1, <3>2
  <2>4. CASE call' = NoCall /\ ForgetCount
    <3>1. NothingCounted'
      BY <2>4 DEF ForgetCount, NothingCounted
    <3>2. CountInv'
      BY <3>1, NothingIsRight, PTL
    <3>3. CallInv'
      BY <2>4, <3>1 DEF CallInv, Calls, NoCall, NothingCounted
    <3> QED BY <2>2, <3>2, <3>3
  <2> QED BY <1>7, <2>3, <2>4 DEF Judge
<1>8. CASE AskLimiter
  <2>1. call.pc = "limit" /\ Allow(call.row.rate) /\ call' = NoCall /\ ForgetCount
        /\ UNCHANGED startupVars
    BY <1>8 DEF AskLimiter
  <2>2. StartupInv'
    BY <2>1, StartupInvStep
  <2>3. RateInv'
    BY <1>0, <2>1, AllowKeeps
  <2>4. NothingCounted'
    BY <2>1 DEF ForgetCount, NothingCounted
  <2>5. CountInv'
    BY <2>4, NothingIsRight, PTL
  <2>6. CallInv'
    BY <2>1, <2>4 DEF CallInv, Calls, NoCall, NothingCounted
  <2> QED BY <2>2, <2>3, <2>5, <2>6
<1>9. CASE Tick /\ UNCHANGED <<startupVars, countVars, call>>
  <2>1. StartupInv' /\ CountInv' /\ RateInv'
    BY <1>9, StartupInvStep, CountStutters, TickKeeps
  <2>2. CallInv'
    BY <1>9 DEF CallInv, countVars
  <2> QED BY <2>1, <2>2
<1>10. CASE UNCHANGED frontVars
  <2>1. StartupInv' /\ CountInv' /\ RateInv'
    BY <1>10, StartupInvStep, CountStutters, RateStutters DEF frontVars
  <2>2. CallInv'
    BY <1>10 DEF frontVars, CallInv, countVars
  <2> QED BY <2>1, <2>2
<1> QED BY <1>1, <1>2, <1>3, <1>4, <1>5, <1>6, <1>7, <1>8, <1>9, <1>10 DEF FrontDoorNext

-----------------------------------------------------------------------------
(***************************************************************************)
(* The theorems.                                                           *)
(***************************************************************************)

\* The invariant holds.
THEOREM FrontDoorInvariant == FrontDoorSpec => []FrontDoorInv
<1>1. FrontDoorInit => FrontDoorInv
  BY FrontDoorInit_Inv
<1>2. FrontDoorInv /\ [FrontDoorNext]_frontVars => FrontDoorInv'
  BY FrontDoorInv_Step
<1> QED BY <1>1, <1>2, PTL DEF FrontDoorSpec

\* Whatever the environment, a process that has loaded its configuration issues
\* keys the domain accepts and never panics over its queue: config.go's bounds are
\* at least as strict as the ones they mirror.
THEOREM StartupIsSound == FrontDoorSpec => []ServesSound
<1>1. FrontDoorInv => ServesSound
  BY ValidIsSound DEF FrontDoorInv
<1> QED BY <1>1, FrontDoorInvariant, PTL

\* The dashboard of a serving process opens only to the credential of its
\* environment, both halves of it.
THEOREM DashboardIsGuarded == FrontDoorSpec => []DashboardGuarded
<1>1. FrontDoorInv => DashboardGuarded
  BY OnlyTheCredential DEF FrontDoorInv
<1> QED BY <1>1, FrontDoorInvariant, PTL

\* countInputs answers as the definition of an input does, for arrays of any length
\* and nesting, any limit and any cap.
THEOREM CountingIsExact == FrontDoorSpec => []CountIsExact
<1>1. FrontDoorInv => CountIsExact
  BY DEF FrontDoorInv, CountInv
<1> QED BY <1>1, FrontDoorInvariant, PTL

\* A client that waits as it was told finds the window over, and waits less than a
\* second longer than it had to, for any window and however the limit is changed.
THEOREM RetryAfterHolds == FrontDoorSpec => []RetryAfterIsExact
<1>1. FrontDoorInv => RetryAfterIsExact
  BY WindowLasts DEF FrontDoorInv, RateInv, TypeOK, ToldInv, RetryAfterIsExact
<1> QED BY <1>1, FrontDoorInvariant, PTL

\* Within any one window's length at most two windows' worth of requests is admitted,
\* for any window, any limits and however they change.
THEOREM BurstsAreBounded == FrontDoorSpec => []AtMostTwoWindows
<1>1. FrontDoorInv => AtMostTwoWindows
  BY TwoWindows DEF FrontDoorInv
<1> QED BY <1>1, FrontDoorInvariant, PTL

\* Every variable has its type: a window never holds more requests than the highest
\* limit the key has carried, and the walk never counts past its cap.
THEOREM FrontDoorTypeCorrect == FrontDoorSpec => []FrontDoorTypeOK
<1>1. FrontDoorInv => FrontDoorTypeOK
  BY DEF FrontDoorInv, RateInv, CountInv, CallInv, FrontDoorTypeOK
<1> QED BY <1>1, FrontDoorInvariant, PTL

\* Only a batch its own row permits is held against a key's rate.
THEOREM BatchesAreMetered == FrontDoorSpec => OnlyBatchesAreMetered
<1> DEFINE Metered == /\ limit = call.row.batch
                      /\ body # << >> => Permitted
                      /\ body = << >> => counted = 1
           Charged == recent'[0] > recent[0] \/ told' > told
<1>1. ASSUME FrontDoorInv, [FrontDoorNext]_frontVars
      PROVE  [Charged => Metered]_frontVars
  <2>1. recent[0] \in Nat /\ 0 \in 0..(Window - 1) /\ told \in Int /\ told >= -1
    BY <1>1, WindowLasts, HighestLimit DEF FrontDoorInv, RateInv, TypeOK
  <2>2. CASE AskLimiter
    <3>1. /\ limit = call.row.batch /\ verdict = "counted" /\ counted \in Int
          /\ AllowsBatch(call.row, counted)
      BY <1>1, <2>2 DEF AskLimiter, FrontDoorInv, CallInv, CountInv, CountTypeOK
    <3>2. counted \in 1..limit /\ limit \in Nat
      BY <1>1, <3>1 DEF AllowsBatch, FrontDoorInv, CountInv, CountTypeOK
    <3>3. body # << >> => Permitted
      BY <1>1, <3>1, <3>2 DEF FrontDoorInv, CountInv, CountIsExact
    <3>4. body = << >> => counted = 1
      BY <1>1, <3>1, <3>2 DEF FrontDoorInv, CountInv
    <3> QED BY <3>1, <3>3, <3>4
  <2>3. CASE StopServing
    <3>1. recent'[0] = 0 /\ told' = -1
      BY <2>1, <2>3 DEF StopServing
    <3> QED BY <2>1, <3>1
  <2>4. CASE Tick
    <3>1. recent'[0] = 0 /\ told' \in Int /\ told' <= told
      BY <2>1, <2>4 DEF Tick
    <3> QED BY <2>1, <3>1
  <2>5. CASE UNCHANGED vars
    BY <2>1, <2>5 DEF vars
  <2>6. AskLimiter \/ StopServing \/ Tick \/ UNCHANGED vars
    BY <1>1 DEF FrontDoorNext, Arrive, RefuseBody, ReadBody, Count, Judge, frontVars
  <2> QED BY <2>2, <2>3, <2>4, <2>5, <2>6
<1> QED BY <1>1, FrontDoorInvariant, PTL DEF FrontDoorSpec, OnlyBatchesAreMetered
=============================================================================
