------------------------------ MODULE Startup ------------------------------
(***************************************************************************)
(* One gateway process, from config.Load to the listening server, and who  *)
(* gets through which of its doors.                                        *)
(*                                                                         *)
(* A setting is what its variable parses to.  LISTEN_ADDR, DB_PATH, the    *)
(* model and the contact details are never judged and are left out;        *)
(* opening the database, migrating it and listening fail or do not.        *)
(***************************************************************************)
EXTENDS KeyLimits

CONSTANTS
  Environments,  \* [real, file]: the process environment and the .env file
  Unset, Empty, Garbage,  \* no variable; an empty one; not a number
  Blanks,        \* user names that are white space
  AbsoluteURLs   \* where url.Parse finds a scheme and a host

DefaultSetting ==
  [batch |-> 25, rate |-> 100, budget |-> -1, period |-> "lifetime", priority |-> 0,
   price |-> 50, vat |-> 21, slots |-> 10, promote |-> 5, user |-> "admin",
   password |-> Empty, upstream |-> "http://localhost:11435"]

Settings == DOMAIN DefaultSetting
TextSettings == {"period", "user", "password", "upstream"}

\* The .env file when there is none, and when it cannot be read.
NoFile == [s \in Settings |-> Unset]
BadFile == [s \in {} |-> Unset]

ASSUME StartupAssumption ==
  \A e \in Environments : \A s \in Settings \ TextSettings :
    /\ e.real[s] \in Int \cup {Unset, Empty, Garbage}
    /\ e.file # BadFile => e.file[s] \in Int \cup {Unset, Empty, Garbage}

-----------------------------------------------------------------------------
(***************************************************************************)
(* config.Load.                                                            *)
(***************************************************************************)

\* A variable after godotenv.Load: one that is set, even to nothing, hides its
\* line in .env.
Seen(e, s) == IF e.real[s] = Unset THEN e.file[s] ELSE e.real[s]

\* os.Getenv.
Getenv(e, s) == IF Seen(e, s) = Unset THEN Empty ELSE Seen(e, s)

\* envStr, envInt, envInt64 and envDuration; the password is taken as it is.
Ignored(s) == IF s \in TextSettings THEN {Empty} ELSE {Empty, Garbage}
Resolved(e, s) ==
  IF s # "password" /\ Getenv(e, s) \in Ignored(s) THEN DefaultSetting[s]
  ELSE Getenv(e, s)

Configured(e) == [s \in Settings |-> Resolved(e, s)]

\* Dashboard.Enabled.
Enabled(c) == c["password"] # Empty

\* Config.validate.  (Variant: ranks up to 10.)
ValidRank10(c) ==
  /\ c["batch"] >= 1 /\ c["rate"] >= 1
  /\ c["budget"] >= -1 /\ c["budget"] # 0
  /\ c["period"] \in {"monthly", "lifetime"}
  /\ c["priority"] \in 0..10
  /\ c["price"] >= 1 /\ c["vat"] \in 0..100
  /\ c["slots"] >= 1 /\ c["promote"] > 0
  /\ Enabled(c) => c["user"] \notin Blanks
  /\ c["upstream"] \in AbsoluteURLs
ValidConfig(c) ==
  /\ c["batch"] >= 1 /\ c["rate"] >= 1
  /\ c["budget"] >= -1 /\ c["budget"] # 0
  /\ c["period"] \in {"monthly", "lifetime"}
  /\ c["priority"] \in 0..9
  /\ c["price"] >= 1 /\ c["vat"] \in 0..100
  /\ c["slots"] >= 1 /\ c["promote"] > 0
  /\ Enabled(c) => c["user"] \notin Blanks
  /\ c["upstream"] \in AbsoluteURLs

-----------------------------------------------------------------------------
(***************************************************************************)
(* run.                                                                    *)
(***************************************************************************)
VARIABLES
  phase,  \* how far the process has come
  env,    \* the environment it was started in, NoEnv before
  cfg     \* the configuration it resolved, NoConfig before

startupVars == <<phase, env, cfg>>

NoConfig == [s \in {} |-> Unset]
NoEnv == [real |-> NoFile, file |-> BadFile]

StartupInit == phase = "stopped" /\ env = NoEnv /\ cfg = NoConfig

\* The process starts in whatever environment there is by now.  A .env file that is
\* there must be readable.
LoadConfig(e) ==
  /\ phase = "stopped"
  /\ IF e.file = BadFile \/ ~ValidConfig(Configured(e))
     THEN phase' = "failed" /\ UNCHANGED <<env, cfg>>
     ELSE phase' = "loaded" /\ env' = e /\ cfg' = Configured(e)

\* database.Open and Migrate.
OpenStore ==
  /\ phase = "loaded"
  /\ phase' \in {"stored", "failed"}
  /\ UNCHANGED <<env, cfg>>

\* NewWithClock panics on a queue that could not work.
NewQueuePanics == cfg["slots"] < 1 \/ cfg["promote"] <= 0

\* Everything is constructed and handed to the router.
Wire ==
  /\ phase = "stored"
  /\ phase' = IF NewQueuePanics THEN "panicked" ELSE "wired"
  /\ UNCHANGED <<env, cfg>>

\* ListenAndServe: the address may be taken.
Listen ==
  /\ phase = "wired"
  /\ phase' \in {"serving", "failed"}
  /\ UNCHANGED <<env, cfg>>

\* The process is gone, after a signal or an error; it is restarted always.
Stop ==
  /\ phase \in {"serving", "failed", "panicked"}
  /\ phase' = "stopped" /\ env' = NoEnv /\ cfg' = NoConfig

ComeUp == OpenStore \/ Wire \/ Listen \/ \E e \in Environments : LoadConfig(e)

-----------------------------------------------------------------------------
(***************************************************************************)
(* The router.  An Authorization header is a scheme and, for Basic, a user;*)
(* PublicPaths, /healthz, the API and the dashboard are its doors.         *)
(***************************************************************************)
Headers(users, secrets) == [scheme : {"none", "basic", "bearer"}, user : users, secret : secrets]

\* BasicAuth lets a request through only with both halves right.
BasicAuthPasses(h) ==
  h.scheme = "basic" /\ h.user = cfg["user"] /\ h.secret = cfg["password"]

\* bearerToken finds something to look up.
BearerGiven(h) == h.scheme = "bearer" /\ h.secret \notin Blanks \cup {Empty}

\* What a request gets; "handler" is where the API's handler takes over.
\* The dashboard is mounted together with its authentication or not at all.
\* (Variant: it is mounted in any case.)
ReplyMountsAlways(door, h) ==
  CASE door \in {"public", "health"} -> "ok"
    [] door = "api"       -> IF BearerGiven(h) THEN "handler" ELSE "unauthorized"
    [] door = "dashboard" -> IF ~Enabled(cfg) \/ BasicAuthPasses(h) THEN "ok"
                             ELSE "unauthorized"
    [] OTHER              -> "not found"
Reply(door, h) ==
  CASE door \in {"public", "health"} -> "ok"
    [] door = "api"       -> IF BearerGiven(h) THEN "handler" ELSE "unauthorized"
    [] door = "dashboard" -> IF ~Enabled(cfg) THEN "not found"
                             ELSE IF BasicAuthPasses(h) THEN "ok" ELSE "unauthorized"
    [] OTHER              -> "not found"

-----------------------------------------------------------------------------
\* "maxPriority mirrors apikey.MaxPriority", "both are validated by config at
\* startup": the bounds that config.go restates agree with the ones of the domain
\* and of the queue.  A process that has loaded its configuration, in whatever
\* environment, issues keys with limits that Limits.Validate accepts and never
\* panics over its queue.
ServesSound ==
  /\ phase # "panicked"
  /\ cfg # NoConfig => /\ Validate([f \in Fields |-> cfg[f]])
                       /\ cfg["slots"] >= 1 /\ cfg["promote"] > 0

\* "an operator UI must never be reachable because someone forgot to set a
\* password", "half a credential is a misconfiguration": what opens the dashboard
\* of a serving process is the whole credential, the password its environment
\* holds with a user that is not blank, and it opens nothing else.
DashboardGuarded ==
  phase = "serving" =>
    \A h \in Headers({cfg["user"], "other"} \cup Blanks, {cfg["password"], Empty, "wrong"}) :
      Reply("dashboard", h) = "ok" =>
        /\ Seen(env, "password") \notin {Unset, Empty} /\ h.secret = Seen(env, "password")
        /\ h.user \notin Blanks /\ h.user = cfg["user"]
        /\ Reply("api", h) = "unauthorized"
=============================================================================
