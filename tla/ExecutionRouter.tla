-------------------------- MODULE ExecutionRouter --------------------------
(***************************************************************************)
(* How a strategy's signal becomes orders: services/execution_layer.py     *)
(* (ExecutionRouter and its executors) and the engine's side of it,        *)
(* engine/engine_v6.py, _route_via_execution_layer and _place_trade, for   *)
(* one user with several symbol engines.                                   *)
(*                                                                         *)
(* The user's execution mode exists three times: in the database, in the   *)
(* router's cache (TTL seconds, one per worker process, kept when a bot    *)
(* restarts) and in the configuration the engine was started with.  The    *)
(* router picks the executor by the second, the engine reads the answer by *)
(* the third.                                                              *)
(***************************************************************************)
EXTENDS Integers

CONSTANTS
  Signals,   \* trade signals, each on its engine's own thread
  TTL,       \* seconds a cached mode is used
  MaxClock,  \* bound: seconds
  MaxSaves   \* bound: times the user saves a mode

Modes == {"PAPER", "SEMI_AUTO", "AUTO"}

ASSUME RouterAssumption == TTL \in Nat \ {0} /\ MaxClock \in Nat /\ MaxSaves \in Nat

VARIABLES
  saved,     \* BotConfig.execution_mode
  engine,    \* the running engine's cfg["execution_mode"]
  cache,     \* _mode_cache: the mode and when its lookup began
  consent,   \* the user's latest DailyAutoConsent row
  reply,     \* what the worker answered to the last start
  signal,    \* per signal: where it is, who raised it and what became of it
  clock,     \* time.time()
  saves,     \* modes saved so far (bounded)
  held       \* history: when each mode was last the saved one

settings == <<saved, saves, held>>
starts   == <<engine, consent, reply>>
vars     == <<settings, starts, cache, signal, clock>>

Empty == [mode |-> "none", at |-> 0]
Long  == -TTL - 1        \* longer ago than any lookup looks back

\* paper: BUYs in the paper book.
NewSignal ==
  [stage |-> "new", by |-> "stopped", at |-> 0, mode |-> "none", status |-> "none",
   paper |-> 0, pending |-> FALSE, steady |-> FALSE]

Init ==
  /\ saved \in Modes
  /\ engine = "stopped" /\ consent = "none" /\ reply = "none"
  /\ cache = Empty
  /\ signal = [s \in Signals |-> NewSignal]
  /\ clock = 0 /\ saves = 0
  /\ held = [m \in Modes |-> IF m = saved THEN 0 ELSE Long]

-----------------------------------------------------------------------------
(* The user, the clock and the worker. *)

\* POST /execution-mode or PATCH /config; neither tells the worker.
SaveMode(m) ==
  /\ saves < MaxSaves /\ saves' = saves + 1
  /\ saved' = m
  /\ held' = [held EXCEPT ![m] = clock]
  /\ UNCHANGED <<starts, cache, signal, clock>>

Tick ==
  /\ clock < MaxClock /\ clock' = clock + 1
  /\ held' = [held EXCEPT ![saved] = clock']
  /\ UNCHANGED <<saved, saves, starts, cache, signal>>

GiveConsent ==
  /\ consent' = "valid"
  /\ UNCHANGED <<settings, engine, reply, cache, signal, clock>>

\* valid_until has passed.
ConsentEnds ==
  /\ consent = "valid" /\ consent' = "ended"
  /\ UNCHANGED <<settings, engine, reply, cache, signal, clock>>

(***************************************************************************)
(* resolve_start_inputs.  In AUTO mode a user without a consent row is     *)
(* refused.  With one, whether still valid or not, the comparison of its   *)
(* valid_until names datetime, which the module never imports: NameError,  *)
(* and the worker answers "start failed".  So no engine is started in AUTO *)
(* mode, and the AUTO branch of _route_via_execution_layer never runs.     *)
(***************************************************************************)
Start ==
  /\ engine = "stopped" /\ saved # "AUTO"
  /\ engine' = saved /\ reply' = "started"
  /\ UNCHANGED <<settings, consent, cache, signal, clock>>

StartRefused ==
  /\ engine = "stopped" /\ saved = "AUTO" /\ consent = "none"
  /\ reply' = "refused"
  /\ UNCHANGED <<settings, engine, consent, cache, signal, clock>>

StartRaises ==
  /\ engine = "stopped" /\ saved = "AUTO" /\ consent # "none"
  /\ reply' = "failed"
  /\ UNCHANGED <<settings, engine, consent, cache, signal, clock>>

Stop ==
  /\ engine # "stopped"
  /\ engine' = "stopped"
  /\ UNCHANGED <<settings, consent, reply, cache, signal, clock>>

\* A worker restart: nothing of what is in memory survives.
WorkerRestart ==
  /\ engine' = "stopped" /\ cache' = Empty
  /\ signal' = [s \in Signals |->
       IF signal[s].stage \in {"new", "done"} THEN signal[s]
       ELSE [signal[s] EXCEPT !.stage = "lost"]]
  /\ UNCHANGED <<settings, consent, reply, clock>>

-----------------------------------------------------------------------------
(* get_execution_mode: the cache, else the database.                       *)

At(s, stage) == signal[s].stage = stage

\* For mutation: an entry is used up to and including its TTL.
FreshTooLong == cache.mode # "none" /\ clock - cache.at <= TTL
Fresh        == cache.mode # "none" /\ clock - cache.at < TTL

Ask(s) ==
  /\ At(s, "new")
  /\ engine # "stopped"
  /\ signal' = [signal EXCEPT ![s] =
       [@ EXCEPT !.by = engine, !.at = clock,
                 !.stage = IF Fresh THEN "routed" ELSE "reading",
                 !.mode = IF Fresh THEN cache.mode ELSE "none",
                 !.steady = /\ engine = saved
                            /\ \A m \in Modes \ {saved} : clock - held[m] >= TTL]]
  /\ UNCHANGED <<settings, starts, cache, clock>>

ReadMode(s) ==
  /\ At(s, "reading")
  /\ signal' = [signal EXCEPT ![s] =
       [@ EXCEPT !.stage = "read", !.mode = saved,
                 !.steady = signal[s].steady /\ saved = signal[s].by]]
  /\ UNCHANGED <<settings, starts, cache, clock>>

\* For mutation: the entry's age is counted from when it is stored.
StoreModeNow(s) ==
  /\ At(s, "read")
  /\ cache' = [mode |-> signal[s].mode, at |-> clock]
  /\ signal' = [signal EXCEPT ![s].stage = "routed"]
  /\ UNCHANGED <<settings, starts, clock>>

\* For mutation: what is stored is when the entry expires.
StoreExpiry(s) ==
  /\ At(s, "read")
  /\ cache' = [mode |-> signal[s].mode, at |-> signal[s].at + TTL]
  /\ signal' = [signal EXCEPT ![s].stage = "routed"]
  /\ UNCHANGED <<settings, starts, clock>>

StoreMode(s) ==
  /\ At(s, "read")
  /\ cache' = [mode |-> signal[s].mode, at |-> signal[s].at]
  /\ signal' = [signal EXCEPT ![s].stage = "routed"]
  /\ UNCHANGED <<settings, starts, clock>>

\* The database or the thread's new event loop raises.
LookupFails(s) ==
  /\ At(s, "reading")
  /\ signal' = [signal EXCEPT ![s] = [@ EXCEPT !.stage = "answered", !.status = "raised"]]
  /\ UNCHANGED <<settings, starts, cache, clock>>

-----------------------------------------------------------------------------
(* The executors' execute. *)

Answer(s, status) ==
  signal' = [signal EXCEPT ![s] = [@ EXCEPT !.stage = "answered", !.status = status,
                                            !.paper = IF status = "EXECUTED" THEN 1 ELSE 0,
                                            !.pending = status = "PENDING_APPROVAL"]]

\* FAILED: the paper book or the answer's formatting raised; no BUY is counted.
PaperExecute(s) ==
  signal[s].mode = "PAPER" /\ (Answer(s, "EXECUTED") \/ Answer(s, "FAILED"))

SemiAutoExecute(s) ==
  signal[s].mode = "SEMI_AUTO" /\ (Answer(s, "PENDING_APPROVAL") \/ Answer(s, "FAILED"))

\* Only an AUTO engine would pass place_order_fn: without it, FAILED.
AutoExecute(s) == signal[s].mode = "AUTO" /\ Answer(s, "FAILED")

Execute(s) ==
  /\ At(s, "routed")
  /\ PaperExecute(s) \/ SemiAutoExecute(s) \/ AutoExecute(s)
  /\ UNCHANGED <<settings, starts, cache, clock>>

-----------------------------------------------------------------------------
(* Back in the engine: what its own mode makes of the status.              *)

\* A PAPER engine goes on whatever it is told, also after an exception; a
\* SEMI_AUTO engine never does.
GoesOn(s) == signal[s].by = "PAPER"

\* _place_trade's own BUY, in the paper book.
Buy(s) ==
  /\ At(s, "answered") /\ GoesOn(s)
  /\ signal' = [signal EXCEPT ![s] = [@ EXCEPT !.stage = "done",
                                            !.paper = signal[s].paper + 1]]
  /\ UNCHANGED <<settings, starts, cache, clock>>

\* Pending or failed: no order of the engine's own.
Leave(s) ==
  /\ At(s, "answered") /\ ~GoesOn(s)
  /\ signal' = [signal EXCEPT ![s].stage = "done"]
  /\ UNCHANGED <<settings, starts, cache, clock>>

-----------------------------------------------------------------------------
Next ==
  \/ \E m \in Modes : SaveMode(m)
  \/ Tick
  \/ GiveConsent \/ ConsentEnds
  \/ Start \/ StartRefused \/ StartRaises
  \/ Stop \/ WorkerRestart
  \/ \E s \in Signals :
       \/ Ask(s) \/ ReadMode(s) \/ StoreMode(s) \/ LookupFails(s)
       \/ Execute(s) \/ Buy(s) \/ Leave(s)

Spec == Init /\ [][Next]_vars

-----------------------------------------------------------------------------
Stages   == {"new", "reading", "read", "routed", "answered", "done", "lost"}
Answers  == {"none", "raised", "EXECUTED", "PENDING_APPROVAL", "FAILED"}
Engines  == {"stopped", "PAPER", "SEMI_AUTO"}
Routings == [stage : Stages, by : Engines, at : 0..MaxClock, mode : Modes \cup {"none"},
             status : Answers, paper : 0..2, pending : BOOLEAN, steady : BOOLEAN]

TypeOK ==
  /\ saved \in Modes /\ engine \in Engines
  /\ consent \in {"none", "valid", "ended"}
  /\ reply \in {"none", "started", "refused", "failed"}
  /\ cache \in [mode : Modes \cup {"none"}, at : 0..MaxClock]
  /\ signal \in [Signals -> Routings]
  /\ clock \in 0..MaxClock /\ saves \in 0..MaxSaves
  /\ held \in [Modes -> {Long} \cup 0..MaxClock]

(***************************************************************************)
(* A cached mode may be stale, but by less than TTL: the mode a signal is  *)
(* routed by was the saved one at some moment of the TTL seconds before    *)
(* its lookup, or later, however long the database took to answer and      *)
(* whoever stored the entry.                                               *)
(***************************************************************************)
Routed(s) == signal[s].stage \in {"routed", "answered"} /\ signal[s].mode # "none"

ModeRecent == \A s \in Signals : Routed(s) => signal[s].at - held[signal[s].mode] < TTL

(***************************************************************************)
(* When the saved mode has been the engine's own for TTL seconds, the      *)
(* three copies agree and the signal is handled as that mode says: BUYs    *)
(* in the paper book only for PAPER, and a pending trade only for          *)
(* SEMI_AUTO.                                                              *)
(***************************************************************************)
SteadyModeObeyed ==
  \A s \in Signals : signal[s].steady =>
    /\ signal[s].paper > 0 => signal[s].by = "PAPER"
    /\ signal[s].pending   => signal[s].by = "SEMI_AUTO"

(***************************************************************************)
(* Refuted: "Please accept the daily consent in Settings before starting"  *)
(* (bot_config_builder.py): that a valid consent lets an AUTO start go on. *)
(***************************************************************************)
ConsentLetsStart == [][consent = "valid" => ~StartRaises]_vars
=============================================================================
