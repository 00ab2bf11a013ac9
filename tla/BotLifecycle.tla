---------------------------- MODULE BotLifecycle ----------------------------
(***************************************************************************)
(* One bot per user, and what the rest of the system is told about it      *)
(* (backend/services/bot_manager.py in legacy mode, state_store.py, the    *)
(* start and stop handlers, the heartbeat and the shutdown of worker.py,   *)
(* TradingEngine.run_sync, the start and stop endpoints).                  *)
(*                                                                         *)
(* A bot is a thread.  Its life is known in four places that are written   *)
(* by different threads at different moments: BotManager._bots, the engine *)
(* registry the commands look engines up in, the status key in Redis, which *)
(* expires, and the status column of bot_configs.                          *)
(***************************************************************************)
EXTENDS Integers, FiniteSets

CONSTANTS
  BotUsers,
  BotSymbols,      \* the symbols a bot trades; each has an engine
  StatusTTL,       \* life of a status key, in heartbeats
  MaxBots,         \* bound: bot threads ever created
  MaxCrashes       \* bound: crashes and shutdowns of the worker process

ASSUME BotAssumption ==
  /\ BotSymbols # {} /\ IsFiniteSet(BotSymbols)
  /\ StatusTTL \in Nat \ {0} /\ MaxBots \in Nat /\ MaxCrashes \in Nat

NoBot  == 0
BotIds == 1..MaxBots

VARIABLES
  bots,        \* BotManager._bots: each user's newest thread
  thread,      \* the threads: whose, where they are, whether their stop event is set
  registry,    \* telegram_bot._engine_registry: the thread whose engines a user's commands reach
  botStatus,   \* bot:status:<user> in Redis, with its age in heartbeats
  botDb,       \* BotConfig.status
  handler,     \* the command the consumer thread is in the middle of
  replied,     \* what the web process writes to the database once the worker has replied
  report,      \* _on_status_change coroutines of crashed threads
  beat,        \* users the heartbeat has found running and not yet refreshed
  beatDue,     \* the heartbeat of this period is still to come
  worker,      \* the worker process: up, draining, closing or down
  outages      \* counter of the bound

botVars == <<bots, thread, registry, botStatus, botDb, handler, replied, report,
             beat, beatDue, worker, outages>>

NoThread == [user |-> "nobody", pc |-> "none", stop |-> FALSE, symbols |-> {}, lost |-> {}]
Absent   == [is |-> "absent", age |-> 0]
Fresh(s) == [is |-> s, age |-> 0]       \* set_bot_status_sync
Resting  == [kind |-> "none", user |-> "nobody"]

BotInit ==
  /\ bots = [u \in BotUsers |-> NoBot]
  /\ thread = [t \in BotIds |-> NoThread]
  /\ registry = [u \in BotUsers |-> NoBot]
  /\ botStatus = [u \in BotUsers |-> Absent]
  /\ botDb = [u \in BotUsers |-> "stopped"]
  /\ handler = Resting
  /\ replied = [u \in BotUsers |-> "none"]
  /\ report = [u \in BotUsers |-> "none"]
  /\ beat = {} /\ beatDue = TRUE
  /\ worker = "up" /\ outages = 0

Alive(t)   == t # NoBot /\ thread[t].pc \notin {"none", "dead"}
Running(u) == Alive(bots[u])                       \* BotManager.is_running
Created    == {t \in BotIds : thread[t].pc # "none"}

-----------------------------------------------------------------------------
(* The command handlers run on the consumer thread, one at a time; each    *)
(* writes the status after it has dealt with the thread.                   *)

HandleStart(u) ==
  /\ worker # "down" /\ handler = Resting /\ replied[u] = "none"
  /\ ~Running(u)                                   \* else "Bot already running"
  /\ \E t \in BotIds, configured \in SUBSET BotSymbols \ {{}} :
       /\ t = Cardinality(Created) + 1
       /\ bots' = [bots EXCEPT ![u] = t]
       /\ thread' = [thread EXCEPT ![t] =
            [user |-> u, pc |-> "booting", stop |-> FALSE, symbols |-> configured, lost |-> {}]]
  /\ handler' = [kind |-> "running", user |-> u]
  /\ replied' = [replied EXCEPT ![u] = "running"]
  /\ UNCHANGED <<registry, botStatus, botDb, report, beat, beatDue, worker, outages>>

HandleStop(u) ==
  /\ worker # "down" /\ handler = Resting /\ replied[u] = "none"
  /\ thread' = IF Running(u) THEN [thread EXCEPT ![bots[u]].stop = TRUE] ELSE thread
  /\ handler' = [kind |-> "stopped", user |-> u]
  /\ replied' = [replied EXCEPT ![u] = "stopped"]
  /\ UNCHANGED <<bots, registry, botStatus, botDb, report, beat, beatDue, worker, outages>>

HandlerWritesStatus ==
  /\ handler # Resting
  /\ botStatus' = [botStatus EXCEPT ![handler.user] = Fresh(handler.kind)]
  /\ handler' = Resting
  /\ UNCHANGED <<bots, thread, registry, botDb, replied, report, beat, beatDue, worker, outages>>

\* start_bot and stop_bot once send_command has returned, with the reply or after its timeout.
WebCommits(u) ==
  /\ replied[u] # "none"
  /\ botDb' = [botDb EXCEPT ![u] = replied[u]]
  /\ replied' = [replied EXCEPT ![u] = "none"]
  /\ UNCHANGED <<bots, thread, registry, botStatus, handler, report, beat, beatDue, worker, outages>>

-----------------------------------------------------------------------------
(* The life of a thread. *)

Goes(t, from, to) ==
  /\ thread[t].pc = from
  /\ thread' = [thread EXCEPT ![t].pc = to]

ThreadOnly == UNCHANGED <<bots, botStatus, botDb, handler, replied, beat, beatDue, worker, outages>>

Boot(t) ==
  /\ thread[t].pc = "booting"
  /\ thread' = [thread EXCEPT ![t].pc = "serving"]
  /\ registry' = [registry EXCEPT ![thread[t].user] = t]           \* register_engines
  /\ ThreadOnly /\ UNCHANGED report

\* TradingEngine() or _make_engine raises: nothing was registered yet.
BootFails(t) == Goes(t, "booting", "reporting") /\ ThreadOnly /\ UNCHANGED <<registry, report>>

\* With several symbols each engine has a thread of its own, and run_sync does not look at it.
SymbolDies(t, s) ==
  /\ thread[t].pc = "serving" /\ s \in thread[t].symbols \ thread[t].lost
  /\ Cardinality(thread[t].symbols) > 1
  /\ thread' = [thread EXCEPT ![t].lost = @ \cup {s}]
  /\ ThreadOnly /\ UNCHANGED <<registry, report>>

\* With one symbol the engine runs on the bot's thread, and its exception ends run_sync.
EngineFails(t) ==
  /\ Cardinality(thread[t].symbols) = 1
  /\ Goes(t, "serving", "failing")
  /\ ThreadOnly /\ UNCHANGED <<registry, report>>

SeesStop(t) ==
  /\ thread[t].stop
  /\ Goes(t, "serving", "leaving")
  /\ ThreadOnly /\ UNCHANGED <<registry, report>>

\* The finally of run_sync: by user, whoever registered the engines.
Unregister(t) ==
  /\ thread[t].pc \in {"leaving", "failing"}
  /\ registry' = [registry EXCEPT ![thread[t].user] = NoBot]
  /\ thread' = [thread EXCEPT ![t].pc = IF @ = "failing" THEN "reporting" ELSE "ending"]
  /\ ThreadOnly /\ UNCHANGED report

PostError(t) ==
  /\ Goes(t, "reporting", "ending")
  /\ report' = [report EXCEPT ![thread[t].user] = "posted"]
  /\ ThreadOnly /\ UNCHANGED registry

Dead(t) == [NoThread EXCEPT !.user = thread[t].user, !.pc = "dead"]

Dies(t) ==
  /\ thread[t].pc = "ending"
  /\ thread' = [thread EXCEPT ![t] = Dead(t)]
  /\ ThreadOnly /\ UNCHANGED <<registry, report>>

-----------------------------------------------------------------------------
(* The worker's event loop: _on_status_change and the heartbeat. *)

\* stop_all joins the threads on the event loop, which does nothing else meanwhile;
\* neither does it while the heartbeat goes through the users.
LoopRuns == worker \in {"up", "closing"} /\ beat = {}

ReportCommits(u) ==
  /\ LoopRuns /\ report[u] = "posted"
  /\ botDb' = [botDb EXCEPT ![u] = "error"]
  /\ report' = [report EXCEPT ![u] = "committed"]
  /\ UNCHANGED <<bots, thread, registry, botStatus, handler, replied, beat, beatDue, worker, outages>>

ReportWritesStatus(u) ==
  /\ LoopRuns /\ report[u] = "committed"
  /\ botStatus' = [botStatus EXCEPT ![u] = Fresh("error")]
  /\ report' = [report EXCEPT ![u] = "none"]
  /\ UNCHANGED <<bots, thread, registry, botDb, handler, replied, beat, beatDue, worker, outages>>

\* For mutation: every bot that was started is reported running.
HeartbeatReadsAll ==
  /\ worker = "up" /\ beatDue
  /\ beat' = {u \in BotUsers : bots[u] # NoBot}
  /\ beatDue' = FALSE
  /\ UNCHANGED <<bots, thread, registry, botStatus, botDb, handler, replied, report, worker, outages>>

\* status_all, which says "running" of a thread that is alive.
HeartbeatReads ==
  /\ worker = "up" /\ beatDue
  /\ beat' = {u \in BotUsers : bots[u] # NoBot /\ Running(u)}
  /\ beatDue' = FALSE
  /\ UNCHANGED <<bots, thread, registry, botStatus, botDb, handler, replied, report, worker, outages>>

HeartbeatWrites(u) ==
  /\ u \in beat
  /\ botStatus' = [botStatus EXCEPT ![u] = Fresh("running")]
  /\ beat' = beat \ {u}
  /\ UNCHANGED <<bots, thread, registry, botDb, handler, replied, report, beatDue, worker, outages>>

Aged(k) == IF k = Absent \/ k.age + 1 = StatusTTL THEN Absent ELSE [k EXCEPT !.age = @ + 1]

\* HEARTBEAT_SEC pass; the loop is at its sleep, or the process is not there.
Period ==
  /\ worker \in {"up", "down"} /\ beat = {} /\ (worker = "up" => ~beatDue)
  /\ botStatus' = [u \in BotUsers |-> Aged(botStatus[u])]
  /\ beatDue' = TRUE
  /\ UNCHANGED <<bots, thread, registry, botDb, handler, replied, report, beat, worker, outages>>

-----------------------------------------------------------------------------
(* The worker process goes and comes. *)

Vanish ==    \* daemon threads, coroutines and module globals end with the process
  /\ worker' = "down"
  /\ bots' = [u \in BotUsers |-> NoBot]
  /\ thread' = [t \in BotIds |-> IF t \in Created THEN Dead(t) ELSE thread[t]]
  /\ registry' = [u \in BotUsers |-> NoBot]
  /\ handler' = Resting
  /\ report' = [u \in BotUsers |-> "none"]
  /\ beat' = {}
  /\ UNCHANGED <<botDb, replied, beatDue>>

WorkerCrashes ==
  /\ worker = "up" /\ outages < MaxCrashes
  /\ Vanish
  /\ outages' = outages + 1
  /\ UNCHANGED botStatus

\* SIGTERM: stop_all sets every stop event; the consumer thread is not waited for.
ShutdownBegins ==
  /\ worker = "up" /\ beat = {} /\ outages < MaxCrashes
  /\ worker' = "draining"
  /\ outages' = outages + 1
  /\ thread' = [t \in BotIds |-> IF \E u \in BotUsers : bots[u] = t /\ Running(u)
                                   THEN [thread[t] EXCEPT !.stop = TRUE] ELSE thread[t]]
  /\ UNCHANGED <<bots, registry, botStatus, botDb, handler, replied, report, beat, beatDue>>

\* The joins are over, the threads dead or not: the heartbeat is cancelled, the keys deleted.
ShutdownClears ==
  /\ worker = "draining"
  /\ worker' = "closing"
  /\ botStatus' = [u \in BotUsers |-> IF bots[u] # NoBot THEN Absent ELSE botStatus[u]]
  /\ UNCHANGED <<bots, thread, registry, botDb, handler, replied, report, beat, beatDue, outages>>

\* The connections are closed, which awaits and so lets a late report in.
ShutdownEnds ==
  /\ worker = "closing"
  /\ Vanish
  /\ UNCHANGED <<botStatus, outages>>

WorkerStarts ==
  /\ worker = "down"
  /\ worker' = "up" /\ beatDue' = TRUE
  /\ UNCHANGED <<bots, thread, registry, botStatus, botDb, handler, replied, report, beat, outages>>

ThreadStep(t) ==
  \/ Boot(t) \/ BootFails(t) \/ EngineFails(t) \/ SeesStop(t)
  \/ Unregister(t) \/ PostError(t) \/ Dies(t)
  \/ \E s \in BotSymbols : SymbolDies(t, s)

BotNext ==
  \/ \E u \in BotUsers : HandleStart(u) \/ HandleStop(u) \/ WebCommits(u)
  \/ HandlerWritesStatus
  \/ \E t \in BotIds : ThreadStep(t)
  \/ \E u \in BotUsers : ReportCommits(u) \/ ReportWritesStatus(u) \/ HeartbeatWrites(u)
  \/ HeartbeatReads \/ Period
  \/ WorkerCrashes \/ ShutdownBegins \/ ShutdownClears \/ ShutdownEnds \/ WorkerStarts

BotSpec == BotInit /\ [][BotNext]_botVars

\* What the threads and the event loop do sooner or later; starts, stops, failures
\* of an engine and outages need never happen.
BotAdvances(t) == Boot(t) \/ SeesStop(t) \/ Unregister(t) \/ PostError(t) \/ Dies(t)
LoopAdvances(u) == ReportCommits(u) \/ ReportWritesStatus(u) \/ HeartbeatWrites(u)
WorkerAdvances == ShutdownClears \/ ShutdownEnds

-----------------------------------------------------------------------------
(* Properties. *)

BotTypeOK ==
  /\ bots \in [BotUsers -> {NoBot} \cup BotIds]
  /\ \A t \in BotIds : thread[t] \in
       [user : BotUsers \cup {"nobody"}, stop : BOOLEAN,
        symbols : SUBSET BotSymbols, lost : SUBSET BotSymbols,
        pc : {"none", "booting", "serving", "failing", "leaving", "reporting", "ending", "dead"}]
  /\ registry \in [BotUsers -> {NoBot} \cup BotIds]
  /\ botStatus \in [BotUsers -> [is : {"absent", "running", "stopped", "error"}, age : 0..StatusTTL - 1]]
  /\ botDb \in [BotUsers -> {"running", "stopped", "error"}]
  /\ handler \in [kind : {"none", "running", "stopped"}, user : BotUsers \cup {"nobody"}]
  /\ replied \in [BotUsers -> {"none", "running", "stopped"}]
  /\ report \in [BotUsers -> {"none", "posted", "committed"}]
  /\ beat \subseteq BotUsers /\ beatDue \in BOOLEAN
  /\ worker \in {"up", "draining", "closing", "down"} /\ outages \in 0..MaxCrashes

\* A bot that serves can be reached: the engine registry, which every command
\* of its user and the Telegram bot go through, holds that bot's engines and
\* not those of an earlier one.  Registration and removal are by user and run
\* on the threads themselves, so it rests on the order in which an old thread
\* ends and a new one is started.
EnginesReachable ==
  \A t \in BotIds : thread[t].pc = "serving" => registry[thread[t].user] = t

\* The status key tells the truth in the end: when a bot stays alive it comes
\* to say "running", and when no bot is alive it stops saying so, whatever
\* late writes of handlers, reports and heartbeats, crashes and restarts of
\* the worker came in between (the heartbeat refreshes, the TTL forgets).
StatusConverges ==
  \A u \in BotUsers :
    /\ <>[]Running(u)  => <>[](botStatus[u].is = "running")
    /\ <>[]~Running(u) => <>[](botStatus[u].is # "running")
=============================================================================
