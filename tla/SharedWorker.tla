---------------------------- MODULE SharedWorker ----------------------------
(***************************************************************************)
(* Shared mode: one market pipeline per symbol and one execution manager   *)
(* per user (backend/shared/shared_worker.py, symbol_manager.py, the       *)
(* registry of user_execution_manager.py, shared mode of bot_manager.py    *)
(* and of the handlers of worker.py).                                      *)
(*                                                                         *)
(* Who needs a symbol is counted in Redis, by calls that are separate.     *)
(* add_subscriber and remove_subscriber are two steps each here: the set   *)
(* and the count, then what follows from the number that came back.  Two   *)
(* threads consume the command queue, worker.py's and the orchestrator's.  *)
(* A user trades one symbol at a time; extra symbols repeat its steps.     *)
(***************************************************************************)
EXTENDS Integers, FiniteSets

CONSTANTS
  ShUsers,
  ShSymbols,
  Loops,          \* the consumers, "worker" and "orchestrator"
  MaxManagers,    \* bound: execution managers ever created
  MaxReboots      \* bound: restarts of the worker process

System == "user -1"        \* the subscriber of _ensure_symbol_services
NoSym  == "no symbol"
NoMgr  == 0
MgrIds == 1..MaxManagers

ASSUME SharedAssumption ==
  /\ IsFiniteSet(ShUsers) /\ System \notin ShUsers /\ NoSym \notin ShSymbols
  /\ Loops \subseteq {"worker", "orchestrator"}
  /\ MaxManagers \in Nat /\ MaxReboots \in Nat

VARIABLES
  subscribed,   \* user:<id>:symbols, whoever it is
  count,        \* subscriber count of each symbol; 0 when there is no key
  active,       \* the active-symbols set
  initialized,  \* _services_initialized, the symbols with shared services
  managers,     \* UserExecutionRegistry._managers
  mgr,          \* the managers ever created: user, symbol, and whether stop() has been called
  cmd,          \* the command each consumer is in the middle of
  regLock,      \* the consumer inside the registry's lock
  clearing,     \* the cleanup threads of worker.py's _handle_stop
  cleaning,     \* symbols with a service cleanup asleep
  cleaner,      \* the service cleanup that is awake and holds _services_lock
  ending,       \* the stop_all of a graceful shutdown
  recovering,   \* the counts recover_active_symbols has added up
  reboots       \* counter of the bound

shVars == <<subscribed, count, active, initialized, managers, mgr, cmd, regLock,
            clearing, cleaning, cleaner, ending, recovering, reboots>>

NoCmd    == [pc |-> "idle", user |-> System, sym |-> NoSym, n |-> 0]
NoClear  == [pc |-> "none", syms |-> {}, n |-> 0]
NoClean  == [pc |-> "none", sym |-> NoSym, n |-> 0]
NoEnd    == [pc |-> "none", todo |-> {}, sym |-> NoSym, n |-> 0]
NoCounts == [s \in ShSymbols |-> 0]

SharedInit ==
  /\ subscribed = [u \in ShUsers \cup {System} |-> {}]
  /\ count = NoCounts /\ active = {}
  /\ initialized = {}
  /\ managers = [u \in ShUsers |-> NoMgr]
  /\ mgr = [m \in MgrIds |-> [user |-> System, sym |-> NoSym, stopped |-> TRUE]]
  /\ cmd = [c \in Loops |-> NoCmd]
  /\ regLock = "free"
  /\ clearing = [u \in ShUsers |-> NoClear]
  /\ cleaning = {} /\ cleaner = NoClean /\ ending = NoEnd
  /\ recovering = [on |-> FALSE, total |-> NoCounts]
  /\ reboots = 0

NextMgr == 1 + Cardinality({m \in MgrIds : mgr[m].sym # NoSym})

-----------------------------------------------------------------------------
(* symbol_manager.  The first step of each leaves the number it was told.  *)

Adds(u, s) ==
  /\ subscribed' = [subscribed EXCEPT ![u] = @ \cup {s}]
  /\ count' = [count EXCEPT ![s] = @ + 1]

Activates(s, n) == active' = IF n = 1 THEN active \cup {s} ELSE active

Left(s) == IF count[s] > 1 THEN count[s] - 1 ELSE 0          \* what remove_subscriber returns

Removes(u, s) ==
  /\ subscribed' = [subscribed EXCEPT ![u] = @ \ {s}]
  /\ count' = [count EXCEPT ![s] = @ - 1]

\* At zero: the key is deleted, whatever has happened to it, and the symbol with it.
Deactivates(s, n) ==
  /\ count' = IF n <= 0 THEN [count EXCEPT ![s] = 0] ELSE count
  /\ active' = IF n <= 0 THEN active \ {s} ELSE active

-----------------------------------------------------------------------------
(* The consumers: c is at one step of its command and goes to the next. *)

Step(c, from, to) == cmd[c].pc = from /\ cmd' = [cmd EXCEPT ![c].pc = to]

Counts(c, from, to, n) ==
  cmd[c].pc = from /\ cmd' = [cmd EXCEPT ![c].pc = to, ![c].n = n]

ServicesSame == UNCHANGED <<initialized, cleaning, cleaner, ending, recovering, reboots>>
CountsSame   == UNCHANGED <<subscribed, count, active>>
UsersSame    == UNCHANGED <<managers, mgr, regLock, clearing>>

\* worker.py's consumer stops before a shutdown does anything else, the orchestrator's does not.
Takes(c) == cmd[c].pc = "idle" /\ (c = "worker" => ending.pc = "none")

\* is_running says no; the answer may be old by the time start_user acts on it.
StartUser(c, u, s) ==
  /\ Takes(c) /\ regLock = "free" /\ managers[u] = NoMgr
  /\ cmd' = [cmd EXCEPT ![c] = [pc |-> "ensure", user |-> u, sym |-> s, n |-> 0]]
  /\ CountsSame /\ UsersSame /\ ServicesSame

\* Under _services_lock, which a service cleanup holds until its last Redis call.
EnsureSymbolServices(c) ==
  LET s == cmd[c].sym IN
  /\ cleaner.pc = "none"
  /\ IF s \in initialized THEN Step(c, "ensure", "register") ELSE Step(c, "ensure", "add")
  /\ initialized' = initialized \cup {s}
  /\ CountsSame /\ UsersSame /\ UNCHANGED <<cleaning, cleaner, ending, recovering, reboots>>

\* add_subscriber(-1, s), with the lock released.
AddsSystem(c) ==
  /\ Counts(c, "add", "ensured", count[cmd[c].sym] + 1)
  /\ Adds(System, cmd[c].sym) /\ UNCHANGED active
  /\ UsersSame /\ ServicesSame

Ensured(c) ==
  /\ Step(c, "ensured", "register")
  /\ Activates(cmd[c].sym, cmd[c].n) /\ UNCHANGED <<subscribed, count>>
  /\ UsersSame /\ ServicesSame

\* For mutation: the manager that is there is not stopped.
RegisterOver(c) ==
  /\ regLock = "free" /\ regLock' = c
  /\ Step(c, "register", "create") /\ CountsSame
  /\ UNCHANGED <<managers, mgr, clearing>> /\ ServicesSame

\* UserExecutionRegistry.start_user, under its lock: a manager that is there is stopped first.
Register(c) ==
  LET u == cmd[c].user  old == managers[u] IN
  /\ cmd[c].pc = "register"
  /\ regLock = "free" /\ regLock' = c
  /\ IF old = NoMgr
       THEN Step(c, "register", "create") /\ CountsSame /\ UNCHANGED mgr
       ELSE /\ Counts(c, "register", "replaced", Left(mgr[old].sym))
            /\ mgr' = [mgr EXCEPT ![old].stopped = TRUE]
            /\ Removes(u, mgr[old].sym) /\ UNCHANGED active
  /\ UNCHANGED <<managers, clearing>> /\ ServicesSame

Replaced(c) ==
  /\ Step(c, "replaced", "create")
  /\ Deactivates(mgr[managers[cmd[c].user]].sym, cmd[c].n) /\ UNCHANGED subscribed
  /\ UsersSame /\ ServicesSame

Create(c) ==
  LET u == cmd[c].user  s == cmd[c].sym IN
  /\ NextMgr \in MgrIds
  /\ Counts(c, "create", "created", count[s] + 1)
  /\ mgr' = [mgr EXCEPT ![NextMgr] = [user |-> u, sym |-> s, stopped |-> FALSE]]
  /\ managers' = [managers EXCEPT ![u] = NextMgr]
  /\ Adds(u, s) /\ UNCHANGED active
  /\ UNCHANGED <<regLock, clearing>> /\ ServicesSame

Inserted(c) ==
  /\ cmd[c].pc = "created" /\ cmd' = [cmd EXCEPT ![c] = NoCmd]
  /\ Activates(cmd[c].sym, cmd[c].n) /\ UNCHANGED <<subscribed, count>>
  /\ regLock' = "free"
  /\ UNCHANGED <<managers, mgr, clearing>> /\ ServicesSame

\* The cleanup thread worker.py starts at every stop, of a user who runs or not.
Clears(c, u) ==
  clearing' = IF c = "worker" /\ clearing[u].pc = "none"
                THEN [clearing EXCEPT ![u] = [NoClear EXCEPT !.pc = "asked"]] ELSE clearing

StopUser(c, u) ==
  LET m == managers[u] IN
  /\ Takes(c) /\ regLock = "free"
  /\ IF m = NoMgr
       THEN /\ Clears(c, u)
            /\ CountsSame /\ UNCHANGED <<cmd, managers, mgr, regLock>>
       ELSE /\ cmd' = [cmd EXCEPT ![c] = [pc |-> "stopping", user |-> u, sym |-> mgr[m].sym, n |-> Left(mgr[m].sym)]]
            /\ managers' = [managers EXCEPT ![u] = NoMgr]
            /\ mgr' = [mgr EXCEPT ![m].stopped = TRUE]
            /\ regLock' = c
            /\ Removes(u, mgr[m].sym) /\ UNCHANGED <<active, clearing>>
  /\ ServicesSame

Stopping(c) ==
  /\ Step(c, "stopping", "stopped")
  /\ Deactivates(cmd[c].sym, cmd[c].n) /\ UNCHANGED subscribed
  /\ regLock' = "free"
  /\ UNCHANGED <<managers, mgr, clearing>> /\ ServicesSame

\* _schedule_symbol_cleanup when the count is zero, then the rest of the handler.
Stopped(c) ==
  /\ cmd[c].pc = "stopped" /\ cmd' = [cmd EXCEPT ![c] = NoCmd]
  /\ cleaning' = IF count[cmd[c].sym] <= 0 THEN cleaning \cup {cmd[c].sym} ELSE cleaning
  /\ Clears(c, cmd[c].user)
  /\ CountsSame /\ UNCHANGED <<managers, mgr, regLock, initialized, cleaner, ending, recovering, reboots>>

-----------------------------------------------------------------------------
(* The other threads. *)

ThreadSame == UNCHANGED <<managers, mgr, regLock, cmd>>

\* clear_user_subscriptions: the symbols it reads may be those of a later start.
ClearReads(u) ==
  /\ clearing[u].pc = "asked"
  /\ clearing' = [clearing EXCEPT ![u] = [clearing[u] EXCEPT !.pc = "reads", !.syms = subscribed[u]]]
  /\ CountsSame /\ ThreadSame /\ ServicesSame

ClearRemoves(u) ==
  /\ clearing[u].pc = "reads"
  /\ \E s \in clearing[u].syms :
       /\ Removes(u, s)
       /\ clearing' = [clearing EXCEPT ![u] = [pc |-> "removed", syms |-> {s}, n |-> Left(s)]]
  /\ UNCHANGED active /\ ThreadSame /\ ServicesSame

ClearEnds(u) ==
  /\ \/ clearing[u].pc = "removed"
        /\ \E s \in clearing[u].syms : Deactivates(s, clearing[u].n)
     \/ clearing[u].pc = "reads" /\ clearing[u].syms = {}
        /\ UNCHANGED <<count, active>>
  /\ subscribed' = [subscribed EXCEPT ![u] = {}]
  /\ clearing' = [clearing EXCEPT ![u] = NoClear]
  /\ ThreadSame /\ ServicesSame

\* _do_cleanup after its minute takes _services_lock and asks for the count again ...
CleanServices(s) ==
  /\ s \in cleaning /\ cleaner.pc = "none"
  /\ cleaning' = cleaning \ {s}
  /\ cleaner' = IF s \in initialized /\ count[s] <= 0 THEN [pc |-> "stopping", sym |-> s, n |-> 0] ELSE cleaner
  /\ CountsSame /\ ThreadSame /\ UNCHANGED <<initialized, clearing, ending, recovering, reboots>>

\* ... stops the services, however many have subscribed since, and removes their subscriber ...
CleanRemoves ==
  LET s == cleaner.sym IN
  /\ cleaner.pc = "stopping"
  /\ cleaner' = [pc |-> "removed", sym |-> s, n |-> Left(s)]
  /\ initialized' = initialized \ {s}
  /\ Removes(System, s) /\ UNCHANGED active
  /\ ThreadSame /\ UNCHANGED <<clearing, cleaning, ending, recovering, reboots>>

\* ... and lets the lock go.
CleanEnds ==
  /\ cleaner.pc = "removed" /\ cleaner' = NoClean
  /\ Deactivates(cleaner.sym, cleaner.n) /\ UNCHANGED subscribed
  /\ ThreadSame /\ UNCHANGED <<initialized, clearing, cleaning, ending, recovering, reboots>>

-----------------------------------------------------------------------------
(* A graceful shutdown: bot_manager.stop_all, which makes the same two     *)
(* calls as the orchestrator's own stop().                                 *)

RestSame == UNCHANGED <<cmd, clearing, initialized, cleaning, cleaner, recovering, reboots>>

\* The registry's stop_all stops every manager under the registry's lock ...
StopAll ==
  /\ reboots < MaxReboots                    \* the restart that follows is within the bound
  /\ regLock = "free" /\ regLock' = "shutdown"
  /\ ending.pc = "none" /\ ending' = [ending EXCEPT !.pc = "managers"]
  /\ CountsSame /\ UNCHANGED <<managers, mgr>> /\ RestSame

StopsManager(u) ==
  LET m == managers[u]  s == mgr[m].sym IN
  /\ ending.pc = "managers" /\ m # NoMgr /\ ~mgr[m].stopped
  /\ mgr' = [mgr EXCEPT ![m].stopped = TRUE]
  /\ ending' = [ending EXCEPT !.pc = "manager", !.sym = s, !.n = Left(s)]
  /\ Removes(u, s) /\ UNCHANGED <<active, managers, regLock>> /\ RestSame

\* ... and forgets them; _cleanup_shared_services removes the services' subscribers, without
\* a lock, and leaves _services_initialized as it is: a start that comes now begins none.
ManagersGone ==
  /\ ending.pc = "managers" /\ \A u \in ShUsers : managers[u] # NoMgr => mgr[managers[u]].stopped
  /\ ending' = [ending EXCEPT !.pc = "services", !.todo = initialized]
  /\ managers' = [u \in ShUsers |-> NoMgr] /\ regLock' = "free"
  /\ CountsSame /\ UNCHANGED mgr /\ RestSame

StopsServices(s) ==
  /\ ending.pc = "services" /\ s \in ending.todo
  /\ ending' = [pc |-> "service", todo |-> ending.todo \ {s}, sym |-> s, n |-> Left(s)]
  /\ Removes(System, s) /\ UNCHANGED <<active, managers, mgr, regLock>> /\ RestSame

Unsubscribed ==
  /\ \/ ending.pc = "manager" /\ ending' = [ending EXCEPT !.pc = "managers"]
     \/ ending.pc = "service" /\ ending' = [ending EXCEPT !.pc = "services"]
  /\ Deactivates(ending.sym, ending.n) /\ UNCHANGED <<subscribed, managers, mgr, regLock>> /\ RestSame

ShutdownStep ==
  \/ StopAll \/ ManagersGone \/ Unsubscribed
  \/ \E u \in ShUsers : StopsManager(u)
  \/ \E s \in ShSymbols : StopsServices(s)

\* The process ends, in a crash or at some point of a shutdown, and a new one starts: Redis
\* keeps the keys, and nothing restarts the bots or their services.  The consumers run
\* before the recovery does.
Reboot ==
  /\ reboots < MaxReboots
  /\ reboots' = reboots + 1
  /\ initialized' = {} /\ cleaning' = {} /\ cleaner' = NoClean /\ ending' = NoEnd
  /\ managers' = [u \in ShUsers |-> NoMgr]
  /\ mgr' = [m \in MgrIds |-> [mgr[m] EXCEPT !.stopped = TRUE]]
  /\ cmd' = [c \in Loops |-> NoCmd]
  /\ regLock' = "free"
  /\ clearing' = [u \in ShUsers |-> NoClear]
  /\ active' = {}
  /\ recovering' = [on |-> TRUE,
                    total |-> [s \in ShSymbols |-> Cardinality({u \in DOMAIN subscribed : s \in subscribed[u]})]]
  /\ UNCHANGED <<subscribed, count>>

RecoverActiveSymbols ==
  /\ recovering.on
  /\ count' = [s \in ShSymbols |-> IF recovering.total[s] > 0 THEN recovering.total[s] ELSE count[s]]
  /\ active' = active \cup {s \in ShSymbols : recovering.total[s] > 0}
  /\ recovering' = [on |-> FALSE, total |-> NoCounts]
  /\ UNCHANGED <<subscribed, clearing, initialized, cleaning, cleaner, ending, reboots>> /\ ThreadSame

LoopStep(c) ==
  \/ EnsureSymbolServices(c) \/ AddsSystem(c) \/ Ensured(c) \/ Register(c) \/ Replaced(c)
  \/ Create(c) \/ Inserted(c) \/ Stopping(c) \/ Stopped(c)
  \/ \E u \in ShUsers : StopUser(c, u) \/ \E s \in ShSymbols : StartUser(c, u, s)

SharedNext ==
  \/ \E c \in Loops : LoopStep(c)
  \/ \E u \in ShUsers : ClearReads(u) \/ ClearRemoves(u) \/ ClearEnds(u)
  \/ \E s \in ShSymbols : CleanServices(s)
  \/ CleanRemoves \/ CleanEnds
  \/ ShutdownStep \/ Reboot \/ RecoverActiveSymbols

SharedSpec == SharedInit /\ [][SharedNext]_shVars

-----------------------------------------------------------------------------
(* Properties. *)

\* A count may be any integer: the calls that make it up interleave, and a recovery sets it
\* to what it counted before.
SharedTypeOK ==
  /\ subscribed \in [ShUsers \cup {System} -> SUBSET ShSymbols]
  /\ count \in [ShSymbols -> Int]
  /\ active \subseteq ShSymbols /\ initialized \subseteq ShSymbols /\ cleaning \subseteq ShSymbols
  /\ cleaner.sym \in ShSymbols \cup {NoSym} /\ ending.todo \subseteq ShSymbols
  /\ managers \in [ShUsers -> {NoMgr} \cup MgrIds]
  /\ regLock \in Loops \cup {"free", "shutdown"}

\* A user's signals are acted on once: at most one of the user's execution
\* managers has not been stopped, and it is the registered one, although two
\* consumers may both have found the user not running and both start it.
OneLiveManager ==
  \A m \in MgrIds : ~mgr[m].stopped => managers[mgr[m].user] = m

\* stop_user: "cleanup shared services if no subscribers left": a user who is
\* running has the shared services of the user's symbol.
ServedWhileRunning ==
  \A u \in ShUsers : managers[u] # NoMgr => mgr[managers[u]].sym \in initialized
=============================================================================
