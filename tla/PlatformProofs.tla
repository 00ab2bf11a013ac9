--------------------------- MODULE PlatformProofs ---------------------------
(***************************************************************************)
(* Theorems about the parts of the platform that MCPlatform runs, for any  *)
(* number of users, threads, managers, days and tabs.                      *)
(***************************************************************************)
EXTENDS MCPlatform, FiniteSetTheorems, TLAPS

-----------------------------------------------------------------------------
(* BotLifecycle.                                                           *)

Places == {"none", "booting", "serving", "failing", "leaving", "reporting", "ending", "dead"}
Thread == [user : BotUsers \cup {"nobody"}, pc : Places, stop : BOOLEAN,
           symbols : SUBSET BotSymbols, lost : SUBSET BotSymbols]

\* A thread that lives is its user's newest, and one that serves is registered: only then
\* can no other thread of the user be about to unregister it.
BotInv ==
  /\ bots \in [BotUsers -> {NoBot} \cup BotIds]
  /\ registry \in [BotUsers -> {NoBot} \cup BotIds]
  /\ thread \in [BotIds -> Thread]
  /\ \A t \in BotIds :
       /\ thread[t].pc # "none" => thread[t].user \in BotUsers
       /\ thread[t].pc \notin {"none", "dead"} => bots[thread[t].user] = t
       /\ thread[t].pc = "serving" => registry[thread[t].user] = t

LEMMA BotInitially == BotInit => BotInv
  BY DEF BotInit, BotInv, NoThread, Thread, Places

\* A thread that changes but keeps its user, and neither comes into service nor back from
\* death, keeps the invariant.
LEMMA ThreadMoves ==
  ASSUME BotInv, NEW t \in BotIds, NEW new \in Thread,
         thread[t].pc \notin {"none", "dead"},
         thread' = [thread EXCEPT ![t] = new],
         new.user = thread[t].user, new.pc # "none",
         new.pc = "serving" => thread[t].pc = "serving",
         UNCHANGED <<bots, registry>>
  PROVE  BotInv'
  BY DEF BotInv

LEMMA ThreadSteps == ASSUME BotInv, NEW t \in BotIds, ThreadStep(t) PROVE BotInv'
<1>0. thread[t] \in Thread /\ thread \in [BotIds -> Thread]
  BY DEF BotInv
<1>1. CASE Boot(t)
  <2>1. thread[t].user \in BotUsers /\ bots[thread[t].user] = t
    BY <1>1 DEF Boot, BotInv
  <2>2. \A k \in BotIds \ {t} : thread[k].pc = "serving" => thread[k].user # thread[t].user
    BY <2>1 DEF BotInv
  <2>3. thread' = [thread EXCEPT ![t] = [thread[t] EXCEPT !.pc = "serving"]]
        /\ registry' = [registry EXCEPT ![thread[t].user] = t] /\ bots' = bots
    BY <1>1 DEF Boot, ThreadOnly
  <2>4. [thread[t] EXCEPT !.pc = "serving"] \in Thread
    BY <1>0 DEF Thread, Places
  <2>5. QED
    BY <1>0, <2>1, <2>2, <2>3, <2>4 DEF BotInv, Thread
<1>2. CASE Unregister(t)
  <2>1. thread[t].user \in BotUsers /\ bots[thread[t].user] = t
    BY <1>2 DEF Unregister, BotInv
  <2>2. \A k \in BotIds \ {t} : thread[k].pc = "serving" => thread[k].user # thread[t].user
    BY <2>1 DEF BotInv
  <2> DEFINE new == [thread[t] EXCEPT !.pc = IF @ = "failing" THEN "reporting" ELSE "ending"]
  <2>3. thread' = [thread EXCEPT ![t] = new]
        /\ registry' = [registry EXCEPT ![thread[t].user] = NoBot] /\ bots' = bots
    BY <1>2 DEF Unregister, ThreadOnly
  <2>4. new \in Thread /\ new.user = thread[t].user /\ new.pc \in {"reporting", "ending"}
    BY <1>0 DEF Thread, Places
  <2> HIDE DEF new
  <2>5. QED
    BY <1>0, <2>1, <2>2, <2>3, <2>4 DEF BotInv
<1>3. CASE \E from \in Places \ {"none", "dead"}, to \in Places \ {"none", "serving"} :
             Goes(t, from, to) /\ UNCHANGED <<bots, registry>>
  <2>1. PICK from \in Places \ {"none", "dead"}, to \in Places \ {"none", "serving"} :
             Goes(t, from, to) /\ UNCHANGED <<bots, registry>>
    BY <1>3
  <2>2. [thread[t] EXCEPT !.pc = to] \in Thread /\ [thread[t] EXCEPT !.pc = to].user = thread[t].user
        /\ [thread[t] EXCEPT !.pc = to].pc = to
    BY <1>0 DEF Thread
  <2>3. QED
    BY <2>1, <2>2, ThreadMoves DEF Goes
<1>4. CASE \E s \in BotSymbols : SymbolDies(t, s)
  <2>1. PICK s \in BotSymbols : SymbolDies(t, s)
    BY <1>4
  <2> DEFINE new == [thread[t] EXCEPT !.lost = @ \cup {s}]
  <2>2. new \in Thread /\ new.user = thread[t].user /\ new.pc = thread[t].pc
    BY <1>0 DEF Thread
  <2>3. thread' = [thread EXCEPT ![t] = new] /\ UNCHANGED <<bots, registry>> /\ thread[t].pc = "serving"
    BY <2>1 DEF SymbolDies, ThreadOnly
  <2> HIDE DEF new
  <2>4. QED
    BY <2>2, <2>3, ThreadMoves
<1>5. CASE Dies(t)
  <2>1. Dead(t) \in Thread /\ Dead(t).user = thread[t].user /\ Dead(t).pc = "dead"
    BY <1>0 DEF Dead, NoThread, Thread, Places
  <2>2. QED
    BY <1>5, <2>1, ThreadMoves DEF Dies, ThreadOnly
<1>6. QED
  BY <1>1, <1>2, <1>3, <1>4, <1>5
     DEF ThreadStep, BootFails, EngineFails, SeesStop, PostError, ThreadOnly, Places

\* A user who gets a new thread had none that was alive.
LEMMA StartSteps == ASSUME BotInv, NEW u \in BotUsers, HandleStart(u) PROVE BotInv'
<1>1. PICK t \in BotIds, configured \in SUBSET BotSymbols \ {{}} :
        /\ bots' = [bots EXCEPT ![u] = t]
        /\ thread' = [thread EXCEPT ![t] =
             [user |-> u, pc |-> "booting", stop |-> FALSE, symbols |-> configured, lost |-> {}]]
  BY DEF HandleStart
<1>2. registry' = registry /\ ~Running(u)
  BY DEF HandleStart
<1>3. \A k \in BotIds : thread[k].pc \notin {"none", "dead"} => thread[k].user # u
  BY <1>2 DEF BotInv, Running, Alive, BotIds, NoBot
<1> DEFINE new == [user |-> u, pc |-> "booting", stop |-> FALSE, symbols |-> configured, lost |-> {}]
<1>4. new \in Thread /\ new.user = u /\ new.pc = "booting"
  BY DEF Thread, Places
<1>5. thread' = [thread EXCEPT ![t] = new]
  BY <1>1
<1> HIDE DEF new
<1>6. QED
  BY <1>1, <1>2, <1>3, <1>4, <1>5 DEF BotInv

LEMMA VanishSteps == ASSUME BotInv, Vanish PROVE BotInv'
<1>1. \A t \in BotIds : Dead(t) \in Thread /\ Dead(t).user = thread[t].user /\ Dead(t).pc = "dead"
  BY DEF BotInv, Dead, NoThread, Thread, Places
<1>2. \A t \in BotIds : thread'[t] = IF thread[t].pc # "none" THEN Dead(t) ELSE thread[t]
  BY DEF Vanish, Created
<1>3. thread' \in [BotIds -> Thread]
  BY <1>1 DEF Vanish, BotInv
<1>4. QED
  BY <1>1, <1>2, <1>3 DEF BotInv, Vanish

\* Setting stop events moves nobody.
LEMMA StopSteps ==
  ASSUME BotInv, UNCHANGED <<bots, registry>>, DOMAIN thread' = BotIds, thread' \in [BotIds -> Thread],
         \A t \in BotIds : thread'[t].user = thread[t].user /\ thread'[t].pc = thread[t].pc
  PROVE  BotInv'
  BY DEF BotInv

LEMMA BotSteps == ASSUME BotInv, [BotNext]_botVars PROVE BotInv'
<1>1. ASSUME NEW u \in BotUsers, HandleStart(u) PROVE BotInv'
  BY <1>1, StartSteps
<1>2. ASSUME NEW u \in BotUsers, HandleStop(u) PROVE BotInv'
  <2>1. \A t \in BotIds : /\ [thread[t] EXCEPT !.stop = TRUE] \in Thread
                          /\ [thread[t] EXCEPT !.stop = TRUE].user = thread[t].user
                          /\ [thread[t] EXCEPT !.stop = TRUE].pc = thread[t].pc
    BY DEF BotInv, Thread
  <2>2. thread' = IF Running(u) THEN [thread EXCEPT ![bots[u]] = [thread[bots[u]] EXCEPT !.stop = TRUE]]
                                ELSE thread
    BY <1>2 DEF HandleStop
  <2>3. Running(u) => bots[u] \in BotIds
    BY DEF Running, Alive, BotInv
  <2>4. UNCHANGED <<bots, registry>>
    BY <1>2 DEF HandleStop
  <2>5. /\ thread' \in [BotIds -> Thread]
        /\ \A t \in BotIds : thread'[t].user = thread[t].user /\ thread'[t].pc = thread[t].pc
    BY <2>1, <2>2, <2>3 DEF BotInv
  <2>6. QED
    BY <2>4, <2>5, StopSteps
<1>3. ASSUME NEW t \in BotIds, ThreadStep(t) PROVE BotInv'
  BY <1>3, ThreadSteps
<1>4. CASE WorkerCrashes \/ ShutdownEnds
  BY <1>4, VanishSteps DEF WorkerCrashes, ShutdownEnds
<1>5. CASE ShutdownBegins
  <2>1. \A t \in BotIds : /\ [thread[t] EXCEPT !.stop = TRUE] \in Thread
                          /\ [thread[t] EXCEPT !.stop = TRUE].user = thread[t].user
                          /\ [thread[t] EXCEPT !.stop = TRUE].pc = thread[t].pc
    BY DEF BotInv, Thread
  <2>2. \A t \in BotIds : thread'[t] \in {thread[t], [thread[t] EXCEPT !.stop = TRUE]}
    BY <1>5 DEF ShutdownBegins
  <2>3. thread' = [t \in BotIds |-> thread'[t]]
    BY <1>5 DEF ShutdownBegins
  <2>4. /\ thread' \in [BotIds -> Thread]
        /\ \A t \in BotIds : thread'[t].user = thread[t].user /\ thread'[t].pc = thread[t].pc
    BY <2>1, <2>2, <2>3 DEF BotInv
  <2>5. UNCHANGED <<bots, registry>>
    BY <1>5 DEF ShutdownBegins
  <2>6. QED
    BY <2>4, <2>5, StopSteps
<1>6. CASE UNCHANGED <<bots, registry, thread>>
  BY <1>6 DEF BotInv
<1>7. QED
  BY <1>1, <1>2, <1>3, <1>4, <1>5, <1>6
     DEF BotNext, botVars, WebCommits, HandlerWritesStatus, ReportCommits, ReportWritesStatus,
         HeartbeatWrites, HeartbeatReads, Period, ShutdownClears, WorkerStarts

\* A bot that serves is the one its user's commands reach, for any users, symbols and
\* bounds: registration and removal are by user and run on the bots' own threads.
THEOREM BotReachable == BotSpec => []EnginesReachable
<1>1. BotInit => BotInv
  BY BotInitially
<1>2. BotInv /\ [BotNext]_botVars => BotInv'
  BY BotSteps
<1>3. BotInv => EnginesReachable
  BY DEF BotInv, EnginesReachable
<1>4. QED
  BY <1>1, <1>2, <1>3, PTL DEF BotSpec

-----------------------------------------------------------------------------
(* SharedWorker: who owns the managers.                                    *)

Manager == [user : ShUsers \cup {System}, sym : ShSymbols \cup {NoSym}, stopped : BOOLEAN]

\* A consumer's command, whatever count it carries.
Command(r) ==
  /\ r = [pc |-> r.pc, user |-> r.user, sym |-> r.sym, n |-> r.n]
  /\ r.sym \in ShSymbols \cup {NoSym}
  /\ r.pc # "idle" => r.user \in ShUsers

\* A manager that has not been stopped is registered.  Who replaces or stops managers holds
\* the registry's lock throughout, and has stopped those of the user before it creates one;
\* a shutdown holds it until the registry is cleared.
OwnInv ==
  /\ managers \in [ShUsers -> {NoMgr} \cup MgrIds]
  /\ mgr \in [MgrIds -> Manager]
  /\ DOMAIN cmd = Loops /\ \A c \in Loops : Command(cmd[c])
  /\ \A m \in MgrIds : ~mgr[m].stopped => mgr[m].user \in ShUsers /\ managers[mgr[m].user] = m
  /\ \A c \in Loops :
       /\ cmd[c].pc \in {"replaced", "create", "created", "stopping"} => regLock = c
       /\ cmd[c].pc \in {"replaced", "create"} =>
            \A m \in MgrIds : mgr[m].user = cmd[c].user => mgr[m].stopped
  /\ "pc" \in DOMAIN ending
  /\ ending.pc \in {"managers", "manager"} => regLock = "shutdown"

LEMMA OwnInitially == ASSUME SharedAssumption, SharedInit PROVE OwnInv
  BY SMT DEF SharedAssumption, SharedInit, OwnInv, Manager, Command, NoCmd, NoMgr, MgrIds, NoEnd

\* The consumer that moves keeps its command, the other its place.
LEMMA CommandMoves ==
  ASSUME OwnInv, NEW c \in Loops, NEW from, NEW to,
         Step(c, from, to) \/ \E n : Counts(c, from, to, n), from # "idle"
  PROVE  /\ DOMAIN cmd' = Loops /\ \A k \in Loops \ {c} : cmd'[k] = cmd[k]
         /\ Command(cmd'[c]) /\ cmd[c].pc = from /\ cmd'[c].pc = to
         /\ cmd'[c].user = cmd[c].user /\ cmd[c].user \in ShUsers
<1>1. Command(cmd[c]) /\ DOMAIN cmd = Loops
  BY DEF OwnInv
<1>2. CASE Step(c, from, to)
  BY <1>1, <1>2 DEF Step, Command
<1>3. CASE \E n : Counts(c, from, to, n)
  BY <1>1, <1>3 DEF Counts, Command
<1>4. QED
  BY <1>2, <1>3

\* A step that leaves the managers alone, and moves a consumer neither to the registry nor
\* within it.
LEMMA OutsideRegistry ==
  ASSUME OwnInv, NEW c \in Loops, NEW from, NEW to,
         Step(c, from, to) \/ \E n : Counts(c, from, to, n), from # "idle",
         to \notin {"replaced", "create", "created", "stopping"}, UNCHANGED <<managers, mgr>>,
         regLock' = regLock \/ (regLock = c /\ regLock' = "free"), c # "shutdown", ending' = ending
  PROVE  OwnInv'
<1>1. /\ DOMAIN cmd' = Loops /\ \A k \in Loops \ {c} : cmd'[k] = cmd[k]
      /\ Command(cmd'[c]) /\ cmd'[c].pc = to
  BY CommandMoves
<1>2. QED
  BY <1>1 DEF OwnInv

\* A manager that is stopped stays one, of the same user.
LEMMA StoppedManager ==
  ASSUME NEW r \in Manager
  PROVE  /\ [r EXCEPT !.stopped = TRUE] \in Manager
         /\ [r EXCEPT !.stopped = TRUE].stopped
         /\ [r EXCEPT !.stopped = TRUE].user = r.user
  BY DEF Manager

LEMMA LoopSteps == ASSUME SharedAssumption, OwnInv, NEW c \in Loops, LoopStep(c) PROVE OwnInv'
<1> USE DEF ServicesSame, CountsSame, UsersSame
<1>0. c # "free" /\ c # "shutdown"
  BY DEF SharedAssumption
<1>a. ending' = ending /\ (regLock' = regLock \/ regLock \in {"free", c})
  BY DEF LoopStep, StartUser, EnsureSymbolServices, AddsSystem, Ensured, Register, Replaced, Create,
         Inserted, StopUser, Stopping, Stopped, Step, Counts, OwnInv
<1>b. "pc" \in DOMAIN ending' /\ (ending'.pc \in {"managers", "manager"} => regLock' = "shutdown")
  BY <1>0, <1>a DEF OwnInv
<1> USE <1>b
<1>1. ASSUME NEW u \in ShUsers, NEW s \in ShSymbols, StartUser(c, u, s) PROVE OwnInv'
  <2>1. cmd' = [cmd EXCEPT ![c] = [pc |-> "ensure", user |-> u, sym |-> s, n |-> 0]]
        /\ UNCHANGED <<managers, mgr, regLock>>
    BY <1>1 DEF StartUser
  <2>2. QED
    BY <2>1 DEF OwnInv, Command
<1>2. CASE EnsureSymbolServices(c) \/ AddsSystem(c) \/ Ensured(c)
  <2>1. CASE EnsureSymbolServices(c)
    <3>1. UNCHANGED <<managers, mgr, regLock>> /\ (Step(c, "ensure", "register") \/ Step(c, "ensure", "add"))
      BY <2>1 DEF EnsureSymbolServices
    <3>2. QED
      BY <1>0, <1>a, <3>1, OutsideRegistry
  <2>2. CASE AddsSystem(c)
    <3>1. UNCHANGED <<managers, mgr, regLock>> /\ \E n : Counts(c, "add", "ensured", n)
      BY <2>2 DEF AddsSystem
    <3>2. QED
      BY <1>0, <1>a, <3>1, OutsideRegistry
  <2>3. CASE Ensured(c)
    BY <1>0, <1>a, <2>3, OutsideRegistry DEF Ensured
  <2>4. QED
    BY <1>2, <2>1, <2>2, <2>3
<1>3. CASE Register(c)
  <2> DEFINE u == cmd[c].user
             old == managers[u]
  <2>1. u \in ShUsers /\ regLock = "free" /\ regLock' = c /\ managers' = managers
    BY <1>3 DEF Register, OwnInv, Command
  <2>2. \A k \in Loops : cmd[k].pc \notin {"replaced", "create", "created", "stopping"}
    BY <2>1, SharedAssumption DEF OwnInv, SharedAssumption
  <2>3. CASE old = NoMgr /\ Step(c, "register", "create") /\ mgr' = mgr
    <3>1. \A m \in MgrIds : mgr[m].user = u => mgr[m].stopped
      BY <2>3 DEF OwnInv, NoMgr, MgrIds
    <3>2. /\ DOMAIN cmd' = Loops /\ \A k \in Loops \ {c} : cmd'[k] = cmd[k]
          /\ Command(cmd'[c]) /\ cmd'[c].user = u
      BY <2>3, CommandMoves
    <3>3. QED
      BY <2>1, <2>2, <2>3, <3>1, <3>2 DEF OwnInv
  <2>4. CASE /\ old # NoMgr /\ \E n : Counts(c, "register", "replaced", n)
             /\ mgr' = [mgr EXCEPT ![old].stopped = TRUE]
    <3>1. old \in MgrIds
      BY <2>1, <2>4 DEF OwnInv
    <3>2. [mgr[old] EXCEPT !.stopped = TRUE] \in Manager
          /\ [mgr[old] EXCEPT !.stopped = TRUE].stopped
          /\ [mgr[old] EXCEPT !.stopped = TRUE].user = mgr[old].user
      BY <3>1, StoppedManager DEF OwnInv
    <3>3. mgr' = [mgr EXCEPT ![old] = [mgr[old] EXCEPT !.stopped = TRUE]]
      BY <2>4
    <3>4. mgr' \in [MgrIds -> Manager]
      BY <3>1, <3>2, <3>3 DEF OwnInv
    <3>5. \A m \in MgrIds : mgr'[m].user = mgr[m].user /\ (mgr[m].stopped \/ m = old => mgr'[m].stopped)
      BY <3>1, <3>2, <3>3 DEF OwnInv
    <3>6. \A m \in MgrIds : mgr'[m].user = u => mgr'[m].stopped
      BY <3>5 DEF OwnInv
    <3>7. /\ DOMAIN cmd' = Loops /\ \A k \in Loops \ {c} : cmd'[k] = cmd[k]
          /\ Command(cmd'[c]) /\ cmd'[c].user = u
      BY <2>4, CommandMoves
    <3>8. QED
      BY <2>1, <2>2, <3>4, <3>5, <3>6, <3>7 DEF OwnInv
  <2>5. QED
    BY <1>3, <2>3, <2>4 DEF Register
<1>4. CASE Replaced(c)
  <2>1. /\ DOMAIN cmd' = Loops /\ \A k \in Loops \ {c} : cmd'[k] = cmd[k]
        /\ Command(cmd'[c]) /\ cmd'[c].user = cmd[c].user /\ cmd[c].pc = "replaced"
    BY <1>4, CommandMoves DEF Replaced
  <2>2. UNCHANGED <<managers, mgr, regLock>>
    BY <1>4 DEF Replaced
  <2>3. QED
    BY <2>1, <2>2 DEF OwnInv
<1>5. CASE Create(c)
  <2> DEFINE u == cmd[c].user
             new == [user |-> u, sym |-> cmd[c].sym, stopped |-> FALSE]
             n == NextMgr
  <2>1. /\ DOMAIN cmd' = Loops /\ \A k \in Loops \ {c} : cmd'[k] = cmd[k]
        /\ Command(cmd'[c]) /\ cmd'[c].pc = "created" /\ cmd[c].pc = "create" /\ u \in ShUsers
    <3>1. \E k : Counts(c, "create", "created", k)
      BY <1>5 DEF Create
    <3>2. QED
      BY <3>1, CommandMoves
  <2>2. new \in Manager /\ ~new.stopped /\ new.user = u
    BY <2>1 DEF OwnInv, Command, Manager
  <2>3. n \in MgrIds /\ mgr' = [mgr EXCEPT ![n] = new] /\ managers' = [managers EXCEPT ![u] = n]
        /\ regLock' = regLock
    BY <1>5 DEF Create
  <2>4. regLock = c /\ \A m \in MgrIds : mgr[m].user = u => mgr[m].stopped
    BY <2>1 DEF OwnInv
  <2>5. \A k \in Loops \ {c} : cmd[k].pc \notin {"replaced", "create", "created", "stopping"}
    BY <2>4 DEF OwnInv
  <2> HIDE DEF new, n
  <2>6. managers' \in [ShUsers -> {NoMgr} \cup MgrIds] /\ mgr' \in [MgrIds -> Manager]
    BY <2>1, <2>2, <2>3 DEF OwnInv
  <2>7. \A m \in MgrIds : ~mgr'[m].stopped => mgr'[m].user \in ShUsers /\ managers'[mgr'[m].user] = m
    BY <2>1, <2>2, <2>3, <2>4 DEF OwnInv
  <2>8. QED
    BY <2>1, <2>3, <2>4, <2>5, <2>6, <2>7 DEF OwnInv
<1>6. CASE Inserted(c)
  <2>1. cmd' = [cmd EXCEPT ![c] = NoCmd] /\ UNCHANGED <<managers, mgr>> /\ regLock' = "free" /\ regLock = c
    BY <1>6 DEF Inserted, OwnInv
  <2>2. QED
    BY <2>1 DEF OwnInv, Command, NoCmd
<1>7. CASE Stopping(c)
  <2>1. regLock = c /\ regLock' = "free" /\ UNCHANGED <<managers, mgr>>
    BY <1>7 DEF Stopping, Step, OwnInv
  <2>2. QED
    BY <1>0, <1>a, <1>7, <2>1, OutsideRegistry DEF Stopping
<1>8. CASE Stopped(c)
  <2>1. cmd' = [cmd EXCEPT ![c] = NoCmd] /\ UNCHANGED <<managers, mgr, regLock>>
    BY <1>8 DEF Stopped
  <2>2. QED
    BY <2>1 DEF OwnInv, Command, NoCmd
<1>9. ASSUME NEW u \in ShUsers, StopUser(c, u) PROVE OwnInv'
  <2> DEFINE m0 == managers[u]
  <2>1. CASE UNCHANGED <<cmd, managers, mgr, regLock>>
    BY <2>1 DEF OwnInv
  <2>2. CASE m0 # NoMgr
    <3>1. m0 \in MgrIds
      BY <2>2 DEF OwnInv
    <3>2. [mgr[m0] EXCEPT !.stopped = TRUE] \in Manager
          /\ [mgr[m0] EXCEPT !.stopped = TRUE].stopped
          /\ [mgr[m0] EXCEPT !.stopped = TRUE].user = mgr[m0].user
      BY <3>1, StoppedManager DEF OwnInv
    <3>3. /\ mgr' = [mgr EXCEPT ![m0] = [mgr[m0] EXCEPT !.stopped = TRUE]]
          /\ managers' = [managers EXCEPT ![u] = NoMgr] /\ regLock' = c /\ regLock = "free"
          /\ \E n : cmd' = [cmd EXCEPT ![c] = [pc |-> "stopping", user |-> u, sym |-> mgr[m0].sym, n |-> n]]
      BY <1>9, <2>2 DEF StopUser
    <3>4. \A k \in Loops : cmd[k].pc \notin {"replaced", "create", "created", "stopping"}
      BY <3>3, SharedAssumption DEF OwnInv, SharedAssumption
    <3>5. mgr' \in [MgrIds -> Manager] /\ managers' \in [ShUsers -> {NoMgr} \cup MgrIds]
      BY <3>1, <3>2, <3>3 DEF OwnInv
    <3>6. \A m \in MgrIds : /\ mgr'[m].user = mgr[m].user
                            /\ mgr[m].stopped \/ m = m0 => mgr'[m].stopped
      BY <3>1, <3>2, <3>3 DEF OwnInv
    <3>7. \A m \in MgrIds : ~mgr'[m].stopped => mgr'[m].user \in ShUsers /\ managers'[mgr'[m].user] = m
      BY <3>3, <3>6 DEF OwnInv
    <3>8. mgr[m0].sym \in ShSymbols \cup {NoSym}
      BY <3>1 DEF OwnInv, Manager
    <3>9. PICK n : cmd' = [cmd EXCEPT ![c] = [pc |-> "stopping", user |-> u, sym |-> mgr[m0].sym, n |-> n]]
      BY <3>3
    <3>10. /\ DOMAIN cmd' = Loops /\ Command(cmd'[c]) /\ cmd'[c].pc = "stopping"
           /\ \A k \in Loops \ {c} : cmd'[k] = cmd[k]
      BY <3>8, <3>9 DEF OwnInv, Command
    <3>11. QED
      BY <3>3, <3>4, <3>5, <3>7, <3>10 DEF OwnInv
  <2>3. QED
    BY <1>9, <2>1, <2>2 DEF StopUser
<1>10. QED
  BY <1>1, <1>2, <1>3, <1>4, <1>5, <1>6, <1>7, <1>8, <1>9 DEF LoopStep

\* A shutdown finds nobody within the registry, and forgets the managers it has stopped.
LEMMA ShutdownKeeps == ASSUME SharedAssumption, OwnInv, ShutdownStep PROVE OwnInv'
<1> USE DEF RestSame
<1>0. "free" \notin Loops /\ "shutdown" \notin Loops
  BY DEF SharedAssumption
<1>1. CASE StopAll
  <2>1. /\ regLock = "free" /\ regLock' = "shutdown" /\ UNCHANGED <<managers, mgr, cmd>>
        /\ "pc" \in DOMAIN ending'
    BY <1>1 DEF StopAll, OwnInv
  <2>2. QED
    BY <1>0, <2>1 DEF OwnInv
<1>2. ASSUME NEW u \in ShUsers, StopsManager(u) PROVE OwnInv'
  <2> DEFINE m0 == managers[u]
  <2>1. /\ m0 # NoMgr /\ mgr' = [mgr EXCEPT ![m0].stopped = TRUE] /\ ending.pc = "managers"
        /\ UNCHANGED <<managers, regLock, cmd>>
        /\ ending' = [ending EXCEPT !.pc = "manager", !.sym = mgr[m0].sym, !.n = Left(mgr[m0].sym)]
    BY <1>2 DEF StopsManager
  <2>2. m0 \in MgrIds /\ mgr' = [mgr EXCEPT ![m0] = [mgr[m0] EXCEPT !.stopped = TRUE]]
    BY <2>1 DEF OwnInv
  <2>3. [mgr[m0] EXCEPT !.stopped = TRUE] \in Manager
        /\ [mgr[m0] EXCEPT !.stopped = TRUE].stopped
        /\ [mgr[m0] EXCEPT !.stopped = TRUE].user = mgr[m0].user
    BY <2>2, StoppedManager DEF OwnInv
  <2>4. /\ mgr' \in [MgrIds -> Manager]
        /\ \A m \in MgrIds : mgr'[m].user = mgr[m].user /\ (mgr[m].stopped => mgr'[m].stopped)
    BY <2>2, <2>3 DEF OwnInv
  <2>5. "pc" \in DOMAIN ending' /\ ending'.pc = "manager"
    BY <2>1 DEF OwnInv
  <2>6. QED
    BY <2>1, <2>4, <2>5 DEF OwnInv
<1>3. CASE ManagersGone
  <2>1. /\ ending.pc = "managers" /\ \A u \in ShUsers : managers[u] # NoMgr => mgr[managers[u]].stopped
        /\ ending' = [ending EXCEPT !.pc = "services", !.todo = initialized]
        /\ managers' = [u \in ShUsers |-> NoMgr] /\ regLock' = "free" /\ UNCHANGED <<mgr, cmd>>
    BY <1>3 DEF ManagersGone
  <2>2. "pc" \in DOMAIN ending' /\ ending'.pc \notin {"managers", "manager"}
    BY <2>1 DEF OwnInv
  <2>3. \A m \in MgrIds : mgr[m].stopped
    BY <2>1 DEF OwnInv, NoMgr, MgrIds
  <2>4. \A c \in Loops : cmd[c].pc \notin {"replaced", "create", "created", "stopping"}
    BY <1>0, <2>1 DEF OwnInv
  <2>5. QED
    BY <2>1, <2>2, <2>3, <2>4 DEF OwnInv
<1>4. ASSUME NEW s \in ShSymbols, StopsServices(s) PROVE OwnInv'
  <2>1. ending'.pc = "service" /\ "pc" \in DOMAIN ending' /\ UNCHANGED <<managers, mgr, regLock, cmd>>
    BY <1>4 DEF StopsServices
  <2>2. QED
    BY <2>1 DEF OwnInv
<1>5. CASE Unsubscribed
  <2>1. /\ ending'.pc \in {"managers", "manager"} => ending.pc \in {"managers", "manager"}
        /\ "pc" \in DOMAIN ending' /\ UNCHANGED <<managers, mgr, regLock, cmd>>
    BY <1>5 DEF Unsubscribed, OwnInv
  <2>2. QED
    BY <2>1 DEF OwnInv
<1>6. QED
  BY <1>1, <1>2, <1>3, <1>4, <1>5 DEF ShutdownStep

LEMMA OwnSteps == ASSUME SharedAssumption, OwnInv, [SharedNext]_shVars PROVE OwnInv'
<1>1. ASSUME NEW c \in Loops, LoopStep(c) PROVE OwnInv'
  BY <1>1, LoopSteps
<1>2. CASE Reboot
  <2>1. \A m \in MgrIds : [mgr[m] EXCEPT !.stopped = TRUE] \in Manager /\ [mgr[m] EXCEPT !.stopped = TRUE].stopped
    BY StoppedManager DEF OwnInv
  <2>2. mgr' \in [MgrIds -> Manager] /\ \A m \in MgrIds : mgr'[m].stopped
    BY <1>2, <2>1 DEF Reboot
  <2>3. /\ managers' \in [ShUsers -> {NoMgr} \cup MgrIds] /\ cmd' = [c \in Loops |-> NoCmd]
        /\ "pc" \in DOMAIN ending' /\ ending'.pc = "none"
    BY <1>2 DEF Reboot, NoEnd
  <2>4. QED
    BY <2>2, <2>3 DEF OwnInv, Command, NoCmd
<1>3. CASE UNCHANGED <<managers, mgr, regLock, cmd>> /\ ending' = ending
  BY <1>3 DEF OwnInv
<1>4. CASE ShutdownStep
  BY <1>4, ShutdownKeeps
<1>5. QED
  BY <1>1, <1>2, <1>3, <1>4
     DEF SharedNext, shVars, ClearReads, ClearRemoves, ClearEnds, CleanServices, CleanRemoves,
         CleanEnds, RecoverActiveSymbols, ThreadSame, ServicesSame

\* A user's signals are acted on by at most one manager that has not been stopped, and by
\* the registered one, for any users, symbols, managers and restarts, although two consumers
\* may both have found the user not running.
THEOREM ManagerOwned == SharedSpec => []OneLiveManager
<1>1. SharedInit => OwnInv
  BY OwnInitially, SharedAssumption
<1>2. OwnInv /\ [SharedNext]_shVars => OwnInv'
  BY OwnSteps, SharedAssumption
<1>3. OwnInv => OneLiveManager
  BY DEF OwnInv, OneLiveManager
<1>4. QED
  BY <1>1, <1>2, <1>3, PTL DEF SharedSpec

-----------------------------------------------------------------------------
(* SharedWorker: types.                                                    *)

\* A cleanup that is awake, and the end of the process, whatever count they carry.
Cleaner(r) == r = [pc |-> r.pc, sym |-> r.sym, n |-> r.n] /\ r.sym \in ShSymbols \cup {NoSym}
Ending(r)  == /\ r = [pc |-> r.pc, todo |-> r.todo, sym |-> r.sym, n |-> r.n]
              /\ r.todo \subseteq ShSymbols

CountTypes ==
  /\ subscribed \in [ShUsers \cup {System} -> SUBSET ShSymbols]
  /\ count \in [ShSymbols -> Int]
  /\ active \subseteq ShSymbols

ServiceTypes ==
  /\ initialized \subseteq ShSymbols /\ cleaning \subseteq ShSymbols
  /\ Cleaner(cleaner) /\ Ending(ending)
  /\ recovering.total \in [ShSymbols -> Int]

\* A command in hand and a registered manager have a symbol.
OwnerTypes ==
  /\ regLock \in Loops \cup {"free", "shutdown"}
  /\ \A c \in Loops : cmd[c].pc # "idle" => cmd[c].sym \in ShSymbols
  /\ \A u \in ShUsers : managers[u] # NoMgr => mgr[managers[u]].sym \in ShSymbols

ShTypes == CountTypes /\ ServiceTypes /\ OwnerTypes

LEMMA ShTypesInitially == ASSUME SharedAssumption, SharedInit PROVE ShTypes
  BY SMT DEF SharedAssumption, SharedInit, ShTypes, CountTypes, ServiceTypes, OwnerTypes,
             NoCounts, NoCmd, NoClean, NoEnd, Cleaner, Ending

\* The two steps of add_subscriber and of remove_subscriber.
LEMMA CountsTyped ==
  ASSUME CountTypes, NEW u, NEW s, NEW n,
         \/ CountsSame
         \/ s \in ShSymbols /\ Adds(u, s) /\ active' = active
         \/ s \in ShSymbols /\ Activates(s, n) /\ UNCHANGED <<subscribed, count>>
         \/ Removes(u, s) /\ active' = active
         \/ Deactivates(s, n) /\ UNCHANGED subscribed
  PROVE  CountTypes'
<1>1. CASE CountsSame
  BY <1>1 DEF CountsSame, CountTypes
<1>2. CASE s \in ShSymbols /\ Adds(u, s) /\ active' = active
  <2>1. /\ subscribed' = [subscribed EXCEPT ![u] = subscribed[u] \cup {s}]
        /\ count' = [count EXCEPT ![s] = count[s] + 1]
    BY <1>2 DEF Adds
  <2>2. subscribed' \in [ShUsers \cup {System} -> SUBSET ShSymbols]
    BY <1>2, <2>1 DEF CountTypes
  <2>3. count' \in [ShSymbols -> Int]
    BY <1>2, <2>1 DEF CountTypes
  <2>4. QED
    BY <1>2, <2>2, <2>3 DEF CountTypes
<1>3. CASE s \in ShSymbols /\ Activates(s, n) /\ UNCHANGED <<subscribed, count>>
  BY <1>3 DEF Activates, CountTypes
<1>4. CASE Removes(u, s) /\ active' = active
  <2>1. /\ subscribed' = [subscribed EXCEPT ![u] = subscribed[u] \ {s}]
        /\ count' = [count EXCEPT ![s] = count[s] - 1]
    BY <1>4 DEF Removes
  <2>2. subscribed' \in [ShUsers \cup {System} -> SUBSET ShSymbols]
    BY <2>1 DEF CountTypes
  <2>3. count' \in [ShSymbols -> Int]
    <3>1. DOMAIN count' = ShSymbols /\ \A x \in ShSymbols : count'[x] = count[x] - 1 \/ count'[x] = count[x]
      BY <2>1 DEF CountTypes
    <3>2. \A x \in ShSymbols : count'[x] \in Int
      BY <3>1 DEF CountTypes
    <3>3. count' = [x \in ShSymbols |-> count'[x]]
      BY <2>1 DEF CountTypes
    <3>4. QED
      BY <3>2, <3>3
  <2>4. QED
    BY <1>4, <2>2, <2>3 DEF CountTypes
<1>5. CASE Deactivates(s, n) /\ UNCHANGED subscribed
  <2>1. count' = [count EXCEPT ![s] = 0] \/ count' = count
    BY <1>5 DEF Deactivates
  <2>2. active' \subseteq active /\ subscribed' = subscribed
    BY <1>5 DEF Deactivates
  <2>3. QED
    BY <2>1, <2>2 DEF CountTypes
<1>6. QED
  BY <1>1, <1>2, <1>3, <1>4, <1>5

\* What a consumer does to the managers keeps their symbols, but for the one it creates.
LEMMA OwnersTyped ==
  ASSUME OwnInv, OwnerTypes, NEW c \in Loops,
         \A k \in Loops \ {c} : cmd'[k] = cmd[k],
         cmd'[c].pc # "idle" => cmd'[c].sym \in ShSymbols,
         regLock' \in Loops \cup {"free", "shutdown"},
         \/ UNCHANGED <<managers, mgr>>
         \/ /\ \E m \in MgrIds : mgr' = [mgr EXCEPT ![m].stopped = TRUE]
            /\ managers' = managers \/ \E u \in ShUsers : managers' = [managers EXCEPT ![u] = NoMgr]
  PROVE  OwnerTypes'
<1>1. \A m \in MgrIds : mgr[m] \in Manager
  BY DEF OwnInv
<1>2. \A m \in MgrIds : mgr'[m].sym = mgr[m].sym
  <2>1. CASE mgr' = mgr
    BY <2>1
  <2>2. CASE \E m \in MgrIds : mgr' = [mgr EXCEPT ![m].stopped = TRUE]
    <3>1. PICK m \in MgrIds : mgr' = [mgr EXCEPT ![m].stopped = TRUE]
      BY <2>2
    <3>2. mgr' = [mgr EXCEPT ![m] = [mgr[m] EXCEPT !.stopped = TRUE]] /\ mgr \in [MgrIds -> Manager]
      BY <3>1 DEF OwnInv
    <3>3. [mgr[m] EXCEPT !.stopped = TRUE].sym = mgr[m].sym
      BY <1>1 DEF Manager
    <3>4. QED
      BY <3>2, <3>3
  <2>3. QED
    BY <2>1, <2>2
<1>3. \A u \in ShUsers : managers'[u] # NoMgr => managers'[u] = managers[u] /\ managers[u] \in MgrIds
  BY DEF OwnInv
<1>4. \A u \in ShUsers : managers'[u] # NoMgr => mgr'[managers'[u]].sym \in ShSymbols
  BY <1>2, <1>3 DEF OwnerTypes
<1>5. QED
  BY <1>4 DEF OwnerTypes

\* The consumer that moves keeps its command's symbol.
LEMMA SymbolKept ==
  ASSUME OwnInv, OwnerTypes, NEW c \in Loops, NEW from, NEW to,
         Step(c, from, to) \/ \E n : Counts(c, from, to, n), from # "idle"
  PROVE  /\ \A k \in Loops \ {c} : cmd'[k] = cmd[k]
         /\ cmd'[c].sym = cmd[c].sym /\ cmd[c].sym \in ShSymbols
<1>1. Command(cmd[c]) /\ DOMAIN cmd = Loops
  BY DEF OwnInv
<1>2. cmd[c].pc = from
  BY DEF Step, Counts
<1>3. CASE Step(c, from, to)
  BY <1>1, <1>2, <1>3 DEF Step, Command, OwnerTypes
<1>4. CASE \E n : Counts(c, from, to, n)
  BY <1>1, <1>2, <1>4 DEF Counts, Command, OwnerTypes
<1>5. QED
  BY <1>3, <1>4

LEMMA LoopTypes ==
  ASSUME SharedAssumption, OwnInv, ShTypes, NEW c \in Loops, LoopStep(c)
  PROVE  ShTypes'
<1> USE DEF ServicesSame, UsersSame
<1> DEFINE s == cmd[c].sym   u == cmd[c].user
<1>0. /\ CountTypes /\ ServiceTypes /\ OwnerTypes
      /\ regLock \in Loops \cup {"free", "shutdown"}
      /\ cmd[c].pc # "idle" => s \in ShSymbols /\ u \in ShUsers
  BY DEF ShTypes, OwnerTypes, OwnInv, Command
<1>a. /\ UNCHANGED <<initialized, cleaning, cleaner, ending, recovering>> => ServiceTypes'
      /\ UNCHANGED <<managers, mgr, regLock, cmd>> => OwnerTypes'
  BY <1>0 DEF ServiceTypes, OwnerTypes
<1>1. ASSUME NEW v \in ShUsers, NEW x \in ShSymbols, StartUser(c, v, x) PROVE ShTypes'
  <2>1. /\ cmd' = [cmd EXCEPT ![c] = [pc |-> "ensure", user |-> v, sym |-> x, n |-> 0]]
        /\ CountsSame /\ UNCHANGED <<managers, mgr, regLock>> /\ ServicesSame
    BY <1>1 DEF StartUser
  <2>2. (\A k \in Loops \ {c} : cmd'[k] = cmd[k]) /\ cmd'[c].sym = x
    BY <2>1 DEF OwnInv
  <2>3. OwnerTypes'
    BY <1>0, <2>1, <2>2, OwnersTyped
  <2>4. QED
    BY <1>0, <1>a, <2>1, <2>3, CountsTyped DEF ShTypes
<1>2. CASE EnsureSymbolServices(c)
  <2>2. /\ \A k \in Loops \ {c} : cmd'[k] = cmd[k]
        /\ cmd'[c].sym = s /\ s \in ShSymbols
    <3>1. CASE Step(c, "ensure", "register")
      BY <1>0, <3>1, SymbolKept
    <3>2. CASE Step(c, "ensure", "add")
      BY <1>0, <3>2, SymbolKept
    <3>3. QED
      BY <1>2, <3>1, <3>2 DEF EnsureSymbolServices
  <2>3. /\ CountsSame /\ initialized' = initialized \cup {s}
        /\ UNCHANGED <<managers, mgr, regLock, cleaning, cleaner, ending, recovering>>
    BY <1>2 DEF EnsureSymbolServices
  <2>4. OwnerTypes' /\ ServiceTypes'
    BY <1>0, <2>2, <2>3, OwnersTyped DEF ServiceTypes
  <2>5. QED
    BY <1>0, <2>3, <2>4, CountsTyped DEF ShTypes
<1>3. CASE AddsSystem(c) \/ Ensured(c) \/ Inserted(c) \/ Stopping(c)
  <2>1. /\ UNCHANGED <<managers, mgr>> /\ ServicesSame
        /\ regLock' = regLock \/ regLock' = "free"
    BY <1>3 DEF AddsSystem, Ensured, Inserted, Stopping
  <2>2. /\ \A k \in Loops \ {c} : cmd'[k] = cmd[k]
        /\ cmd'[c].pc # "idle" => cmd'[c].sym = s
        /\ s \in ShSymbols
    <3>1. CASE AddsSystem(c)
      <4>1. \E n : Counts(c, "add", "ensured", n)
        BY <3>1 DEF AddsSystem
      <4>2. QED
        BY <1>0, <4>1, SymbolKept
    <3>2. CASE Ensured(c)
      BY <1>0, <3>2, SymbolKept DEF Ensured
    <3>3. CASE Stopping(c)
      BY <1>0, <3>3, SymbolKept DEF Stopping
    <3>4. CASE Inserted(c)
      BY <1>0, <3>4 DEF Inserted, NoCmd, OwnInv
    <3>5. QED
      BY <1>3, <3>1, <3>2, <3>3, <3>4
  <2>3. OwnerTypes'
    BY <1>0, <2>1, <2>2, OwnersTyped
  <2>4. CountTypes'
    <3>1. CASE Adds(System, s) /\ active' = active
      BY <1>0, <2>2, <3>1, CountsTyped
    <3>2. CASE Activates(s, cmd[c].n) /\ UNCHANGED <<subscribed, count>>
      BY <1>0, <2>2, <3>2, CountsTyped
    <3>3. CASE Deactivates(s, cmd[c].n) /\ UNCHANGED subscribed
      BY <1>0, <2>2, <3>3, CountsTyped
    <3>4. QED
      BY <1>3, <3>1, <3>2, <3>3 DEF AddsSystem, Ensured, Inserted, Stopping
  <2>5. QED
    BY <1>a, <2>1, <2>3, <2>4 DEF ShTypes
<1>4. CASE Register(c)
  <2> DEFINE old == managers[u]
  <2>1. cmd[c].pc = "register" /\ regLock' = c /\ managers' = managers /\ ServicesSame
    BY <1>4 DEF Register
  <2>2. CASE old = NoMgr
    <3>1. Step(c, "register", "create") /\ CountsSame /\ mgr' = mgr
      BY <1>4, <2>2 DEF Register
    <3>2. (\A k \in Loops \ {c} : cmd'[k] = cmd[k]) /\ cmd'[c].sym = s /\ s \in ShSymbols
      BY <1>0, <2>1, <3>1, SymbolKept
    <3>3. OwnerTypes'
      BY <1>0, <2>1, <3>1, <3>2, OwnersTyped
    <3>4. QED
      BY <1>0, <1>a, <2>1, <3>1, <3>3, CountsTyped DEF ShTypes
  <2>3. CASE old # NoMgr
    <3>1. /\ \E n : Counts(c, "register", "replaced", n)
          /\ mgr' = [mgr EXCEPT ![old].stopped = TRUE]
          /\ Removes(u, mgr[old].sym) /\ active' = active
      BY <1>4, <2>3 DEF Register
    <3>2. (\A k \in Loops \ {c} : cmd'[k] = cmd[k]) /\ cmd'[c].sym = s /\ s \in ShSymbols
      BY <1>0, <2>1, <3>1, SymbolKept
    <3>3. old \in MgrIds
      BY <1>0, <2>1, <2>3 DEF OwnInv
    <3>4. OwnerTypes'
      BY <1>0, <2>1, <3>1, <3>2, <3>3, OwnersTyped
    <3>5. QED
      BY <1>0, <1>a, <2>1, <3>1, <3>4, CountsTyped DEF ShTypes
  <2>4. QED
    BY <2>2, <2>3
<1>5. CASE Replaced(c)
  <2>1. /\ Step(c, "replaced", "create") /\ UNCHANGED <<managers, mgr, regLock, subscribed>> /\ ServicesSame
        /\ Deactivates(mgr[managers[u]].sym, cmd[c].n)
    BY <1>5 DEF Replaced
  <2>2. (\A k \in Loops \ {c} : cmd'[k] = cmd[k]) /\ cmd'[c].sym = s /\ s \in ShSymbols
    BY <1>0, <2>1, SymbolKept
  <2>3. OwnerTypes'
    BY <1>0, <2>1, <2>2, OwnersTyped
  <2>4. QED
    BY <1>0, <1>a, <2>1, <2>3, CountsTyped DEF ShTypes
<1>6. CASE Create(c)
  <2> DEFINE n == NextMgr   new == [user |-> u, sym |-> s, stopped |-> FALSE]
  <2>1. /\ n \in MgrIds /\ mgr' = [mgr EXCEPT ![n] = new] /\ managers' = [managers EXCEPT ![u] = n]
        /\ regLock' = regLock /\ ServicesSame /\ Adds(u, s) /\ active' = active
        /\ \E k : Counts(c, "create", "created", k)
    BY <1>6 DEF Create
  <2>2. (\A k \in Loops \ {c} : cmd'[k] = cmd[k]) /\ cmd'[c].sym = s /\ s \in ShSymbols
    BY <1>0, <2>1, SymbolKept
  <2>3. u \in ShUsers /\ new.sym = s
    <3>1. cmd[c].pc = "create"
      BY <2>1 DEF Counts
    <3>2. QED
      BY <1>0, <3>1
  <2> HIDE DEF n, new
  <2>4. \A m \in MgrIds : mgr'[m].sym = mgr[m].sym \/ mgr'[m].sym \in ShSymbols
    BY <2>1, <2>2, <2>3 DEF OwnInv
  <2>5. \A v \in ShUsers : managers'[v] # NoMgr => mgr'[managers'[v]].sym \in ShSymbols
    <3>1. mgr'[n].sym \in ShSymbols /\ managers'[u] = n
      BY <2>1, <2>2, <2>3 DEF OwnInv
    <3>2. \A v \in ShUsers \ {u} : managers'[v] = managers[v]
      BY <2>1 DEF OwnInv
    <3>3. \A v \in ShUsers \ {u} : managers[v] # NoMgr => managers[v] \in MgrIds /\ mgr[managers[v]].sym \in ShSymbols
      BY <1>0 DEF OwnerTypes, OwnInv
    <3>4. QED
      BY <2>4, <3>1, <3>2, <3>3
  <2>6. OwnerTypes'
    BY <1>0, <2>1, <2>2, <2>5 DEF OwnerTypes
  <2>7. QED
    BY <1>0, <1>a, <2>1, <2>2, <2>6, CountsTyped DEF ShTypes
<1>7. CASE Stopped(c)
  <2>1. /\ cmd[c].pc = "stopped" /\ cmd' = [cmd EXCEPT ![c] = NoCmd]
        /\ cleaning' = IF count[s] <= 0 THEN cleaning \cup {s} ELSE cleaning
        /\ CountsSame /\ UNCHANGED <<managers, mgr, regLock, initialized, cleaner, ending, recovering>>
    BY <1>7 DEF Stopped
  <2>2. (\A k \in Loops \ {c} : cmd'[k] = cmd[k]) /\ cmd'[c].pc = "idle" /\ s \in ShSymbols
    BY <1>0, <2>1 DEF OwnInv, NoCmd
  <2>3. OwnerTypes' /\ ServiceTypes'
    BY <1>0, <2>1, <2>2, OwnersTyped DEF ServiceTypes
  <2>4. QED
    BY <1>0, <2>1, <2>3, CountsTyped DEF ShTypes
<1>8. ASSUME NEW v \in ShUsers, StopUser(c, v) PROVE ShTypes'
  <2> DEFINE m == managers[v]
  <2>1. ServiceTypes'
    BY <1>8, <1>a DEF StopUser
  <2>2. CASE m = NoMgr
    <3>1. CountsSame /\ UNCHANGED <<cmd, managers, mgr, regLock>>
      BY <1>8, <2>2 DEF StopUser
    <3>2. QED
      BY <1>0, <1>a, <2>1, <3>1, CountsTyped DEF ShTypes
  <2>3. CASE m # NoMgr
    <3>1. /\ cmd' = [cmd EXCEPT ![c] = [pc |-> "stopping", user |-> v, sym |-> mgr[m].sym, n |-> Left(mgr[m].sym)]]
          /\ managers' = [managers EXCEPT ![v] = NoMgr] /\ mgr' = [mgr EXCEPT ![m].stopped = TRUE]
          /\ regLock' = c /\ Removes(v, mgr[m].sym) /\ active' = active
      BY <1>8, <2>3 DEF StopUser
    <3>2. m \in MgrIds /\ mgr[m].sym \in ShSymbols
      BY <1>0, <2>3 DEF OwnInv, OwnerTypes
    <3>3. (\A k \in Loops \ {c} : cmd'[k] = cmd[k]) /\ cmd'[c].sym = mgr[m].sym
      BY <3>1 DEF OwnInv
    <3>4. OwnerTypes'
      BY <1>0, <3>1, <3>2, <3>3, OwnersTyped
    <3>5. QED
      BY <1>0, <2>1, <3>1, <3>4, CountsTyped DEF ShTypes
  <2>4. QED
    BY <2>2, <2>3
<1>9. QED
  BY <1>1, <1>2, <1>3, <1>4, <1>5, <1>6, <1>7, <1>8 DEF LoopStep

\* The threads that are no consumers.
LEMMA ThreadTypes ==
  ASSUME SharedAssumption, OwnInv, ShTypes,
         \/ \E u \in ShUsers : ClearReads(u) \/ ClearRemoves(u) \/ ClearEnds(u)
         \/ \E s \in ShSymbols : CleanServices(s)
         \/ CleanRemoves \/ CleanEnds \/ RecoverActiveSymbols
  PROVE  ShTypes'
<1> USE DEF ThreadSame, ServicesSame
<1>0. CountTypes /\ ServiceTypes /\ OwnerTypes
  BY DEF ShTypes
<1>1. OwnerTypes'
  <2>1. UNCHANGED <<managers, mgr, regLock, cmd>>
    BY DEF ClearReads, ClearRemoves, ClearEnds, CleanServices, CleanRemoves, CleanEnds, RecoverActiveSymbols
  <2>2. QED
    BY <1>0, <2>1 DEF OwnerTypes
<1>2. ASSUME NEW u \in ShUsers, ClearReads(u) \/ ClearRemoves(u) \/ ClearEnds(u) PROVE ShTypes'
  <2>1. ServiceTypes'
    BY <1>0, <1>2 DEF ClearReads, ClearRemoves, ClearEnds, ServiceTypes
  <2>2. CASE ClearReads(u)
    BY <1>0, <1>1, <2>1, <2>2, CountsTyped DEF ClearReads, ShTypes
  <2>3. CASE ClearRemoves(u)
    <3>1. \E s : Removes(u, s) /\ active' = active
      BY <2>3 DEF ClearRemoves
    <3>2. QED
      BY <1>0, <1>1, <2>1, <3>1, CountsTyped DEF ShTypes
  <2>4. CASE ClearEnds(u)
    <3>1. subscribed' = [subscribed EXCEPT ![u] = {}]
      BY <2>4 DEF ClearEnds
    <3>2. UNCHANGED <<count, active>> \/ \E s : Deactivates(s, clearing[u].n)
      BY <2>4 DEF ClearEnds
    <3>3. count' = count \/ \E s : count' = [count EXCEPT ![s] = 0]
      BY <3>2 DEF Deactivates
    <3>4. active' \subseteq active
      BY <3>2 DEF Deactivates
    <3>5. CountTypes'
      BY <1>0, <3>1, <3>3, <3>4 DEF CountTypes
    <3>6. QED
      BY <1>1, <2>1, <3>5 DEF ShTypes
  <2>5. QED
    BY <1>2, <2>2, <2>3, <2>4
<1>3. ASSUME NEW s \in ShSymbols, CleanServices(s) PROVE ShTypes'
  <2>1. /\ CountsSame /\ UNCHANGED <<initialized, ending, recovering>> /\ cleaning' = cleaning \ {s}
        /\ cleaner' = [pc |-> "stopping", sym |-> s, n |-> 0] \/ cleaner' = cleaner
    BY <1>3 DEF CleanServices
  <2>2. Cleaner([pc |-> "stopping", sym |-> s, n |-> 0])
    BY DEF Cleaner
  <2>3. ServiceTypes'
    BY <1>0, <2>1, <2>2 DEF ServiceTypes
  <2>4. QED
    BY <1>0, <1>1, <2>1, <2>3, CountsTyped DEF ShTypes
<1>4. CASE CleanRemoves
  <2>1. /\ cleaner' = [pc |-> "removed", sym |-> cleaner.sym, n |-> Left(cleaner.sym)]
        /\ initialized' = initialized \ {cleaner.sym} /\ UNCHANGED <<cleaning, ending, recovering>>
        /\ Removes(System, cleaner.sym) /\ active' = active
    BY <1>4 DEF CleanRemoves
  <2>2. ServiceTypes'
    BY <1>0, <2>1 DEF ServiceTypes, Cleaner
  <2>3. QED
    BY <1>0, <1>1, <2>1, <2>2, CountsTyped DEF ShTypes
<1>5. CASE CleanEnds
  <2>1. /\ cleaner' = NoClean /\ UNCHANGED <<initialized, cleaning, ending, recovering>>
        /\ Deactivates(cleaner.sym, cleaner.n) /\ UNCHANGED subscribed
    BY <1>5 DEF CleanEnds
  <2>2. ServiceTypes'
    BY <1>0, <2>1 DEF ServiceTypes, Cleaner, NoClean
  <2>3. QED
    BY <1>0, <1>1, <2>1, <2>2, CountsTyped DEF ShTypes
<1>6. CASE RecoverActiveSymbols
  <2>1. /\ count' = [s \in ShSymbols |-> IF recovering.total[s] > 0 THEN recovering.total[s] ELSE count[s]]
        /\ active' = active \cup {s \in ShSymbols : recovering.total[s] > 0}
        /\ recovering' = [on |-> FALSE, total |-> NoCounts]
        /\ UNCHANGED <<subscribed, initialized, cleaning, cleaner, ending>>
    BY <1>6 DEF RecoverActiveSymbols
  <2>2. CountTypes'
    BY <1>0, <2>1 DEF CountTypes, ServiceTypes
  <2>3. ServiceTypes'
    BY <1>0, <2>1 DEF ServiceTypes, NoCounts
  <2>4. QED
    BY <1>1, <2>2, <2>3 DEF ShTypes
<1>7. QED
  BY <1>2, <1>3, <1>4, <1>5, <1>6

\* A shutdown and a restart.
LEMMA EndTypes ==
  ASSUME SharedAssumption, OwnInv, ShTypes, ShutdownStep \/ Reboot
  PROVE  ShTypes'
<1> USE DEF RestSame
<1>0. CountTypes /\ ServiceTypes /\ OwnerTypes
  BY DEF ShTypes
<1>a. \A m \in MgrIds : mgr[m] \in Manager
  BY DEF OwnInv
<1>1. CASE StopAll \/ ManagersGone
  <2>1. /\ CountsSame /\ regLock' \in {"free", "shutdown"} /\ mgr' = mgr
        /\ managers' = managers \/ managers' = [u \in ShUsers |-> NoMgr]
        /\ UNCHANGED <<cmd, initialized, cleaning, cleaner, recovering>>
    BY <1>1 DEF StopAll, ManagersGone
  <2>2. \/ ending' = [ending EXCEPT !.pc = "managers"]
        \/ ending' = [ending EXCEPT !.pc = "services", !.todo = initialized]
    BY <1>1 DEF StopAll, ManagersGone
  <2>3. Ending(ending')
    BY <1>0, <2>2 DEF Ending, ServiceTypes
  <2>4. ServiceTypes' /\ OwnerTypes'
    BY <1>0, <2>1, <2>3 DEF ServiceTypes, OwnerTypes
  <2>5. QED
    BY <1>0, <2>1, <2>4, CountsTyped DEF ShTypes
<1>2. ASSUME NEW u \in ShUsers, StopsManager(u) PROVE ShTypes'
  <2> DEFINE m == managers[u]
  <2>1. /\ m # NoMgr /\ mgr' = [mgr EXCEPT ![m].stopped = TRUE]
        /\ Removes(u, mgr[m].sym) /\ active' = active /\ UNCHANGED <<managers, regLock>> /\ RestSame
        /\ ending' = [ending EXCEPT !.pc = "manager", !.sym = mgr[m].sym, !.n = Left(mgr[m].sym)]
    BY <1>2 DEF StopsManager
  <2>2. Ending(ending')
    BY <1>0, <2>1 DEF Ending, ServiceTypes
  <2>3. ServiceTypes'
    BY <1>0, <2>1, <2>2 DEF ServiceTypes
  <2>4. m \in MgrIds /\ mgr' = [mgr EXCEPT ![m] = [mgr[m] EXCEPT !.stopped = TRUE]]
    BY <2>1 DEF OwnInv
  <2>5. [mgr[m] EXCEPT !.stopped = TRUE].sym = mgr[m].sym
    BY <1>a, <2>4 DEF Manager
  <2>6. \A k \in MgrIds : mgr'[k].sym = mgr[k].sym
    BY <2>4, <2>5 DEF OwnInv
  <2>7. OwnerTypes'
    BY <1>0, <2>1, <2>6 DEF OwnerTypes, OwnInv
  <2>8. QED
    BY <1>0, <2>1, <2>3, <2>7, CountsTyped DEF ShTypes
<1>3. ASSUME NEW s \in ShSymbols, StopsServices(s) PROVE ShTypes'
  <2>1. /\ ending' = [pc |-> "service", todo |-> ending.todo \ {s}, sym |-> s, n |-> Left(s)]
        /\ Removes(System, s) /\ UNCHANGED <<active, managers, mgr, regLock>> /\ RestSame
    BY <1>3 DEF StopsServices
  <2>2. Ending(ending')
    BY <1>0, <2>1 DEF Ending, ServiceTypes
  <2>3. ServiceTypes' /\ OwnerTypes'
    BY <1>0, <2>1, <2>2 DEF ServiceTypes, OwnerTypes
  <2>4. QED
    BY <1>0, <2>1, <2>3, CountsTyped DEF ShTypes
<1>4. CASE Unsubscribed
  <2>1. /\ ending' = [ending EXCEPT !.pc = "managers"] \/ ending' = [ending EXCEPT !.pc = "services"]
        /\ Deactivates(ending.sym, ending.n) /\ UNCHANGED <<subscribed, managers, mgr, regLock>> /\ RestSame
    BY <1>4 DEF Unsubscribed
  <2>2. Ending(ending')
    BY <1>0, <2>1 DEF Ending, ServiceTypes
  <2>3. ServiceTypes' /\ OwnerTypes'
    BY <1>0, <2>1, <2>2 DEF ServiceTypes, OwnerTypes
  <2>4. QED
    BY <1>0, <2>1, <2>3, CountsTyped DEF ShTypes
<1>5. CASE Reboot
  <2> DEFINE subs(s) == Cardinality({u \in DOMAIN subscribed : s \in subscribed[u]})
  <2>1. /\ initialized' = {} /\ cleaning' = {} /\ cleaner' = NoClean /\ ending' = NoEnd /\ active' = {}
        /\ managers' = [u \in ShUsers |-> NoMgr] /\ cmd' = [c \in Loops |-> NoCmd] /\ regLock' = "free"
        /\ recovering' = [on |-> TRUE, total |-> [s \in ShSymbols |-> subs(s)]]
        /\ UNCHANGED <<subscribed, count>>
    BY <1>5 DEF Reboot
  <2>2. \A s \in ShSymbols : subs(s) \in Int
    <3>1. IsFiniteSet(ShUsers \cup {System}) /\ DOMAIN subscribed = ShUsers \cup {System}
      BY <1>0, FS_AddElement DEF CountTypes, SharedAssumption
    <3>2. QED
      BY <3>1, FS_Subset, FS_CardinalityType
  <2>3. ServiceTypes'
    <3>1. [s \in ShSymbols |-> subs(s)] \in [ShSymbols -> Int]
      BY <2>2
    <3>2. QED
      BY <2>1, <3>1 DEF ServiceTypes, Cleaner, Ending, NoClean, NoEnd
  <2>4. CountTypes' /\ OwnerTypes'
    BY <1>0, <2>1 DEF CountTypes, OwnerTypes, NoCmd
  <2>5. QED
    BY <2>3, <2>4 DEF ShTypes
<1>6. QED
  BY <1>1, <1>2, <1>3, <1>4, <1>5 DEF ShutdownStep

LEMMA ShTypesSteps ==
  ASSUME SharedAssumption, OwnInv, ShTypes, [SharedNext]_shVars
  PROVE  ShTypes'
<1>1. CASE UNCHANGED shVars
  BY <1>1 DEF shVars, ShTypes, CountTypes, ServiceTypes, OwnerTypes
<1>2. QED
  BY <1>1, LoopTypes, ThreadTypes, EndTypes DEF SharedNext

LEMMA SharedTyped == ASSUME OwnInv, ShTypes PROVE SharedTypeOK
  BY DEF SharedTypeOK, OwnInv, ShTypes, CountTypes, ServiceTypes, OwnerTypes, Cleaner, Ending

-----------------------------------------------------------------------------
(* UserExecution.                                                          *)

Days == 1..MaxDays + 1
Exec == [mode : Modes, pc : {"none", "idle", "checking", "routing", "recording", "pushing", "pushed", "ended"},
         stopped : BOOLEAN, paused : BOOLEAN, inbox : Int, held : BOOLEAN,
         trades : 0..MaxTrades, date : Nat, asked : Nat, push : BOOLEAN]

\* A manager's entries of the day its count is of are covered by the count, up to the one
\* about to be recorded, which the check has left room for; of later days it has none.
Capped(r, e) ==
  /\ r \in Exec /\ r.date <= day.date
  /\ r.pc = "none" => r.date = 0
  /\ r.pc \in {"routing", "recording"} => r.date \in Days /\ r.asked = r.date /\ r.trades < MaxTrades
  /\ e \in [Days -> 0..MaxTrades]
  /\ \A d \in Days : /\ d > r.date => e[d] = 0
                     /\ d = r.date => e[d] <= IF r.pc = "recording" THEN r.trades + 1 ELSE r.trades

CapInv ==
  /\ day \in [date : Days, open : BOOLEAN]
  /\ manager \in {NoExec} \cup ExecIds
  /\ exec \in [ExecIds -> Exec] /\ entries \in [ExecIds -> [Days -> 0..MaxTrades]]
  /\ \A m \in ExecIds : Capped(exec[m], entries[m])

LEMMA CapInitially == ASSUME ExecAssumption, ExecInit PROVE CapInv
<1>0. 0 \in 0..MaxTrades
  BY DEF ExecAssumption
<1>1. NoManager \in Exec /\ NoManager.date = 0 /\ NoManager.pc = "none"
  <2>1. NewExec("PAPER") \in Exec
    BY <1>0 DEF NewExec, Exec, Modes
  <2>2. NewExec("PAPER").date = 0
    BY DEF NewExec
  <2> HIDE DEF NewExec
  <2>3. QED
    BY <2>1, <2>2 DEF NoManager, Exec
<1>2. [d \in Days |-> 0] \in [Days -> 0..MaxTrades] /\ 1 \in Days
  BY ExecAssumption DEF ExecAssumption, Days
<1>3. day = [date |-> 1, open |-> TRUE] /\ exec = [m \in ExecIds |-> NoManager]
      /\ entries = [m \in ExecIds |-> [d \in Days |-> 0]] /\ manager = NoExec
  BY DEF ExecInit, Days
<1>4. Capped(NoManager, [d \in Days |-> 0])
  BY <1>1, <1>2, <1>3 DEF Capped, Days
<1>5. QED
  BY <1>1, <1>2, <1>3, <1>4 DEF CapInv

\* Fields that the count does not depend on may change, and an entry leaves its place.
LEMMA CapKept ==
  ASSUME CapInv, NEW m \in ExecIds, NEW r \in Exec,
         r.date = exec[m].date, r.trades = exec[m].trades, r.asked = exec[m].asked,
         r.pc = exec[m].pc \/ (r.pc \in {"idle", "checking", "pushed", "ended"}
                               /\ exec[m].pc \notin {"none", "recording"})
  PROVE  Capped(r, entries[m])
  BY DEF CapInv, Capped

LEMMA ResetCapped ==
  ASSUME ExecAssumption, CapInv, NEW m \in ExecIds, exec[m].pc \in {"checking", "recording"}
  PROVE  LET r == Reset(exec[m]) IN
         /\ r \in Exec /\ r.date = day.date /\ r.pc = exec[m].pc
         /\ exec[m].pc = "recording" => r.trades < MaxTrades
         /\ \A d \in Days : /\ d > r.date => entries[m][d] = 0
                            /\ d = r.date => entries[m][d] <= IF r.pc = "recording" THEN r.trades + 1 ELSE r.trades
<1>1. exec[m] \in Exec /\ Capped(exec[m], entries[m]) /\ day.date \in Nat
  BY DEF CapInv, Days
<1>2. CASE exec[m].date = day.date
  BY <1>1, <1>2 DEF Reset, Capped
<1>3. CASE exec[m].date # day.date
  <2> DEFINE r == [exec[m] EXCEPT !.date = day.date, !.trades = 0]
  <2>1. Reset(exec[m]) = r
    BY <1>3 DEF Reset
  <2>a. 0 \in 0..MaxTrades /\ 0 < MaxTrades
    BY DEF ExecAssumption
  <2>2. r \in Exec /\ r.date = day.date /\ r.trades = 0 /\ r.pc = exec[m].pc
    BY <1>1, <2>a DEF Exec
  <2>3. \A d \in Days : d >= day.date => entries[m][d] = 0
    BY <1>1, <1>3 DEF Capped, Days, Exec
  <2> HIDE DEF r
  <2>4. QED
    BY <2>1, <2>2, <2>3, <2>a, <1>1 DEF Days
<1>4. QED
  BY <1>2, <1>3

\* Managers of which nothing changes but what the count does not depend on.
LEMMA ExecQuiet ==
  ASSUME CapInv, UNCHANGED <<day, entries>>, manager' \in {NoExec} \cup ExecIds,
         exec' \in [ExecIds -> Exec],
         \A m \in ExecIds : /\ exec'[m].date = exec[m].date /\ exec'[m].trades = exec[m].trades
                            /\ exec'[m].asked = exec[m].asked
                            /\ \/ exec'[m].pc = exec[m].pc
                               \/ /\ exec'[m].pc \in {"idle", "checking", "pushed", "ended"}
                                  /\ exec[m].pc \notin {"none", "recording"}
  PROVE  CapInv'
<1>1. \A m \in ExecIds : Capped(exec'[m], entries[m])
  BY CapKept
<1>2. \A m \in ExecIds : Capped(exec[m], entries[m])'
  BY <1>1 DEF Capped
<1>3. QED
  BY <1>2 DEF CapInv

\* One manager changes so.
LEMMA ExecQuietOne ==
  ASSUME CapInv, UNCHANGED <<day, entries, manager>>, NEW m \in ExecIds, NEW r \in Exec,
         exec' = [exec EXCEPT ![m] = r],
         r.date = exec[m].date, r.trades = exec[m].trades, r.asked = exec[m].asked,
         r.pc = exec[m].pc \/ (r.pc \in {"idle", "checking", "pushed", "ended"}
                               /\ exec[m].pc \notin {"none", "recording"})
  PROVE  CapInv'
<1>1. exec' \in [ExecIds -> Exec] /\ manager' \in {NoExec} \cup ExecIds
  BY DEF CapInv
<1>2. \A k \in ExecIds : exec'[k] = IF k = m THEN r ELSE exec[k]
  BY DEF CapInv
<1>3. QED
  BY <1>1, <1>2, ExecQuiet

\* A halted manager.
LEMMA ExecHalted ==
  ASSUME CapInv, NEW m \in ExecIds
  PROVE  /\ Halted(exec, m) \in [ExecIds -> Exec]
         /\ \A k \in ExecIds : /\ Halted(exec, m)[k].date = exec[k].date
                               /\ Halted(exec, m)[k].trades = exec[k].trades
                               /\ Halted(exec, m)[k].asked = exec[k].asked
                               /\ Halted(exec, m)[k].pc = exec[k].pc
<1> DEFINE r == [exec[m] EXCEPT !.stopped = TRUE, !.paused = TRUE]
<1>1. Halted(exec, m) = [exec EXCEPT ![m] = r]
  BY DEF Halted, CapInv
<1>2. r \in Exec /\ r.date = exec[m].date /\ r.trades = exec[m].trades /\ r.asked = exec[m].asked
      /\ r.pc = exec[m].pc
  BY DEF CapInv, Exec
<1> HIDE DEF r
<1>3. QED
  BY <1>1, <1>2 DEF CapInv

\* A manager that is started has counted nothing and entered nothing.
LEMMA ExecStarts == ASSUME ExecAssumption, CapInv, StartExec PROVE CapInv'
<1> DEFINE old == IF manager = NoExec THEN exec ELSE Halted(exec, manager)
<1>1. PICK m \in ExecIds, mode \in Modes :
        exec[m].pc = "none" /\ exec' = [old EXCEPT ![m] = NewExec(mode)] /\ manager' = m
  BY DEF StartExec
<1>2. UNCHANGED <<day, entries>>
  BY DEF StartExec
<1>3. /\ old \in [ExecIds -> Exec]
      /\ \A k \in ExecIds : /\ old[k].date = exec[k].date /\ old[k].trades = exec[k].trades
                            /\ old[k].asked = exec[k].asked /\ old[k].pc = exec[k].pc
  BY ExecHalted DEF CapInv
<1>4. NewExec(mode) \in Exec /\ NewExec(mode).date = 0 /\ NewExec(mode).pc = "idle"
      /\ NewExec(mode).trades = 0
  <2>1. 0 \in 0..MaxTrades
    BY DEF ExecAssumption
  <2>2. QED
    BY <2>1 DEF NewExec, Exec
<1> HIDE DEF old
<1>5. exec' \in [ExecIds -> Exec] /\ \A k \in ExecIds : exec'[k] = IF k = m THEN NewExec(mode) ELSE old[k]
  BY <1>1, <1>3, <1>4
<1>6. Capped(NewExec(mode), entries[m])
  <2>1. exec[m].date = 0 /\ Capped(exec[m], entries[m]) /\ day.date \in Nat
    BY <1>1 DEF CapInv, Capped, Days
  <2>2. QED
    BY <1>4, <2>1 DEF Capped, Days
<1>7. \A k \in ExecIds \ {m} : Capped(old[k], entries[k])
  BY <1>3, CapKept
<1>8. \A k \in ExecIds : Capped(exec[k], entries[k])'
  BY <1>2, <1>5, <1>6, <1>7 DEF Capped
<1>9. QED
  BY <1>1, <1>2, <1>5, <1>8 DEF CapInv

\* The manager at m becomes r, with entries e: the others are not concerned.
LEMMA ExecChanges ==
  ASSUME CapInv, NEW m \in ExecIds, NEW r, NEW e, UNCHANGED <<day, manager>>,
         Capped(r, e), exec' = [exec EXCEPT ![m] = r], entries' = [entries EXCEPT ![m] = e]
  PROVE  CapInv'
<1>1. r \in Exec /\ e \in [Days -> 0..MaxTrades]
  BY DEF Capped
<1>2. exec' \in [ExecIds -> Exec] /\ entries' \in [ExecIds -> [Days -> 0..MaxTrades]]
  BY <1>1 DEF CapInv
<1>3. \A k \in ExecIds : Capped(exec'[k], entries'[k])
  BY DEF CapInv
<1>4. \A k \in ExecIds : Capped(exec[k], entries[k])'
  BY <1>3 DEF Capped
<1>5. QED
  BY <1>2, <1>4 DEF CapInv

LEMMA CheckSteps == ASSUME ExecAssumption, CapInv, NEW m \in ExecIds, CheckSignal(m) PROVE CapInv'
<1> DEFINE q == Reset(exec[m])
           r == [q EXCEPT !.pc = IF RiskOk(exec[m]) /\ day.open /\ ~Held(m) THEN "routing" ELSE "idle",
                          !.asked = day.date]
<1>1. /\ q \in Exec /\ q.date = day.date
      /\ \A d \in Days : /\ d > q.date => entries[m][d] = 0
                         /\ d = q.date => entries[m][d] <= q.trades
  BY ResetCapped DEF CheckSignal
<1>2. day.date \in Days /\ day.date \in Nat
  BY DEF CapInv, Days
<1>3. /\ r \in Exec /\ r.date = q.date /\ r.trades = q.trades /\ r.asked = day.date
      /\ r.pc \in {"routing", "idle"} /\ (r.pc = "routing" => q.trades < MaxTrades)
  BY <1>1, <1>2 DEF Exec, RiskOk
<1>4. exec' = [exec EXCEPT ![m] = r] /\ UNCHANGED <<day, manager, entries>>
  BY DEF CheckSignal
<1>5. entries[m] \in [Days -> 0..MaxTrades] /\ entries' = [entries EXCEPT ![m] = entries[m]]
  BY <1>4 DEF CapInv
<1> HIDE DEF r, q
<1>6. Capped(r, entries[m])
  BY <1>1, <1>2, <1>3, <1>5 DEF Capped
<1>7. QED
  BY <1>4, <1>5, <1>6, ExecChanges

\* An entry of the day that the count is of, about to be recorded.
LEMMA EntryCapped ==
  ASSUME ExecAssumption, NEW r, r \in Exec, NEW b, Capped(r, b), r.pc = "routing",
         NEW s, s \in Exec, s.date = r.date, s.trades = r.trades, s.asked = r.asked, s.pc = "recording",
         NEW a, a \in [Days -> 0..MaxTrades], \A d \in Days : a[d] = IF d = r.date THEN b[d] + 1 ELSE b[d]
  PROVE  Capped(s, a)
<1>1. b \in [Days -> 0..MaxTrades] /\ r.trades \in Nat /\ r.date \in Days /\ r.asked = r.date /\ r.trades < MaxTrades
  BY DEF Capped, Exec
<1>2. \A d \in Days : (d > s.date => a[d] = 0) /\ (d = s.date => a[d] <= s.trades + 1)
  BY <1>1 DEF Capped, Days
<1>3. s.date <= day.date
  BY DEF Capped
<1>4. QED
  BY <1>1, <1>2, <1>3 DEF Capped

LEMMA RouteSteps == ASSUME ExecAssumption, CapInv, NEW m \in ExecIds, RoutePaper(m) PROVE CapInv'
<1> DEFINE old == exec[m]
           new == [old EXCEPT !.held = TRUE, !.pc = "recording"]
           after == [entries[m] EXCEPT ![old.asked] = @ + 1]
<1>1. /\ old \in Exec /\ old.pc = "routing" /\ Capped(old, entries[m])
  BY DEF CapInv, RoutePaper
<1>2. /\ old.date \in Days /\ old.asked = old.date /\ old.trades < MaxTrades
      /\ entries[m] \in [Days -> 0..MaxTrades] /\ entries[m][old.date] <= old.trades
      /\ old.trades \in Nat /\ MaxTrades \in Nat
  BY <1>1 DEF Capped, Exec, ExecAssumption
<1>3. new \in Exec /\ new.date = old.date /\ new.trades = old.trades /\ new.asked = old.asked /\ new.pc = "recording"
  BY <1>1 DEF Exec
<1>4. exec' = [exec EXCEPT ![m] = new] /\ UNCHANGED <<day, manager>> /\ entries' = [entries EXCEPT ![m] = after]
  BY DEF RoutePaper, CapInv
<1>5. \A d \in Days : after[d] = IF d = old.date THEN entries[m][d] + 1 ELSE entries[m][d]
  BY <1>2
<1>6. after \in [Days -> 0..MaxTrades]
  BY <1>2
<1> HIDE DEF new, after
<1>7. Capped(new, after)
  BY <1>1, <1>2, <1>3, <1>5, <1>6, EntryCapped
<1>8. QED
  BY <1>4, <1>7, ExecChanges

LEMMA RecordSteps == ASSUME ExecAssumption, CapInv, NEW m \in ExecIds, RecordEntry(m) PROVE CapInv'
<1> DEFINE q == Reset(exec[m])
           r == [q EXCEPT !.trades = q.trades + 1, !.pc = "pushing"]
<1>1. /\ q \in Exec /\ q.date = day.date /\ q.trades < MaxTrades
      /\ \A d \in Days : /\ d > q.date => entries[m][d] = 0
                         /\ d = q.date => entries[m][d] <= q.trades + 1
  BY ResetCapped DEF RecordEntry
<1>2. day.date \in Days /\ day.date \in Nat /\ q.trades + 1 \in 0..MaxTrades
  BY <1>1 DEF CapInv, Days, Exec, ExecAssumption
<1>3. r \in Exec /\ r.date = q.date /\ r.trades = q.trades + 1 /\ r.pc = "pushing"
  BY <1>1, <1>2 DEF Exec
<1>4. exec' = [exec EXCEPT ![m] = r] /\ UNCHANGED <<day, manager, entries>>
  BY DEF RecordEntry
<1>5. entries[m] \in [Days -> 0..MaxTrades] /\ entries' = [entries EXCEPT ![m] = entries[m]]
  BY <1>4 DEF CapInv
<1> HIDE DEF r, q
<1>6. Capped(r, entries[m])
  BY <1>1, <1>2, <1>3, <1>5 DEF Capped
<1>7. QED
  BY <1>4, <1>5, <1>6, ExecChanges

\* A later date leaves what was counted where it was.
LEMMA ClockSteps == ASSUME ExecAssumption, CapInv, Clock PROVE CapInv'
<1>1. UNCHANGED <<exec, entries, manager>>
  BY DEF Clock
<1>2. day'.date \in {day.date, day.date + 1} /\ day'.date <= MaxDays + 1 /\ day' \in [date : Nat, open : BOOLEAN]
  <2>1. day.date \in Nat
    BY DEF CapInv, Days
  <2>2. day' = [date |-> day.date, open |-> FALSE] \/ day' = [date |-> day.date + 1, open |-> TRUE]
    BY DEF Clock
  <2>3. day'.date <= MaxDays + 1
    BY DEF Clock
  <2>4. CASE day' = [date |-> day.date, open |-> FALSE]
    BY <2>1, <2>3, <2>4
  <2>5. CASE day' = [date |-> day.date + 1, open |-> TRUE]
    BY <2>1, <2>3, <2>5
  <2>6. QED
    BY <2>2, <2>4, <2>5
<1>3. day' \in [date : Days, open : BOOLEAN] /\ day'.date >= day.date
  BY <1>2 DEF CapInv, Days, ExecAssumption
<1>4. \A m \in ExecIds : Capped(exec[m], entries[m])
  BY DEF CapInv
<1>5. \A m \in ExecIds : Capped(exec[m], entries[m])'
  BY <1>1, <1>3, <1>4 DEF Capped, CapInv, Days, Exec
<1>6. QED
  BY <1>1, <1>3, <1>5 DEF CapInv

LEMMA InboxMoves ==
  ASSUME NEW r \in Exec, NEW n \in Int,
         NEW pc \in {"none", "idle", "checking", "routing", "recording", "pushing", "pushed", "ended"}
  PROVE  LET s == [r EXCEPT !.inbox = n, !.pc = pc] IN
         s \in Exec /\ s.date = r.date /\ s.trades = r.trades /\ s.asked = r.asked /\ s.pc = pc
  BY DEF Exec

\* What a signal's way through the thread changes besides.
LEMMA ThreadQuiet ==
  ASSUME CapInv, NEW m \in ExecIds,
         EndThread(m) \/ TakeSignal(m) \/ RouteOther(m) \/ ReadForPush(m) \/ WritePush(m) \/ Resume(m)
  PROVE  CapInv'
<1>1. exec[m] \in Exec
  BY DEF CapInv
<1>2. CASE EndThread(m)
  <2> DEFINE r == [exec[m] EXCEPT !.inbox = 0, !.pc = "ended"]
  <2>1. exec' = [exec EXCEPT ![m] = r] /\ UNCHANGED <<day, entries, manager>> /\ exec[m].pc = "idle"
    BY <1>2 DEF EndThread, CapInv
  <2>2. r \in Exec /\ r.date = exec[m].date /\ r.trades = exec[m].trades /\ r.asked = exec[m].asked /\ r.pc = "ended"
    <3>1. 0 \in Int /\ "ended" \in {"none", "idle", "checking", "routing", "recording", "pushing", "pushed", "ended"}
      OBVIOUS
    <3>2. QED
      BY <1>1, <3>1, InboxMoves, Zenon
  <2> HIDE DEF r
  <2>3. QED
    BY <2>1, <2>2, ExecQuietOne
<1>3. CASE TakeSignal(m)
  <2>1. PICK pc \in {"idle", "checking"} :
          exec' = [exec EXCEPT ![m] = [exec[m] EXCEPT !.inbox = exec[m].inbox - 1, !.pc = pc]]
    <3>1. PICK wanted \in BOOLEAN :
            exec' = [exec EXCEPT ![m].inbox = @ - 1,
                                 ![m].pc = IF exec[m].paused \/ ~wanted THEN "idle" ELSE "checking"]
      BY <1>3 DEF TakeSignal
    <3>2. QED
      BY <3>1 DEF CapInv
  <2> DEFINE r == [exec[m] EXCEPT !.inbox = exec[m].inbox - 1, !.pc = pc]
  <2>2. UNCHANGED <<day, entries, manager>> /\ exec[m].pc = "idle"
    BY <1>3 DEF TakeSignal
  <2>3. r \in Exec /\ r.date = exec[m].date /\ r.trades = exec[m].trades /\ r.asked = exec[m].asked /\ r.pc = pc
    <3>1. exec[m].inbox - 1 \in Int
      BY <1>1 DEF Exec
    <3>2. QED
      BY <1>1, <3>1 DEF Exec
  <2>4. exec' = [exec EXCEPT ![m] = r]
    BY <2>1
  <2> HIDE DEF r
  <2>5. QED
    BY <2>2, <2>3, <2>4, ExecQuietOne
<1>4. CASE RouteOther(m)
  <2> DEFINE r == [exec[m] EXCEPT !.pc = "idle"]
  <2>1. exec' = [exec EXCEPT ![m] = r] /\ UNCHANGED <<day, entries, manager>> /\ exec[m].pc = "routing"
    BY <1>4 DEF RouteOther, CapInv
  <2>2. r \in Exec /\ r.date = exec[m].date /\ r.trades = exec[m].trades /\ r.asked = exec[m].asked /\ r.pc = "idle"
    BY <1>1 DEF Exec
  <2> HIDE DEF r
  <2>3. QED
    BY <2>1, <2>2, ExecQuietOne
<1>5. CASE ReadForPush(m)
  <2> DEFINE r == [exec[m] EXCEPT !.push = Held(m), !.pc = "pushed"]
  <2>1. exec' = [exec EXCEPT ![m] = r] /\ UNCHANGED <<day, entries, manager>> /\ exec[m].pc = "pushing"
    BY <1>5 DEF ReadForPush, CapInv
  <2>2. r \in Exec /\ r.date = exec[m].date /\ r.trades = exec[m].trades /\ r.asked = exec[m].asked /\ r.pc = "pushed"
    BY <1>1 DEF Exec, Held
  <2> HIDE DEF r
  <2>3. QED
    BY <2>1, <2>2, ExecQuietOne
<1>6. CASE WritePush(m)
  <2> DEFINE r == [exec[m] EXCEPT !.pc = "idle", !.push = FALSE]
  <2>1. exec' = [exec EXCEPT ![m] = r] /\ UNCHANGED <<day, entries, manager>> /\ exec[m].pc = "pushed"
    BY <1>6 DEF WritePush, CapInv
  <2>2. r \in Exec /\ r.date = exec[m].date /\ r.trades = exec[m].trades /\ r.asked = exec[m].asked /\ r.pc = "idle"
    BY <1>1 DEF Exec
  <2> HIDE DEF r
  <2>3. QED
    BY <2>1, <2>2, ExecQuietOne
<1>7. CASE Resume(m)
  <2> DEFINE r == [exec[m] EXCEPT !.paused = FALSE]
  <2>1. exec' = [exec EXCEPT ![m] = r] /\ UNCHANGED <<day, entries, manager>>
    BY <1>7 DEF Resume, CommandSame, CapInv
  <2>2. r \in Exec /\ r.date = exec[m].date /\ r.trades = exec[m].trades /\ r.asked = exec[m].asked /\ r.pc = exec[m].pc
    BY <1>1 DEF Exec
  <2> HIDE DEF r
  <2>3. QED
    BY <2>1, <2>2, ExecQuietOne
<1>8. QED
  BY <1>2, <1>3, <1>4, <1>5, <1>6, <1>7

\* Commands that come to the registered manager, and signals that come to all.
LEMMA CommandQuiet ==
  ASSUME CapInv, StopExec \/ PublishSignal \/ Squareoff \/ Pause
  PROVE  CapInv'
<1>1. CASE StopExec
  <2>1. manager \in ExecIds /\ exec' = Halted(exec, manager) /\ manager' = NoExec /\ UNCHANGED <<day, entries>>
    BY <1>1 DEF StopExec, CapInv
  <2>2. QED
    BY <2>1, ExecHalted, ExecQuiet
<1>2. CASE PublishSignal
  <2>1. ASSUME NEW m \in ExecIds
        PROVE  LET r == [exec[m] EXCEPT !.inbox = exec[m].inbox + 1] IN
               /\ r \in Exec /\ r.date = exec[m].date /\ r.trades = exec[m].trades
               /\ r.asked = exec[m].asked /\ r.pc = exec[m].pc
    <3>1. exec[m] \in Exec
      BY DEF CapInv
    <3>2. exec[m].inbox + 1 \in Int
      BY <3>1 DEF Exec
    <3>3. QED
      BY <3>1, <3>2 DEF Exec
  <2>2. exec' = [m \in ExecIds |-> IF exec[m].pc \in {"none", "ended"} THEN exec[m]
                                   ELSE [exec[m] EXCEPT !.inbox = exec[m].inbox + 1]]
    BY <1>2 DEF PublishSignal
  <2>3. UNCHANGED <<day, entries, manager>>
    BY <1>2 DEF PublishSignal
  <2>4. exec' \in [ExecIds -> Exec] /\ manager' \in {NoExec} \cup ExecIds
    BY <2>1, <2>2, <2>3 DEF CapInv
  <2>5. \A m \in ExecIds : /\ exec'[m].date = exec[m].date /\ exec'[m].trades = exec[m].trades
                           /\ exec'[m].asked = exec[m].asked /\ exec'[m].pc = exec[m].pc
    BY <2>1, <2>2
  <2>6. QED
    BY <2>3, <2>4, <2>5, ExecQuiet
<1>3. CASE Squareoff
  <2> DEFINE r == [exec[manager] EXCEPT !.held = FALSE]
  <2>1. manager \in ExecIds /\ exec' = [exec EXCEPT ![manager] = r] /\ UNCHANGED <<day, entries, manager>>
    BY <1>3 DEF Squareoff, CommandSame, CapInv
  <2>2. /\ r \in Exec /\ r.date = exec[manager].date /\ r.trades = exec[manager].trades
        /\ r.asked = exec[manager].asked /\ r.pc = exec[manager].pc
    BY <2>1 DEF Exec, CapInv
  <2> HIDE DEF r
  <2>3. QED
    BY <2>1, <2>2, ExecQuietOne
<1>4. CASE Pause
  <2> DEFINE r == [exec[manager] EXCEPT !.paused = TRUE]
  <2>1. manager \in ExecIds /\ exec' = [exec EXCEPT ![manager] = r] /\ UNCHANGED <<day, entries, manager>>
    BY <1>4 DEF Pause, CommandSame, CapInv
  <2>2. /\ r \in Exec /\ r.date = exec[manager].date /\ r.trades = exec[manager].trades
        /\ r.asked = exec[manager].asked /\ r.pc = exec[manager].pc
    BY <2>1 DEF Exec, CapInv
  <2> HIDE DEF r
  <2>3. QED
    BY <2>1, <2>2, ExecQuietOne
<1>5. QED
  BY <1>1, <1>2, <1>3, <1>4

LEMMA ExecSteps == ASSUME ExecAssumption, CapInv, [ExecNext]_execVars PROVE CapInv'
<1>1. CASE UNCHANGED <<exec, manager, day, entries>>
  <2>1. \A m \in ExecIds : Capped(exec[m], entries[m])'
    BY <1>1 DEF CapInv, Capped
  <2>2. QED
    BY <1>1, <2>1 DEF CapInv
<1>2. ASSUME NEW m \in ExecIds,
             EndThread(m) \/ TakeSignal(m) \/ CheckSignal(m) \/ RoutePaper(m) \/ RouteOther(m)
               \/ RecordEntry(m) \/ ReadForPush(m) \/ WritePush(m) \/ Resume(m)
      PROVE  CapInv'
  BY <1>2, ThreadQuiet, CheckSteps, RouteSteps, RecordSteps
<1>3. CASE StartExec
  BY <1>3, ExecStarts
<1>4. CASE StopExec \/ PublishSignal \/ Squareoff \/ Pause
  BY <1>4, CommandQuiet
<1>5. CASE Clock
  BY <1>5, ClockSteps
<1>6. CASE Modify \/ PauseMock \/ SnapshotExpires \/ UNCHANGED execVars
  BY <1>1, <1>6 DEF Modify, PauseMock, SnapshotExpires, CommandSame, execVars
<1>7. QED
  BY <1>2, <1>3, <1>4, <1>5, <1>6 DEF ExecNext

LEMMA CappedOfInv == ASSUME ExecAssumption, CapInv PROVE EntriesCapped
<1>1. ASSUME NEW m \in ExecIds, NEW d \in Days PROVE entries[m][d] <= MaxTrades
  <2>1. entries[m] \in [Days -> 0..MaxTrades]
    BY DEF CapInv
  <2>2. entries[m][d] \in 0..MaxTrades
    BY <2>1
  <2>3. QED
    BY <2>2 DEF ExecAssumption
<1>2. QED
  BY <1>1 DEF EntriesCapped, Days

\* No manager opens more positions on a day than the limit, for any limit and any number of
\* managers, days and signals: the check and the count are apart, and between them a
\* position can be squared off and the date can change.
THEOREM EntriesAreCapped == ExecSpec => []EntriesCapped
<1>1. ExecInit => CapInv
  BY CapInitially, ExecAssumption
<1>2. CapInv /\ [ExecNext]_execVars => CapInv'
  BY ExecSteps, ExecAssumption
<1>3. CapInv => EntriesCapped
  BY CappedOfInv, ExecAssumption
<1>4. QED
  BY <1>1, <1>2, <1>3, PTL DEF ExecSpec

-----------------------------------------------------------------------------
(* EventRelay.                                                             *)

Told(e) == Event(e).exit => e \in saved

RelayInv ==
  /\ emitted \in Nat /\ coroutines \subseteq Nat
  /\ channel \in Seq(Nat) /\ \A i \in 1..Len(channel) : Told(channel[i])
  /\ told \in [Sockets -> SUBSET Nat] /\ \A w \in Sockets : \A e \in told[w] : Told(e)
  /\ socket \in [Sockets -> {"new", "open", "gone", "closed"}]
  /\ relay \in {"none", "starting", "waiting", "sending", "done"} /\ relayFailed \in BOOLEAN
  /\ conns \subseteq Sockets
  /\ conns # {} => relay \in {"starting", "waiting", "sending"} \/ relayFailed
  /\ sending \in [event : Nat, to : SUBSET Sockets, dead : SUBSET Sockets]
  /\ relay = "sending" => Told(sending.event)
  /\ \A w \in Sockets : /\ socket[w] = "open" => w \in conns
                        /\ w \in sending.dead => socket[w] \in {"gone", "closed"}
                        /\ w \in conns \cup sending.to => socket[w] # "new"

LEMMA RelayInitially == ASSUME RelayInit PROVE RelayInv
<1>1. told \in [Sockets -> SUBSET Nat] /\ \A w \in Sockets : told[w] = {}
  BY DEF RelayInit
<1>2. channel = <<>> /\ conns = {} /\ relay = "none" /\ emitted = 0 /\ coroutines = {} /\ relayFailed = FALSE
  BY DEF RelayInit
<1>3. socket \in [Sockets -> {"new", "open", "gone", "closed"}] /\ \A w \in Sockets : socket[w] = "new"
  BY DEF RelayInit
<1>4. sending \in [event : Nat, to : SUBSET Sockets, dead : SUBSET Sockets] /\ sending.dead = {} /\ sending.to = {}
  BY DEF RelayInit, NoSending
<1>5. channel \in Seq(Nat) /\ Len(channel) = 0
  BY <1>2
<1>6. \A i \in 1..Len(channel) : Told(channel[i])
  BY <1>5
<1>7. QED
  BY <1>1, <1>2, <1>3, <1>4, <1>5, <1>6 DEF RelayInv

\* What is published is saved if it is an exit.
LEMMA Published ==
  ASSUME RelayInv, NEW e \in Nat, Publish(e), saved \subseteq saved', Event(e).exit => e \in saved'
  PROVE  /\ channel' \in Seq(Nat)
         /\ \A i \in 1..Len(channel') : Event(channel'[i]).exit => channel'[i] \in saved'
<1>1. CASE channel' = channel
  BY <1>1 DEF RelayInv, Told
<1>2. CASE channel' = Append(channel, e)
  <2>1. channel \in Seq(Nat)
    BY DEF RelayInv
  <2>2. \A i \in 1..Len(channel') : channel'[i] = IF i = Len(channel) + 1 THEN e ELSE channel[i]
    BY <1>2, <2>1
  <2>3. Len(channel') = Len(channel) + 1 /\ channel' \in Seq(Nat) /\ Len(channel) \in Nat
    BY <1>2, <2>1
  <2>4. ASSUME NEW i \in 1..Len(channel') PROVE Event(channel'[i]).exit => channel'[i] \in saved'
    <3>1. CASE i = Len(channel) + 1
      BY <2>2, <3>1
    <3>2. CASE i # Len(channel) + 1
      <4>1. i \in 1..Len(channel) /\ channel'[i] = channel[i]
        BY <2>2, <2>3, <3>2
      <4>2. Told(channel[i])
        BY <4>1 DEF RelayInv
      <4>3. QED
        BY <4>1, <4>2 DEF Told
    <3>3. QED
      BY <3>1, <3>2
  <2>5. QED
    BY <2>3, <2>4
<1>3. QED
  BY <1>1, <1>2 DEF Publish

\* The worker's side changes the channel, what is saved, and its own jobs.
LEMMA WorkerSide ==
  ASSUME RelayInv, UNCHANGED <<socket, conns, relay, sending, relayFailed, told>>,
         emitted' \in Nat, coroutines' \subseteq Nat, saved \subseteq saved',
         channel' \in Seq(Nat), \A i \in 1..Len(channel') : Event(channel'[i]).exit => channel'[i] \in saved'
  PROVE  RelayInv'
<1>1. \A e \in Nat : Told(e) => Told(e)'
  BY DEF Told
<1>2. \A i \in 1..Len(channel') : Told(channel[i])'
  BY DEF Told
<1>3. told' \in [Sockets -> SUBSET Nat] /\ \A w \in Sockets : \A e \in told[w] : Told(e)'
  BY <1>1 DEF RelayInv
<1>4. relay' = "sending" => Told(sending.event)'
  BY DEF RelayInv, Told
<1>5. QED
  BY <1>2, <1>3, <1>4 DEF RelayInv

LEMMA WorkerSteps ==
  ASSUME RelayInv, Emit \/ WorkerLosesJobs \/ \E e \in coroutines : OnOther(e) \/ OnExit(e)
  PROVE  RelayInv'
<1>0. channel \in Seq(Nat) /\ \A i \in 1..Len(channel) : Event(channel[i]).exit => channel[i] \in saved
  BY DEF RelayInv, Told
<1>1. CASE Emit
  <2>1. emitted' \in Nat /\ coroutines' \subseteq Nat
    BY <1>1 DEF Emit, RelayInv
  <2>2. UNCHANGED <<saved, channel, socket, conns, relay, sending, relayFailed, told>>
    BY <1>1 DEF Emit
  <2>3. QED
    BY <1>0, <2>1, <2>2, WorkerSide
<1>2. CASE WorkerLosesJobs
  <2>1. emitted' \in Nat /\ coroutines' \subseteq Nat
    BY <1>2 DEF WorkerLosesJobs, RelayInv
  <2>2. UNCHANGED <<saved, channel, socket, conns, relay, sending, relayFailed, told>>
    BY <1>2 DEF WorkerLosesJobs
  <2>3. QED
    BY <1>0, <2>1, <2>2, WorkerSide
<1>3. ASSUME NEW e \in coroutines, OnOther(e) PROVE RelayInv'
  <2>1. e \in Nat /\ ~Event(e).exit /\ Publish(e) /\ UNCHANGED saved
    BY <1>3 DEF OnOther, RelayInv
  <2>2. emitted' \in Nat /\ coroutines' \subseteq Nat
    BY <1>3 DEF OnOther, RelayInv
  <2>3. UNCHANGED <<socket, conns, relay, sending, relayFailed, told>>
    BY <1>3 DEF OnOther
  <2>4. /\ channel' \in Seq(Nat)
        /\ \A i \in 1..Len(channel') : Event(channel'[i]).exit => channel'[i] \in saved'
    BY <2>1, Published
  <2>5. QED
    BY <2>1, <2>2, <2>3, <2>4, WorkerSide
<1>4. ASSUME NEW e \in coroutines, OnExit(e) PROVE RelayInv'
  <2>1. emitted' \in Nat /\ coroutines' \subseteq Nat /\ e \in Nat
    BY <1>4 DEF OnExit, RelayInv
  <2>2. UNCHANGED <<socket, conns, relay, sending, relayFailed, told>>
    BY <1>4 DEF OnExit
  <2>3. CASE saved' = saved \cup {e} /\ Publish(e)
    <3>1. saved \subseteq saved' /\ e \in saved'
      BY <2>3
    <3>2. /\ channel' \in Seq(Nat)
          /\ \A i \in 1..Len(channel') : Event(channel'[i]).exit => channel'[i] \in saved'
      BY <2>1, <2>3, <3>1, Published
    <3>3. QED
      BY <2>1, <2>2, <3>1, <3>2, WorkerSide
  <2>4. CASE UNCHANGED <<saved, channel>>
    BY <1>0, <2>1, <2>2, <2>4, WorkerSide
  <2>5. QED
    BY <1>4, <2>3, <2>4 DEF OnExit
<1>5. QED
  BY <1>1, <1>2, <1>3, <1>4

LEMMA WebSteps ==
  ASSUME RelayInv,
         \/ \E w \in Sockets : Connect(w) \/ PeerGoes(w) \/ Disconnect(w) \/ RelaySends(w)
         \/ SubscribeRelay \/ RelayTakes \/ RelayEnds \/ RelayBreaks
  PROVE  RelayInv'
<1>0. UNCHANGED <<emitted, coroutines, saved>> /\ (\A e \in Nat : Told(e)' <=> Told(e))
  BY DEF Connect, PeerGoes, Disconnect, RelaySends, SubscribeRelay, RelayTakes, RelayEnds, RelayBreaks, Told
<1>1. ASSUME NEW w \in Sockets, Connect(w) PROVE RelayInv'
  BY <1>0, <1>1 DEF RelayInv, Connect, Told
<1>2. ASSUME NEW w \in Sockets, PeerGoes(w) PROVE RelayInv'
  <2>1. socket' \in [Sockets -> {"new", "open", "gone", "closed"}]
        /\ \A v \in Sockets : socket'[v] = IF v = w THEN "gone" ELSE socket[v]
    BY <1>2 DEF RelayInv, PeerGoes
  <2>2. UNCHANGED <<conns, relay, channel, sending, relayFailed, told>>
    BY <1>2 DEF PeerGoes
  <2>3. QED
    BY <1>0, <2>1, <2>2 DEF RelayInv, Told
<1>3. ASSUME NEW w \in Sockets, Disconnect(w) PROVE RelayInv'
  <2>1. socket' \in [Sockets -> {"new", "open", "gone", "closed"}] /\ socket[w] = "gone"
        /\ \A v \in Sockets : socket'[v] = IF v = w THEN "closed" ELSE socket[v]
    BY <1>3 DEF RelayInv, Disconnect
  <2>2. conns' = conns \ {w} /\ UNCHANGED told
    BY <1>3 DEF Disconnect
  <2>3. CASE conns' = {}
    <3>1. relay' = "none" /\ channel' = <<>> /\ sending' = NoSending /\ relayFailed' = FALSE
      BY <1>3, <2>3 DEF Disconnect
    <3>2. NoSending \in [event : Nat, to : SUBSET Sockets, dead : SUBSET Sockets] /\ NoSending.dead = {} /\ NoSending.to = {}
      BY DEF NoSending
    <3>3. channel' \in Seq(Nat) /\ \A i \in 1..Len(channel') : Told(channel[i])'
      BY <3>1
    <3>4. QED
      BY <1>0, <2>1, <2>2, <2>3, <3>1, <3>2, <3>3 DEF RelayInv, Told
  <2>4. CASE conns' # {}
    <3>1. UNCHANGED <<relay, channel, sending, relayFailed>>
      BY <1>3, <2>4 DEF Disconnect
    <3>2. QED
      BY <1>0, <2>1, <2>2, <3>1 DEF RelayInv, Told
  <2>5. QED
    BY <2>3, <2>4
<1>4. ASSUME NEW w \in Sockets, RelaySends(w) PROVE RelayInv'
  <2>1. UNCHANGED <<socket, conns, relay, channel, relayFailed>> /\ relay = "sending" /\ Told(sending.event)
    BY <1>4 DEF RelaySends, RelayInv
  <2>2. CASE socket[w] = "open"
    <3>1. told' = [told EXCEPT ![w] = told[w] \cup {sending.event}]
          /\ sending' = [sending EXCEPT !.to = sending.to \ {w}]
      BY <1>4, <2>2 DEF RelaySends
    <3>2. sending.event \in Nat /\ told' \in [Sockets -> SUBSET Nat]
      BY <3>1 DEF RelayInv
    <3>3. \A v \in Sockets : told'[v] = IF v = w THEN told[v] \cup {sending.event} ELSE told[v]
      BY <3>1 DEF RelayInv
    <3>4. \A v \in Sockets : \A e \in told'[v] : Told(e)
      BY <2>1, <3>3 DEF RelayInv
    <3>5. \A v \in Sockets : \A e \in told'[v] : Told(e)'
      BY <1>0, <3>2, <3>4
    <3>6. /\ sending' \in [event : Nat, to : SUBSET Sockets, dead : SUBSET Sockets]
          /\ sending'.event = sending.event /\ sending'.dead = sending.dead /\ sending'.to \subseteq sending.to
      BY <3>1 DEF RelayInv
    <3>7. QED
      BY <1>0, <2>1, <3>2, <3>5, <3>6 DEF RelayInv
  <2>3. CASE socket[w] # "open"
    <3>1. /\ sending' = [sending EXCEPT !.to = sending.to \ {w}, !.dead = sending.dead \cup {w}]
          /\ UNCHANGED told
      BY <1>4, <2>3 DEF RelaySends
    <3>2. /\ sending' \in [event : Nat, to : SUBSET Sockets, dead : SUBSET Sockets]
          /\ sending'.event = sending.event /\ sending'.dead = sending.dead \cup {w}
          /\ sending'.to \subseteq sending.to
      BY <3>1 DEF RelayInv
    <3>3. socket[w] \in {"gone", "closed"}
      <4>1. socket[w] # "new"
        BY <1>4 DEF RelaySends, RelayInv
      <4>2. QED
        BY <2>3, <4>1 DEF RelayInv
    <3>4. QED
      BY <1>0, <2>1, <3>1, <3>2, <3>3 DEF RelayInv
  <2>4. QED
    BY <2>2, <2>3
<1>5. CASE SubscribeRelay
  BY <1>0, <1>5 DEF RelayInv, SubscribeRelay, Told
<1>6. CASE RelayTakes
  <2>1. /\ UNCHANGED <<socket, conns, relayFailed, told>> /\ relay = "waiting"
        /\ channel \in Seq(Nat) /\ channel # <<>> /\ \A i \in 1..Len(channel) : Told(channel[i])
    BY <1>6 DEF RelayTakes, RelayInv
  <2>2. CASE conns = {}
    <3>1. relay' = "done" /\ channel' = <<>> /\ UNCHANGED sending
      BY <1>6, <2>2 DEF RelayTakes
    <3>2. channel' \in Seq(Nat) /\ \A i \in 1..Len(channel') : Told(channel[i])'
      BY <3>1
    <3>3. QED
      BY <1>0, <2>1, <2>2, <3>1, <3>2 DEF RelayInv
  <2>3. CASE conns # {}
    <3>1. /\ relay' = "sending" /\ channel' = Tail(channel)
          /\ sending' = [event |-> Head(channel), to |-> conns, dead |-> {}]
      BY <1>6, <2>3 DEF RelayTakes
    <3>2. Head(channel) \in Nat /\ Told(Head(channel))
      BY <2>1
    <3>3. /\ sending' \in [event : Nat, to : SUBSET Sockets, dead : SUBSET Sockets]
          /\ sending'.event = Head(channel) /\ sending'.dead = {} /\ sending'.to = conns
      BY <3>1, <3>2 DEF RelayInv
    <3>4. /\ channel' \in Seq(Nat)
          /\ \A i \in 1..Len(channel') : i + 1 \in 1..Len(channel) /\ channel'[i] = channel[i + 1]
      BY <2>1, <3>1
    <3>5. \A i \in 1..Len(channel') : Told(channel'[i])
      BY <2>1, <3>4
    <3>6. \A i \in 1..Len(channel') : channel'[i] \in Nat /\ Told(channel[i])'
      BY <1>0, <3>4, <3>5
    <3>7. Told(sending.event)'
      BY <1>0, <3>2, <3>3 DEF Told
    <3>8. QED
      BY <1>0, <2>1, <3>1, <3>3, <3>4, <3>6, <3>7 DEF RelayInv
  <2>4. QED
    BY <2>2, <2>3
<1>7. CASE RelayEnds
  BY <1>0, <1>7 DEF RelayInv, RelayEnds, NoSending, Told
<1>8. CASE RelayBreaks
  BY <1>0, <1>8 DEF RelayInv, RelayBreaks, Told
<1>9. QED
  BY <1>1, <1>2, <1>3, <1>4, <1>5, <1>6, <1>7, <1>8

LEMMA RelaySteps == ASSUME RelayInv, [RelayNext]_relayVars PROVE RelayInv'
<1>1. CASE UNCHANGED relayVars
  BY <1>1 DEF RelayInv, relayVars, Told
<1>2. QED
  BY <1>1, WorkerSteps, WebSteps DEF RelayNext

\* An open tab is connected and fed unless Redis failed, and is told of no exit that its
\* trades table does not have, for any number of tabs and events.
THEOREM TabsFed == RelaySpec => []TabsAreFed
<1>1. RelayInit => RelayInv
  BY RelayInitially
<1>2. RelayInv /\ [RelayNext]_relayVars => RelayInv'
  BY RelaySteps
<1>3. RelayInv => TabsAreFed
  BY DEF RelayInv, TabsAreFed, Told
<1>4. QED
  BY <1>1, <1>2, <1>3, PTL DEF RelaySpec

-----------------------------------------------------------------------------
(* OrderStore.                                                             *)

Statuses == {"unplaced", "placed", Filled} \cup Working \cup Rejected
Waits    == {"idle", "placing", "unsubscribed", "subscribed", "waiting", "polling", "done"}

\* One order, seen from the broker, the store, the subscription and the worker that waits.
\* Of an order there is at most one decisive update; what is stored, about to be published
\* or in the inbox has been sent; a priced fill that was there to be read is in the inbox
\* until the wait is over.
Fine(ord, snt, pub, sto, pc, inb, lt, un, out) ==
  /\ ord \in Statuses /\ snt \in SUBSET Updates /\ pc \in Waits /\ lt \in BOOLEAN /\ un \in BOOLEAN
  /\ \A u, v \in snt : Decisive(u) => ord = u.status /\ (Decisive(v) => u = v)
  /\ \A p \in pub : p.update \in snt
  /\ sto \in snt \cup {NoUpdate}
  /\ inb \in Seq(Updates) /\ \A i \in 1..Len(inb) : inb[i] \in snt
  /\ out \in {"none", "filled", "unconfirmed"}
  /\ out = "filled" => ord = Filled
  /\ out = "unconfirmed" => pc = "done" /\ ~un
  /\ un => pc \in {"subscribed", "waiting", "done"} /\ \E u \in snt : PricedFill(u)
  /\ un /\ pc # "done" => ~lt /\ \E i \in 1..Len(inb) : PricedFill(inb[i])
  /\ lt => pc \in {"waiting", "polling", "done"}
  /\ out = "filled" => pc = "done"
  /\ ord = "unplaced" => pc = "idle"

FineAt(o) == Fine(order[o], sent[o], publishing[o], stored[o], pcFill[o], inbox[o], late[o], unread[o], outcome[o])

OrderInv ==
  /\ order = [o \in Orders |-> order[o]] /\ sent = [o \in Orders |-> sent[o]]
  /\ publishing = [o \in Orders |-> publishing[o]] /\ stored = [o \in Orders |-> stored[o]]
  /\ pcFill = [o \in Orders |-> pcFill[o]] /\ inbox = [o \in Orders |-> inbox[o]]
  /\ late = [o \in Orders |-> late[o]] /\ unread = [o \in Orders |-> unread[o]]
  /\ outcome = [o \in Orders |-> outcome[o]]
  /\ \A o \in Orders : FineAt(o)

LEMMA OrderInitially == OrderInit => OrderInv
<1> SUFFICES ASSUME OrderInit PROVE OrderInv
  OBVIOUS
<1>1. Fine("unplaced", {}, {}, NoUpdate, "idle", <<>>, FALSE, FALSE, "none")
  BY DEF Fine, Statuses, Waits, Filled
<1>2. QED
  BY <1>1 DEF OrderInit, OrderInv, FineAt

\* The order o may change; the others are not concerned.
OrderMoves(o) ==
  /\ order' = [order EXCEPT ![o] = order'[o]] /\ sent' = [sent EXCEPT ![o] = sent'[o]]
  /\ publishing' = [publishing EXCEPT ![o] = publishing'[o]] /\ stored' = [stored EXCEPT ![o] = stored'[o]]
  /\ pcFill' = [pcFill EXCEPT ![o] = pcFill'[o]] /\ inbox' = [inbox EXCEPT ![o] = inbox'[o]]
  /\ late' = [late EXCEPT ![o] = late'[o]] /\ unread' = [unread EXCEPT ![o] = unread'[o]]
  /\ outcome' = [outcome EXCEPT ![o] = outcome'[o]]

LEMMA OrderFrame ==
  ASSUME OrderInv, NEW o \in Orders, OrderMoves(o), FineAt(o)'
  PROVE  OrderInv'
<1>1. /\ order' = [k \in Orders |-> order'[k]] /\ sent' = [k \in Orders |-> sent'[k]]
      /\ publishing' = [k \in Orders |-> publishing'[k]] /\ stored' = [k \in Orders |-> stored'[k]]
      /\ pcFill' = [k \in Orders |-> pcFill'[k]] /\ inbox' = [k \in Orders |-> inbox'[k]]
      /\ late' = [k \in Orders |-> late'[k]] /\ unread' = [k \in Orders |-> unread'[k]]
      /\ outcome' = [k \in Orders |-> outcome'[k]]
  BY DEF OrderInv, OrderMoves
<1>2. \A k \in Orders \ {o} :
        /\ order'[k] = order[k] /\ sent'[k] = sent[k] /\ publishing'[k] = publishing[k]
        /\ stored'[k] = stored[k] /\ pcFill'[k] = pcFill[k] /\ inbox'[k] = inbox[k]
        /\ late'[k] = late[k] /\ unread'[k] = unread[k] /\ outcome'[k] = outcome[k]
  BY DEF OrderInv, OrderMoves
<1>3. \A k \in Orders : FineAt(k)'
  <2>1. \A k \in Orders \ {o} : FineAt(k)
    BY DEF OrderInv
  <2>2. \A k \in Orders \ {o} : FineAt(k)'
    BY <1>2, <2>1 DEF FineAt
  <2>3. QED
    BY <2>2
<1>4. QED
  BY <1>1, <1>3 DEF OrderInv

LEMMA BrokerSteps == ASSUME OrderInv, NEW o \in Orders, BrokerMoves(o) PROVE OrderInv'
<1>1. FineAt(o)
  BY DEF OrderInv
<1>2. PICK u \in Updates : order'[o] = u.status /\ sent'[o] = sent[o] \cup {u}
  BY DEF BrokerMoves, OrderInv
<1>3. ~Terminal(o) /\ UNCHANGED <<publishing, stored, pcFill, inbox, late, unread, outcome>>
  BY DEF BrokerMoves
<1>4. u.status \in Statuses /\ u.status # "unplaced"
  BY DEF Updates, Statuses, Working, Rejected, Filled
<1>5. \A v \in sent[o] : ~Decisive(v)
  BY <1>1, <1>3 DEF FineAt, Fine, Terminal, Decisive
<1>6. outcome[o] # "filled"
  BY <1>1, <1>3 DEF FineAt, Fine, Terminal
<1>7. Fine(u.status, sent[o] \cup {u}, publishing[o], stored[o], pcFill[o], inbox[o], late[o], unread[o], outcome[o])
  BY <1>1, <1>4, <1>5, <1>6 DEF FineAt, Fine
<1>8. FineAt(o)'
  BY <1>2, <1>3, <1>7 DEF FineAt
<1>9. OrderMoves(o)
  BY DEF BrokerMoves, OrderInv, OrderMoves
<1>10. QED
  BY <1>8, <1>9, OrderFrame

LEMMA StoreSteps == ASSUME OrderInv, NEW o \in Orders, WebhookStores(o) PROVE OrderInv'
<1>1. FineAt(o)
  BY DEF OrderInv
<1>2. PICK u \in sent[o] : /\ stored'[o] = u
                           /\ publishing'[o] = publishing[o] \cup {[update |-> u, owner |-> o \in placed]}
  BY DEF WebhookStores, OrderInv
<1>3. UNCHANGED <<order, sent, pcFill, inbox, late, unread, outcome>>
  BY DEF WebhookStores
<1>4. Fine(order[o], sent[o], publishing[o] \cup {[update |-> u, owner |-> o \in placed]}, u,
           pcFill[o], inbox[o], late[o], unread[o], outcome[o])
  BY <1>1 DEF FineAt, Fine
<1>5. FineAt(o)'
  BY <1>2, <1>3, <1>4 DEF FineAt
<1>6. OrderMoves(o)
  BY DEF WebhookStores, OrderInv, OrderMoves
<1>7. QED
  BY <1>5, <1>6, OrderFrame

LEMMA PublishSteps == ASSUME OrderInv, NEW o \in Orders, WebhookPublishes(o) PROVE OrderInv'
<1>1. FineAt(o)
  BY DEF OrderInv
<1> DEFINE read(p) == unread[o] \/ (Subscribed(o) /\ ~late[o] /\ PricedFill(p.update))
           kept(p) == IF Subscribed(o) THEN Append(inbox[o], p.update) ELSE inbox[o]
<1>2. PICK p \in publishing[o] :
        publishing'[o] = publishing[o] \ {p} /\ inbox'[o] = kept(p) /\ unread'[o] = read(p)
  BY DEF WebhookPublishes, OrderInv
<1>3. UNCHANGED <<order, sent, stored, pcFill, late, outcome>>
  BY DEF WebhookPublishes
<1>4. p.update \in sent[o] /\ sent[o] \subseteq Updates
  BY <1>1 DEF FineAt, Fine
<1>5. /\ kept(p) \in Seq(Updates) /\ \A i \in 1..Len(kept(p)) : kept(p)[i] \in sent[o]
      /\ (\E i \in 1..Len(inbox[o]) : PricedFill(inbox[o][i])) => \E i \in 1..Len(kept(p)) : PricedFill(kept(p)[i])
      /\ Subscribed(o) /\ PricedFill(p.update) => \E i \in 1..Len(kept(p)) : PricedFill(kept(p)[i])
  <2>1. inbox[o] \in Seq(Updates) /\ \A i \in 1..Len(inbox[o]) : inbox[o][i] \in sent[o]
    BY <1>1 DEF FineAt, Fine
  <2>2. CASE ~Subscribed(o)
    BY <2>1, <2>2
  <2>3. CASE Subscribed(o)
    <3> DEFINE n == Len(inbox[o])
               q == Append(inbox[o], p.update)
    <3>1. kept(p) = q /\ n \in Nat
      BY <2>1, <2>3
    <3>2. q \in Seq(Updates) /\ Len(q) = n + 1 /\ \A i \in 1..n + 1 : q[i] = IF i = n + 1 THEN p.update ELSE inbox[o][i]
      BY <1>4, <2>1
    <3> HIDE DEF q, kept
    <3>3. \A i \in 1..n : i \in 1..n + 1 /\ q[i] = inbox[o][i]
      BY <3>1, <3>2
    <3>4. n + 1 \in 1..n + 1 /\ q[n + 1] = p.update
      BY <3>1, <3>2
    <3>5. \A i \in 1..n + 1 : q[i] \in sent[o]
      BY <1>4, <2>1, <3>1, <3>2
    <3> HIDE DEF n
    <3>6. (\E i \in 1..n : PricedFill(inbox[o][i])) => \E i \in 1..n + 1 : PricedFill(q[i])
      BY <3>3
    <3>7. PricedFill(p.update) => \E i \in 1..n + 1 : PricedFill(q[i])
      BY <3>4
    <3>8. QED
      BY <3>1, <3>2, <3>5, <3>6, <3>7 DEF n
  <2>4. QED
    BY <2>2, <2>3
<1> HIDE DEF kept
<1>6. /\ read(p) \in BOOLEAN
      /\ read(p) => pcFill[o] \in {"subscribed", "waiting", "done"} /\ \E u \in sent[o] : PricedFill(u)
      /\ outcome[o] = "unconfirmed" => ~read(p)
      /\ read(p) /\ pcFill[o] # "done" => ~late[o] /\ \E i \in 1..Len(kept(p)) : PricedFill(kept(p)[i])
  <2>1. CASE unread[o]
    BY <1>1, <1>5, <2>1 DEF FineAt, Fine
  <2>2. CASE ~unread[o] /\ Subscribed(o) /\ ~late[o] /\ PricedFill(p.update)
    <3>1. pcFill[o] \in {"subscribed", "waiting"}
      BY <2>2 DEF Subscribed
    <3>2. outcome[o] # "unconfirmed"
      BY <1>1, <3>1 DEF FineAt, Fine
    <3>3. QED
      BY <1>4, <1>5, <2>2, <3>1, <3>2
  <2>3. CASE ~read(p)
    BY <2>3
  <2>4. unread[o] \in BOOLEAN
    BY <1>1 DEF FineAt, Fine
  <2>5. QED
    BY <2>1, <2>2, <2>3, <2>4
<1> HIDE DEF read
<1>7. Fine(order[o], sent[o], publishing[o] \ {p}, stored[o], pcFill[o], kept(p), late[o], read(p), outcome[o])
  BY <1>1, <1>5, <1>6 DEF FineAt, Fine
<1>8. FineAt(o)'
  BY <1>2, <1>3, <1>7 DEF FineAt
<1>9. OrderMoves(o)
  BY DEF WebhookPublishes, OrderInv, OrderMoves
<1>10. QED
  BY <1>8, <1>9, OrderFrame

\* The wait ends with u, in the store or the inbox or neither.
LEMMA WaitEnds ==
  ASSUME OrderInv, NEW o \in Orders, NEW u, u \in sent[o] \cup {NoUpdate}, Ends(o, u),
         pcFill[o] \in {"subscribed", "waiting"}, unread'[o] \in BOOLEAN,
         UNCHANGED <<order, sent, publishing, stored, late>>,
         late[o] => pcFill[o] = "waiting",
         unread'[o] => PricedFill(u)
  PROVE  FineAt(o)'
<1>1. FineAt(o)
  BY DEF OrderInv
<1>2. /\ pcFill'[o] = IF PricedFill(u) THEN "done" ELSE "polling"
      /\ outcome'[o] = IF PricedFill(u) THEN "filled" ELSE outcome[o]
      /\ inbox'[o] = <<>>
  BY DEF Ends, OrderInv
<1>3. outcome[o] = "none"
  BY <1>1 DEF FineAt, Fine
<1>4. PricedFill(u) => u \in sent[o] /\ order[o] = Filled
  BY <1>1 DEF FineAt, Fine, PricedFill, NoUpdate, Decisive, Filled
<1>5. Fine(order[o], sent[o], publishing[o], stored[o], pcFill'[o], <<>>, late[o], unread'[o], outcome'[o])
  <2>1. CASE PricedFill(u)
    BY <1>1, <1>2, <1>3, <1>4, <2>1 DEF FineAt, Fine, Waits
  <2>2. CASE ~PricedFill(u)
    BY <1>1, <1>2, <1>3, <2>2 DEF FineAt, Fine, Waits
  <2>3. QED
    BY <2>1, <2>2
<1>6. QED
  BY <1>2, <1>5 DEF FineAt

\* Placing, registering, subscribing: the worker's place alone.
LEMMA PlaceSteps ==
  ASSUME OrderInv, NEW o \in Orders, PlaceOrder(o) \/ RegisterOrder(o) \/ Subscribe(o)
  PROVE  OrderInv'
<1>1. FineAt(o)
  BY DEF OrderInv
<1>2. OrderMoves(o)
  BY DEF PlaceOrder, RegisterOrder, Subscribe, WorkerSame, OrderInv, OrderMoves
<1>3. UNCHANGED <<sent, publishing, stored, inbox, late, unread, outcome>>
  BY DEF PlaceOrder, RegisterOrder, Subscribe, WorkerSame
<1>4. CASE PlaceOrder(o)
  <2>1. order'[o] = "placed" /\ pcFill'[o] = "placing" /\ order[o] = "unplaced"
    BY <1>4 DEF PlaceOrder, OrderInv
  <2>2. pcFill[o] = "idle"
    BY <1>1, <2>1 DEF FineAt, Fine
  <2>3. \A u \in sent[o] : ~Decisive(u)
    BY <1>1, <2>1 DEF FineAt, Fine, Decisive, Rejected, Filled
  <2>4. ~unread[o] /\ ~late[o] /\ outcome[o] = "none"
    BY <1>1, <2>2 DEF FineAt, Fine
  <2>5. Fine("placed", sent[o], publishing[o], stored[o], "placing", inbox[o], late[o], unread[o], outcome[o])
    BY <1>1, <2>3, <2>4 DEF FineAt, Fine, Statuses, Waits, Filled
  <2>6. FineAt(o)'
    BY <1>3, <2>1, <2>5 DEF FineAt
  <2>7. QED
    BY <1>2, <2>6, OrderFrame
<1>5. CASE RegisterOrder(o) \/ Subscribe(o)
  <2>1. order' = order /\ pcFill'[o] \in {"unsubscribed", "subscribed"} /\ pcFill[o] \in {"placing", "unsubscribed"}
    BY <1>5 DEF RegisterOrder, Subscribe, WorkerSame, OrderInv
  <2>2. ~unread[o] /\ ~late[o] /\ outcome[o] = "none" /\ order[o] # "unplaced"
    BY <1>1, <2>1 DEF FineAt, Fine
  <2>3. Fine(order[o], sent[o], publishing[o], stored[o], pcFill'[o], inbox[o], late[o], unread[o], outcome[o])
    BY <1>1, <2>1, <2>2 DEF FineAt, Fine, Waits
  <2>4. FineAt(o)'
    BY <1>3, <2>1, <2>3 DEF FineAt
  <2>5. QED
    BY <1>2, <2>4, OrderFrame
<1>6. QED
  BY <1>4, <1>5

LEMMA FastSteps == ASSUME OrderInv, NEW o \in Orders, FastPath(o) PROVE OrderInv'
<1>1. FineAt(o)
  BY DEF OrderInv
<1>2. OrderMoves(o)
  BY DEF FastPath, Ends, WorkerSame, OrderInv, OrderMoves
<1>3. /\ UNCHANGED <<order, sent, publishing, stored, late>> /\ pcFill[o] = "subscribed"
      /\ unread'[o] = (unread[o] \/ PricedFill(stored[o]))
  BY DEF FastPath, WorkerSame, OrderInv
<1>4. stored[o] \in sent[o] \cup {NoUpdate} /\ ~late[o] /\ unread[o] \in BOOLEAN /\ outcome[o] = "none"
  BY <1>1, <1>3 DEF FineAt, Fine
<1>5. unread'[o] \in BOOLEAN
  BY <1>3, <1>4 DEF PricedFill
<1>6. CASE Decisive(stored[o])
  <2>1. Ends(o, stored[o])
    BY <1>6 DEF FastPath
  <2>2. unread'[o] => PricedFill(stored[o])
    <3>1. SUFFICES ASSUME unread[o] PROVE PricedFill(stored[o])
      BY <1>3
    <3>2. PICK u \in sent[o] : PricedFill(u)
      BY <1>1, <3>1 DEF FineAt, Fine
    <3>3. stored[o] \in sent[o]
      BY <1>4, <1>6 DEF Decisive, NoUpdate, Rejected, Filled
    <3>4. Decisive(u)
      BY <3>2 DEF Decisive, PricedFill
    <3>5. u = stored[o]
      BY <1>1, <1>6, <3>3, <3>4 DEF FineAt, Fine
    <3>6. QED
      BY <3>2, <3>5
  <2>3. FineAt(o)'
    BY <1>3, <1>4, <1>5, <2>1, <2>2, WaitEnds
  <2>4. QED
    BY <1>2, <2>3, OrderFrame
<1>7. CASE ~Decisive(stored[o])
  <2>1. pcFill'[o] = "waiting" /\ UNCHANGED <<inbox, outcome>>
    BY <1>7 DEF FastPath, OrderInv
  <2>2. unread'[o] = unread[o]
    BY <1>3, <1>4, <1>7 DEF PricedFill, Decisive
  <2>3. Fine(order[o], sent[o], publishing[o], stored[o], "waiting", inbox[o], late[o], unread[o], outcome[o])
    BY <1>1, <1>3, <1>4 DEF FineAt, Fine, Waits
  <2>4. FineAt(o)'
    BY <1>3, <2>1, <2>2, <2>3 DEF FineAt
  <2>5. QED
    BY <1>2, <2>4, OrderFrame
<1>8. QED
  BY <1>6, <1>7

LEMMA LookSteps == ASSUME OrderInv, NEW o \in Orders, Look(o) PROVE OrderInv'
<1> DEFINE u == IF inbox[o] = <<>> THEN stored[o] ELSE Head(inbox[o])
<1>1. FineAt(o)
  BY DEF OrderInv
<1>2. OrderMoves(o)
  BY DEF Look, Ends, WorkerSame, OrderInv, OrderMoves
<1>3. UNCHANGED <<order, sent, publishing, stored, late, unread>> /\ pcFill[o] = "waiting" /\ ~late[o]
  BY DEF Look, WorkerSame
<1>4. /\ inbox[o] \in Seq(Updates) /\ (\A i \in 1..Len(inbox[o]) : inbox[o][i] \in sent[o])
      /\ stored[o] \in sent[o] \cup {NoUpdate} /\ unread[o] \in BOOLEAN /\ outcome[o] = "none"
  BY <1>1, <1>3 DEF FineAt, Fine
<1>5. u \in sent[o] \cup {NoUpdate}
  BY <1>4
<1>6. CASE Decisive(u)
  <2>1. Ends(o, u)
    BY <1>6 DEF Look
  <2>2. unread'[o] => PricedFill(u)
    <3>1. SUFFICES ASSUME unread[o] PROVE PricedFill(u)
      BY <1>3
    <3>2. PICK v \in sent[o] : PricedFill(v)
      BY <1>1, <3>1 DEF FineAt, Fine
    <3> HIDE DEF u
    <3>3. u \in sent[o]
      BY <1>5, <1>6 DEF Decisive, NoUpdate, Rejected, Filled
    <3>4. Decisive(v)
      BY <3>2 DEF Decisive, PricedFill
    <3>5. u = v
      BY <1>1, <1>6, <3>3, <3>4 DEF FineAt, Fine
    <3>6. QED
      BY <3>2, <3>5
  <2> HIDE DEF u
  <2>3. FineAt(o)'
    BY <1>3, <1>4, <1>5, <2>1, <2>2, WaitEnds
  <2>4. QED
    BY <1>2, <2>3, OrderFrame
<1>7. CASE ~Decisive(u)
  <2> DEFINE rest == IF inbox[o] = <<>> THEN inbox[o] ELSE Tail(inbox[o])
  <2>1. inbox'[o] = rest /\ UNCHANGED <<pcFill, outcome>>
    BY <1>7 DEF Look, OrderInv
  <2>2. /\ rest \in Seq(Updates)
        /\ \A i \in 1..Len(rest) : rest[i] \in sent[o]
        /\ (\E i \in 1..Len(inbox[o]) : PricedFill(inbox[o][i])) => \E i \in 1..Len(rest) : PricedFill(rest[i])
    <3>1. CASE inbox[o] = <<>>
      BY <1>4, <3>1
    <3>2. CASE inbox[o] # <<>>
      <4> DEFINE q == inbox[o]
      <4>1. /\ rest = Tail(q) /\ rest \in Seq(Updates) /\ Len(q) \in Nat /\ Len(rest) = Len(q) - 1
            /\ \A i \in 1..Len(rest) : rest[i] = q[i + 1] /\ i + 1 \in 1..Len(q)
        BY <1>4, <3>2
      <4>2. q[1] = u /\ ~PricedFill(q[1])
        BY <1>4, <1>7, <3>2 DEF PricedFill, Decisive
      <4>3. ASSUME NEW i \in 1..Len(q), PricedFill(q[i]) PROVE \E k \in 1..Len(rest) : PricedFill(rest[k])
        <5>1. i # 1
          BY <4>2, <4>3
        <5>2. i - 1 \in 1..Len(rest) /\ (i - 1) + 1 = i
          BY <4>1, <5>1
        <5>3. rest[i - 1] = q[i]
          BY <4>1, <5>2
        <5>4. QED
          BY <4>3, <5>2, <5>3
      <4>4. \A i \in 1..Len(rest) : rest[i] \in sent[o]
        BY <1>4, <4>1
      <4>5. QED
        BY <4>1, <4>3, <4>4
    <3>3. QED
      BY <3>1, <3>2
  <2> HIDE DEF rest, u
  <2>3. Fine(order[o], sent[o], publishing[o], stored[o], pcFill[o], rest, late[o], unread[o], outcome[o])
    BY <1>1, <2>2 DEF FineAt, Fine
  <2>4. FineAt(o)'
    BY <1>3, <2>1, <2>3 DEF FineAt
  <2>5. QED
    BY <1>2, <2>4, OrderFrame
<1>8. QED
  BY <1>6, <1>7

\* The deadline passes with nothing left to read, and the broker is asked.
LEMMA LateSteps ==
  ASSUME OrderInv, NEW o \in Orders,
         DeadlinePasses(o) \/ WaitTimesOut(o) \/ PollFinds(o) \/ PollGivesUp(o)
  PROVE  OrderInv'
<1>1. FineAt(o)
  BY DEF OrderInv
<1>2. OrderMoves(o)
  BY DEF DeadlinePasses, WaitTimesOut, PollFinds, PollGivesUp, Ends, WorkerSame, OrderInv, OrderMoves
<1>3. UNCHANGED <<order, sent, publishing, stored, unread>>
  BY DEF DeadlinePasses, WaitTimesOut, PollFinds, PollGivesUp, WorkerSame
<1>4. CASE DeadlinePasses(o)
  <2>1. /\ UNCHANGED <<pcFill, inbox, outcome>> /\ pcFill[o] = "waiting" /\ late'[o] = TRUE
        /\ inbox[o] = <<>>
    BY <1>4 DEF DeadlinePasses, OrderInv
  <2>2. ~unread[o]
    BY <1>1, <2>1 DEF FineAt, Fine
  <2>3. Fine(order[o], sent[o], publishing[o], stored[o], pcFill[o], inbox[o], TRUE, unread[o], outcome[o])
    BY <1>1, <2>1, <2>2 DEF FineAt, Fine
  <2>4. FineAt(o)'
    BY <1>3, <2>1, <2>3 DEF FineAt
  <2>5. QED
    BY <1>2, <2>4, OrderFrame
<1>5. CASE WaitTimesOut(o)
  <2>1. Ends(o, NoUpdate) /\ pcFill[o] = "waiting" /\ late[o] /\ UNCHANGED late
    BY <1>5 DEF WaitTimesOut
  <2>2. ~unread[o] /\ unread[o] \in BOOLEAN
    BY <1>1, <2>1 DEF FineAt, Fine
  <2>3. unread'[o] = unread[o]
    BY <1>3
  <2>4. FineAt(o)'
    BY <1>3, <2>1, <2>2, <2>3, WaitEnds
  <2>5. QED
    BY <1>2, <2>4, OrderFrame
<1>6. CASE PollFinds(o) \/ PollGivesUp(o)
  <2>1. /\ UNCHANGED <<inbox, late>> /\ pcFill[o] = "polling" /\ pcFill'[o] = "done"
        /\ outcome'[o] \in {"filled", "unconfirmed"} /\ (outcome'[o] = "filled" => order[o] = Filled)
    BY <1>6 DEF PollFinds, PollGivesUp, WorkerSame, OrderInv, Filled
  <2>2. ~unread[o] /\ order[o] # "unplaced"
    BY <1>1, <2>1 DEF FineAt, Fine
  <2>3. Fine(order[o], sent[o], publishing[o], stored[o], "done", inbox[o], late[o], unread[o], outcome'[o])
    BY <1>1, <2>1, <2>2 DEF FineAt, Fine, Waits
  <2>4. FineAt(o)'
    BY <1>3, <2>1, <2>3 DEF FineAt
  <2>5. QED
    BY <1>2, <2>4, OrderFrame
<1>7. QED
  BY <1>4, <1>5, <1>6

LEMMA OrderSteps == ASSUME OrderInv, [OrderNext]_orderVars PROVE OrderInv'
<1>1. CASE UNCHANGED orderVars
  BY <1>1 DEF OrderInv, FineAt, orderVars
<1>2. ASSUME NEW o \in Orders,
             \/ BrokerMoves(o) \/ WebhookStores(o) \/ WebhookPublishes(o)
             \/ PlaceOrder(o) \/ RegisterOrder(o) \/ Subscribe(o) \/ FastPath(o) \/ Look(o)
             \/ DeadlinePasses(o) \/ WaitTimesOut(o) \/ PollFinds(o) \/ PollGivesUp(o)
      PROVE  OrderInv'
  BY <1>2, BrokerSteps, StoreSteps, PublishSteps, PlaceSteps, FastSteps, LookSteps, LateSteps
<1>3. QED
  BY <1>1, <1>2 DEF OrderNext

\* Neither an unseen fill nor a made-up one: what OrderFills says of the worker, whatever the
\* order in which the broker's updates are stored and published and however often.
LEMMA FillsOfInv == ASSUME OrderInv PROVE OrderFills
<1>1. ASSUME NEW o \in Orders
      PROVE  /\ pcFill[o] = "polling" \/ outcome[o] = "unconfirmed" => ~unread[o]
             /\ outcome[o] = "filled" => order[o] = Filled
  <2>1. FineAt(o)
    BY DEF OrderInv
  <2>2. QED
    BY <2>1 DEF FineAt, Fine
<1>2. QED
  BY <1>1 DEF OrderFills, FillNotMissed, NoPhantomFill

\* However late, often and out of order the broker's updates come, an entry is not given up
\* on whose fill was there to be read, and none is reported that the broker has not filled.
THEOREM FillsAreTrue == OrderSpec => []OrderFills
<1>1. OrderInv /\ [OrderNext]_orderVars => OrderInv'
  BY OrderSteps
<1>2. OrderInv => OrderFills
  BY FillsOfInv
<1>3. QED
  BY <1>1, <1>2, OrderInitially, PTL DEF OrderSpec

-----------------------------------------------------------------------------
(* ConfigCache.                                                            *)

\* What TLAPS has to be told of a function on 1..n.
LEMMA IsASeq == ASSUME NEW n \in Nat, NEW S, NEW f \in [1..n -> S] PROVE f \in Seq(S) /\ Len(f) = n
  OBVIOUS

Call  == [pc : {"idle", "load", "answer"}, force : BOOLEAN, token : BOOLEAN, part : 1..2]
Token == [val : Nat, sound : BOOLEAN, left : 0..RedisTTL]

ConfigTypes ==
  /\ cache \in {"config", "billing"}
  /\ replaced \in [1..2 -> Seq(Nat)] /\ Content(1) + Content(2) <= MaxWrites
  /\ due \in 0..Content(1) + Content(2)
  /\ copy \in [Processes -> [1..2 -> Nat]]
  /\ \A p \in Processes, i \in 1..2 : copy[p][i] <= Content(i)
  /\ sound \in [Processes -> BOOLEAN]
  /\ age \in [Processes -> 0..(TTL + 1)]
  /\ holder \in [Processes -> Threads \cup {"free"}]
  /\ call \in [Threads -> Call]
  /\ redis \in Token /\ redis.val <= Content(Tokens)

\* How far behind a copy may be: no further than the time since its load began, which is no
\* time at all while the load goes on; and a token no further than the reader's copy was when
\* it went to Redis, and the time since.
ConfigAges ==
  /\ \A p \in Processes : sound[p] /\ age[p] <= TTL =>
       \A i \in 1..2 : Outdated(i, copy[p][i]) <= age[p]
  /\ \A t \in Threads : call[t].pc = "answer" => age[Process(t)] < TTL
  /\ \A t \in Threads : call[t].pc = "load" /\ call[t].part = 2 => Outdated(1, copy[Process(t)][1]) = 0
  /\ redis.left > 0 /\ redis.sound => Outdated(Tokens, redis.val) + redis.left < TTL + RedisTTL

\* With every request through, what the web process has loaded is what the tables have.
ConfigThrough ==
  due = 0 =>
    /\ sound["web"] /\ call["web"].pc # "load" => \A i \in 1..2 : copy["web"][i] = Content(i)
    /\ call["web"].pc = "load" /\ call["web"].part = 2 => copy["web"][1] = Content(1)

ConfigInv == ConfigTypes /\ ConfigAges /\ ConfigThrough


\* Nothing has been written, loaded or asked for.
LEMMA ConfigInitially == ASSUME ConfigAssumption, ConfigInit PROVE ConfigInv
<1>1. \A i \in 1..2 : replaced[i] = <<>> /\ Content(i) = 0
  BY DEF ConfigInit, Content
<1>2. <<>> \in Seq(Nat)
  OBVIOUS
<1>3. ConfigTypes
  BY <1>1, <1>2 DEF ConfigInit, ConfigAssumption, ConfigTypes, Quiet, Call, NoToken, Token, Tokens
<1>4. /\ sound = [p \in Processes |-> FALSE] /\ call = [t \in Threads |-> Quiet] /\ redis = NoToken
  BY DEF ConfigInit
<1>5. /\ \A p \in Processes : ~sound[p]
      /\ \A t \in Threads : call[t].pc = "idle"
      /\ redis.left = 0 /\ "web" \in Threads \cap Processes
  BY <1>4 DEF Quiet, NoToken, Threads, Processes
<1>6. ConfigAges /\ ConfigThrough
  BY <1>5 DEF ConfigAges, ConfigThrough
<1>7. QED
  BY <1>3, <1>6 DEF ConfigInv

\* What a table has is not outdated, and nothing is outdated less than not at all.
LEMMA NotOutdated ==
  ASSUME ConfigTypes, NEW i \in 1..2, NEW v \in Nat, v <= Content(i)
  PROVE  /\ Content(i) \in Nat /\ Outdated(i, v) \in Nat
         /\ v = Content(i) => Outdated(i, v) = 0
<1>1. replaced[i] \in Seq(Nat)
  BY DEF ConfigTypes
<1>2. QED
  BY <1>1 DEF Content, Outdated

\* The web process has one thread.
LEMMA ProcessOf == ASSUME ConfigAssumption, NEW t \in Threads
                   PROVE  Process(t) \in Processes /\ (Process(t) = "web" <=> t = "web")
  BY DEF ConfigAssumption, Threads, Process, Processes

\* A commit outdates what was there from now on, and nothing that was outdated already.
LEMMA CommitSteps ==
  ASSUME ConfigAssumption, ConfigInv, NEW j \in 1..2, AdminCommits(j)
  PROVE  ConfigInv'
<1>1. replaced[j] \in Seq(Nat) /\ replaced \in [1..2 -> Seq(Nat)]
  BY DEF ConfigInv, ConfigTypes
<1>2. /\ replaced'[j] = Append(replaced[j], 0) /\ replaced' \in [1..2 -> Seq(Nat)]
      /\ \A i \in 1..2 : i # j => replaced'[i] = replaced[i]
  BY <1>1 DEF AdminCommits
<1>3. Content(j)' = Content(j) + 1 /\ \A i \in 1..2 : i # j => Content(i)' = Content(i)
  BY <1>1, <1>2 DEF Content
<1>4. ASSUME NEW i \in 1..2, NEW v \in Nat, v <= Content(i)
      PROVE  v <= Content(i)' /\ Outdated(i, v)' = Outdated(i, v)
  <2>1. CASE i = j
    <3>1. Len(replaced'[j]) = Len(replaced[j]) + 1
      BY <1>1, <1>2
    <3>2. \A n \in 1..Len(replaced[j]) : replaced'[j][n] = replaced[j][n]
      BY <1>1, <1>2
    <3>3. replaced'[j][Len(replaced[j]) + 1] = 0
      BY <1>1, <1>2
    <3>4. Len(replaced[j]) \in Nat
      BY <1>1
    <3>5. CASE v = Len(replaced[j])
      BY <2>1, <3>1, <3>3, <3>4, <3>5 DEF Content, Outdated
    <3>6. CASE v < Len(replaced[j])
      <4>1. v + 1 \in 1..Len(replaced[j])
        BY <3>4, <3>6
      <4>2. QED
        BY <2>1, <3>1, <3>2, <3>4, <3>6, <4>1 DEF Content, Outdated
    <3>7. QED
      BY <1>4, <2>1, <3>4, <3>5, <3>6 DEF Content
  <2>2. CASE i # j
    BY <1>2, <1>4, <2>2 DEF Content, Outdated
  <2>3. QED
    BY <2>1, <2>2
<1>5. Content(1) \in Nat /\ Content(2) \in Nat
  BY <1>1, NotOutdated DEF ConfigInv, ConfigTypes, Content
<1>6. UNCHANGED <<cache, copy, sound, age, holder, call, redis>> /\ due' = due + 1
      /\ Content(1) + Content(2) < MaxWrites
  BY DEF AdminCommits
<1>7. /\ \A p \in Processes, i \in 1..2 : copy[p][i] \in Nat /\ copy[p][i] <= Content(i)
      /\ redis.val \in Nat /\ redis.val <= Content(2)
  BY DEF ConfigInv, ConfigTypes, Token, Tokens
<1>8. ConfigTypes'
  <2>1. /\ Content(1)' + Content(2)' <= MaxWrites
        /\ due' \in 0..Content(1)' + Content(2)'
    BY <1>3, <1>5, <1>6 DEF ConfigInv, ConfigTypes, ConfigAssumption
  <2>2. /\ \A p \in Processes, i \in 1..2 : copy'[p][i] <= Content(i)'
        /\ redis'.val <= Content(Tokens)'
    BY <1>4, <1>6, <1>7 DEF Tokens
  <2>3. QED
    BY <1>2, <1>6, <2>1, <2>2 DEF ConfigInv, ConfigTypes
<1>9. ConfigAges'
  <2>1. \A p \in Processes, i \in 1..2 : Outdated(i, copy[p][i])' = Outdated(i, copy[p][i])
    BY <1>4, <1>6, <1>7
  <2>2. Outdated(Tokens, redis.val)' = Outdated(Tokens, redis.val)
    BY <1>4, <1>6, <1>7 DEF Tokens
  <2>3. \A t \in Threads : Outdated(1, copy[Process(t)][1])' = Outdated(1, copy[Process(t)][1])
    BY <2>1, ProcessOf
  <2>4. QED
    BY <1>6, <2>1, <2>2, <2>3 DEF ConfigInv, ConfigAges
<1>10. ConfigThrough'
  BY <1>5, <1>6 DEF ConfigInv, ConfigTypes, ConfigThrough
<1>11. QED
  BY <1>8, <1>9, <1>10 DEF ConfigInv

\* A call enters refresh: with a copy young enough it goes on to its answer.
LEMMA RefreshSteps ==
  ASSUME ConfigAssumption, ConfigInv, NEW t \in Threads, NEW force \in BOOLEAN, NEW token \in BOOLEAN,
         Refresh(t, force, token), UNCHANGED <<cache, replaced, copy, sound, age, redis>>,
         due' = due \/ (due > 0 /\ due' = due - 1 /\ t = "web" /\ force)
  PROVE  ConfigInv'
<1> DEFINE p == Process(t)
<1>1. p \in Processes /\ (p = "web" <=> t = "web")
  BY ProcessOf
<1>2. call \in [Threads -> Call] /\ age[p] \in 0..(TTL + 1)
  BY <1>1 DEF ConfigInv, ConfigTypes
<1>3. PICK c \in Call : /\ call' = [call EXCEPT ![t] = c]
                        /\ \/ c.pc = "load" /\ c.part = 1
                           \/ c.pc = "answer" /\ age[p] < TTL /\ ~force
                        /\ call[t].pc = "idle"
                        /\ holder' \in [Processes -> Threads \cup {"free"}]
  <2>0. Quiet \in Call /\ Quiet.part = 1
    BY DEF Quiet, Call
  <2>1. holder \in [Processes -> Threads \cup {"free"}]
    BY DEF ConfigInv, ConfigTypes
  <2>2. CASE ~force /\ age[p] < TTL
    <3>1. PICK c \in Call : c = [Quiet EXCEPT !.pc = "answer", !.token = token] /\ c.pc = "answer"
      <4>1. PICK pc \in {"load", "answer"} : pc = "answer"
        OBVIOUS
      <4>2. /\ [Quiet EXCEPT !.pc = pc, !.token = token] \in Call
            /\ [Quiet EXCEPT !.pc = pc, !.token = token].pc = pc
        <5>1. PICK r \in Call : r = Quiet /\ r.part = 1
          BY <2>0
        <5>2. /\ [r EXCEPT !.pc = pc, !.token = token] \in Call
              /\ [r EXCEPT !.pc = pc, !.token = token].pc = pc
          BY DEF Call
        <5>3. QED
          BY <5>1, <5>2
      <4>3. QED
        BY <4>1, <4>2
    <3>2. call' = [call EXCEPT ![t] = c] /\ call[t].pc = "idle" /\ holder' = holder
      BY <2>2, <3>1 DEF Refresh
    <3>3. QED
      BY <2>1, <2>2, <3>1, <3>2
  <2>3. CASE ~(~force /\ age[p] < TTL)
    <3>1. PICK c \in Call : /\ c = [Quiet EXCEPT !.pc = "load", !.force = force, !.token = token]
                            /\ c.pc = "load" /\ c.part = 1
      <4>1. PICK pc \in {"load", "answer"} : pc = "load"
        OBVIOUS
      <4>2. /\ [Quiet EXCEPT !.pc = pc, !.force = force, !.token = token] \in Call
            /\ [Quiet EXCEPT !.pc = pc, !.force = force, !.token = token].pc = pc
            /\ [Quiet EXCEPT !.pc = pc, !.force = force, !.token = token].part = 1
        <5>1. PICK r \in Call : r = Quiet /\ r.part = 1
          BY <2>0
        <5>2. /\ [r EXCEPT !.pc = pc, !.force = force, !.token = token] \in Call
              /\ [r EXCEPT !.pc = pc, !.force = force, !.token = token].pc = pc
              /\ [r EXCEPT !.pc = pc, !.force = force, !.token = token].part = r.part
          BY DEF Call
        <5>3. QED
          BY <5>1, <5>2
      <4>3. QED
        BY <4>1, <4>2
    <3>2. /\ call' = [call EXCEPT ![t] = c] /\ call[t].pc = "idle"
          /\ holder' = [holder EXCEPT ![p] = t]
      BY <2>3, <3>1 DEF Refresh
    <3>3. QED
      BY <1>1, <2>1, <3>1, <3>2
  <2>4. QED
    BY <2>2, <2>3
<1>4. /\ call' \in [Threads -> Call] /\ call'[t] = c
      /\ \A s \in Threads : s # t => call'[s] = call[s]
  BY <1>2, <1>3
<1>5. \A i, v : Content(i)' = Content(i) /\ Outdated(i, v)' = Outdated(i, v)
  BY DEF Content, Outdated
<1>6. Content(1) \in Nat /\ Content(2) \in Nat
  BY DEF ConfigInv, ConfigTypes, Content
<1>7. ConfigTypes'
  BY <1>3, <1>4, <1>5, <1>6 DEF ConfigInv, ConfigTypes
<1>8. ConfigAges'
  <2>1. \A s \in Threads : call'[s].pc = "answer" => age[Process(s)] < TTL
    BY <1>3, <1>4 DEF ConfigInv, ConfigAges
  <2>2. \A s \in Threads : call'[s].pc = "load" /\ call'[s].part = 2 => Outdated(1, copy[Process(s)][1]) = 0
    BY <1>3, <1>4 DEF ConfigInv, ConfigAges
  <2>3. QED
    BY <1>5, <2>1, <2>2 DEF ConfigInv, ConfigAges
<1>9. ConfigThrough'
  <2>1. CASE t = "web"
    BY <1>3, <1>4, <1>5, <2>1 DEF ConfigInv, ConfigThrough
  <2>2. CASE t # "web"
    <3>1. call'["web"] = call["web"] /\ due' = due
      BY <1>4, <2>2 DEF Threads
    <3>2. QED
      BY <1>5, <3>1 DEF ConfigInv, ConfigThrough
  <2>3. QED
    BY <2>1, <2>2
<1>10. QED
  BY <1>7, <1>8, <1>9 DEF ConfigInv

\* refresh ends: what it has loaded is new.
LEMMA StampSteps ==
  ASSUME ConfigAssumption, ConfigInv, NEW t \in Threads, NEW ok \in BOOLEAN, call[t].pc = "load",
         Stamp(t, ok), ConfigTypes', UNCHANGED <<cache, replaced, due, redis>>,
         \A q \in Processes \ {Process(t)} : copy'[q] = copy[q],
         \A i \in 1..2 : copy'[Process(t)][i] \in {copy[Process(t)][i], Content(i)},
         ok => copy'[Process(t)][1] = copy[Process(t)][1] /\ copy'[Process(t)][2] = Content(2) /\ call[t].part = 2
  PROVE  ConfigInv'
<1> DEFINE p == Process(t)
<1>1. p \in Processes /\ (p = "web" <=> t = "web")
  BY ProcessOf
<1>2. call \in [Threads -> Call]
  BY DEF ConfigInv, ConfigTypes
<1>3. /\ age'[p] = 0 /\ sound'[p] = ok
      /\ \A q \in Processes : q # p => age'[q] = age[q] /\ sound'[q] = sound[q]
      /\ call'[t].pc \in {"idle", "answer"}
      /\ \A s \in Threads : s # t => call'[s] = call[s]
  <2>1. /\ age \in [Processes -> 0..(TTL + 1)] /\ sound \in [Processes -> BOOLEAN]
    BY DEF ConfigInv, ConfigTypes
  <2>2. age' = [age EXCEPT ![p] = 0] /\ sound' = [sound EXCEPT ![p] = ok]
    BY DEF Stamp
  <2>3. call' = [call EXCEPT ![t] = IF call[t].force THEN Quiet ELSE [call[t] EXCEPT !.pc = "answer", !.part = 1]]
    BY DEF Stamp
  <2>4. call[t] \in Call
    BY <1>2
  <2>5. [call[t] EXCEPT !.pc = "answer", !.part = 1].pc = "answer" /\ Quiet.pc = "idle"
    BY <2>4 DEF Call, Quiet
  <2>6. call'[t].pc \in {"idle", "answer"}
    BY <1>2, <2>3, <2>5
  <2>7. \A s \in Threads : s # t => call'[s] = call[s]
    BY <1>2, <2>3
  <2>8. QED
    BY <1>1, <2>1, <2>2, <2>6, <2>7
<1>4. \A i, v : Content(i)' = Content(i) /\ Outdated(i, v)' = Outdated(i, v)
  BY DEF Content, Outdated
<1>5. \A i \in 1..2 : Content(i) \in Nat /\ Outdated(i, Content(i)) = 0
  <2>1. \A i \in 1..2 : replaced[i] \in Seq(Nat)
    BY DEF ConfigInv, ConfigTypes
  <2>2. QED
    BY <2>1 DEF Content, Outdated
<1>6. ok => \A i \in 1..2 : Outdated(i, copy'[p][i]) = 0
  <2>1. call[t].part = 2 => Outdated(1, copy[p][1]) = 0
    BY DEF ConfigInv, ConfigAges
  <2>2. QED
    BY <1>5, <2>1
<1>7. ConfigAges'
  <2>1. ASSUME NEW q \in Processes, sound'[q], age'[q] <= TTL, NEW i \in 1..2
        PROVE  Outdated(i, copy'[q][i]) <= age'[q]
    <3>1. CASE q = p
      BY <1>3, <1>6, <2>1, <3>1
    <3>2. CASE q # p
      BY <1>3, <2>1, <3>2 DEF ConfigInv, ConfigAges
    <3>3. QED
      BY <3>1, <3>2
  <2>2. ASSUME NEW s \in Threads, call'[s].pc = "answer" PROVE age'[Process(s)] < TTL
    <3>1. CASE Process(s) = p
      BY <1>3, <3>1 DEF ConfigAssumption
    <3>2. CASE Process(s) # p
      <4>1. s # t /\ Process(s) \in Processes
        BY <3>2, ProcessOf
      <4>2. QED
        BY <1>3, <2>2, <3>2, <4>1 DEF ConfigInv, ConfigAges
    <3>3. QED
      BY <3>1, <3>2
  <2>3. ASSUME NEW s \in Threads, call'[s].pc = "load", call'[s].part = 2
        PROVE  Outdated(1, copy'[Process(s)][1]) = 0
    <3>1. s # t
      BY <1>3, <2>3
    <3>2. Outdated(1, copy[Process(s)][1]) = 0
      BY <1>3, <2>3, <3>1 DEF ConfigInv, ConfigAges
    <3>3. copy'[Process(s)][1] \in {copy[Process(s)][1], Content(1)}
      BY ProcessOf
    <3>4. QED
      BY <1>5, <3>2, <3>3
  <2>4. QED
    BY <1>4, <2>1, <2>2, <2>3 DEF ConfigInv, ConfigAges
<1>8. ConfigThrough'
  <2>1. CASE t = "web"
    <3>1. due = 0 /\ ok => \A i \in 1..2 : copy'["web"][i] = Content(i)
      BY <1>1, <2>1 DEF ConfigInv, ConfigThrough
    <3>2. QED
      BY <1>1, <1>3, <1>4, <2>1, <3>1 DEF ConfigThrough
  <2>2. CASE t # "web"
    <3>1. /\ call'["web"] = call["web"] /\ sound'["web"] = sound["web"] /\ copy'["web"] = copy["web"]
      BY <1>1, <1>3, <2>2 DEF Threads, Processes
    <3>2. QED
      BY <1>4, <3>1 DEF ConfigInv, ConfigThrough
  <2>3. QED
    BY <2>1, <2>2
<1>9. QED
  BY <1>7, <1>8 DEF ConfigInv

\* One SELECT, or its failure.
LEMMA LoadSteps ==
  ASSUME ConfigAssumption, ConfigInv, NEW t \in Threads, Load(t) \/ LoadFails(t)
  PROVE  ConfigInv'
<1> DEFINE p == Process(t)
<1>1. p \in Processes /\ (p = "web" <=> t = "web")
  BY ProcessOf
<1>2. /\ call \in [Threads -> Call] /\ copy \in [Processes -> [1..2 -> Nat]]
      /\ age \in [Processes -> 0..(TTL + 1)] /\ sound \in [Processes -> BOOLEAN]
      /\ holder \in [Processes -> Threads \cup {"free"}]
  BY DEF ConfigInv, ConfigTypes
<1>3. call[t].pc = "load" /\ call[t] \in Call /\ call[t].part \in 1..2
  BY <1>2 DEF Load, LoadFails, Call
<1>4. \A i, v : Content(i)' = Content(i) /\ Outdated(i, v)' = Outdated(i, v)
  BY DEF Load, LoadFails, Content, Outdated
<1>5. \A i \in 1..2 : Content(i) \in Nat /\ Outdated(i, Content(i)) = 0
  <2>1. \A i \in 1..2 : replaced[i] \in Seq(Nat)
    BY DEF ConfigInv, ConfigTypes
  <2>2. QED
    BY <2>1 DEF Content, Outdated
<1>6. UNCHANGED <<cache, replaced, due, redis>>
  BY DEF Load, LoadFails
<1>7. ASSUME NEW ok \in BOOLEAN, Stamp(t, ok), copy' \in [Processes -> [1..2 -> Nat]],
             \A q \in Processes, i \in 1..2 : copy'[q][i] <= Content(i)
      PROVE  ConfigTypes'
  <2>1. Quiet \in Call
    BY DEF Quiet, Call
  <2>2. PICK c \in Call : call' = [call EXCEPT ![t] = c]
    <3>1. PICK r \in Call : r = call[t]
      BY <1>3
    <3>2. [r EXCEPT !.pc = "answer", !.part = 1] \in Call
      <4>1. PICK pc \in {"load", "answer"}, n \in 1..2 : pc = "answer" /\ n = 1
        OBVIOUS
      <4>2. [r EXCEPT !.pc = pc, !.part = n] \in Call
        BY DEF Call
      <4>3. QED
        BY <4>1, <4>2
    <3>3. QED
      BY <1>7, <2>1, <3>1, <3>2 DEF Stamp
  <2>3. call' \in [Threads -> Call]
    BY <1>2, <2>2
  <2>4. /\ sound' \in [Processes -> BOOLEAN] /\ age' \in [Processes -> 0..(TTL + 1)]
        /\ holder' \in [Processes -> Threads \cup {"free"}]
    <3>1. PICK q \in Processes : q = p
      BY <1>1
    <3>2. /\ sound' = [sound EXCEPT ![q] = ok] /\ age' = [age EXCEPT ![q] = 0]
          /\ holder' = [holder EXCEPT ![q] = "free"]
      BY <1>7, <3>1 DEF Stamp
    <3>3. 0 \in 0..(TTL + 1)
      BY DEF ConfigAssumption
    <3>4. QED
      BY <1>2, <3>2, <3>3
  <2>5. QED
    BY <1>4, <1>6, <1>7, <2>3, <2>4 DEF ConfigInv, ConfigTypes
<1>8. CASE LoadFails(t)
  <2>1. Stamp(t, FALSE) /\ copy' = copy
    BY <1>8 DEF LoadFails
  <2>2. \A q \in Processes, i \in 1..2 : copy'[q][i] <= Content(i)
    BY <2>1 DEF ConfigInv, ConfigTypes
  <2>3. ConfigTypes'
    BY <1>2, <1>7, <2>1, <2>2
  <2>4. QED
    BY <1>3, <1>6, <2>1, <2>3, StampSteps
<1>9. CASE Load(t)
  <2>1. PICK k \in 1..2 : k = call[t].part
    BY <1>3
  <2>2. copy' = [copy EXCEPT ![p][k] = Content(k)]
    BY <1>9, <2>1 DEF Load
  <2>3. /\ copy' \in [Processes -> [1..2 -> Nat]]
        /\ \A q \in Processes : q # p => copy'[q] = copy[q]
        /\ copy'[p][k] = Content(k)
        /\ \A i \in 1..2 : i # k => copy'[p][i] = copy[p][i]
    BY <1>1, <1>2, <1>5, <2>2
  <2>4. ASSUME NEW q \in Processes, NEW i \in 1..2 PROVE copy'[q][i] <= Content(i)
    <3>1. copy[q][i] <= Content(i) /\ Content(i) <= Content(i)
      BY <1>5 DEF ConfigInv, ConfigTypes
    <3>2. copy'[q][i] = copy[q][i] \/ copy'[q][i] = Content(i)
      <4>1. CASE q = p /\ i = k
        BY <2>3, <4>1
      <4>2. CASE q = p /\ i # k
        BY <2>3, <4>2
      <4>3. CASE q # p
        BY <2>3, <4>3
      <4>4. QED
        BY <4>1, <4>2, <4>3
    <3>3. QED
      BY <3>1, <3>2
  <2>5. CASE k = 2
    <3>1. Stamp(t, TRUE)
      <4>1. call[t].part # 1
        BY <2>1, <2>5
      <4>2. QED
        BY <1>9, <4>1 DEF Load
    <3>2. ConfigTypes'
      BY <1>7, <2>3, <2>4, <3>1
    <3>3. \A i \in 1..2 : copy'[p][i] \in {copy[p][i], Content(i)}
      BY <2>3
    <3>4. copy'[p][1] = copy[p][1] /\ copy'[p][2] = Content(2)
      BY <2>3, <2>5
    <3>5. QED
      BY <1>3, <1>6, <2>1, <2>3, <2>5, <3>1, <3>2, <3>3, <3>4, StampSteps
  <2>6. CASE k = 1
    <3>1. call' = [call EXCEPT ![t].part = 2] /\ UNCHANGED <<sound, age, holder>>
      BY <1>9, <2>1, <2>6 DEF Load
    <3>2. [call[t] EXCEPT !.part = 2] \in Call
      BY <1>3 DEF Call
    <3>3. /\ call' \in [Threads -> Call] /\ call'[t].pc = "load"
          /\ \A s \in Threads : s # t => call'[s] = call[s]
      BY <1>2, <1>3, <3>1, <3>2
    <3>4. ConfigTypes'
      BY <1>4, <1>6, <2>3, <2>4, <3>1, <3>3 DEF ConfigInv, ConfigTypes
    <3>5. \A q \in Processes, i \in 1..2 : Outdated(i, copy'[q][i]) \in {0, Outdated(i, copy[q][i])}
      BY <1>5, <2>3
    <3>6. ConfigAges'
      <4>1. ASSUME NEW q \in Processes, sound[q], age[q] <= TTL, NEW i \in 1..2
            PROVE  Outdated(i, copy'[q][i]) <= age[q]
        BY <1>2, <3>5, <4>1 DEF ConfigInv, ConfigAges
      <4>2. ASSUME NEW s \in Threads, call'[s].pc = "answer" PROVE age[Process(s)] < TTL
        BY <3>3, <4>2 DEF ConfigInv, ConfigAges
      <4>3. ASSUME NEW s \in Threads, call'[s].pc = "load", call'[s].part = 2
            PROVE  Outdated(1, copy'[Process(s)][1]) = 0
        <5>1. CASE s = t
          BY <1>5, <2>3, <2>6, <5>1
        <5>2. CASE s # t
          <6>1. Outdated(1, copy[Process(s)][1]) = 0
            BY <3>3, <4>3, <5>2 DEF ConfigInv, ConfigAges
          <6>2. QED
            BY <3>5, <6>1, ProcessOf
        <5>3. QED
          BY <5>1, <5>2
      <4>4. QED
        BY <1>4, <1>6, <3>1, <4>1, <4>2, <4>3 DEF ConfigInv, ConfigAges
    <3>7. ConfigThrough'
      <4>1. CASE t = "web"
        BY <1>1, <1>4, <1>6, <2>3, <2>6, <3>3, <4>1 DEF ConfigThrough
      <4>2. CASE t # "web"
        <5>1. call'["web"] = call["web"] /\ copy'["web"] = copy["web"]
          BY <1>1, <2>3, <3>3, <4>2 DEF Threads, Processes
        <5>2. QED
          BY <1>4, <1>6, <3>1, <5>1 DEF ConfigInv, ConfigThrough
      <4>3. QED
        BY <4>1, <4>2
    <3>8. QED
      BY <3>4, <3>6, <3>7 DEF ConfigInv
  <2>7. QED
    BY <2>5, <2>6
<1>10. QED
  BY <1>8, <1>9

\* A token goes to Redis with what is left of its reader's TTL.
LEMMA AnswerSteps ==
  ASSUME ConfigAssumption, ConfigInv, NEW t \in Threads, Answer(t)
  PROVE  ConfigInv'
<1> DEFINE p == Process(t)
<1>1. p \in Processes /\ (p = "web" <=> t = "web")
  BY ProcessOf
<1>2. /\ call \in [Threads -> Call] /\ copy[p][2] \in Nat /\ copy[p][2] <= Content(2)
      /\ sound[p] \in BOOLEAN /\ age[p] \in 0..(TTL + 1) /\ redis \in Token
  BY <1>1 DEF ConfigInv, ConfigTypes
<1>3. /\ call[t].pc = "answer" /\ call' = [call EXCEPT ![t] = Quiet]
      /\ UNCHANGED <<cache, replaced, due, copy, sound, age, holder>>
  BY DEF Answer
<1>4. Quiet \in Call /\ Quiet.pc = "idle"
  BY DEF Quiet, Call
<1>5. /\ call' \in [Threads -> Call] /\ call'[t].pc = "idle"
      /\ \A s \in Threads : s # t => call'[s] = call[s]
  BY <1>2, <1>3, <1>4
<1>6. \A i, v : Content(i)' = Content(i) /\ Outdated(i, v)' = Outdated(i, v)
  BY <1>3 DEF Content, Outdated
<1>7. /\ redis' \in Token /\ redis'.val <= Content(Tokens)
      /\ redis'.left > 0 /\ redis'.sound => Outdated(Tokens, redis'.val) + redis'.left < TTL + RedisTTL
  <2>1. CASE redis' = redis
    BY <1>2, <2>1 DEF ConfigInv, ConfigTypes, ConfigAges
  <2>2. CASE redis' = [val |-> copy[p][Tokens], sound |-> sound[p], left |-> RedisTTL]
    <3>1. age[p] < TTL
      BY <1>3 DEF ConfigInv, ConfigAges
    <3>2. sound[p] => Outdated(2, copy[p][2]) <= age[p]
      BY <1>1, <1>2, <3>1 DEF ConfigInv, ConfigAges, ConfigAssumption
    <3>3. Outdated(2, copy[p][2]) \in Nat
      BY <1>2, NotOutdated DEF ConfigInv
    <3>4. QED
      BY <1>2, <2>2, <3>1, <3>2, <3>3 DEF Token, Tokens, ConfigAssumption
  <2>3. QED
    BY <2>1, <2>2 DEF Answer
<1>8. ConfigTypes'
  BY <1>3, <1>5, <1>6, <1>7 DEF ConfigInv, ConfigTypes
<1>9. ConfigAges'
  BY <1>3, <1>5, <1>6, <1>7 DEF ConfigInv, ConfigAges
<1>10. ConfigThrough'
  <2>1. CASE t = "web"
    BY <1>3, <1>5, <1>6, <2>1 DEF ConfigInv, ConfigThrough
  <2>2. CASE t # "web"
    BY <1>3, <1>5, <1>6, <2>2 DEF ConfigInv, ConfigThrough, Threads
  <2>3. QED
    BY <2>1, <2>2
<1>11. QED
  BY <1>8, <1>9, <1>10 DEF ConfigInv

\* A process that starts anew trusts nothing it has.
LEMMA RestartSteps ==
  ASSUME ConfigAssumption, ConfigInv, NEW p \in Processes, Restart(p)
  PROVE  ConfigInv'
<1>1. /\ call \in [Threads -> Call] /\ copy \in [Processes -> [1..2 -> Nat]]
      /\ age \in [Processes -> 0..(TTL + 1)] /\ sound \in [Processes -> BOOLEAN]
      /\ holder \in [Processes -> Threads \cup {"free"}]
  BY DEF ConfigInv, ConfigTypes
<1>2. Quiet \in Call /\ Quiet.pc = "idle"
  BY DEF Quiet, Call
<1>3. /\ \A s \in Threads : Process(s) = p => call'[s].pc = "idle"
      /\ \A s \in Threads : Process(s) # p => call'[s] = call[s]
      /\ call' \in [Threads -> Call]
  BY <1>1, <1>2 DEF Restart
<1>4. \A i, v : Content(i)' = Content(i) /\ Outdated(i, v)' = Outdated(i, v)
  BY DEF Restart, Content, Outdated
<1>5. \A i \in 1..2 : Content(i) \in Nat
  BY DEF ConfigInv, ConfigTypes, Content
<1>6. /\ ~sound'[p] /\ copy'[p] = [i \in 1..2 |-> 0] /\ age'[p] = TTL
      /\ \A q \in Processes : q # p => sound'[q] = sound[q] /\ copy'[q] = copy[q] /\ age'[q] = age[q]
  BY <1>1 DEF Restart
<1>7. ConfigTypes'
  <2>1. /\ sound' \in [Processes -> BOOLEAN] /\ age' \in [Processes -> 0..(TTL + 1)]
        /\ holder' \in [Processes -> Threads \cup {"free"}] /\ copy' \in [Processes -> [1..2 -> Nat]]
    BY <1>1 DEF Restart, ConfigAssumption
  <2>2. ASSUME NEW q \in Processes, NEW i \in 1..2 PROVE copy'[q][i] <= Content(i)
    <3>1. copy[q][i] <= Content(i) /\ 0 <= Content(i)
      BY <1>5 DEF ConfigInv, ConfigTypes
    <3>2. copy'[q][i] = 0 \/ copy'[q] = copy[q]
      BY <1>6
    <3>3. QED
      BY <3>1, <3>2
  <2>3. due' \in 0..Content(1) + Content(2) /\ UNCHANGED <<cache, replaced, redis>>
    BY <1>5 DEF Restart, ConfigInv, ConfigTypes
  <2>4. QED
    BY <1>3, <1>4, <2>1, <2>2, <2>3 DEF ConfigInv, ConfigTypes
<1>8. ConfigAges'
  <2>1. redis' = redis
    BY DEF Restart
  <2>2. ASSUME NEW q \in Processes, sound'[q], age'[q] <= TTL, NEW i \in 1..2
        PROVE  Outdated(i, copy'[q][i]) <= age'[q]
    BY <1>6, <2>2 DEF ConfigInv, ConfigAges
  <2>3. ASSUME NEW s \in Threads, call'[s].pc # "idle"
        PROVE  call'[s] = call[s] /\ age'[Process(s)] = age[Process(s)] /\ copy'[Process(s)] = copy[Process(s)]
    BY <1>3, <1>6, <2>3, ProcessOf
  <2>4. QED
    BY <1>4, <2>1, <2>2, <2>3 DEF ConfigInv, ConfigAges
<1>9. ConfigThrough'
  <2>1. "web" \in Threads /\ Process("web") = "web" /\ "web" \in Processes
    BY DEF Threads, Process, Processes
  <2>2. CASE p = "web"
    BY <1>3, <1>6, <2>1, <2>2 DEF ConfigThrough
  <2>3. CASE p # "web"
    BY <1>3, <1>4, <1>6, <2>1, <2>3 DEF Restart, ConfigInv, ConfigThrough
  <2>4. QED
    BY <2>2, <2>3
<1>10. QED
  BY <1>7, <1>8, <1>9 DEF ConfigInv

\* A unit of time makes everything older together, when nobody is in the middle of a call.
LEMMA TickSteps == ASSUME ConfigAssumption, ConfigInv, ConfigTick PROVE ConfigInv'
<1>1. /\ replaced \in [1..2 -> Seq(Nat)] /\ copy \in [Processes -> [1..2 -> Nat]]
      /\ age \in [Processes -> 0..(TTL + 1)] /\ redis \in Token
      /\ TTL \in Nat \ {0} /\ RedisTTL \in Nat \ {0}
  BY DEF ConfigInv, ConfigTypes, ConfigAssumption
<1>2. /\ \A t \in Threads : call[t].pc = "idle"
      /\ UNCHANGED <<cache, due, copy, sound, holder, call>>
      /\ redis' = IF redis.left <= 1 THEN NoToken ELSE [redis EXCEPT !.left = @ - 1]
      /\ age' = [p \in Processes |-> Least(age[p] + 1, TTL + 1)]
      /\ replaced' = [i \in 1..2 |-> [v \in DOMAIN replaced[i] |-> Least(replaced[i][v] + 1, TTL + RedisTTL)]]
  BY DEF ConfigTick
<1>3. ASSUME NEW i \in 1..2
      PROVE  /\ replaced'[i] \in Seq(Nat) /\ Len(replaced'[i]) = Len(replaced[i])
             /\ \A v \in 1..Len(replaced[i]) : replaced'[i][v] <= replaced[i][v] + 1
  <2>1. replaced[i] \in Seq(Nat)
    BY <1>1
  <2>2. PICK r : r = replaced[i]
    OBVIOUS
  <2>3. /\ r \in Seq(Nat) /\ Len(r) \in Nat /\ DOMAIN r = 1..Len(r)
        /\ replaced'[i] = [v \in 1..Len(r) |-> Least(r[v] + 1, TTL + RedisTTL)]
    <3>1. r \in Seq(Nat) /\ Len(r) \in Nat /\ DOMAIN r = 1..Len(r)
      BY <2>1, <2>2
    <3>2. replaced'[i] = [v \in DOMAIN replaced[i] |-> Least(replaced[i][v] + 1, TTL + RedisTTL)]
      BY <1>2
    <3>3. QED
      BY <2>2, <3>1, <3>2
  <2>4. \A v \in 1..Len(r) : Least(r[v] + 1, TTL + RedisTTL) \in Nat /\ Least(r[v] + 1, TTL + RedisTTL) <= r[v] + 1
    BY <1>1, <2>3 DEF Least
  <2>5. replaced'[i] \in [1..Len(r) -> Nat]
    BY <2>3, <2>4
  <2>6. replaced'[i] \in Seq(Nat) /\ Len(replaced'[i]) = Len(r)
    BY <2>3, <2>5, IsASeq
  <2>7. QED
    BY <2>2, <2>3, <2>4, <2>6
<1>4. \A i \in 1..2 : Content(i)' = Content(i) /\ Content(i) \in Nat
  BY <1>1, <1>3 DEF Content
<1>5. ASSUME NEW i \in 1..2, NEW v \in Nat, v <= Content(i)
      PROVE  /\ Outdated(i, v)' \in Nat /\ Outdated(i, v) \in Nat /\ Outdated(i, v)' <= Outdated(i, v) + 1
  <2>1. /\ replaced[i] \in Seq(Nat) /\ replaced'[i] \in Seq(Nat) /\ Len(replaced'[i]) = Len(replaced[i])
    BY <1>1, <1>3
  <2>2. CASE v < Content(i)
    <3>1. v + 1 \in 1..Len(replaced[i]) /\ Content(i)' = Content(i)
      BY <1>4, <2>1, <2>2 DEF Content
    <3>2. replaced'[i][v + 1] <= replaced[i][v + 1] + 1
      BY <1>3, <3>1
    <3>3. replaced'[i][v + 1] \in Nat /\ replaced[i][v + 1] \in Nat
      BY <2>1, <3>1
    <3>4. QED
      BY <2>2, <3>1, <3>2, <3>3 DEF Outdated
  <2>3. CASE ~(v < Content(i))
    BY <1>4, <2>3 DEF Outdated
  <2>4. QED
    BY <2>2, <2>3
<1>6. /\ \A p \in Processes, i \in 1..2 : copy[p][i] \in Nat /\ copy[p][i] <= Content(i)
      /\ redis.val \in Nat /\ redis.val <= Content(2)
  BY <1>1 DEF ConfigInv, ConfigTypes, Token, Tokens
<1>7. /\ redis' \in Token /\ redis'.val <= Content(Tokens)
      /\ redis'.left > 0 /\ redis'.sound => Outdated(Tokens, redis.val)' + redis'.left < TTL + RedisTTL
  <2>1. CASE redis.left <= 1
    BY <1>1, <1>2, <1>4, <2>1 DEF NoToken, Token, Tokens
  <2>2. CASE ~(redis.left <= 1)
    <3>1. redis.left \in Nat
      BY <1>1 DEF Token
    <3>2. redis' = [redis EXCEPT !.left = redis.left - 1]
      BY <1>2, <2>2
    <3>3. redis' \in Token /\ redis'.val = redis.val /\ redis'.sound = redis.sound /\ redis'.left = redis.left - 1
      <4>1. PICK n \in 0..RedisTTL : n = redis.left - 1
        BY <1>1, <2>2, <3>1 DEF Token
      <4>2. redis' = [redis EXCEPT !.left = n]
        BY <3>2, <4>1
      <4>3. QED
        BY <1>1, <4>1, <4>2 DEF Token
    <3>4. redis.sound => Outdated(2, redis.val) + redis.left < TTL + RedisTTL
      BY <2>2, <3>1 DEF ConfigInv, ConfigAges, Tokens
    <3>5. /\ Outdated(2, redis.val)' \in Nat /\ Outdated(2, redis.val) \in Nat
          /\ Outdated(2, redis.val)' <= Outdated(2, redis.val) + 1
      <4>1. PICK v \in Nat : v = redis.val /\ v <= Content(2)
        BY <1>6
      <4>2. QED
        BY <1>5, <3>3, <4>1
    <3>6. /\ Outdated(Tokens, redis.val)' = Outdated(2, redis.val)'
          /\ redis'.val <= Content(Tokens)
      BY <1>6, <3>3 DEF Tokens
    <3>7. redis'.sound => Outdated(2, redis.val)' + redis'.left < TTL + RedisTTL
      BY <1>1, <3>1, <3>3, <3>4, <3>5
    <3>8. QED
      BY <3>3, <3>6, <3>7
  <2>3. QED
    BY <2>1, <2>2
<1>8. \A p \in Processes : /\ age'[p] \in 0..(TTL + 1)
                           /\ age'[p] <= TTL => age'[p] = age[p] + 1 /\ age[p] <= TTL
  BY <1>1, <1>2 DEF Least
<1>9. ConfigTypes'
  <2>1. replaced' \in [1..2 -> Seq(Nat)]
    BY <1>2, <1>3
  <2>2. age' \in [Processes -> 0..(TTL + 1)]
    <3>1. \A q \in Processes : age'[q] \in 0..(TTL + 1)
      BY <1>8
    <3>2. DOMAIN age' = Processes /\ age' = [q \in Processes |-> age'[q]]
      BY <1>2
    <3>3. QED
      BY <3>1, <3>2
  <2>3. /\ UNCHANGED <<cache, due, copy, sound, holder, call>>
        /\ \A i \in 1..2 : Content(i)' = Content(i)
    BY <1>2, <1>4
  <2>4. Content(1)' + Content(2)' <= MaxWrites /\ due' \in 0..(Content(1)' + Content(2)')
    BY <2>3 DEF ConfigInv, ConfigTypes
  <2>5. \A p \in Processes, i \in 1..2 : copy'[p][i] <= Content(i)'
    BY <2>3 DEF ConfigInv, ConfigTypes
  <2>6. redis' \in Token /\ redis'.val <= Content(Tokens)'
    BY <1>7, <2>3 DEF Tokens
  <2>7. QED
    BY <2>1, <2>2, <2>3, <2>4, <2>5, <2>6 DEF ConfigInv, ConfigTypes
<1>10. ConfigAges'
  <2>1. ASSUME NEW p \in Processes, sound[p], age'[p] <= TTL, NEW i \in 1..2
        PROVE  Outdated(i, copy[p][i])' <= age'[p]
    <3>0. age'[p] = age[p] + 1 /\ age[p] <= TTL
      BY <1>8, <2>1
    <3>1. Outdated(i, copy[p][i]) <= age[p] /\ age'[p] = age[p] + 1 /\ age[p] \in 0..(TTL + 1)
      BY <1>1, <2>1, <3>0 DEF ConfigInv, ConfigAges
    <3>2. PICK v \in Nat : v = copy[p][i] /\ v <= Content(i)
      BY <1>6
    <3>3. Outdated(i, copy[p][i])' = Outdated(i, v)'
      BY <1>2, <3>2
    <3>4. QED
      BY <1>5, <3>1, <3>2, <3>3
  <2>2. /\ \A p \in Processes : sound'[p] /\ age'[p] <= TTL =>
             \A i \in 1..2 : Outdated(i, copy[p][i])' <= age'[p]
        /\ \A t \in Threads : call'[t].pc = "idle"
    BY <1>2, <2>1
  <2>3. QED
    BY <1>7, <2>2 DEF ConfigAges
<1>11. ConfigThrough'
  BY <1>2, <1>4 DEF ConfigInv, ConfigThrough
<1>12. QED
  BY <1>9, <1>10, <1>11 DEF ConfigInv

\* Every step of the caches keeps the invariant.
LEMMA ConfigSteps == ASSUME ConfigAssumption, ConfigInv, [ConfigNext]_configVars PROVE ConfigInv'
<1>1. CASE UNCHANGED configVars
  BY <1>1 DEF ConfigInv, ConfigTypes, ConfigAges, ConfigThrough, Content, Outdated, configVars
<1>2. ASSUME NEW i \in 1..2, AdminCommits(i) PROVE ConfigInv'
  BY <1>2, CommitSteps
<1>3. CASE AdminRefreshes
  <2>1. "web" \in Threads
    BY DEF Threads
  <2>2. QED
    BY <1>3, <2>1, RefreshSteps DEF AdminRefreshes
<1>4. ASSUME NEW t \in Threads, Read(t) \/ ReadToken(t) PROVE ConfigInv'
  BY <1>4, RefreshSteps DEF Read, ReadToken
<1>5. ASSUME NEW t \in Threads, Load(t) \/ LoadFails(t) \/ Answer(t) PROVE ConfigInv'
  BY <1>5, LoadSteps, AnswerSteps
<1>6. ASSUME NEW p \in Processes, Restart(p) PROVE ConfigInv'
  BY <1>6, RestartSteps
<1>7. CASE ConfigTick
  BY <1>7, TickSteps
<1>8. QED
  BY <1>1, <1>2, <1>3, <1>4, <1>5, <1>6, <1>7 DEF ConfigNext

\* The invariant gives ConfigRecent, and the types.
LEMMA RecentOfInv == ASSUME ConfigAssumption, ConfigInv PROVE ConfigRecent /\ ConfigTypeOK
<1>1. ASSUME NEW t \in Threads, call[t].pc = "answer", sound[Process(t)], NEW i \in 1..2
      PROVE  Outdated(i, copy[Process(t)][i]) < TTL
  <2>1. PICK p \in Processes : p = Process(t)
    BY ProcessOf
  <2>2. age[p] < TTL /\ age[p] \in 0..(TTL + 1) /\ TTL \in Nat
    BY <1>1, <2>1 DEF ConfigInv, ConfigAges, ConfigTypes, ConfigAssumption
  <2>3. Outdated(i, copy[p][i]) <= age[p]
    BY <1>1, <2>1, <2>2 DEF ConfigInv, ConfigAges
  <2>4. Outdated(i, copy[p][i]) \in Nat
    <3>1. copy[p][i] \in Nat /\ copy[p][i] <= Content(i)
      BY DEF ConfigInv, ConfigTypes
    <3>2. QED
      BY <3>1, NotOutdated DEF ConfigInv
  <2>5. QED
    BY <2>1, <2>2, <2>3, <2>4
<1>2. redis.left > 0 /\ redis.sound => Outdated(Tokens, redis.val) < TTL + RedisTTL - 1
  <2>1. redis.val \in Nat /\ redis.val <= Content(2) /\ redis.left \in 0..RedisTTL
    BY DEF ConfigInv, ConfigTypes, Token, Tokens
  <2>2. Outdated(2, redis.val) \in Nat
    BY <2>1, NotOutdated DEF ConfigInv
  <2>3. QED
    BY <2>1, <2>2 DEF ConfigInv, ConfigAges, Tokens, ConfigAssumption
<1>3. ConfigRecent
  BY <1>1, <1>2 DEF ConfigRecent, ConfigInv, ConfigThrough
<1>4. ConfigTypeOK
  <2>1. \A i \in 1..2 : Content(i) \in Nat
    BY DEF ConfigInv, ConfigTypes, Content
  <2>2. Content(1) + Content(2) <= MaxWrites /\ MaxWrites \in Nat
    BY DEF ConfigInv, ConfigTypes, ConfigAssumption
  <2>3. \A p \in Processes : copy[p] \in [1..2 -> 0..MaxWrites]
    <3>1. ASSUME NEW p \in Processes, NEW i \in 1..2 PROVE copy[p][i] \in 0..MaxWrites
      <4>1. copy[p][i] \in Nat /\ copy[p][i] <= Content(i)
        BY DEF ConfigInv, ConfigTypes
      <4>2. QED
        BY <2>1, <2>2, <4>1
    <3>2. QED
      BY <3>1 DEF ConfigInv, ConfigTypes
  <2>4. due \in 0..MaxWrites
    BY <2>1, <2>2 DEF ConfigInv, ConfigTypes
  <2>5. \A t \in Threads : call[t].pc \in {"idle", "load", "answer"}
    BY DEF ConfigInv, ConfigTypes, Call
  <2>6. redis.left \in 0..RedisTTL
    BY DEF ConfigInv, ConfigTypes, Token
  <2>7. QED
    BY <2>3, <2>4, <2>5, <2>6 DEF ConfigInv, ConfigTypes, ConfigTypeOK
<1>5. QED
  BY <1>3, <1>4

\* What a reader gets was right less than a TTL ago, a token from Redis less than both TTLs,
\* and what the administrators wrote is in the web process's copy when their requests are
\* through: for any number of threads, writes and restarts.
THEOREM ConfigRecentHolds == ConfigSpec => []ConfigRecent
<1>1. ConfigInit => ConfigInv
  BY ConfigInitially, ConfigAssumption
<1>2. ConfigInv /\ [ConfigNext]_configVars => ConfigInv'
  BY ConfigSteps, ConfigAssumption
<1>3. ConfigInv => ConfigRecent
  BY RecentOfInv, ConfigAssumption
<1>4. QED
  BY <1>1, <1>2, <1>3, PTL DEF ConfigSpec

-----------------------------------------------------------------------------
(* The types of the other parts.                                           *)

\* BotLifecycle: what the command's handler, the web process, the coroutines and the
\* heartbeat hold.
BotHolds ==
  /\ botStatus \in [BotUsers -> [is : {"absent", "running", "stopped", "error"}, age : 0..StatusTTL - 1]]
  /\ botDb \in [BotUsers -> {"running", "stopped", "error"}]
  /\ \/ handler = Resting
     \/ handler \in [kind : {"running", "stopped"}, user : BotUsers]
  /\ replied \in [BotUsers -> {"none", "running", "stopped"}]
  /\ report \in [BotUsers -> {"none", "posted", "committed"}]
  /\ beat \subseteq BotUsers /\ beatDue \in BOOLEAN
  /\ worker \in {"up", "draining", "closing", "down"} /\ outages \in 0..MaxCrashes

\* UserExecution: a thread's messages are among those published.
InboxCounted ==
  /\ signals \in 0..MaxSignals /\ pauseAcked \in BOOLEAN
  /\ \A m \in ExecIds : exec[m].inbox \in 0..signals

\* OrderStore: an owner is known of an order whose id has been registered.
OwnersKnown ==
  /\ placed \subseteq Orders /\ notified \subseteq placed
  /\ \A o \in Orders : /\ \A p \in publishing[o] : p.owner => o \in placed
                       /\ Len(inbox[o]) <= MaxInbox

\* EventRelay: what is saved, lost, on its way or told has been emitted.
EventsEmitted ==
  /\ emitted \in 0..MaxEmitted /\ coroutines \subseteq 1..emitted
  /\ saved \cup lost \subseteq {e \in 1..emitted : Event(e).exit}
  /\ \A i \in 1..Len(channel) : channel[i] \in 1..emitted
  /\ \A w \in Sockets : told[w] \subseteq 1..emitted
  /\ relay = "sending" => sending.event \in 1..emitted

LEMMA BotHoldsInitially == ASSUME BotAssumption, BotInit PROVE BotHolds
<1>1. 0 \in 0..StatusTTL - 1 /\ 0 \in 0..MaxCrashes
  BY DEF BotAssumption
<1>2. QED
  BY <1>1 DEF BotInit, BotHolds, Absent

\* A status written is fresh, and one that ages does so below the TTL.
LEMMA StatusAges ==
  ASSUME BotAssumption, BotHolds
  PROVE  LET Status == [is : {"absent", "running", "stopped", "error"}, age : 0..StatusTTL - 1] IN
         /\ Absent \in Status /\ \A s \in {"running", "stopped", "error"} : Fresh(s) \in Status
         /\ \A u \in BotUsers : Aged(botStatus[u]) \in Status
<1> DEFINE Status == [is : {"absent", "running", "stopped", "error"}, age : 0..StatusTTL - 1]
<1>1. 0 \in 0..StatusTTL - 1 /\ StatusTTL \in Nat
  BY DEF BotAssumption
<1>2. Absent \in Status /\ \A s \in {"running", "stopped", "error"} : Fresh(s) \in Status
  BY <1>1 DEF Absent, Fresh
<1>3. ASSUME NEW k \in Status PROVE Aged(k) \in Status
  <2>1. CASE k = Absent \/ k.age + 1 = StatusTTL
    BY <1>2, <2>1 DEF Aged
  <2>2. CASE ~(k = Absent \/ k.age + 1 = StatusTTL)
    <3>1. k.age + 1 \in 0..StatusTTL - 1
      BY <1>1, <1>3, <2>2
    <3>2. Aged(k) = [k EXCEPT !.age = k.age + 1]
      BY <2>2 DEF Aged
    <3>3. QED
      BY <1>3, <3>1, <3>2
  <2>3. QED
    BY <2>1, <2>2
<1>4. botStatus \in [BotUsers -> Status]
  BY DEF BotHolds
<1> HIDE DEF Status
<1>5. \A u \in BotUsers : Aged(botStatus[u]) \in Status
  BY <1>3, <1>4
<1>6. QED
  BY <1>2, <1>5 DEF Status

LEMMA BotHoldsSteps == ASSUME BotAssumption, BotInv, BotHolds, [BotNext]_botVars PROVE BotHolds'
<1> DEFINE Status == [is : {"absent", "running", "stopped", "error"}, age : 0..StatusTTL - 1]
<1>1. /\ Absent \in Status /\ \A s \in {"running", "stopped", "error"} : Fresh(s) \in Status
      /\ \A u \in BotUsers : Aged(botStatus[u]) \in Status
  BY StatusAges
<1>2. ASSUME NEW u \in BotUsers, HandleStart(u) \/ HandleStop(u) \/ WebCommits(u) PROVE BotHolds'
  <2>1. CASE HandleStart(u)
    BY <2>1 DEF HandleStart, BotHolds
  <2>2. CASE HandleStop(u)
    BY <2>2 DEF HandleStop, BotHolds
  <2>3. CASE WebCommits(u)
    BY <2>3 DEF WebCommits, BotHolds
  <2>4. QED
    BY <1>2, <2>1, <2>2, <2>3
<1>3. CASE HandlerWritesStatus
  <2>1. handler.kind \in {"running", "stopped", "error"} /\ handler.user \in BotUsers
    BY <1>3 DEF HandlerWritesStatus, BotHolds
  <2>2. botStatus' \in [BotUsers -> Status]
    BY <1>1, <1>3, <2>1 DEF HandlerWritesStatus, BotHolds
  <2>3. QED
    BY <1>3, <2>2 DEF HandlerWritesStatus, BotHolds
<1>4. ASSUME NEW t \in BotIds, ThreadStep(t) PROVE BotHolds'
  <2>1. UNCHANGED <<botStatus, botDb, handler, replied, beat, beatDue, worker, outages>>
    BY <1>4 DEF ThreadStep, Boot, BootFails, EngineFails, SeesStop, Unregister, PostError, Dies, SymbolDies, ThreadOnly
  <2>2. report' = report \/ report' = [report EXCEPT ![thread[t].user] = "posted"]
    BY <1>4 DEF ThreadStep, Boot, BootFails, EngineFails, SeesStop, Unregister, PostError, Dies, SymbolDies
  <2>3. report' \in [BotUsers -> {"none", "posted", "committed"}]
    BY <2>2 DEF BotHolds
  <2>4. QED
    BY <2>1, <2>3 DEF BotHolds
<1>5. ASSUME NEW u \in BotUsers, ReportCommits(u) \/ ReportWritesStatus(u) \/ HeartbeatWrites(u) PROVE BotHolds'
  <2>1. CASE ReportCommits(u)
    BY <2>1 DEF ReportCommits, BotHolds
  <2>2. CASE ReportWritesStatus(u) \/ HeartbeatWrites(u)
    <3>1. botStatus' \in [BotUsers -> Status]
      BY <1>1, <2>2 DEF ReportWritesStatus, HeartbeatWrites, BotHolds
    <3>2. QED
      BY <2>2, <3>1 DEF ReportWritesStatus, HeartbeatWrites, BotHolds
  <2>3. QED
    BY <1>5, <2>1, <2>2
<1>6. CASE HeartbeatReads
  BY <1>6 DEF HeartbeatReads, BotHolds
<1>7. CASE Period \/ ShutdownClears
  <2>1. botStatus' \in [BotUsers -> Status]
    <3>1. CASE Period
      BY <1>1, <3>1 DEF Period
    <3>2. CASE ShutdownClears
      BY <1>1, <3>2 DEF ShutdownClears, BotHolds
    <3>3. QED
      BY <1>7, <3>1, <3>2
  <2>2. QED
    BY <1>7, <2>1 DEF Period, ShutdownClears, BotHolds
<1>8. CASE WorkerCrashes \/ ShutdownBegins \/ ShutdownEnds \/ WorkerStarts
  <2>1. outages' \in 0..MaxCrashes
    BY <1>8, SMT DEF WorkerCrashes, ShutdownBegins, ShutdownEnds, WorkerStarts, BotHolds, BotAssumption
  <2>2. QED
    BY <1>8, <2>1 DEF WorkerCrashes, ShutdownBegins, ShutdownEnds, WorkerStarts, Vanish, BotHolds
<1>9. CASE UNCHANGED botVars
  BY <1>9 DEF botVars, BotHolds
<1>10. QED
  BY <1>2, <1>3, <1>4, <1>5, <1>6, <1>7, <1>8, <1>9 DEF BotNext

LEMMA BotTyped == ASSUME BotAssumption, BotInv, BotHolds PROVE BotTypeOK
<1>1. \A t \in BotIds : thread[t] \in Thread
  BY DEF BotInv
<1>2. handler \in [kind : {"none", "running", "stopped"}, user : BotUsers \cup {"nobody"}]
  BY DEF BotHolds, Resting
<1>3. QED
  BY <1>1, <1>2 DEF BotInv, BotHolds, BotTypeOK, Thread, Places

LEMMA InboxInitially == ASSUME ExecAssumption, ExecInit PROVE InboxCounted
<1>1. NoManager.inbox = 0
  BY DEF NoManager, NewExec
<1>2. \A m \in ExecIds : exec[m].inbox = 0
  BY <1>1 DEF ExecInit
<1>3. pauseAcked \in BOOLEAN
  BY DEF ExecInit
<1>4. signals = 0 /\ 0 \in 0..MaxSignals /\ 0 \in 0..0
  BY DEF ExecInit, ExecAssumption
<1>5. \A m \in ExecIds : exec[m].inbox \in 0..signals
  BY <1>2, <1>4
<1>6. signals \in 0..MaxSignals
  BY <1>4
<1>7. QED
  BY <1>3, <1>5, <1>6, Zenon DEF InboxCounted

LEMMA InboxSteps ==
  ASSUME ExecAssumption, CapInv, InboxCounted, [ExecNext]_execVars
  PROVE  InboxCounted'
<1>0. /\ exec \in [ExecIds -> Exec] /\ signals \in Nat /\ signals <= MaxSignals /\ MaxSignals \in Nat
      /\ manager \in {NoExec} \cup ExecIds /\ \A m \in ExecIds : exec[m].inbox \in 0..signals
  BY DEF CapInv, InboxCounted, ExecAssumption
<1>1. ASSUME signals' = signals, pauseAcked' \in BOOLEAN,
             \A m \in ExecIds : exec'[m].inbox \in 0..signals
      PROVE  InboxCounted'
  BY <1>1 DEF InboxCounted
<1>2. CASE StartExec
  <2> DEFINE old == IF manager = NoExec THEN exec ELSE Halted(exec, manager)
  <2>1. PICK m \in ExecIds, mode \in Modes : exec' = [old EXCEPT ![m] = NewExec(mode)]
    BY <1>2 DEF StartExec
  <2>2. DOMAIN old = ExecIds /\ \A k \in ExecIds : old[k].inbox = exec[k].inbox
    BY <1>0 DEF Halted, Exec
  <2>3. NewExec(mode).inbox = 0
    BY DEF NewExec
  <2> HIDE DEF old
  <2>4. \A k \in ExecIds : exec'[k].inbox \in 0..signals
    BY <1>0, <2>1, <2>2, <2>3
  <2>5. QED
    BY <1>1, <1>2, <2>4 DEF StartExec
<1>3. CASE StopExec
  <2>1. \A k \in ExecIds : exec'[k].inbox = exec[k].inbox
    BY <1>0, <1>3 DEF StopExec, Halted, Exec
  <2>2. QED
    BY <1>0, <1>1, <1>3, <2>1 DEF StopExec, InboxCounted
<1>4. CASE PublishSignal
  <2>1. signals' = signals + 1 /\ signals < MaxSignals /\ pauseAcked' = pauseAcked
    BY <1>4 DEF PublishSignal
  <2>2. ASSUME NEW k \in ExecIds PROVE exec'[k].inbox \in 0..signals + 1
    <3>1. exec'[k] = IF exec[k].pc \in {"none", "ended"} THEN exec[k] ELSE [exec[k] EXCEPT !.inbox = exec[k].inbox + 1]
      BY <1>4 DEF PublishSignal
    <3>2. exec'[k].inbox = exec[k].inbox \/ exec'[k].inbox = exec[k].inbox + 1
      BY <1>0, <3>1 DEF Exec
    <3>3. QED
      BY <1>0, <3>2
  <2>3. QED
    BY <1>0, <2>1, <2>2 DEF InboxCounted
<1>5. ASSUME NEW m \in ExecIds,
             EndThread(m) \/ TakeSignal(m) \/ CheckSignal(m) \/ RoutePaper(m) \/ RouteOther(m)
               \/ RecordEntry(m) \/ ReadForPush(m) \/ WritePush(m) \/ Resume(m)
      PROVE  InboxCounted'
  <2>1. exec[m] \in Exec
    BY <1>0
  <2>2. \A k \in ExecIds : k # m => exec'[k] = exec[k]
    BY <1>0, <1>5 DEF EndThread, TakeSignal, CheckSignal, RoutePaper, RouteOther, RecordEntry, ReadForPush, WritePush, Resume
  <2>3. exec'[m].inbox = exec[m].inbox \/ exec'[m].inbox = 0
        \/ (exec[m].inbox > 0 /\ exec'[m].inbox = exec[m].inbox - 1)
    <3>1. CASE EndThread(m)
      BY <1>0, <2>1, <3>1 DEF EndThread, Exec
    <3>2. CASE TakeSignal(m)
      BY <1>0, <2>1, <3>2 DEF TakeSignal, Exec
    <3>3. CASE CheckSignal(m)
      BY <1>0, <2>1, <3>3 DEF CheckSignal, Reset, Exec
    <3>4. CASE RoutePaper(m) \/ RouteOther(m)
      BY <1>0, <2>1, <3>4 DEF RoutePaper, RouteOther, Exec
    <3>5. CASE RecordEntry(m)
      BY <1>0, <2>1, <3>5 DEF RecordEntry, Reset, Exec
    <3>6. CASE ReadForPush(m) \/ WritePush(m)
      BY <1>0, <2>1, <3>6 DEF ReadForPush, WritePush, Exec
    <3>7. CASE Resume(m)
      BY <1>0, <2>1, <3>7 DEF Resume, Exec
    <3>8. QED
      BY <1>5, <3>1, <3>2, <3>3, <3>4, <3>5, <3>6, <3>7
  <2>4. signals' = signals /\ pauseAcked' \in BOOLEAN
    BY <1>5 DEF EndThread, TakeSignal, CheckSignal, RoutePaper, RouteOther, RecordEntry, ReadForPush, WritePush,
                Resume, CommandSame, InboxCounted
  <2>5. \A k \in ExecIds : exec'[k].inbox \in 0..signals
    BY <1>0, <2>2, <2>3
  <2>6. QED
    BY <1>1, <2>4, <2>5
<1>6. CASE Modify \/ Squareoff \/ Pause \/ PauseMock \/ SnapshotExpires \/ Clock \/ UNCHANGED execVars
  <2>1. \A k \in ExecIds : exec'[k].inbox = exec[k].inbox
    BY <1>0, <1>6 DEF Modify, Squareoff, Pause, PauseMock, SnapshotExpires, Clock, execVars, Exec
  <2>2. signals' = signals /\ pauseAcked' \in BOOLEAN
    BY <1>6 DEF Modify, Squareoff, Pause, PauseMock, SnapshotExpires, Clock, execVars, CommandSame, InboxCounted
  <2>3. QED
    BY <1>0, <1>1, <2>1, <2>2
<1>7. QED
  BY <1>2, <1>3, <1>4, <1>5, <1>6 DEF ExecNext

LEMMA ExecTyped == ASSUME ExecAssumption, CapInv, InboxCounted PROVE ExecTypeOK
<1>1. \A m \in ExecIds : exec[m] \in Exec
  BY DEF CapInv
<1>2. \A m \in ExecIds : exec[m].inbox \in 0..MaxSignals
  BY DEF InboxCounted, ExecAssumption
<1>3. QED
  BY <1>1, <1>2 DEF CapInv, InboxCounted, ExecTypeOK, Exec, Days

LEMMA OwnersInitially == ASSUME OrderAssumption, OrderInit PROVE OwnersKnown
<1>1. \A o \in Orders : publishing[o] = {} /\ Len(inbox[o]) = 0
  BY DEF OrderInit
<1>2. QED
  BY <1>1 DEF OrderAssumption, OrderInit, OwnersKnown

\* Only the webhook lengthens the inbox, and only below its bound.
LEMMA OwnersSteps ==
  ASSUME OrderAssumption, OrderInv, OwnersKnown, [OrderNext]_orderVars
  PROVE  OwnersKnown'
<1>1. \A o \in Orders : inbox[o] \in Seq(Updates)
  BY DEF OrderInv, FineAt, Fine
<1>2. DOMAIN inbox = Orders /\ DOMAIN publishing = Orders
  BY DEF OrderInv
<1>3. ASSUME NEW o \in Orders, WebhookStores(o) PROVE OwnersKnown'
  <2>1. PICK u \in sent[o] : publishing' = [publishing EXCEPT ![o] = publishing[o] \cup {[update |-> u, owner |-> o \in placed]}]
    BY <1>3 DEF WebhookStores
  <2>2. UNCHANGED <<placed, notified, inbox>>
    BY <1>3 DEF WebhookStores
  <2>3. [update |-> u, owner |-> o \in placed].owner => o \in placed
    OBVIOUS
  <2>4. \A k \in Orders : \A p \in publishing'[k] : p.owner => k \in placed
    BY <1>2, <2>1, <2>3 DEF OwnersKnown
  <2>5. QED
    BY <2>2, <2>4 DEF OwnersKnown
<1>4. ASSUME NEW o \in Orders, WebhookPublishes(o) PROVE OwnersKnown'
  <2>1. PICK p \in publishing[o] :
          /\ publishing' = [publishing EXCEPT ![o] = publishing[o] \ {p}]
          /\ inbox' = IF Subscribed(o) THEN [inbox EXCEPT ![o] = Append(inbox[o], p.update)] ELSE inbox
          /\ notified' = IF p.owner THEN notified \cup {o} ELSE notified
    BY <1>4 DEF WebhookPublishes
  <2>2. placed' = placed /\ Len(inbox[o]) < MaxInbox
    BY <1>4 DEF WebhookPublishes
  <2>3. \A k \in Orders : publishing'[k] \subseteq publishing[k]
    BY <1>2, <2>1
  <2>4. p.update \in Updates
    BY <2>1 DEF OrderInv, FineAt, Fine
  <2>5. Len(Append(inbox[o], p.update)) = Len(inbox[o]) + 1 /\ Len(inbox[o]) \in Nat
    BY <1>1, <2>4
  <2>6. \A k \in Orders : Len(inbox'[k]) <= MaxInbox
    <3>1. ASSUME NEW k \in Orders PROVE Len(inbox'[k]) <= MaxInbox
      <4>1. inbox'[k] = inbox[k] \/ (k = o /\ inbox'[k] = Append(inbox[o], p.update))
        BY <1>2, <2>1
      <4>2. CASE inbox'[k] = inbox[k]
        BY <4>2 DEF OwnersKnown
      <4>3. CASE inbox'[k] = Append(inbox[o], p.update)
        BY <2>2, <2>5, <4>3 DEF OrderAssumption
      <4>4. QED
        BY <4>1, <4>2, <4>3
    <3>2. QED
      BY <3>1
  <2>7. notified' \subseteq placed
    BY <2>1 DEF OwnersKnown
  <2>8. QED
    BY <2>2, <2>3, <2>6, <2>7 DEF OwnersKnown
<1>5. ASSUME NEW o \in Orders, NEW ib, inbox' = [inbox EXCEPT ![o] = ib], Len(ib) <= MaxInbox,
             placed \subseteq placed', placed' \subseteq Orders, UNCHANGED <<publishing, notified>>
      PROVE  OwnersKnown'
  BY <1>2, <1>5 DEF OwnersKnown
<1>6. ASSUME NEW o \in Orders,
             BrokerMoves(o) \/ PlaceOrder(o) \/ RegisterOrder(o) \/ Subscribe(o)
               \/ DeadlinePasses(o) \/ PollFinds(o) \/ PollGivesUp(o)
      PROVE  OwnersKnown'
  <2>1. UNCHANGED <<publishing, notified, inbox>> /\ placed \subseteq placed' /\ placed' \subseteq Orders
    BY <1>6 DEF BrokerMoves, PlaceOrder, RegisterOrder, Subscribe, DeadlinePasses, PollFinds, PollGivesUp,
                WorkerSame, OwnersKnown
  <2>2. QED
    BY <2>1 DEF OwnersKnown
<1>7. ASSUME NEW o \in Orders, FastPath(o) \/ Look(o) \/ WaitTimesOut(o) PROVE OwnersKnown'
  <2>1. UNCHANGED <<publishing, notified, placed>>
    BY <1>7 DEF FastPath, Look, WaitTimesOut, WorkerSame
  <2>2. \/ inbox' = inbox
        \/ inbox' = [inbox EXCEPT ![o] = <<>>]
        \/ inbox' = [inbox EXCEPT ![o] = IF inbox[o] = <<>> THEN inbox[o] ELSE Tail(inbox[o])]
    BY <1>7 DEF FastPath, Look, WaitTimesOut, Ends
  <2>3. Len(<<>>) <= MaxInbox
    BY DEF OrderAssumption
  <2>4. Len(IF inbox[o] = <<>> THEN inbox[o] ELSE Tail(inbox[o])) <= MaxInbox
    <3>1. CASE inbox[o] = <<>>
      BY <2>3, <3>1
    <3>2. CASE inbox[o] # <<>>
      <4>1. Len(Tail(inbox[o])) = Len(inbox[o]) - 1 /\ Len(inbox[o]) \in Nat /\ Len(inbox[o]) <= MaxInbox
        BY <1>1, <3>2 DEF OwnersKnown
      <4>2. QED
        BY <3>2, <4>1 DEF OrderAssumption
    <3>3. QED
      BY <3>1, <3>2
  <2>5. placed \subseteq Orders
    BY DEF OwnersKnown
  <2>6. CASE inbox' = inbox
    BY <2>1, <2>6 DEF OwnersKnown
  <2>7. QED
    BY <1>5, <2>1, <2>2, <2>3, <2>4, <2>5, <2>6
<1>8. CASE UNCHANGED orderVars
  BY <1>8 DEF orderVars, OwnersKnown
<1>9. QED
  BY <1>3, <1>4, <1>6, <1>7, <1>8 DEF OrderNext

LEMMA OrderTyped == ASSUME OrderInv, OwnersKnown PROVE OrderTypeOK
<1>1. \A o \in Orders : /\ order[o] \in Statuses /\ sent[o] \in SUBSET Updates
                        /\ stored[o] \in Updates \cup {NoUpdate} /\ outcome[o] \in {"none", "filled", "unconfirmed"}
  BY DEF OrderInv, FineAt, Fine
<1>2. /\ order = [o \in Orders |-> order[o]] /\ sent = [o \in Orders |-> sent[o]]
      /\ stored = [o \in Orders |-> stored[o]] /\ outcome = [o \in Orders |-> outcome[o]]
  BY DEF OrderInv
<1>3. /\ order \in [Orders -> Statuses] /\ sent \in [Orders -> SUBSET Updates]
      /\ stored \in [Orders -> Updates \cup {NoUpdate}] /\ outcome \in [Orders -> {"none", "filled", "unconfirmed"}]
  BY <1>1, <1>2
<1>4. QED
  BY <1>3 DEF OwnersKnown, OrderTypeOK, Statuses

LEMMA EventsInitially == ASSUME RelayAssumption, RelayInit PROVE EventsEmitted
  BY DEF RelayAssumption, RelayInit, EventsEmitted

LEMMA EventsSteps ==
  ASSUME RelayAssumption, RelayInv, EventsEmitted, [RelayNext]_relayVars
  PROVE  EventsEmitted'
<1>0. channel \in Seq(Nat) /\ emitted \in Nat /\ MaxEmitted \in Nat /\ \A i \in 1..Len(channel) : channel[i] \in 1..emitted
  BY DEF RelayInv, EventsEmitted, RelayAssumption
<1>1. CASE Emit
  <2>1. emitted' = emitted + 1 /\ emitted' \in 0..MaxEmitted /\ 1..emitted \subseteq 1..emitted'
        /\ coroutines' = coroutines \cup {emitted + 1}
    BY <1>0, <1>1 DEF Emit
  <2>2. UNCHANGED <<saved, lost, socket, conns, relay, channel, sending, relayFailed, told>>
    BY <1>1 DEF Emit
  <2>3. coroutines' \subseteq 1..emitted'
    <3>1. coroutines \subseteq 1..emitted
      BY DEF EventsEmitted
    <3>2. emitted + 1 \in 1..emitted'
      BY <1>0, <2>1
    <3>3. QED
      BY <2>1, <3>1, <3>2
  <2>4. saved' \cup lost' \subseteq {e \in 1..emitted' : Event(e).exit}
    <3>1. \A e \in saved \cup lost : e \in 1..emitted /\ Event(e).exit
      BY DEF EventsEmitted
    <3>2. saved' \cup lost' = saved \cup lost
      BY <2>2
    <3>3. QED
      BY <2>1, <3>1, <3>2
  <2>5. (\A i \in 1..Len(channel) : channel'[i] \in 1..emitted') /\ (\A w \in Sockets : told'[w] \subseteq 1..emitted')
        /\ (relay' = "sending" => sending'.event \in 1..emitted')
    BY <2>1, <2>2 DEF EventsEmitted
  <2>6. QED
    BY <2>1, <2>2, <2>3, <2>4, <2>5 DEF EventsEmitted
<1>2. ASSUME NEW e \in 1..emitted, Publish(e) PROVE \A i \in 1..Len(channel') : channel'[i] \in 1..emitted
  <2>1. CASE channel' = channel
    BY <1>0, <2>1
  <2>2. CASE channel' = Append(channel, e)
    <3>1. /\ Len(channel') = Len(channel) + 1 /\ Len(channel) \in Nat
          /\ \A i \in 1..Len(channel') : channel'[i] = IF i = Len(channel) + 1 THEN e ELSE channel[i]
      BY <1>0, <2>2
    <3>2. QED
      BY <1>0, <3>1
  <2>3. QED
    BY <1>2, <2>1, <2>2 DEF Publish
<1>3. ASSUME NEW e \in coroutines, OnOther(e) \/ OnExit(e) PROVE EventsEmitted'
  <2>1. e \in 1..emitted
    BY DEF EventsEmitted
  <2>2. UNCHANGED <<emitted, told, relay, sending>> /\ coroutines' = coroutines \ {e}
    BY <1>3 DEF OnOther, OnExit
  <2>3. Publish(e) \/ channel' = channel
    BY <1>3 DEF OnOther, OnExit
  <2>4. \A i \in 1..Len(channel') : channel'[i] \in 1..emitted
    BY <1>0, <1>2, <2>1, <2>3
  <2>5. saved' \cup lost' \subseteq {x \in 1..emitted : Event(x).exit}
    BY <1>3, <2>1 DEF OnOther, OnExit, EventsEmitted
  <2>6. QED
    BY <2>2, <2>4, <2>5 DEF EventsEmitted
<1>4. CASE WorkerLosesJobs
  BY <1>4 DEF WorkerLosesJobs, EventsEmitted
<1>5. ASSUME NEW w \in Sockets, RelaySends(w) PROVE EventsEmitted'
  <2>1. /\ UNCHANGED <<emitted, coroutines, saved, lost, channel, relay>> /\ relay = "sending"
        /\ sending'.event = sending.event
    BY <1>5 DEF RelaySends, RelayInv
  <2>2. told' = told \/ told' = [told EXCEPT ![w] = told[w] \cup {sending.event}]
    BY <1>5 DEF RelaySends
  <2>3. sending.event \in 1..emitted
    BY <2>1 DEF EventsEmitted
  <2>4. \A v \in Sockets : told'[v] \subseteq 1..emitted
    BY <2>2, <2>3 DEF EventsEmitted, RelayInv
  <2>5. QED
    BY <2>1, <2>3, <2>4 DEF EventsEmitted
<1>6. CASE RelayTakes
  <2>1. UNCHANGED <<emitted, coroutines, saved, lost, told>> /\ channel # <<>>
    BY <1>6 DEF RelayTakes
  <2>2. CASE conns = {}
    BY <1>6, <2>1, <2>2 DEF RelayTakes, EventsEmitted
  <2>3. CASE conns # {}
    <3>1. channel' = Tail(channel) /\ sending'.event = Head(channel)
      BY <1>6, <2>3 DEF RelayTakes
    <3>2. Len(channel) \in Nat /\ Len(channel) >= 1 /\ Head(channel) = channel[1]
      BY <1>0, <2>1
    <3>3. /\ Len(Tail(channel)) = Len(channel) - 1
          /\ \A i \in 1..Len(Tail(channel)) : Tail(channel)[i] = channel[i + 1]
      BY <1>0, <2>1
    <3>4. \A i \in 1..Len(channel') : channel'[i] \in 1..emitted
      BY <1>0, <3>1, <3>2, <3>3
    <3>5. sending'.event \in 1..emitted
      BY <1>0, <3>1, <3>2
    <3>6. QED
      BY <2>1, <3>4, <3>5 DEF EventsEmitted
  <2>4. QED
    BY <2>2, <2>3
<1>7. ASSUME NEW w \in Sockets, Connect(w) \/ PeerGoes(w) \/ Disconnect(w) PROVE EventsEmitted'
  <2>1. UNCHANGED <<emitted, coroutines, saved, lost, told>> /\ (channel' = channel \/ channel' = <<>>)
        /\ (relay' = "sending" => relay = "sending" /\ sending' = sending)
    BY <1>7 DEF Connect, PeerGoes, Disconnect
  <2>2. QED
    BY <2>1 DEF EventsEmitted
<1>8. CASE SubscribeRelay \/ RelayEnds \/ RelayBreaks \/ UNCHANGED relayVars
  <2>1. UNCHANGED <<emitted, coroutines, saved, lost, told>> /\ (channel' = channel \/ channel' = <<>>)
        /\ (relay' = "sending" => relay = "sending" /\ sending' = sending)
    BY <1>8 DEF SubscribeRelay, RelayEnds, RelayBreaks, relayVars
  <2>2. QED
    BY <2>1 DEF EventsEmitted
<1>9. QED
  BY <1>1, <1>3, <1>4, <1>5, <1>6, <1>7, <1>8 DEF RelayNext

LEMMA RelayTyped == ASSUME RelayInv, EventsEmitted PROVE RelayTypeOK
  BY DEF RelayInv, EventsEmitted, RelayTypeOK

-----------------------------------------------------------------------------
(* The platform.                                                           *)

PlatformInv ==
  /\ BotInv /\ OwnInv /\ CapInv /\ OrderInv /\ RelayInv /\ ConfigInv
  /\ BotHolds /\ ShTypes /\ InboxCounted /\ OwnersKnown /\ EventsEmitted

LEMMA PlatformInitially == ASSUME MCInit PROVE PlatformInv
<1>1. BotInit /\ SharedInit /\ ExecInit /\ OrderInit /\ RelayInit /\ ConfigInit
  BY DEF MCInit
<1>2. BotInv /\ OwnInv /\ CapInv /\ OrderInv /\ RelayInv /\ ConfigInv
  BY <1>1, BotInitially, OwnInitially, CapInitially, OrderInitially, RelayInitially, ConfigInitially,
     SharedAssumption, ExecAssumption, ConfigAssumption
<1>3. BotHolds /\ ShTypes /\ InboxCounted /\ OwnersKnown /\ EventsEmitted
  BY <1>1, BotHoldsInitially, ShTypesInitially, InboxInitially, OwnersInitially, EventsInitially,
     BotAssumption, SharedAssumption, ExecAssumption, OrderAssumption, RelayAssumption
<1>4. QED
  BY <1>2, <1>3 DEF PlatformInv

\* A step of the platform is a step of one part, and the others do not notice.
LEMMA PlatformParts ==
  ASSUME [MCNext]_allVars
  PROVE  /\ [BotNext]_botVars /\ [SharedNext]_shVars /\ [ExecNext]_execVars
         /\ [OrderNext]_orderVars /\ [RelayNext]_relayVars /\ [ConfigNext]_configVars
  BY DEF MCNext, allVars

LEMMA PlatformSteps == ASSUME PlatformInv, [MCNext]_allVars PROVE PlatformInv'
<1>1. BotInv' /\ OwnInv'
  BY PlatformParts, BotSteps, OwnSteps, BotAssumption, SharedAssumption DEF PlatformInv
<1>2. CapInv' /\ OrderInv' /\ RelayInv'
  BY PlatformParts, ExecSteps, OrderSteps, RelaySteps, ExecAssumption DEF PlatformInv
<1>3. ConfigInv'
  BY PlatformParts, ConfigSteps, ConfigAssumption DEF PlatformInv
<1>4. BotHolds' /\ ShTypes'
  BY PlatformParts, BotHoldsSteps, ShTypesSteps, BotAssumption, SharedAssumption DEF PlatformInv
<1>5. InboxCounted' /\ OwnersKnown' /\ EventsEmitted'
  BY PlatformParts, InboxSteps, OwnersSteps, EventsSteps, ExecAssumption, OrderAssumption, RelayAssumption
     DEF PlatformInv
<1>6. QED
  BY <1>1, <1>2, <1>3, <1>4, <1>5 DEF PlatformInv

\* The platform's parts, composed as the run composes them: commands and signals reach the
\* one bot that serves a user, entries stay within the day's limit, fills are neither missed
\* nor made up, open tabs are fed what the tables have, and cached configuration is recent.
THEOREM PlatformSafe ==
  MCSpec => [](EnginesOwned /\ EntriesCapped /\ OrderFills /\ TabsAreFed /\ ConfigRecent)
<1>1. MCInit => PlatformInv
  BY PlatformInitially
<1>2. PlatformInv /\ [MCNext]_allVars => PlatformInv'
  BY PlatformSteps
<1>3. PlatformInv => EnginesOwned /\ EntriesCapped /\ OrderFills /\ TabsAreFed /\ ConfigRecent
  <2>1. BotInv /\ OwnInv => EnginesOwned
    BY DEF EnginesOwned, BotInv, EnginesReachable, OwnInv, OneLiveManager
  <2>2. CapInv => EntriesCapped
    BY CappedOfInv, ExecAssumption
  <2>3. OrderInv => OrderFills
    BY FillsOfInv
  <2>4. RelayInv => TabsAreFed
    BY DEF RelayInv, TabsAreFed, Told
  <2>5. ConfigInv => ConfigRecent
    BY RecentOfInv, ConfigAssumption
  <2>6. QED
    BY <2>1, <2>2, <2>3, <2>4, <2>5 DEF PlatformInv
<1>4. QED
  BY <1>1, <1>2, <1>3, PTL DEF MCSpec

\* Every part's variables keep their types and the bounds on what is counted: the counts in
\* Redis within what removals under way and restarts explain, messages within those published,
\* notifications among the orders whose owner is known, events among those emitted.
THEOREM PlatformTypesHold == MCSpec => []PlatformTypeOK
<1>1. MCInit => PlatformInv
  BY PlatformInitially
<1>2. PlatformInv /\ [MCNext]_allVars => PlatformInv'
  BY PlatformSteps
<1>3. PlatformInv => PlatformTypeOK
  <2>1. SUFFICES ASSUME PlatformInv PROVE PlatformTypeOK
    OBVIOUS
  <2>2. BotTypeOK /\ SharedTypeOK
    BY <2>1, BotTyped, SharedTyped, BotAssumption, SharedAssumption DEF PlatformInv
  <2>3. ExecTypeOK /\ OrderTypeOK /\ RelayTypeOK
    BY <2>1, ExecTyped, OrderTyped, RelayTyped, ExecAssumption DEF PlatformInv
  <2>4. ConfigTypeOK
    BY <2>1, RecentOfInv, ConfigAssumption DEF PlatformInv
  <2>5. QED
    BY <2>2, <2>3, <2>4 DEF PlatformTypeOK
<1>4. QED
  BY <1>1, <1>2, <1>3, PTL DEF MCSpec

=============================================================================
