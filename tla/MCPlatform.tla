----------------------------- MODULE MCPlatform -----------------------------
(***************************************************************************)
(* The parts of the platform around the engines, each on a small instance: *)
(* bot threads, shared mode's subscriptions and managers, a user's         *)
(* execution manager, fills of live orders, configuration caches, and the  *)
(* events on their way to the dashboard.  A behaviour is a behaviour of    *)
(* one part, `which`; the others stay as they begin.                       *)
(***************************************************************************)
EXTENDS BotLifecycle, SharedWorker, UserExecution, OrderStore, ConfigCache, EventRelay

CONSTANT Parts     \* the parts to check

VARIABLE which

allVars == <<which, botVars, shVars, execVars, orderVars, configVars, relayVars>>

MCInit ==
  /\ which \in Parts
  /\ BotInit /\ SharedInit /\ ExecInit /\ OrderInit /\ ConfigInit /\ RelayInit
  /\ which # "config" => cache = "config"

MCNext ==
  /\ UNCHANGED which
  /\ \/ /\ which = "bot" /\ BotNext
        /\ UNCHANGED <<shVars, execVars, orderVars, configVars, relayVars>>
     \/ /\ which = "shared" /\ SharedNext
        /\ UNCHANGED <<botVars, execVars, orderVars, configVars, relayVars>>
     \/ /\ which = "execution" /\ ExecNext
        /\ UNCHANGED <<botVars, shVars, orderVars, configVars, relayVars>>
     \/ /\ which = "orders" /\ OrderNext
        /\ UNCHANGED <<botVars, shVars, execVars, configVars, relayVars>>
     \/ /\ which = "config" /\ ConfigNext
        /\ UNCHANGED <<botVars, shVars, execVars, orderVars, relayVars>>
     \/ /\ which = "relay" /\ RelayNext
        /\ UNCHANGED <<botVars, shVars, execVars, orderVars, configVars>>

\* Threads go on, coroutines on the worker's loop run, the heartbeat beats, and a shutdown
\* that has begun ends.  Nobody need start the worker again.
BotFairness ==
  /\ WF_botVars(which = "bot" /\ HandlerWritesStatus)
  /\ WF_botVars(which = "bot" /\ HeartbeatReads)
  /\ WF_botVars(which = "bot" /\ Period)
  /\ WF_botVars(which = "bot" /\ WorkerAdvances)
  /\ \A u \in BotUsers : WF_botVars(which = "bot" /\ LoopAdvances(u))
  /\ \A t \in BotIds : WF_botVars(which = "bot" /\ BotAdvances(t))

MCSpec == MCInit /\ [][MCNext]_allVars /\ BotFairness

-----------------------------------------------------------------------------
\* Every part's variables are of their types.
PlatformTypeOK ==
  BotTypeOK /\ SharedTypeOK /\ ExecTypeOK /\ OrderTypeOK /\ ConfigTypeOK /\ RelayTypeOK

\* A user's commands and signals reach the one bot that serves the user: the engines of a
\* bot that serves are the registered ones (legacy mode), and at most one execution manager
\* has not been stopped, which is the registered one (shared mode).
EnginesOwned == EnginesReachable /\ OneLiveManager

\* The worker neither misses a fill it could have seen nor reports one that was not.
OrderFills == FillNotMissed /\ NoPhantomFill
=============================================================================
