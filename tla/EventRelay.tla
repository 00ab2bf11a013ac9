------------------------------ MODULE EventRelay -----------------------------
(***************************************************************************)
(* From the engine to the dashboard, for one user: an engine thread hands  *)
(* its events to the worker's loop (BotThread._sync_on_trade), which saves *)
(* an exit and publishes (worker.py, _on_trade; services/event_bus.py);    *)
(* the web process relays what it is subscribed to to the user's tabs      *)
(* (services/broadcaster.py, ConnectionManager).                           *)
(*                                                                         *)
(* The web process is one event loop: a step is what runs between two      *)
(* awaits.  Nobody awaits while holding ConnectionManager._lock, so it is  *)
(* never found taken.                                                      *)
(***************************************************************************)
EXTENDS Integers, Sequences, FiniteSets

CONSTANTS
  Sockets,      \* WebSockets, each opened once: a tab that reconnects opens another
  MaxEmitted    \* bound: events of the engine

Event(e) == [exit |-> e % 2 = 0, trade |-> (e + 1) \div 2]

ASSUME RelayAssumption == MaxEmitted \in Nat

VARIABLES
  emitted,      \* how many events the engine has emitted: entry, exit, entry, ...
  coroutines,   \* coroutines of _on_trade on the worker's loop: events not yet dealt with
  saved,        \* exits whose row is in the trades table
  lost,         \* exits whose coroutine failed, or was never run
  socket,       \* state of each WebSocket
  conns,        \* _connections[user]
  relay,        \* _sub_tasks[user]: what its task is doing
  channel,      \* messages on the task's subscription
  sending,      \* the payload in hand, the sockets it still goes to, and those that failed
  relayFailed,  \* the task ended with an error
  told          \* events each socket was sent

relayVars == <<emitted, coroutines, saved, lost, socket, conns, relay, channel, sending, relayFailed, told>>

NoSending == [event |-> 0, to |-> {}, dead |-> {}]

RelayInit ==
  /\ emitted = 0 /\ coroutines = {} /\ saved = {} /\ lost = {}
  /\ socket = [w \in Sockets |-> "new"]
  /\ conns = {}
  /\ relay = "none" /\ channel = <<>> /\ sending = NoSending /\ relayFailed = FALSE
  /\ told = [w \in Sockets |-> {}]

Listening == relay \in {"waiting", "sending"}

\* PUBLISH: nobody keeps it for who is not subscribed.
Publish(e) == channel' = IF Listening THEN Append(channel, e) ELSE channel

-----------------------------------------------------------------------------
(* The worker. *)

\* on_trade: run_coroutine_threadsafe.
Emit ==
  /\ emitted < MaxEmitted
  /\ emitted' = emitted + 1
  /\ coroutines' = coroutines \cup {emitted + 1}
  /\ UNCHANGED <<saved, lost, socket, conns, relay, channel, sending, relayFailed, told>>

\* The loop starts coroutines in the order they came; all but an exit are
\* published at once.
Started(e) == \A f \in coroutines : f < e => Event(f).exit

OnOther(e) ==
  /\ ~Event(e).exit /\ Started(e)
  /\ coroutines' = coroutines \ {e}
  /\ Publish(e)
  /\ UNCHANGED <<emitted, saved, lost, socket, conns, relay, sending, relayFailed, told>>

\* For mutation: the exit is published while its row is being saved.
OnExitEarly(e) ==
  /\ Event(e).exit /\ Started(e)
  /\ coroutines' = coroutines \ {e}
  /\ \/ saved' = saved \cup {e} /\ Publish(e) /\ UNCHANGED lost
     \/ lost' = lost \cup {e} /\ Publish(e) /\ UNCHANGED saved
  /\ UNCHANGED <<emitted, socket, conns, relay, sending, relayFailed, told>>

\* An exit is published once its row is committed.  A commit that fails leaves
\* neither row nor event.
OnExit(e) ==
  /\ Event(e).exit /\ Started(e)
  /\ coroutines' = coroutines \ {e}
  /\ \/ saved' = saved \cup {e} /\ Publish(e) /\ UNCHANGED lost
     \/ lost' = lost \cup {e} /\ UNCHANGED <<saved, channel>>
  /\ UNCHANGED <<emitted, socket, conns, relay, sending, relayFailed, told>>

\* The worker dies with its coroutines.
WorkerLosesJobs ==
  /\ coroutines # {}
  /\ coroutines' = {}
  /\ lost' = lost \cup {e \in coroutines : Event(e).exit}
  /\ UNCHANGED <<emitted, saved, socket, conns, relay, channel, sending, relayFailed, told>>

-----------------------------------------------------------------------------
(* The web process. *)

\* For mutation: a task that has ended is taken for one that runs.
ConnectOnce(w) ==
  /\ socket[w] = "new"
  /\ socket' = [socket EXCEPT ![w] = "open"]
  /\ conns' = conns \cup {w}
  /\ IF relay = "none"
     THEN relay' = "starting" /\ relayFailed' = FALSE
     ELSE UNCHANGED <<relay, relayFailed>>
  /\ UNCHANGED <<emitted, coroutines, saved, lost, channel, sending, told>>

\* ConnectionManager.connect, of a token that is the user's.
Connect(w) ==
  /\ socket[w] = "new"
  /\ socket' = [socket EXCEPT ![w] = "open"]
  /\ conns' = conns \cup {w}
  /\ IF relay \in {"none", "done"}
     THEN relay' = "starting" /\ relayFailed' = FALSE
     ELSE UNCHANGED <<relay, relayFailed>>
  /\ UNCHANGED <<emitted, coroutines, saved, lost, channel, sending, told>>

\* The peer is gone; receive_text and send_json have yet to find out.
PeerGoes(w) ==
  /\ socket[w] = "open"
  /\ socket' = [socket EXCEPT ![w] = "gone"]
  /\ UNCHANGED <<emitted, coroutines, saved, lost, conns, relay, channel, sending, relayFailed, told>>

\* WebSocketDisconnect: the last one out cancels the task.
Disconnect(w) ==
  /\ socket[w] = "gone"
  /\ socket' = [socket EXCEPT ![w] = "closed"]
  /\ conns' = conns \ {w}
  /\ IF conns' = {}
     THEN relay' = "none" /\ channel' = <<>> /\ sending' = NoSending /\ relayFailed' = FALSE
     ELSE UNCHANGED <<relay, channel, sending, relayFailed>>
  /\ UNCHANGED <<emitted, coroutines, saved, lost, told>>

\* event_bus.subscribe has subscribed.
SubscribeRelay ==
  /\ relay = "starting"
  /\ relay' = "waiting"
  /\ UNCHANGED <<emitted, coroutines, saved, lost, socket, conns, channel, sending, relayFailed, told>>

\* A message comes; without a connection the loop ends.
RelayTakes ==
  /\ relay = "waiting" /\ channel # <<>>
  /\ IF conns = {}
     THEN relay' = "done" /\ channel' = <<>> /\ UNCHANGED sending
     ELSE /\ relay' = "sending" /\ channel' = Tail(channel)
          /\ sending' = [event |-> Head(channel), to |-> conns, dead |-> {}]
  /\ UNCHANGED <<emitted, coroutines, saved, lost, socket, conns, relayFailed, told>>

\* await ws.send_json, which fails when the peer is gone.
RelaySends(w) ==
  /\ relay = "sending" /\ w \in sending.to
  /\ IF socket[w] = "open"
     THEN told' = [told EXCEPT ![w] = @ \cup {sending.event}] /\ sending' = [sending EXCEPT !.to = @ \ {w}]
     ELSE sending' = [sending EXCEPT !.to = @ \ {w}, !.dead = @ \cup {w}] /\ UNCHANGED told
  /\ UNCHANGED <<emitted, coroutines, saved, lost, socket, conns, relay, channel, relayFailed>>

\* The dead ones are removed, and the loop goes on, with or without any left.
RelayEnds ==
  /\ relay = "sending" /\ sending.to = {}
  /\ conns' = conns \ sending.dead
  /\ relay' = "waiting" /\ sending' = NoSending
  /\ UNCHANGED <<emitted, coroutines, saved, lost, socket, channel, relayFailed, told>>

\* The subscription raises: the task ends, and the connections stay.
RelayBreaks ==
  /\ relay \in {"starting", "waiting"}
  /\ relay' = "done" /\ channel' = <<>> /\ relayFailed' = TRUE
  /\ UNCHANGED <<emitted, coroutines, saved, lost, socket, conns, sending, told>>

RelayNext ==
  \/ Emit \/ WorkerLosesJobs
  \/ \E e \in coroutines : OnOther(e) \/ OnExit(e)
  \/ \E w \in Sockets : Connect(w) \/ PeerGoes(w) \/ Disconnect(w) \/ RelaySends(w)
  \/ SubscribeRelay \/ RelayTakes \/ RelayEnds \/ RelayBreaks

RelaySpec == RelayInit /\ [][RelayNext]_relayVars

-----------------------------------------------------------------------------
RelayTypeOK ==
  /\ emitted \in 0..MaxEmitted /\ coroutines \subseteq 1..emitted
  /\ saved \cup lost \subseteq {e \in 1..emitted : Event(e).exit}
  /\ \A w \in Sockets : socket[w] \in {"new", "open", "gone", "closed"} /\ told[w] \subseteq 1..emitted
  /\ conns \subseteq Sockets /\ sending.to \cup sending.dead \subseteq Sockets
  /\ relay \in {"none", "starting", "waiting", "sending", "done"}

(***************************************************************************)
(* However tabs come, go and die under the relay's hands, a tab that is    *)
(* open is connected and has a task that relays to it, unless Redis failed *)
(* the task; and an exit that a tab is told of is already in the trades    *)
(* table, "so dashboard query finds it".                                   *)
(***************************************************************************)
TabsAreFed ==
  \A w \in Sockets :
    /\ socket[w] = "open" => w \in conns /\ (relay \in {"starting", "waiting", "sending"} \/ relayFailed)
    /\ \A e \in told[w] : Event(e).exit => e \in saved

=============================================================================
