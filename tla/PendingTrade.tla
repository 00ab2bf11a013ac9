---------------------------- MODULE PendingTrade ----------------------------
(***************************************************************************)
(* The approval workflow of semi-automatic trades of one user:             *)
(* SemiAutoExecutor and PendingTradeManager (backend/services/             *)
(* execution_layer.py), the command consumer that drives them (worker.py)  *)
(* and the web and Telegram entry points (backend/routers/all_routers.py,  *)
(* backend/services/telegram_bot.py).                                      *)
(*                                                                         *)
(* The approval, rejection and expiry handlers are coroutines of the       *)
(* worker's main loop, each with a database session of its own: a step     *)
(* ends where a handler awaits the database.  The command thread runs one  *)
(* command at a time but gives up waiting for a coroutine after a timeout, *)
(* and the coroutine goes on.  The web process rejects a trade directly in *)
(* the database.  An audit row is persisted by the commit that follows it; *)
(* a row flushed after the last commit of its session is rolled back when  *)
(* the session closes.                                                     *)
(***************************************************************************)
EXTENDS Integers, Sequences, FiniteSets

CONSTANTS
  Trades,          \* the trades the strategies propose
  Slots,           \* bound: coroutines of the worker that overlap
  Timeouts,        \* whether a coroutine may outlast the command thread's wait
  MaxCommands,     \* bound: commands users send
  MaxWebRejects,   \* bound: rejections through the web endpoint
  MaxCrashes       \* bound: worker crashes

NoSlot == "none"

ASSUME PendingAssumption ==
  /\ NoSlot \notin Slots
  /\ Timeouts \in BOOLEAN
  /\ MaxCommands \in Nat /\ MaxWebRejects \in Nat /\ MaxCrashes \in Nat

Statuses == {"none", "WAITING", "APPROVED", "REJECTED", "EXPIRED"}
Commands == [action : {"approve", "reject"}, trade : Trades]
Events   == {"SIGNAL_GENERATED", "SIGNAL_APPROVED", "SIGNAL_REJECTED",
             "SIGNAL_EXPIRED", "SIGNAL_APPROVED_FAILED"}

(***************************************************************************)
(* Where a coroutine is: about to run its SELECT, or, having decided, about *)
(* to commit, or (an approval) about to place the order.                   *)
(***************************************************************************)
Stages == {"approving", "expire_one", "approve", "place",
           "rejecting", "reject", "expiring", "expire"}
Idle   == [stage |-> "idle", batch |-> {}]
VARIABLES
  status,       \* pending_trades.status; "none" before the INSERT
  due,          \* trades whose expires_at has passed
  approvedAt,   \* trades whose approved_at is set
  orders,       \* orders place_order_fn placed for each trade
  audit,        \* audit_logs: committed <<event, trade>> rows
  flushed,      \* audit rows flushed after the last commit of an open session
  queue,        \* bot:commands, oldest first
  waiting,      \* the coroutine the command thread waits for
  co,           \* the coroutines of the main loop
  asked,        \* history: trades somebody asked to approve
  overlapped,   \* history: trades a second approval of which was begun before the
                \*   first had placed its order
  sent, webRejects, crashes   \* counters of the bounds

table  == <<status, due, approvedAt, audit, flushed>>
worker == <<waiting, co>>
bounds == <<sent, webRejects, crashes>>
history == <<asked, overlapped>>
vars   == <<table, orders, queue, worker, history, bounds>>

Init ==
  /\ status = [t \in Trades |-> "none"]
  /\ due = {} /\ approvedAt = {}
  /\ orders = [t \in Trades |-> 0]
  /\ audit = {} /\ flushed = {}
  /\ queue = <<>>
  /\ waiting = NoSlot
  /\ co = [c \in Slots |-> Idle]
  /\ asked = {} /\ overlapped = {}
  /\ sent = 0 /\ webRejects = 0 /\ crashes = 0

Mark(batch, new) == [t \in Trades |-> IF t \in batch THEN new ELSE status[t]]

-----------------------------------------------------------------------------
(* The engine thread, the clock and the users. *)

\* SemiAutoExecutor.execute: the INSERT is committed, then the event is flushed.
Propose(t) ==
  /\ status[t] = "none"
  /\ status' = Mark({t}, "WAITING")
  /\ flushed' = flushed \cup {<<"SIGNAL_GENERATED", t>>}
  /\ UNCHANGED <<due, approvedAt, audit, orders, queue, worker, history, bounds>>

\* The end of a session's async with block: what was not committed is gone.
CloseSession(row) ==
  /\ row \in flushed
  /\ flushed' = flushed \ {row}
  /\ UNCHANGED <<status, due, approvedAt, audit, orders, queue, worker, history, bounds>>

\* expires_at passes, 25 seconds after the proposal.
Elapse(t) ==
  /\ status[t] # "none" /\ t \notin due
  /\ due' = due \cup {t}
  /\ UNCHANGED <<status, approvedAt, audit, flushed, orders, queue, worker, history, bounds>>

\* The web endpoint and the Telegram command that queue an approval.
AskApprove(t, channel) ==
  /\ status[t] # "none"
  /\ channel = "web" => status[t] = "WAITING"
  /\ sent < MaxCommands
  /\ sent' = sent + 1
  /\ queue' = Append(queue, [action |-> "approve", trade |-> t])
  /\ asked' = asked \cup {t}
  /\ UNCHANGED <<table, orders, worker, overlapped, webRejects, crashes>>

\* Telegram's /reject goes through the worker.
AskReject(t) ==
  /\ status[t] # "none"
  /\ sent < MaxCommands
  /\ sent' = sent + 1
  /\ queue' = Append(queue, [action |-> "reject", trade |-> t])
  /\ UNCHANGED <<table, orders, worker, history, webRejects, crashes>>

\* The dashboard's reject_pending_trade writes the row whatever its status.
WebReject(t) ==
  /\ status[t] # "none"
  /\ webRejects < MaxWebRejects
  /\ webRejects' = webRejects + 1
  /\ status' = Mark({t}, "REJECTED")
  /\ UNCHANGED <<due, approvedAt, audit, flushed, orders, queue, worker, history, sent, crashes>>

-----------------------------------------------------------------------------
(* The command thread. *)

Begin(c, stage, batch) ==
  /\ waiting = NoSlot /\ co[c] = Idle
  /\ co' = [co EXCEPT ![c] = [stage |-> stage, batch |-> batch]]
  /\ waiting' = c

\* _command_loop: the oldest command is handed to the main loop.
Pop(c) ==
  /\ queue # <<>>
  /\ queue' = Tail(queue)
  /\ LET cmd == Head(queue)
     IN  Begin(c, IF cmd.action = "approve" THEN "approving" ELSE "rejecting", {cmd.trade})
  /\ UNCHANGED <<table, orders, history, bounds>>

\* Six empty pops in all: the expiry sweep.
Sweep(c) ==
  /\ queue = <<>>
  /\ Begin(c, "expiring", {})
  /\ UNCHANGED <<table, orders, queue, history, bounds>>

\* fut.result(timeout=...) raises: the thread goes on, and so does the coroutine.
GiveUp ==
  /\ Timeouts
  /\ waiting # NoSlot
  /\ waiting' = NoSlot
  /\ UNCHANGED <<table, orders, queue, co, history, bounds>>

-----------------------------------------------------------------------------
(* The coroutines. *)

GoTo(c, stage, batch) ==
  /\ co' = [co EXCEPT ![c] = [stage |-> stage, batch |-> batch]]
  /\ UNCHANGED waiting

Finish(c) ==
  /\ co' = [co EXCEPT ![c] = Idle]
  /\ waiting' = IF waiting = c THEN NoSlot ELSE waiting

At(c, stage) == co[c].stage = stage
IsWaiting(t) == status[t] = "WAITING"

\* For mutation: a decision that only asks whether the trade exists.
Exists(t) == status[t] # "none"

\* The guard of approve and of reject.
StillWaiting(t) == IsWaiting(t)

\* The approvals of a trade between their check and their order.
InFlight(t) == {c \in Slots : co[c].stage \in {"approve", "place"} /\ t \in co[c].batch}

\* approve, up to its first commit: the row is read, status and expiry checked.
ApproveSelect(c) ==
  /\ At(c, "approving")
  /\ \E t \in co[c].batch :
       \/ ~StillWaiting(t) /\ Finish(c) /\ UNCHANGED overlapped
       \/ StillWaiting(t) /\ t \in due /\ GoTo(c, "expire_one", {t}) /\ UNCHANGED overlapped
       \/ /\ StillWaiting(t) /\ t \notin due /\ GoTo(c, "approve", {t})
          /\ overlapped' = overlapped \cup (IF InFlight(t) = {} THEN {} ELSE {t})
  /\ UNCHANGED <<table, orders, queue, asked, bounds>>

\* A trade found expired on approval: the event is flushed after the commit.
ExpireOnApprove(c) ==
  /\ At(c, "expire_one")
  /\ status' = Mark(co[c].batch, "EXPIRED")
  /\ flushed' = flushed \cup ({"SIGNAL_EXPIRED"} \X co[c].batch)
  /\ Finish(c)
  /\ UNCHANGED <<due, approvedAt, audit, orders, queue, history, bounds>>

\* For mutation: an approval that is left to a later commit.
ApproveUncommitted(c) ==
  /\ At(c, "approve")
  /\ GoTo(c, "place", co[c].batch)
  /\ UNCHANGED <<table, orders, queue, history, bounds>>

\* For mutation: the outcome of the execution written as the decision.
ApproveAsExecuted(c) ==
  /\ At(c, "approve")
  /\ status' = Mark(co[c].batch, "EXECUTED")
  /\ approvedAt' = approvedAt \cup co[c].batch
  /\ audit' = audit \cup ({"SIGNAL_APPROVED"} \X co[c].batch)
  /\ GoTo(c, "place", co[c].batch)
  /\ UNCHANGED <<due, flushed, orders, queue, history, bounds>>

\* The approval and its event are committed before the order is placed.
ApproveCommit(c) ==
  /\ At(c, "approve")
  /\ status' = Mark(co[c].batch, "APPROVED")
  /\ approvedAt' = approvedAt \cup co[c].batch
  /\ audit' = audit \cup ({"SIGNAL_APPROVED"} \X co[c].batch)
  /\ GoTo(c, "place", co[c].batch)
  /\ UNCHANGED <<due, flushed, orders, queue, history, bounds>>

(***************************************************************************)
(* place_order_fn, called on the main loop: an order, or none (no engine,  *)
(* BUY rejected or not confirmed), or an exception, whose event is flushed *)
(* and never committed.                                                    *)
(***************************************************************************)
Place(c) ==
  /\ At(c, "place")
  /\ \E t \in co[c].batch :
       \/ orders' = [orders EXCEPT ![t] = @ + 1] /\ UNCHANGED flushed
       \/ UNCHANGED <<orders, flushed>>
       \/ flushed' = flushed \cup {<<"SIGNAL_APPROVED_FAILED", t>>} /\ UNCHANGED orders
  /\ Finish(c)
  /\ UNCHANGED <<status, due, approvedAt, audit, queue, history, bounds>>

RejectSelect(c) ==
  /\ At(c, "rejecting")
  /\ \E t \in co[c].batch :
       \/ ~StillWaiting(t) /\ Finish(c)
       \/ StillWaiting(t) /\ GoTo(c, "reject", {t})
  /\ UNCHANGED <<table, orders, queue, history, bounds>>

RejectCommit(c) ==
  /\ At(c, "reject")
  /\ status' = Mark(co[c].batch, "REJECTED")
  /\ audit' = audit \cup ({"SIGNAL_REJECTED"} \X co[c].batch)
  /\ Finish(c)
  /\ UNCHANGED <<due, approvedAt, flushed, orders, queue, history, bounds>>

\* For mutation: a sweep whose comparison is the wrong way round.
NotStale == {t \in Trades \ due : IsWaiting(t)}

\* For mutation: a sweep that does not ask whether the trade still waits.
AnyDue == due

\* The SELECT of expire_stale_trades.
Stale == {t \in due : IsWaiting(t)}

ExpireSelect(c) ==
  /\ At(c, "expiring")
  /\ IF Stale = {} THEN Finish(c) ELSE GoTo(c, "expire", Stale)
  /\ UNCHANGED <<table, orders, queue, history, bounds>>

ExpireCommit(c) ==
  /\ At(c, "expire")
  /\ status' = Mark(co[c].batch, "EXPIRED")
  /\ audit' = audit \cup ({"SIGNAL_EXPIRED"} \X co[c].batch)
  /\ Finish(c)
  /\ UNCHANGED <<due, approvedAt, flushed, orders, queue, history, bounds>>

\* The worker dies and is restarted: the queue and the database remain.
Crash ==
  /\ crashes < MaxCrashes
  /\ crashes' = crashes + 1
  /\ co' = [c \in Slots |-> Idle]
  /\ waiting' = NoSlot
  /\ flushed' = {}
  /\ UNCHANGED <<status, due, approvedAt, audit, orders, queue, history, sent, webRejects>>

-----------------------------------------------------------------------------
Coroutine(c) ==
  \/ ApproveSelect(c) \/ ExpireOnApprove(c) \/ ApproveCommit(c) \/ Place(c)
  \/ RejectSelect(c) \/ RejectCommit(c)
  \/ ExpireSelect(c) \/ ExpireCommit(c)

User(t) ==
  \/ \E channel \in {"web", "telegram"} : AskApprove(t, channel)
  \/ AskReject(t)
  \/ WebReject(t)

Next ==
  \/ \E t \in Trades : Propose(t) \/ Elapse(t) \/ User(t)
  \/ \E row \in flushed : CloseSession(row)
  \/ \E c \in Slots : Pop(c) \/ Sweep(c) \/ Coroutine(c)
  \/ GiveUp
  \/ Crash

Spec == Init /\ [][Next]_vars

(***************************************************************************)
(* The clock advances, the command loop keeps popping and sweeping, the    *)
(* event loop runs its coroutines.  Nothing forces a user or a crash.      *)
(***************************************************************************)
Fairness ==
  /\ \A t \in Trades : WF_vars(Elapse(t))
  /\ WF_vars(\E c \in Slots : Pop(c))
  /\ WF_vars(\E c \in Slots : Sweep(c))
  /\ \A c \in Slots : WF_vars(Coroutine(c))

FairSpec == Spec /\ Fairness

-----------------------------------------------------------------------------
TypeOK ==
  /\ status \in [Trades -> Statuses]
  /\ due \subseteq Trades
  /\ approvedAt \subseteq Trades
  /\ orders \in [Trades -> Nat]
  /\ audit \subseteq Events \X Trades
  /\ flushed \subseteq Events \X Trades
  /\ queue \in Seq(Commands)
  /\ waiting \in Slots \cup {NoSlot}
  /\ co \in [Slots -> [stage : Stages \cup {"idle"}, batch : SUBSET Trades]]
  /\ asked \subseteq Trades /\ overlapped \subseteq Trades
  /\ sent \in 0..MaxCommands /\ webRejects \in 0..MaxWebRejects /\ crashes \in 0..MaxCrashes

(***************************************************************************)
(* "No live trade without explicit approval" and "this happens AFTER       *)
(* commit so the approval is recorded": whatever was rejected, expired or  *)
(* crashed meanwhile, a trade with an order was approved by somebody and   *)
(* the approval is in the table and in the audit log.                      *)
(***************************************************************************)
OrderNeedsApproval ==
  \A t \in Trades : orders[t] > 0 =>
    t \in asked /\ t \in approvedAt /\ <<"SIGNAL_APPROVED", t>> \in audit

\* However often approval is asked for, a trade is ordered at most once.
AtMostOneOrder == \A t \in Trades : orders[t] <= 1

(***************************************************************************)
(* What a second order of one trade takes, with coroutines that outlast    *)
(* the command thread's wait, web rejections and crashes: two approvals,   *)
(* the second begun before the first had placed its order.  Approvals one  *)
(* after the other never order twice.                                      *)
(***************************************************************************)
DoubleOrderNeedsOverlap == \A t \in Trades : orders[t] > 1 => t \in overlapped

(***************************************************************************)
(* The workflow implements TradeDecision: one decision, one order at most. *)
(* Checked with no web rejection and no coroutine outlasting its command.  *)
(***************************************************************************)
Decision == INSTANCE TradeDecision WITH Trades <- Trades, status <- status, orders <- orders
Decided  == Decision!Spec

(***************************************************************************)
(* A proposed trade is eventually decided: approved, rejected or, at the   *)
(* latest by a sweep after its deadline, expired.                          *)
(***************************************************************************)
EventuallyDecided ==
  \A t \in Trades : status[t] = "WAITING" ~> status[t] \in Decision!Decisions

(***************************************************************************)
(* What the docstring of approve says: it "validates that the trade is     *)
(* still WAITING", so an order is placed for no rejected trade.            *)
(***************************************************************************)
RejectedNotOrdered ==
  [][\A t \in Trades : status[t] = "REJECTED" => orders'[t] = orders[t]]_vars
=============================================================================
