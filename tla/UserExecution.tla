---------------------------- MODULE UserExecution ----------------------------
(***************************************************************************)
(* One user's execution manager in shared mode: signals of the shared      *)
(* strategy engine become paper positions or pending trades (backend/      *)
(* shared/user_execution_manager.py, the command handlers and _MockEngine  *)
(* of shared_worker.py, pubsub_utils.py, and worker.py's handlers, which   *)
(* serve the same commands).                                               *)
(*                                                                         *)
(* A manager has a thread that takes signals one by one; commands come on  *)
(* other threads in between.  A restarted bot has a new manager, while the *)
(* old one's thread may still be at work.                                  *)
(***************************************************************************)
EXTENDS Integers, Sequences, FiniteSets

CONSTANTS
  MaxExec,        \* bound: managers the user ever has
  MaxTrades,      \* max_trades_per_day
  MaxDays,        \* bound: days that pass
  MaxSignals      \* bound: signals published

ASSUME ExecAssumption ==
  /\ MaxExec \in Nat /\ MaxTrades \in Nat \ {0} /\ MaxDays \in Nat /\ MaxSignals \in Nat

ExecIds == 1..MaxExec
NoExec  == 0
Modes   == {"PAPER", "SEMI_AUTO"}   \* no start in AUTO mode succeeds: ExecutionRouter.StartRaises

VARIABLES
  exec,         \* the managers
  manager,      \* the one in the registry
  day,          \* the date, and whether it is within trading hours
  signals,      \* signals published
  entries,      \* paper entries of each manager, by the day its check was made
  snapshot,     \* bot:positions:<user>: whether it shows a position
  pauseAcked    \* a pause has been acknowledged since the last resume

execVars == <<exec, manager, day, signals, entries, snapshot, pauseAcked>>

NewExec(mode) ==
  [mode |-> mode, pc |-> "idle", stopped |-> FALSE, paused |-> FALSE, inbox |-> 0,
   held |-> FALSE, trades |-> 0, date |-> 0, asked |-> 0, push |-> FALSE]
NoManager == [NewExec("PAPER") EXCEPT !.pc = "none", !.stopped = TRUE]

ExecInit ==
  /\ exec = [m \in ExecIds |-> NoManager]
  /\ manager = NoExec
  /\ day = [date |-> 1, open |-> TRUE]
  /\ signals = 0
  /\ entries = [m \in ExecIds |-> [d \in 1..MaxDays + 1 |-> 0]]
  /\ snapshot = FALSE
  /\ pauseAcked = FALSE

Held(m) == exec[m].held       \* a position in _positions

-----------------------------------------------------------------------------
(* start, stop, replacement: under the registry's lock. *)

Halted(e, m) == [e EXCEPT ![m].stopped = TRUE, ![m].paused = TRUE]

StartExec ==
  /\ \E m \in ExecIds, mode \in Modes :
       /\ exec[m].pc = "none" /\ \A k \in 1..m - 1 : exec[k].pc # "none"
       /\ exec' = [(IF manager = NoExec THEN exec ELSE Halted(exec, manager)) EXCEPT ![m] = NewExec(mode)]
       /\ manager' = m
  /\ pauseAcked' = FALSE
  /\ UNCHANGED <<day, signals, entries, snapshot>>

StopExec ==
  /\ manager # NoExec
  /\ exec' = Halted(exec, manager)
  /\ manager' = NoExec
  /\ UNCHANGED <<day, signals, entries, snapshot, pauseAcked>>

-----------------------------------------------------------------------------
(* The thread.  A stopped one ends when it next looks at its stop event;   *)
(* a message it has already taken it still handles.                        *)

\* Redis delivers a signal to every thread that is subscribed.
PublishSignal ==
  /\ signals < MaxSignals
  /\ signals' = signals + 1
  /\ exec' = [m \in ExecIds |-> IF exec[m].pc \in {"none", "ended"} THEN exec[m]
                                 ELSE [exec[m] EXCEPT !.inbox = @ + 1]]
  /\ UNCHANGED <<manager, day, entries, snapshot, pauseAcked>>

EndThread(m) ==
  /\ exec[m].stopped /\ exec[m].pc = "idle"
  /\ exec' = [exec EXCEPT ![m].pc = "ended", ![m].inbox = 0]
  /\ UNCHANGED <<manager, day, signals, entries, snapshot, pauseAcked>>

\* get_message, the pause, the strategy filter of the configuration.
TakeSignal(m) ==
  /\ exec[m].pc = "idle" /\ exec[m].inbox > 0
  /\ \E wanted \in BOOLEAN :
       exec' = [exec EXCEPT ![m].inbox = @ - 1,
                            ![m].pc = IF exec[m].paused \/ ~wanted THEN "idle" ELSE "checking"]
  /\ UNCHANGED <<manager, day, signals, entries, snapshot, pauseAcked>>

\* _maybe_reset_risk: a new date forgets the trades.
Reset(r) == IF r.date = day.date THEN r ELSE [r EXCEPT !.date = day.date, !.trades = 0]

\* For mutation: the limit is off by one.
RiskLenient(r) == Reset(r).trades <= MaxTrades

RiskOk(r) == Reset(r).trades < MaxTrades

\* _risk_ok, _trading_hours_ok and "one position at a time".
CheckSignal(m) ==
  /\ exec[m].pc = "checking"
  /\ exec' = [exec EXCEPT ![m] =
       [Reset(@) EXCEPT !.pc = IF RiskOk(exec[m]) /\ day.open /\ ~Held(m) THEN "routing" ELSE "idle",
                        !.asked = day.date]]
  /\ UNCHANGED <<manager, day, signals, entries, snapshot, pauseAcked>>

\* _route_execution: the paper position.
RoutePaper(m) ==
  /\ exec[m].pc = "routing" /\ exec[m].mode = "PAPER"
  /\ exec' = [exec EXCEPT ![m].held = TRUE, ![m].pc = "recording"]
  /\ entries' = [entries EXCEPT ![m][exec[m].asked] = @ + 1]
  /\ UNCHANGED <<manager, day, signals, snapshot, pauseAcked>>

\* A pending trade, as PendingTrade.tla has it, which is not counted as an entry.
RouteOther(m) ==
  /\ exec[m].pc = "routing" /\ exec[m].mode # "PAPER"
  /\ exec' = [exec EXCEPT ![m].pc = "idle"]
  /\ UNCHANGED <<manager, day, signals, entries, snapshot, pauseAcked>>

\* For mutation: the entry is not counted.
RecordNothing(m) ==
  /\ exec[m].pc = "recording"
  /\ exec' = [exec EXCEPT ![m] = [Reset(@) EXCEPT !.pc = "pushing"]]
  /\ UNCHANGED <<manager, day, signals, entries, snapshot, pauseAcked>>

\* _record_entry.
RecordEntry(m) ==
  /\ exec[m].pc = "recording"
  /\ LET r == Reset(exec[m])
     IN  exec' = [exec EXCEPT ![m] = [r EXCEPT !.trades = r.trades + 1, !.pc = "pushing"]]
  /\ UNCHANGED <<manager, day, signals, entries, snapshot, pauseAcked>>

\* _push_position_snapshot: the positions are read under the lock and written after it.
ReadForPush(m) ==
  /\ exec[m].pc = "pushing"
  /\ exec' = [exec EXCEPT ![m].push = Held(m), ![m].pc = "pushed"]
  /\ UNCHANGED <<manager, day, signals, entries, snapshot, pauseAcked>>

WritePush(m) ==
  /\ exec[m].pc = "pushed"
  /\ snapshot' = exec[m].push
  /\ exec' = [exec EXCEPT ![m].pc = "idle", ![m].push = FALSE]
  /\ UNCHANGED <<manager, day, signals, entries, pauseAcked>>

-----------------------------------------------------------------------------
(* Commands, on whichever consumer takes them from the queue. *)

CommandSame == UNCHANGED <<manager, day, signals, entries>>

\* _MockEngine.modify_sl and modify_target change the position's numbers and push it.
Modify ==
  /\ manager # NoExec /\ Held(manager)
  /\ snapshot' = TRUE
  /\ CommandSame /\ UNCHANGED <<exec, pauseAcked>>

\* squareoff: the position is forgotten; no order is placed and no P&L recorded.
Squareoff ==
  /\ manager # NoExec /\ Held(manager)
  /\ exec' = [exec EXCEPT ![manager].held = FALSE]
  /\ snapshot' = FALSE
  /\ CommandSame /\ UNCHANGED pauseAcked

\* The orchestrator pauses the manager, and resumes it for a resume or a new token.
Pause ==
  /\ manager # NoExec
  /\ exec' = [exec EXCEPT ![manager].paused = TRUE]
  /\ pauseAcked' = TRUE
  /\ CommandSame /\ UNCHANGED snapshot

\* The manager may have been replaced since the handler got hold of it.
Resume(m) ==
  /\ exec[m].pc # "none" /\ exec[m].paused
  /\ exec' = [exec EXCEPT ![m].paused = FALSE]
  /\ pauseAcked' = FALSE
  /\ CommandSame /\ UNCHANGED snapshot

\* worker.py sets _paused on engines made for the occasion: the manager goes on.
PauseMock ==
  /\ manager # NoExec /\ Held(manager)
  /\ pauseAcked' = TRUE
  /\ CommandSame /\ UNCHANGED <<exec, snapshot>>

-----------------------------------------------------------------------------
(* Time. *)

SnapshotExpires ==
  /\ snapshot /\ snapshot' = FALSE
  /\ UNCHANGED <<exec, manager, day, signals, entries, pauseAcked>>

Clock ==
  /\ day' \in {[date |-> day.date, open |-> FALSE], [date |-> day.date + 1, open |-> TRUE]}
  /\ day' # day /\ day'.date <= MaxDays + 1
  /\ UNCHANGED <<exec, manager, signals, entries, snapshot, pauseAcked>>

ExecNext ==
  \/ StartExec \/ StopExec \/ PublishSignal
  \/ \E m \in ExecIds :
       \/ EndThread(m) \/ TakeSignal(m) \/ CheckSignal(m) \/ RoutePaper(m) \/ RouteOther(m)
       \/ RecordEntry(m) \/ ReadForPush(m) \/ WritePush(m) \/ Resume(m)
  \/ Modify \/ Squareoff \/ Pause \/ PauseMock
  \/ SnapshotExpires \/ Clock

ExecSpec == ExecInit /\ [][ExecNext]_execVars

-----------------------------------------------------------------------------
(* Properties. *)

ExecTypeOK ==
  /\ manager \in {NoExec} \cup ExecIds
  /\ \A m \in ExecIds :
       /\ exec[m].pc \in {"none", "idle", "checking", "routing", "recording", "pushing", "pushed", "ended"}
       /\ exec[m].mode \in Modes /\ exec[m].inbox \in 0..MaxSignals
       /\ exec[m].trades \in 0..MaxTrades
  /\ day \in [date : 1..MaxDays + 1, open : BOOLEAN]
  /\ pauseAcked \in BOOLEAN

\* A manager never opens more positions on a day than max_trades_per_day,
\* although the count is checked in one step and raised in a later one, the
\* position that would hold a second entry back can be squared off in between,
\* and the date may change under the signal.
EntriesCapped ==
  \A m \in ExecIds, d \in 1..MaxDays + 1 : entries[m][d] <= MaxTrades

\* "Pause new trade entries": once a pause has been acknowledged, the user's
\* manager takes up no signal until a resume.
PauseHolds ==
  [][pauseAcked => \A m \in ExecIds : m = manager =>
       ~(exec[m].pc = "idle" /\ exec'[m].pc = "checking")]_execVars
=============================================================================
