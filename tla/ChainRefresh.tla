---------------------------- MODULE ChainRefresh ----------------------------
(***************************************************************************)
(* The option chain of one symbol and expiry in shared mode:               *)
(* SharedOptionChainService of backend/shared/option_chain_service.py,     *)
(* whose refreshes, in as many worker processes as there are, exclude each *)
(* other by a lock of backend/shared/dist_locks.py: a Redis key that       *)
(* expires, set with a value of its holder's own and deleted by a script   *)
(* only if it still has that value.                                        *)
(*                                                                         *)
(* Refreshes are numbered as they take the lock.  The number stands for    *)
(* the value they put there and for the chain they fetch.                  *)
(***************************************************************************)
EXTENDS Integers

CONSTANTS
  Services,       \* one service per worker process
  MaxRefreshes,   \* bound: refreshes
  MaxExpiries     \* bound: times the lock expires

ASSUME ChainAssumption == MaxRefreshes \in Nat /\ MaxExpiries \in Nat

VARIABLES
  lock,           \* the lock's value, or 0
  service,        \* for each service [pc, held, seen]: its own value, the last chain it kept
  analysis,       \* the chain last analysed into Redis
  refreshes, expiries

chainVars == <<lock, service, analysis, refreshes, expiries>>

ChainInit ==
  /\ lock = 0 /\ analysis = 0 /\ refreshes = 0 /\ expiries = 0
  /\ service = [s \in Services |-> [pc |-> "idle", held |-> 0, seen |-> 0]]

\* acquire_lock_wait: SET NX EX until it succeeds.
Acquire(s) ==
  /\ service[s].pc = "idle" /\ lock = 0 /\ refreshes < MaxRefreshes
  /\ refreshes' = refreshes + 1 /\ lock' = refreshes + 1
  /\ service' = [service EXCEPT ![s].pc = "locked", ![s].held = refreshes + 1]
  /\ UNCHANGED <<analysis, expiries>>

\* The chain arrives, or nothing does, or stop() has taken the analyser away.
FetchChain(s) ==
  /\ service[s].pc = "locked"
  /\ \E next \in {"fetched", "releasing"} : service' = [service EXCEPT ![s].pc = next]
  /\ UNCHANGED <<lock, analysis, refreshes, expiries>>

\* A first chain is only kept for comparison; later ones are analysed and stored.
Analyze(s) ==
  /\ service[s].pc = "fetched"
  /\ service' = [service EXCEPT ![s].pc = "releasing", ![s].seen = service[s].held]
  /\ analysis' = IF service[s].seen = 0 THEN analysis ELSE service[s].held
  /\ UNCHANGED <<lock, refreshes, expiries>>

\* For mutation: the key is deleted whosever it is.
ReleaseBlindly(s) ==
  /\ service[s].pc = "releasing"
  /\ lock' = 0
  /\ service' = [service EXCEPT ![s].pc = "idle", ![s].held = 0]
  /\ UNCHANGED <<analysis, refreshes, expiries>>

\* release_lock, whatever happened: the script compares before it deletes.
Release(s) ==
  /\ service[s].pc = "releasing"
  /\ lock' = IF lock = service[s].held THEN 0 ELSE lock
  /\ service' = [service EXCEPT ![s].pc = "idle", ![s].held = 0]
  /\ UNCHANGED <<analysis, refreshes, expiries>>

\* A worker dies, with the lock or without; its successor starts with neither.
CrashService(s) ==
  /\ service' = [service EXCEPT ![s] = [pc |-> "idle", held |-> 0, seen |-> 0]]
  /\ UNCHANGED <<lock, analysis, refreshes, expiries>>

\* The key's time to live ends, its holder at work or dead.
Expire ==
  /\ lock # 0 /\ expiries < MaxExpiries
  /\ lock' = 0 /\ expiries' = expiries + 1
  /\ UNCHANGED <<service, analysis, refreshes>>

ChainNext ==
  \/ Expire
  \/ \E s \in Services :
       Acquire(s) \/ FetchChain(s) \/ Analyze(s) \/ Release(s) \/ CrashService(s)

-----------------------------------------------------------------------------
ChainTypeOK ==
  /\ {lock, analysis, refreshes} \subseteq 0..MaxRefreshes /\ expiries \in 0..MaxExpiries
  /\ service \in [Services -> [pc : {"idle", "locked", "fetched", "releasing"},
                               held : 0..MaxRefreshes, seen : 0..MaxRefreshes]]

\* "only if held by this thread" (dist_locks.py:89): a refresh has the lock until it is over
\* or its service has died, unless the key expires.  One that comes out late, its own lock
\* expired and the key taken by another since, does not let a third in.
LockKept ==
  [][\A s \in Services :
       service[s].held # 0 /\ service[s].held = lock /\ service'[s].held = lock
         => lock' = lock \/ expiries' > expiries]_chainVars

\* "Only one service refreshes per symbol/expiry" (option_chain_service.py:108).
OneRefresher ==
  \A s, t \in Services : service[s].pc = "fetched" /\ service[t].pc = "fetched" => s = t
=============================================================================
