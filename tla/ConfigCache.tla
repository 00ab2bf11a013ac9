----------------------------- MODULE ConfigCache -----------------------------
(***************************************************************************)
(* What administrators configure, and the copies the processes read:       *)
(* services/admin_config_cache.py (holidays, streamer tokens),             *)
(* services/billing_cache.py (plans, settings) and the streamer tokens     *)
(* that shared/shared_cache.py keeps in Redis on top of the first.         *)
(*                                                                         *)
(* A table's content is the number of the write that made it, 0 being what *)
(* the source has built in.  The web process has one thread, its event     *)
(* loop, which its loads block; the worker has several.  A load takes less *)
(* than a unit of time.  A cache has two tables, loaded in this order:     *)
(* holidays and streamer tokens, or plans and settings.                    *)
(***************************************************************************)
EXTENDS Integers, Sequences

CONSTANTS
  WorkerThreads,
  TTL,           \* _TTL_SECONDS of both caches
  RedisTTL,      \* ex= of the streamer token in Redis
  MaxWrites      \* bound: writes of administrators

Processes == {"web", "worker"}
Threads   == {"web"} \cup WorkerThreads
Process(t) == IF t = "web" THEN "web" ELSE "worker"

ASSUME ConfigAssumption ==
  /\ "web" \notin WorkerThreads
  /\ TTL \in Nat \ {0} /\ RedisTTL \in Nat \ {0} /\ MaxWrites \in Nat

VARIABLES
  cache,        \* which of the two caches this is
  replaced,     \* per table and earlier content: the time since it was replaced
  due,          \* commits whose request has not refreshed the cache yet
  copy,         \* each process's copy of the tables
  sound,        \* is it what the last load asked for, and found
  age,          \* time since the process's _last_loaded_at
  holder,       \* who holds its _lock
  call,         \* what each thread is doing
  redis         \* the token in Redis, whether sound, and the time it has left

configVars == <<cache, replaced, due, copy, sound, age, holder, call, redis>>

Tokens  == 2
Quiet   == [pc |-> "idle", force |-> FALSE, token |-> FALSE, part |-> 1]
NoToken == [val |-> 0, sound |-> FALSE, left |-> 0]

ConfigInit ==
  /\ cache \in {"config", "billing"}
  /\ replaced = [i \in 1..2 |-> <<>>]
  /\ due = 0
  /\ copy = [p \in Processes |-> [i \in 1..2 |-> 0]]
  /\ sound = [p \in Processes |-> FALSE]
  /\ age = [p \in Processes |-> TTL]
  /\ holder = [p \in Processes |-> "free"]
  /\ call = [t \in Threads |-> Quiet]
  /\ redis = NoToken

\* The content a table has now, and how long content v has not been it.
Content(i)     == Len(replaced[i])
Outdated(i, v) == IF v < Content(i) THEN replaced[i][v + 1] ELSE 0

-----------------------------------------------------------------------------
\* The end of refresh, loaded or not.
Stamp(t, ok) ==
  LET p == Process(t) IN
  /\ sound' = [sound EXCEPT ![p] = ok]
  /\ age' = [age EXCEPT ![p] = 0]
  /\ holder' = [holder EXCEPT ![p] = "free"]
  /\ call' = [call EXCEPT ![t] = IF call[t].force THEN Quiet ELSE [call[t] EXCEPT !.pc = "answer", !.part = 1]]

\* For mutation: the comparison is off by one.
RefreshLate(t, force, token) ==
  LET p == Process(t) IN
  /\ call[t].pc = "idle" /\ holder[p] = "free"
  /\ IF ~force /\ age[p] <= TTL
     THEN call' = [call EXCEPT ![t] = [Quiet EXCEPT !.pc = "answer", !.token = token]] /\ UNCHANGED holder
     ELSE /\ call' = [call EXCEPT ![t] = [Quiet EXCEPT !.pc = "load", !.force = force, !.token = token]]
          /\ holder' = [holder EXCEPT ![p] = t]

\* refresh, entered once the lock is free: a copy that is young enough is used.
Refresh(t, force, token) ==
  LET p == Process(t) IN
  /\ call[t].pc = "idle" /\ holder[p] = "free"
  /\ IF ~force /\ age[p] < TTL
     THEN call' = [call EXCEPT ![t] = [Quiet EXCEPT !.pc = "answer", !.token = token]] /\ UNCHANGED holder
     ELSE /\ call' = [call EXCEPT ![t] = [Quiet EXCEPT !.pc = "load", !.force = force, !.token = token]]
          /\ holder' = [holder EXCEPT ![p] = t]

\* An administrator's request commits: it creates, updates or deletes a
\* holiday, a token, a plan, or writes the settings.
AdminCommits(i) ==
  /\ Content(1) + Content(2) < MaxWrites
  /\ replaced' = [replaced EXCEPT ![i] = Append(@, 0)]
  /\ due' = due + 1
  /\ UNCHANGED <<cache, copy, sound, age, holder, call, redis>>

\* The request goes on to refresh(force=True).
AdminRefreshes ==
  /\ due > 0
  /\ Refresh("web", TRUE, FALSE)
  /\ due' = due - 1
  /\ UNCHANGED <<cache, replaced, copy, sound, age, redis>>

\* is_holiday, get_streamer_token, get_billing_settings and the like.  Nothing
\* in the worker reads the billing cache.
Read(t) ==
  /\ Process(t) = "worker" => cache = "config"
  /\ Refresh(t, FALSE, FALSE)
  /\ UNCHANGED <<cache, replaced, due, copy, sound, age, redis>>

\* shared_cache.get_streamer_token, in the worker: there is no token in Redis.
ReadToken(t) ==
  /\ t \in WorkerThreads /\ cache = "config" /\ redis.left = 0
  /\ Refresh(t, FALSE, TRUE)
  /\ UNCHANGED <<cache, replaced, due, copy, sound, age, redis>>

\* One SELECT and its assignment: nobody else assigns while the lock is held.
\* After the second, _last_loaded_at is set and the lock released.
Load(t) ==
  LET p == Process(t) IN
  /\ call[t].pc = "load"
  /\ copy' = [copy EXCEPT ![p][call[t].part] = Content(call[t].part)]
  /\ IF call[t].part = 1
     THEN call' = [call EXCEPT ![t].part = 2] /\ UNCHANGED <<sound, age, holder>>
     ELSE Stamp(t, TRUE)
  /\ UNCHANGED <<cache, replaced, due, redis>>

\* The database cannot be reached: the tables not loaded yet stay as they are,
\* and _last_loaded_at is set all the same.
LoadFails(t) ==
  /\ call[t].pc = "load"
  /\ Stamp(t, FALSE)
  /\ UNCHANGED <<cache, replaced, due, copy, redis>>

\* The reader takes its answer from the copy, without the lock; a token goes
\* to Redis.
Answer(t) ==
  LET p == Process(t) IN
  /\ call[t].pc = "answer"
  /\ redis' = IF call[t].token THEN [val |-> copy[p][Tokens], sound |-> sound[p], left |-> RedisTTL] ELSE redis
  /\ call' = [call EXCEPT ![t] = Quiet]
  /\ UNCHANGED <<cache, replaced, due, copy, sound, age, holder>>

-----------------------------------------------------------------------------
\* A process starts anew; a request that has committed never refreshes.
Restart(p) ==
  /\ due' = IF p = "web" THEN 0 ELSE due
  /\ copy' = [copy EXCEPT ![p] = [i \in 1..2 |-> 0]]
  /\ sound' = [sound EXCEPT ![p] = FALSE]
  /\ age' = [age EXCEPT ![p] = TTL]
  /\ holder' = [holder EXCEPT ![p] = "free"]
  /\ call' = [t \in Threads |-> IF Process(t) = p THEN Quiet ELSE call[t]]
  /\ UNCHANGED <<cache, replaced, redis>>

Least(a, b) == IF a < b THEN a ELSE b

\* A unit of time, while nobody is between taking the lock and the answer.
ConfigTick ==
  /\ \A t \in Threads : call[t].pc = "idle"
  /\ replaced' = [i \in 1..2 |-> [v \in DOMAIN replaced[i] |-> Least(replaced[i][v] + 1, TTL + RedisTTL)]]
  /\ age' = [p \in Processes |-> Least(age[p] + 1, TTL + 1)]
  /\ redis' = IF redis.left <= 1 THEN NoToken ELSE [redis EXCEPT !.left = @ - 1]
  /\ UNCHANGED <<cache, due, copy, sound, holder, call>>

ConfigNext ==
  \/ \E i \in 1..2 : AdminCommits(i)
  \/ AdminRefreshes
  \/ \E t \in Threads : Read(t) \/ ReadToken(t) \/ Load(t) \/ LoadFails(t) \/ Answer(t)
  \/ \E p \in Processes : Restart(p)
  \/ ConfigTick

ConfigSpec == ConfigInit /\ [][ConfigNext]_configVars

-----------------------------------------------------------------------------
ConfigTypeOK ==
  /\ cache \in {"config", "billing"} /\ due \in 0..MaxWrites
  /\ \A p \in Processes : /\ copy[p] \in [1..2 -> 0..MaxWrites] /\ sound[p] \in BOOLEAN
                          /\ age[p] \in 0..(TTL + 1) /\ holder[p] \in Threads \cup {"free"}
  /\ \A t \in Threads : call[t].pc \in {"idle", "load", "answer"}
  /\ redis.left \in 0..RedisTTL

(***************************************************************************)
(* "A TTL keeps the two processes eventually consistent": unless the last  *)
(* load failed, what a reader is about to get was still right less than a  *)
(* TTL ago, and a token from Redis less than the two TTLs together; and    *)
(* once every administrator's request is through, the web process has what *)
(* they wrote, however its refreshes interleaved with other commits.       *)
(***************************************************************************)
ConfigRecent ==
  /\ \A t \in Threads : LET p == Process(t) IN
       call[t].pc = "answer" /\ sound[p] =>
         \A i \in 1..2 : Outdated(i, copy[p][i]) < TTL
  /\ redis.left > 0 /\ redis.sound => Outdated(Tokens, redis.val) < TTL + RedisTTL - 1
  /\ due = 0 /\ sound["web"] /\ call["web"].pc = "idle" =>
       \A i \in 1..2 : copy["web"][i] = Content(i)

=============================================================================
