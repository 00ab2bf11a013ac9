----------------------- MODULE ExecutionRouterProofs -----------------------
(***************************************************************************)
(* Proofs about ExecutionRouter.  The argument turns on held, the last     *)
(* second at which each mode was the saved one: whoever stores a mode in   *)
(* the cache read it after its lookup began, so the entry's mode was the   *)
(* saved one no earlier than the entry's time says.                        *)
(***************************************************************************)
EXTENDS ExecutionRouter, TLAPS

\* The saved mode is held now, no mode later than now.
HeldInv ==
  /\ held[saved] = clock
  /\ \A m \in Modes : held[m] <= clock

\* The cached mode was the saved one when its lookup began, or later.
CacheInv == cache.mode # "none" => cache.at <= held[cache.mode]

\* The mode a signal has read, and what it knows of it.
ModeInv(r) ==
  /\ r.at <= clock
  /\ r.stage = "reading" => r.mode = "none"
  /\ r.stage \in {"read", "routed"} => r.mode # "none"
  /\ r.stage = "read" => r.at <= held[r.mode]
  /\ r.stage \in {"routed", "answered"} /\ r.mode # "none" => r.at - held[r.mode] < TTL
  /\ r.stage \in {"read", "routed", "answered"} /\ r.mode # "none" /\ r.steady
       => r.mode = r.by

\* No order before the answer; the answer follows from the mode.
OrderInv(r) ==
  /\ r.stage \in {"new", "reading", "read", "routed"} =>
       r.paper = 0 /\ ~r.pending
  /\ r.stage = "answered" =>
       /\ r.paper <= 1
       /\ r.paper = 1 => r.mode = "PAPER"
       /\ r.status = "EXECUTED" => r.mode = "PAPER"
       /\ r.pending => r.mode = "SEMI_AUTO"

Obeyed(r) ==
  r.steady =>
    /\ r.paper > 0 => r.by = "PAPER"
    /\ r.pending   => r.by = "SEMI_AUTO"

SignalInv(r) == ModeInv(r) /\ OrderInv(r) /\ Obeyed(r)

RInv ==
  /\ TypeOK
  /\ HeldInv
  /\ CacheInv
  /\ \A s \in Signals : SignalInv(signal[s])

-----------------------------------------------------------------------------
(* What an action can disturb. *)

\* What is known of a signal outlives a save, a tick and a start: a mode's
\* time only grows.
LEMMA SignalKept ==
  ASSUME NEW r \in Routings, NEW r2 \in Routings, SignalInv(r), TypeOK, TypeOK',
         r2 = r \/ r2 = [r EXCEPT !.stage = "lost"],
         \A m \in Modes : held[m] <= held'[m],
         clock <= clock'
  PROVE  SignalInv(r2)'
<1>2. ModeInv(r2)'
  <2>1. CASE r2 = r
    <3>1. r.mode # "none" => r.mode \in Modes /\ held[r.mode] \in Int /\ held'[r.mode] \in Int
      BY RouterAssumption DEF Routings, TypeOK, Long
    <3>2. r.at \in Int /\ TTL \in Int /\ clock \in Int /\ clock' \in Int
      BY RouterAssumption DEF Routings, TypeOK
    <3> QED
      BY <2>1, <3>1, <3>2 DEF SignalInv, ModeInv
  <2>2. CASE r2 = [r EXCEPT !.stage = "lost"]
    BY <2>2 DEF SignalInv, ModeInv, Routings, TypeOK
  <2> QED
    BY <2>1, <2>2
<1>3. OrderInv(r2)'
  BY DEF SignalInv, OrderInv, Routings
<1>4. Obeyed(r2)'
  BY DEF SignalInv, Obeyed, Routings
<1> QED
  BY <1>2, <1>3, <1>4 DEF SignalInv

\* An action of one signal that leaves the modes and the consent alone.
LEMMA OneSignal ==
  ASSUME RInv, NEW s \in Signals, NEW r \in Routings, SignalInv(r),
         signal' = [signal EXCEPT ![s] = r],
         UNCHANGED <<settings, starts, clock>>,
         cache' \in [mode : Modes \cup {"none"}, at : 0..MaxClock], CacheInv'
  PROVE  RInv'
<1>1. TypeOK'
  BY DEF RInv, TypeOK, settings, starts
<1>2. HeldInv'
  BY DEF RInv, HeldInv, settings
<1>3. \A f \in Signals : SignalInv(signal[f])'
  <2> SUFFICES ASSUME NEW f \in Signals PROVE SignalInv(signal[f])'
    OBVIOUS
  <2>1. held' = held
    BY DEF settings
  <2>2. signal'[f] = IF f = s THEN r ELSE signal[f]
    BY DEF RInv, TypeOK
  <2>3. SignalInv(signal'[f])
    BY <2>2 DEF RInv
  <2> QED
    BY <2>1, <2>3 DEF SignalInv, ModeInv, OrderInv, Obeyed
<1> QED
  BY <1>1, <1>2, <1>3 DEF RInv

-----------------------------------------------------------------------------
LEMMA RInit == Init => RInv
<1> SUFFICES ASSUME Init PROVE RInv
  OBVIOUS
<1> USE RouterAssumption DEF Init
<1>1. NewSignal \in Routings
  BY DEF NewSignal, Routings, Stages, Engines, Answers
<1>2. TypeOK
  <2>1. held \in [Modes -> {Long} \cup 0..MaxClock]
    BY DEF Long
  <2>2. saved \in Modes /\ engine \in Engines
    BY DEF Engines
  <2>3. cache \in [mode : Modes \cup {"none"}, at : 0..MaxClock]
    BY DEF Empty
  <2>4. signal \in [Signals -> Routings] 
    BY <1>1
  <2>5. clock \in 0..MaxClock /\ saves \in 0..MaxSaves
    OBVIOUS
  <2> QED
    BY <2>1, <2>2, <2>3, <2>4, <2>5 DEF TypeOK
<1>3. HeldInv /\ CacheInv
  BY DEF HeldInv, CacheInv, Empty, Long
<1>4. \A s \in Signals : SignalInv(signal[s])
  <2>1. SignalInv(NewSignal)
    <3>1. ModeInv(NewSignal)
      BY RouterAssumption DEF ModeInv, NewSignal
    <3>2. OrderInv(NewSignal) /\ Obeyed(NewSignal)
      BY DEF OrderInv, Obeyed, NewSignal
    <3> QED
      BY <3>1, <3>2 DEF SignalInv
  <2> QED
    BY <2>1
<1> QED
  BY <1>2, <1>3, <1>4 DEF RInv

-----------------------------------------------------------------------------
(* The user, the clock and the worker: no signal's answer changes.         *)

LEMMA RSaveMode == ASSUME RInv, NEW m \in Modes, SaveMode(m) PROVE RInv'
<1> USE RouterAssumption
<1>1. \A k \in Modes : held'[k] = IF k = m THEN clock ELSE held[k]
  BY DEF SaveMode, RInv, TypeOK
<1>2. TypeOK'
  <2>1. held' \in [Modes -> {Long} \cup 0..MaxClock]
    BY DEF SaveMode, RInv, TypeOK
  <2>2. saves' \in 0..MaxSaves
    BY DEF SaveMode, RInv, TypeOK
  <2> QED
    BY <2>1, <2>2 DEF SaveMode, RInv, TypeOK, starts
<1>3. \A k \in Modes : held[k] <= held'[k]
  BY <1>1 DEF RInv, HeldInv, TypeOK, Long
<1>4. HeldInv'
  BY <1>1 DEF SaveMode, RInv, TypeOK, HeldInv
<1>5. CacheInv'
  <2>1. cache.mode # "none" => cache.mode \in Modes /\ cache.at \in Int
    BY DEF RInv, TypeOK
  <2>2. \A k \in Modes : held[k] \in Int /\ held'[k] \in Int
    BY <1>2 DEF RInv, TypeOK, Long
  <2> QED
    BY <2>1, <2>2, <1>3 DEF SaveMode, RInv, CacheInv
<1>7. \A s \in Signals : SignalInv(signal[s])'
  <2>1. clock <= clock' /\ signal' = signal
    BY DEF SaveMode, RInv, TypeOK, starts
  <2> QED
    BY <2>1, <1>2, <1>3, SignalKept DEF RInv, TypeOK
<1> QED
  BY <1>2, <1>4, <1>5, <1>7 DEF RInv

LEMMA RTick == ASSUME RInv, Tick PROVE RInv'
<1> USE RouterAssumption
<1>1. \A k \in Modes : held'[k] = IF k = saved THEN clock + 1 ELSE held[k]
  BY DEF Tick, RInv, TypeOK
<1>2. TypeOK'
  <2>1. clock' \in 0..MaxClock
    BY DEF Tick, RInv, TypeOK
  <2>2. held' \in [Modes -> {Long} \cup 0..MaxClock]
    BY <2>1 DEF Tick, RInv, TypeOK
  <2> QED
    BY <2>1, <2>2 DEF Tick, RInv, TypeOK, starts
<1>3. \A k \in Modes : held[k] <= held'[k]
  BY <1>1 DEF RInv, HeldInv, TypeOK, Long
<1>4. HeldInv'
  <2>1. saved' = saved /\ clock' = clock + 1 /\ saved \in Modes
    BY DEF Tick, RInv, TypeOK
  <2>2. \A k \in Modes : held[k] \in Int
    BY DEF RInv, TypeOK, Long
  <2>3. clock \in Int
    BY DEF RInv, TypeOK
  <2> QED
    BY <1>1, <2>1, <2>2, <2>3 DEF RInv, HeldInv
<1>5. CacheInv'
  <2>1. cache.mode # "none" => cache.mode \in Modes /\ cache.at \in Int
    BY DEF RInv, TypeOK
  <2>2. \A k \in Modes : held[k] \in Int /\ held'[k] \in Int
    BY <1>2 DEF RInv, TypeOK, Long
  <2> QED
    BY <2>1, <2>2, <1>3 DEF Tick, RInv, CacheInv
<1>7. \A s \in Signals : SignalInv(signal[s])'
  <2>1. clock <= clock' /\ signal' = signal
    BY DEF Tick, RInv, TypeOK, starts
  <2> QED
    BY <2>1, <1>2, <1>3, SignalKept DEF RInv, TypeOK
<1> QED
  BY <1>2, <1>4, <1>5, <1>7 DEF RInv

\* The engine, the cache's loss and the consent.
LEMMA RWorker ==
  ASSUME RInv, GiveConsent \/ ConsentEnds \/ Start \/ StartRefused \/ StartRaises
               \/ Stop \/ WorkerRestart
  PROVE  RInv'
<1> USE RouterAssumption
<1>1. UNCHANGED <<saved, saves, held, clock>>
  BY DEF GiveConsent, ConsentEnds, Start, StartRefused, StartRaises, Stop, WorkerRestart,
         settings
<1>2. /\ consent' \in {"none", "valid", "ended"}
     /\ reply' \in {"none", "started", "refused", "failed"}
  BY DEF GiveConsent, ConsentEnds, Start, StartRefused, StartRaises, Stop, WorkerRestart,
         RInv, TypeOK
<1>3. cache' = cache \/ cache' = Empty
  BY DEF GiveConsent, ConsentEnds, Start, StartRefused, StartRaises, Stop, WorkerRestart
<1>4. signal' = signal \/ WorkerRestart
  BY DEF GiveConsent, ConsentEnds, Start, StartRefused, StartRaises, Stop
<1>5. engine' \in Engines
  BY DEF GiveConsent, ConsentEnds, Start, StartRefused, StartRaises, Stop, WorkerRestart,
         Engines, Modes, RInv, TypeOK
<1>6. signal' \in [Signals -> Routings]
     /\ \A s \in Signals : \/ signal'[s] = signal[s]
                          \/ signal'[s] = [signal[s] EXCEPT !.stage = "lost"]
  <2>1. CASE signal' = signal
    BY <2>1 DEF RInv, TypeOK
  <2>2. CASE WorkerRestart
    <3>1. \A s \in Signals : [signal[s] EXCEPT !.stage = "lost"] \in Routings
      BY DEF RInv, TypeOK, Routings, Stages
    <3> QED
      BY <2>2, <3>1 DEF RInv, TypeOK, WorkerRestart
  <2> QED
    BY <1>4, <2>1, <2>2
<1>7. TypeOK'
  BY <1>1, <1>2, <1>3, <1>5, <1>6 DEF RInv, TypeOK, Empty
<1>8. HeldInv' /\ CacheInv'
  BY <1>1, <1>3 DEF RInv, HeldInv, CacheInv, Empty
<1>9. clock <= clock' /\ \A m \in Modes : held[m] <= held'[m]
  BY <1>1 DEF RInv, TypeOK, Long
<1>10. \A s \in Signals : SignalInv(signal[s])'
  <2> SUFFICES ASSUME NEW s \in Signals PROVE SignalInv(signal[s])'
    OBVIOUS
  <2>1. signal[s] \in Routings /\ signal'[s] \in Routings /\ SignalInv(signal[s]) /\ TypeOK
    BY <1>6 DEF RInv, TypeOK
  <2> QED
    BY <2>1, <1>6, <1>7, <1>9, SignalKept
<1> QED
  BY <1>7, <1>8, <1>10 DEF RInv

-----------------------------------------------------------------------------
(* The actions of one signal: its next record is a routing, and its part   *)
(* of the invariant holds again.                                           *)

\* get_execution_mode's look into the cache.
LEMMA RAsk == ASSUME RInv, NEW s \in Signals, Ask(s) PROVE RInv'
<1> USE RouterAssumption
<1> DEFINE stage  == IF Fresh THEN "routed" ELSE "reading"
           mode   == IF Fresh THEN cache.mode ELSE "none"
           steady == /\ engine = saved
                     /\ \A m \in Modes \ {saved} : clock - held[m] >= TTL
           r == [signal[s] EXCEPT !.by = engine, !.at = clock, !.stage = stage,
                                  !.mode = mode, !.steady = steady]
<1>1. signal' = [signal EXCEPT ![s] = r]
  BY DEF Ask
<1>2. signal[s] \in Routings /\ signal[s].stage = "new" /\ OrderInv(signal[s])
  BY DEF Ask, At, RInv, TypeOK, SignalInv
<1>3. /\ r \in Routings
      /\ r.by = engine /\ r.at = clock /\ r.stage = stage /\ r.mode = mode
      /\ r.steady = steady /\ r.paper = 0 /\ ~r.pending
  BY <1>2 DEF Routings, Stages, Fresh, RInv, TypeOK, OrderInv
<1> HIDE DEF r
<1>0. r.at <= clock /\ clock \in Int
  BY <1>3 DEF RInv, TypeOK
<1>4. ModeInv(r)
  <2>1. CASE ~Fresh
    BY <2>1, <1>0, <1>3 DEF ModeInv
  <2>2. CASE Fresh
    <3>1. /\ cache.mode \in Modes /\ cache.at \in Int /\ held[cache.mode] \in Int
          /\ clock \in Int /\ clock - cache.at < TTL
      BY <2>2 DEF Fresh, RInv, TypeOK, Long
    <3>2. clock - held[cache.mode] < TTL
      BY <3>1, <2>2 DEF Fresh, RInv, CacheInv
    <3>3. steady => cache.mode = engine
      BY <3>1, <3>2 DEF RInv, TypeOK
    <3>4. r.stage = "routed" /\ r.mode = cache.mode /\ r.by = engine
      BY <2>2, <1>3
    <3>5. r.at - held[r.mode] < TTL
      BY <1>3, <3>2, <3>4
    <3>6. r.steady => r.mode = r.by
      BY <1>3, <3>3, <3>4
    <3> QED
      BY <1>0, <3>1, <3>4, <3>5, <3>6 DEF ModeInv, Modes
  <2> QED
    BY <2>1, <2>2
<1>5. SignalInv(r)
  <2>2. OrderInv(r) /\ Obeyed(r)
    BY <1>3 DEF OrderInv, Obeyed
  <2> QED
    BY <2>2, <1>4 DEF SignalInv
<1>6. UNCHANGED <<settings, starts, clock, cache>> /\ CacheInv'
  BY DEF Ask, RInv, CacheInv, settings
<1> QED
  BY <1>1, <1>3, <1>5, <1>6, OneSignal DEF RInv, TypeOK

\* The database's answer.
LEMMA RReadMode == ASSUME RInv, NEW s \in Signals, ReadMode(s) PROVE RInv'
<1> USE RouterAssumption
<1> DEFINE r == [signal[s] EXCEPT !.stage = "read", !.mode = saved,
                            !.steady = signal[s].steady /\ saved = signal[s].by]
<1>1. signal' = [signal EXCEPT ![s] = r]
  BY DEF ReadMode
<1>2. signal[s] \in Routings /\ signal[s].stage = "reading" /\ SignalInv(signal[s])
  BY DEF ReadMode, At, RInv, TypeOK
<1>3. /\ r \in Routings
      /\ r.by = signal[s].by /\ r.at = signal[s].at /\ r.stage = "read" /\ r.mode = saved
      /\ r.steady => saved = r.by
      /\ r.paper = 0 /\ ~r.pending
  BY <1>2 DEF Routings, Stages, RInv, TypeOK, SignalInv, OrderInv
<1> HIDE DEF r
<1>4. signal[s].at <= held[saved]
  BY <1>2 DEF RInv, HeldInv, SignalInv, ModeInv
<1>5. SignalInv(r)
  <2>2. ModeInv(r)
    BY <1>2, <1>3, <1>4 DEF SignalInv, ModeInv, RInv, TypeOK, Modes
  <2>3. OrderInv(r) /\ Obeyed(r)
    BY <1>3 DEF OrderInv, Obeyed
  <2> QED
    BY <2>2, <2>3 DEF SignalInv
<1>6. UNCHANGED <<settings, starts, clock, cache>> /\ CacheInv'
  BY DEF ReadMode, RInv, CacheInv, settings
<1> QED
  BY <1>1, <1>3, <1>5, <1>6, OneSignal DEF RInv, TypeOK

\* The stored entry is as old as its lookup.
LEMMA RStoreMode == ASSUME RInv, NEW s \in Signals, StoreMode(s) PROVE RInv'
<1> USE RouterAssumption
<1> DEFINE r == [signal[s] EXCEPT !.stage = "routed"]
<1>1. signal' = [signal EXCEPT ![s] = r]
  BY DEF StoreMode
<1>2. /\ signal[s] \in Routings /\ signal[s].stage = "read" /\ SignalInv(signal[s])
      /\ signal[s].mode \in Modes /\ signal[s].at <= held[signal[s].mode]
  BY DEF StoreMode, At, RInv, TypeOK, SignalInv, ModeInv, Routings
<1>3. /\ r \in Routings
      /\ r.by = signal[s].by /\ r.at = signal[s].at /\ r.stage = "routed"
      /\ r.mode = signal[s].mode /\ r.steady = signal[s].steady
      /\ r.paper = 0 /\ ~r.pending
  BY <1>2 DEF Routings, Stages, SignalInv, OrderInv
<1> HIDE DEF r
<1>4. SignalInv(r)
  <2>2. held[r.mode] \in Int /\ r.at \in Int /\ TTL \in Int /\ TTL > 0
    BY <1>2, <1>3 DEF RInv, TypeOK, Long, Routings
  <2>3. ModeInv(r)
    BY <1>2, <1>3, <2>2 DEF SignalInv, ModeInv
  <2>4. OrderInv(r) /\ Obeyed(r)
    BY <1>3 DEF OrderInv, Obeyed
  <2> QED
    BY <2>3, <2>4 DEF SignalInv
<1>5. /\ cache' \in [mode : Modes \cup {"none"}, at : 0..MaxClock]
      /\ cache'.mode = signal[s].mode /\ cache'.at = signal[s].at
  BY <1>2 DEF StoreMode, Routings
<1>6. UNCHANGED <<settings, starts, clock>> /\ held' = held
  BY DEF StoreMode, settings
<1>7. CacheInv'
  BY <1>2, <1>5, <1>6 DEF CacheInv
<1> QED
  BY <1>1, <1>3, <1>4, <1>5, <1>6, <1>7, OneSignal

LEMMA RLookupFails == ASSUME RInv, NEW s \in Signals, LookupFails(s) PROVE RInv'
<1> USE RouterAssumption
<1> DEFINE r == [signal[s] EXCEPT !.stage = "answered", !.status = "raised"]
<1>1. signal' = [signal EXCEPT ![s] = r]
  BY DEF LookupFails
<1>2. /\ signal[s] \in Routings /\ signal[s].stage = "reading" /\ SignalInv(signal[s])
      /\ signal[s].mode = "none"
  BY DEF LookupFails, At, RInv, TypeOK, SignalInv, ModeInv, Routings
<1>3. /\ r \in Routings
      /\ r.by = signal[s].by /\ r.at = signal[s].at /\ r.stage = "answered"
      /\ r.mode = "none" /\ r.status = "raised"
      /\ r.paper = 0 /\ ~r.pending
  BY <1>2 DEF Routings, Stages, Answers, SignalInv, OrderInv
<1> HIDE DEF r
<1>4. SignalInv(r)
  BY <1>2, <1>3 DEF SignalInv, ModeInv, OrderInv, Obeyed
<1>5. UNCHANGED <<settings, starts, clock, cache>> /\ CacheInv'
  BY DEF LookupFails, RInv, CacheInv, settings
<1> QED
  BY <1>1, <1>3, <1>4, <1>5, OneSignal DEF RInv, TypeOK

\* An answered signal is a routing, whatever the executor made of it.
LEMMA AnsweredTyped ==
  ASSUME NEW q \in Routings, NEW status \in Answers, NEW n \in 0..2, NEW p \in BOOLEAN
  PROVE  [q EXCEPT !.stage = "answered", !.status = status, !.paper = n, !.pending = p]
           \in Routings
<1>1. [q EXCEPT !.stage = "answered", !.status = status] \in Routings
  BY DEF Routings, Stages
<1>2. \A q2 \in Routings : [q2 EXCEPT !.paper = n] \in Routings
  BY DEF Routings
<1>3. \A q2 \in Routings : [q2 EXCEPT !.pending = p] \in Routings
  BY DEF Routings
<1> QED
  BY <1>1, <1>2, <1>3

\* The executor's answer: what it bought or stored follows from the mode.
LEMMA RExecute == ASSUME RInv, NEW s \in Signals, Execute(s) PROVE RInv'
<1> USE RouterAssumption
<1>1. /\ signal[s] \in Routings /\ signal[s].stage = "routed" /\ SignalInv(signal[s])
      /\ signal[s].mode \in Modes
  BY DEF Execute, At, RInv, TypeOK, SignalInv, ModeInv, Routings
<1>2. PICK status \in Answers :
        /\ Answer(s, status)
        /\ status = "EXECUTED" => signal[s].mode = "PAPER"
        /\ status = "PENDING_APPROVAL" => signal[s].mode = "SEMI_AUTO"
  <2>1. CASE PaperExecute(s)
    BY <2>1 DEF PaperExecute, Answers
  <2>2. CASE SemiAutoExecute(s)
    BY <2>2 DEF SemiAutoExecute, Answers
  <2>3. CASE AutoExecute(s)
    BY <2>3 DEF AutoExecute, Answers
  <2> QED
    BY <2>1, <2>2, <2>3 DEF Execute
<1> DEFINE bought  == IF status = "EXECUTED" THEN 1 ELSE 0
           pending == status = "PENDING_APPROVAL"
           r == [signal[s] EXCEPT !.stage = "answered", !.status = status,
                                  !.paper = bought, !.pending = pending]
<1>3. signal' = [signal EXCEPT ![s] = r]
  BY <1>2 DEF Answer
<1>30. bought \in 0..1 /\ (bought > 0 => signal[s].mode = "PAPER")
  BY <1>2
<1>31. pending \in BOOLEAN /\ (pending => signal[s].mode = "SEMI_AUTO")
  BY <1>2
<1> HIDE DEF bought, pending
<1>4. /\ r \in Routings
      /\ r.by = signal[s].by /\ r.at = signal[s].at /\ r.stage = "answered"
      /\ r.mode = signal[s].mode /\ r.steady = signal[s].steady /\ r.status = status
      /\ r.paper = bought /\ r.pending = pending
  <2>1. r \in Routings
    <3>1. bought \in 0..2
      BY <1>30
    <3> QED
      BY <1>1, <1>31, <3>1, AnsweredTyped, Zenon
  <2>2. r.stage = "answered" /\ r.status = status /\ r.paper = bought
    BY <1>1 DEF Routings
  <2>3. r.pending = pending
    BY <1>1, Zenon DEF Routings
  <2>4. /\ r.by = signal[s].by /\ r.at = signal[s].at
        /\ r.mode = signal[s].mode /\ r.steady = signal[s].steady
    BY <1>1 DEF Routings
  <2> QED
    BY <2>1, <2>2, <2>3, <2>4
<1>40. r.paper \in 0..1 /\ (r.paper > 0 => r.mode = "PAPER") /\ (r.pending => r.mode = "SEMI_AUTO")
  BY <1>4, <1>30, <1>31
<1> HIDE DEF r
<1>5. SignalInv(r)
  <2>2. ModeInv(r)
    BY <1>1, <1>4 DEF SignalInv, ModeInv
  <2>3. OrderInv(r)
    BY <1>2, <1>4, <1>40 DEF OrderInv
  <2>4. r.steady => r.mode = r.by
    BY <1>1, <1>4 DEF SignalInv, ModeInv, Modes
  <2>5. Obeyed(r)
    BY <1>4, <1>40, <2>4 DEF Obeyed
  <2> QED
    BY <2>2, <2>3, <2>5 DEF SignalInv
<1>6. UNCHANGED <<settings, starts, clock, cache>> /\ CacheInv'
  BY DEF Execute, RInv, CacheInv, settings
<1> QED
  BY <1>3, <1>4, <1>5, <1>6, OneSignal DEF RInv, TypeOK

\* The engine's own BUY, or none.
LEMMA RDecide == ASSUME RInv, NEW s \in Signals, Buy(s) \/ Leave(s) PROVE RInv'
<1> USE RouterAssumption
<1>1. signal[s] \in Routings /\ signal[s].stage = "answered" /\ SignalInv(signal[s])
  BY DEF Buy, Leave, At, RInv, TypeOK
<1>2. UNCHANGED <<settings, starts, clock, cache>> /\ CacheInv'
  BY DEF Buy, Leave, RInv, CacheInv, settings
<1>3. CASE Leave(s)
  <2> DEFINE r == [signal[s] EXCEPT !.stage = "done"]
  <2>1. signal' = [signal EXCEPT ![s] = r]
    BY <1>3 DEF Leave
  <2>2. r \in Routings
    BY <1>1 DEF Routings, Stages
  <2>3. SignalInv(r)
    BY <1>1 DEF Routings, SignalInv, ModeInv, OrderInv, Obeyed
  <2> QED
    BY <1>2, <2>1, <2>2, <2>3, OneSignal DEF RInv, TypeOK
<1>4. CASE Buy(s)
  <2> DEFINE r == [signal[s] EXCEPT !.stage = "done", !.paper = signal[s].paper + 1]
  <2>1. signal' = [signal EXCEPT ![s] = r]
    BY <1>4 DEF Buy
  <2>2. signal[s].paper \in 0..1 /\ signal[s].by = "PAPER"
    BY <1>1, <1>4 DEF SignalInv, OrderInv, Routings, Buy, GoesOn
  <2>3. /\ r \in Routings
        /\ r.by = "PAPER" /\ r.at = signal[s].at /\ r.stage = "done"
        /\ r.steady = signal[s].steady /\ r.pending = signal[s].pending
    <3>1. signal[s].paper + 1 \in 0..2
      BY <2>2
    <3> QED
      BY <1>1, <2>2, <3>1 DEF Routings, Stages
  <2>4. r.steady => ~r.pending
    BY <1>1, <2>2, <2>3 DEF SignalInv, Obeyed
  <2> HIDE DEF r
  <2>5. SignalInv(r)
    <3>1. ModeInv(r) /\ OrderInv(r)
      BY <1>1, <2>3 DEF SignalInv, ModeInv, OrderInv
    <3>2. Obeyed(r)
      BY <2>3, <2>4 DEF Obeyed
    <3> QED
      BY <3>1, <3>2 DEF SignalInv
  <2> QED
    BY <1>2, <2>1, <2>3, <2>5, OneSignal DEF RInv, TypeOK
<1> QED
  BY <1>3, <1>4

LEMMA RNext == RInv /\ [Next]_vars => RInv'
<1> SUFFICES ASSUME RInv, [Next]_vars PROVE RInv'
  OBVIOUS
<1>1. ASSUME NEW s \in Signals,
             Ask(s) \/ ReadMode(s) \/ StoreMode(s) \/ LookupFails(s)
               \/ Execute(s) \/ Buy(s) \/ Leave(s)
      PROVE  RInv'
  BY <1>1, RAsk, RReadMode, RStoreMode, RLookupFails, RExecute, RDecide
<1>2. CASE UNCHANGED vars
  BY <1>2 DEF vars, settings, starts, RInv, TypeOK, HeldInv, CacheInv, SignalInv, ModeInv,
              OrderInv, Obeyed
<1> QED
  BY <1>1, <1>2, RSaveMode, RTick, RWorker DEF Next

-----------------------------------------------------------------------------
\* The inductive invariant holds in every state, for any number of signals,
\* any TTL and any clock.
THEOREM RouterInvariant == Spec => []RInv
<1> QED
  BY RInit, RNext, PTL DEF Spec

\* Type correctness: no engine in AUTO mode, and two BUYs of a signal in the
\* paper book at most, whatever the router answers.
THEOREM RouterTypeCorrect == Spec => []TypeOK
<1>1. RInv => TypeOK
  BY DEF RInv
<1> QED
  BY <1>1, RouterInvariant, PTL

\* A signal is never routed by a mode that had been replaced TTL seconds
\* before its lookup (get_execution_mode stores the time the lookup began).
THEOREM ModeRecentHolds == Spec => []ModeRecent
<1>1. RInv => ModeRecent
  BY DEF RInv, SignalInv, ModeInv, ModeRecent, Routed
<1> QED
  BY <1>1, RouterInvariant, PTL

\* TTL seconds after the last change of mode, router and engine agree
\* (_route_via_execution_layer reads the answer as the executor meant it).
THEOREM SteadyModeObeyedHolds == Spec => []SteadyModeObeyed
<1>1. RInv => SteadyModeObeyed
  BY DEF RInv, SignalInv, Obeyed, SteadyModeObeyed
<1> QED
  BY <1>1, RouterInvariant, PTL
=============================================================================
