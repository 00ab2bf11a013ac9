---------------------------- MODULE CommandQueue ----------------------------
(***************************************************************************)
(* The Redis command queue between the web processes (and the Telegram     *)
(* pollers) and the worker: backend/services/command_queue.py, with the    *)
(* consumers of worker.py (_command_loop) and, when USE_SHARED_WORKER is   *)
(* set, of backend/shared/shared_worker.py, which pops the same list.      *)
(*                                                                         *)
(* A client checks the length and pushes in two Redis calls, then polls    *)
(* its own result key until a deadline.  A consumer pops, runs the         *)
(* handler and posts the result; a crash in between loses the command.     *)
(* The handler of an approval waits a limited time for its coroutine, and  *)
(* answers although the coroutine goes on on the worker's main loop.       *)
(***************************************************************************)
EXTENDS Integers, Sequences, FiniteSets

CONSTANTS
  Clients,       \* request handlers of the web processes, Telegram pollers
  Consumers,     \* {"worker"}, or {"worker", "shared"} in shared mode
  MaxQueue,      \* MAX_QUEUE_LENGTH
  MaxRequests,   \* bound: commands a client sends, one after the other
  MaxCrashes     \* bound: worker crashes

\* Two representatives: one action both consumers know, one only worker.py does.
Actions == {"start", "approve_pending_trade"}

Ids  == Clients \X (1..MaxRequests)   \* uuid4: every command has an id of its own
None == "none"
NoId == <<None, 0>>

\* "done" stands for every answer of a handler that ended, its errors included.
Answers == {None, "done", "failed", "unknown"}

ASSUME QueueAssumption ==
  /\ IsFiniteSet(Clients) /\ Clients # {}
  /\ Consumers \subseteq {"worker", "shared"}
  /\ NoId \notin Ids
  /\ MaxQueue \in Nat \ {0} /\ MaxRequests \in Nat /\ MaxCrashes \in Nat

VARIABLES
  client,      \* where each client is: [pc, n] with n its current request
  action,      \* the action of each command
  queue,       \* bot:commands, oldest first
  running,     \* what each consumer popped and has not answered
  results,     \* bot:cmd_result:<id>, None when there is no such key
  reply,       \* what the client of each command was told
  lingering,   \* commands answered by a timeout whose coroutine goes on
  executed,    \* history: how often each command took effect
  crashes      \* counter of the bound

vars == <<client, action, queue, running, results, reply, lingering, executed, crashes>>

Idle == [id |-> NoId, answer |-> None]

Init ==
  /\ client = [c \in Clients |-> [pc |-> "idle", n |-> 0]]
  /\ action = [i \in Ids |-> "start"]
  /\ queue = <<>>
  /\ running = [w \in Consumers |-> Idle]
  /\ results = [i \in Ids |-> None]
  /\ reply = [i \in Ids |-> None]
  /\ lingering = {}
  /\ executed = [i \in Ids |-> 0]
  /\ crashes = 0

At(c, pc)  == client[c].pc = pc
Id(c)      == <<c, client[c].n>>
GoTo(c, p) == client' = [client EXCEPT ![c] = [pc |-> p, n |-> client[c].n]]
Tell(c, r) == reply' = [reply EXCEPT ![Id(c)] = r]

-----------------------------------------------------------------------------
(* The client: push_command and wait_for_result, or send_command_sync. *)

\* For mutation: the limit taken for a strict bound.
QueueOverfull == Len(queue) > MaxQueue
QueueFull     == Len(queue) >= MaxQueue

\* LLEN: the command is refused, or the client goes on to its push.
Request(c, a) ==
  /\ At(c, "idle")
  /\ client[c].n < MaxRequests
  /\ LET n == client[c].n + 1
     IN  /\ client' = [client EXCEPT ![c] = [pc |-> IF QueueFull THEN "idle" ELSE "checked", n |-> n]]
         /\ action' = [action EXCEPT ![<<c, n>>] = a]
         /\ reply' = IF QueueFull THEN [reply EXCEPT ![<<c, n>>] = "full"] ELSE reply
  /\ UNCHANGED <<queue, running, results, lingering, executed, crashes>>

\* For mutation: a push that is retried although it had reached Redis.
PushTwice(c) ==
  /\ At(c, "checked")
  /\ queue' = queue \o <<Id(c), Id(c)>>
  /\ GoTo(c, "waiting")
  /\ UNCHANGED <<action, running, results, reply, lingering, executed, crashes>>

\* LPUSH, whatever was pushed since the length was read.
Push(c) ==
  /\ At(c, "checked")
  /\ queue' = Append(queue, Id(c))
  /\ GoTo(c, "waiting")
  /\ UNCHANGED <<action, running, results, reply, lingering, executed, crashes>>

\* A poll that finds the result key: GET and DEL.
Poll(c) ==
  /\ At(c, "waiting")
  /\ results[Id(c)] # None
  /\ Tell(c, results[Id(c)])
  /\ results' = [results EXCEPT ![Id(c)] = None]
  /\ GoTo(c, "idle")
  /\ UNCHANGED <<action, queue, running, lingering, executed, crashes>>

\* The deadline passes: the client is told the command is queued.
Deadline(c) ==
  /\ At(c, "waiting")
  /\ Tell(c, "queued")
  /\ GoTo(c, "idle")
  /\ UNCHANGED <<action, queue, running, results, lingering, executed, crashes>>

-----------------------------------------------------------------------------
(* The consumers. *)

\* The dispatch chains of the two command loops.
Knows(w, a) == a = "approve_pending_trade" => w = "worker"

\* For mutation: a pop from the end that the push uses.
PopNewest(w) ==
  /\ running[w] = Idle
  /\ queue # <<>>
  /\ running' = [running EXCEPT ![w] = [id |-> queue[Len(queue)], answer |-> None]]
  /\ queue' = SubSeq(queue, 1, Len(queue) - 1)
  /\ UNCHANGED <<client, action, results, reply, lingering, executed, crashes>>

\* BRPOP takes the oldest command.
Pop(w) ==
  /\ running[w] = Idle
  /\ queue # <<>>
  /\ running' = [running EXCEPT ![w] = [id |-> Head(queue), answer |-> None]]
  /\ queue' = Tail(queue)
  /\ UNCHANGED <<client, action, results, reply, lingering, executed, crashes>>

\* For mutation: a command nobody waits for any more is answered without a run.
HandleIfAwaited(w) ==
  /\ running[w] # Idle /\ running[w].answer = None
  /\ LET i == running[w].id
     IN  executed' = IF reply[i] = None THEN [executed EXCEPT ![i] = @ + 1] ELSE executed
  /\ running' = [running EXCEPT ![w].answer = "done"]
  /\ UNCHANGED <<client, action, queue, results, reply, lingering, crashes>>

\* The handler runs (its own errors are answers too), or the action is unknown.
Handle(w) ==
  /\ running[w] # Idle /\ running[w].answer = None
  /\ LET i == running[w].id
     IN  IF Knows(w, action[i])
         THEN /\ executed' = [executed EXCEPT ![i] = @ + 1]
              /\ running' = [running EXCEPT ![w].answer = "done"]
         ELSE /\ running' = [running EXCEPT ![w].answer = "unknown"]
              /\ UNCHANGED executed
  /\ UNCHANGED <<client, action, queue, results, reply, lingering, crashes>>

\* fut.result(timeout) gives up: "Approval failed", and the coroutine goes on.
HandleTimesOut(w) ==
  /\ running[w] # Idle /\ running[w].answer = None
  /\ action[running[w].id] = "approve_pending_trade" /\ Knows(w, action[running[w].id])
  /\ running' = [running EXCEPT ![w].answer = "failed"]
  /\ lingering' = lingering \cup {running[w].id}
  /\ UNCHANGED <<client, action, queue, results, reply, executed, crashes>>

\* A coroutine that outlived its handler takes effect.
Linger(i) ==
  /\ i \in lingering
  /\ lingering' = lingering \ {i}
  /\ executed' = [executed EXCEPT ![i] = @ + 1]
  /\ UNCHANGED <<client, action, queue, running, results, reply, crashes>>

\* For mutation: the result posted as soon as the command is popped.
PostEarly(w) ==
  /\ running[w] # Idle
  /\ results' = [results EXCEPT ![running[w].id] = "done"]
  /\ running' = [running EXCEPT ![w] = IF @.answer = None THEN @ ELSE Idle]
  /\ UNCHANGED <<client, action, queue, reply, lingering, executed, crashes>>

\* SET of the result key.
Post(w) ==
  /\ running[w].answer # None
  /\ results' = [results EXCEPT ![running[w].id] = running[w].answer]
  /\ running' = [running EXCEPT ![w] = Idle]
  /\ UNCHANGED <<client, action, queue, reply, lingering, executed, crashes>>

\* RESULT_TTL_SEC is longer than any client polls: only unread results expire.
ExpireResult(i) ==
  /\ results[i] # None
  /\ reply[i] # None
  /\ results' = [results EXCEPT ![i] = None]
  /\ UNCHANGED <<client, action, queue, running, reply, lingering, executed, crashes>>

(***************************************************************************)
(* trim_queue, from the orchestrator's heartbeat: LTRIM -MAX -1 keeps the  *)
(* oldest MAX_QUEUE_LENGTH commands.                                       *)
(***************************************************************************)
Trim ==
  /\ "shared" \in Consumers
  /\ Len(queue) > MaxQueue
  /\ queue' = SubSeq(queue, 1, MaxQueue)
  /\ UNCHANGED <<client, action, running, results, reply, lingering, executed, crashes>>

\* Both consumers and the main loop are of the one worker process.
Crash ==
  /\ crashes < MaxCrashes
  /\ crashes' = crashes + 1
  /\ running' = [w \in Consumers |-> Idle]
  /\ lingering' = {}
  /\ UNCHANGED <<client, action, queue, results, reply, executed>>

Consume(w) == Pop(w) \/ Handle(w) \/ HandleTimesOut(w) \/ Post(w)

Next ==
  \/ \E c \in Clients :
       \/ \E a \in Actions : Request(c, a)
       \/ Push(c) \/ Poll(c) \/ Deadline(c)
  \/ \E w \in Consumers : Consume(w)
  \/ \E i \in Ids : Linger(i) \/ ExpireResult(i)
  \/ Trim
  \/ Crash

Spec == Init /\ [][Next]_vars

(***************************************************************************)
(* The consumers are loops that never end and the main loop runs the       *)
(* coroutines it was given; nothing is asked of the clients.               *)
(***************************************************************************)
FairSpec ==
  /\ Spec
  /\ \A w \in Consumers : WF_vars(Consume(w))
  /\ WF_vars(\E i \in Ids : Linger(i))

-----------------------------------------------------------------------------
TypeOK ==
  /\ client \in [Clients -> [pc : {"idle", "checked", "waiting"}, n : 0..MaxRequests]]
  /\ action \in [Ids -> Actions]
  /\ queue \in Seq(Ids)
  /\ running \in [Consumers -> [id : Ids \cup {NoId}, answer : Answers]]
  /\ results \in [Ids -> Answers]
  /\ reply \in [Ids -> Answers \cup {"full", "queued"}]
  /\ lingering \subseteq Ids
  /\ executed \in [Ids -> Nat]
  /\ crashes \in 0..MaxCrashes

(***************************************************************************)
(* Well formed, and how far the list can outgrow MAX_QUEUE_LENGTH: every   *)
(* client may have read the length before another one pushed.              *)
(***************************************************************************)
QueueSound == TypeOK /\ Len(queue) <= MaxQueue + Cardinality(Clients) - 1

\* No command is run twice, whatever deadlines pass and whoever crashes.
AtMostOnce == \A i \in Ids : executed[i] <= 1

(***************************************************************************)
(* What a client is told is true: "done" means the handler ran, a refusal  *)
(* or an unknown action that it did not and never will.  "queued" and      *)
(* "failed" promise nothing: an approval whose handler timed out may still *)
(* take effect.                                                            *)
(***************************************************************************)
TruthfulReply ==
  \A i \in Ids :
    /\ reply[i] = "done" => executed[i] > 0
    /\ reply[i] \in {"full", "unknown"} => executed[i] = 0 /\ i \notin lingering

(***************************************************************************)
(* A client that was told "queued" and sends another command: with one     *)
(* consumer its commands are still begun in the order it sent them.  The   *)
(* effect of one whose handler timed out may come after the next one's.    *)
(***************************************************************************)
Begun(i)    == executed[i] > 0 \/ i \in lingering
Underway(i) == \E w \in Consumers : running[w].id = i /\ running[w].answer = None
Pending(i)  == Underway(i) \/ \E k \in DOMAIN queue : queue[k] = i

SessionOrder ==
  \A c \in Clients : \A m, n \in 1..MaxRequests :
    m < n /\ Begun(<<c, n>>) => ~Pending(<<c, m>>)

\* Once the worker stays up, every command it still has takes effect: none starves.
AcceptedIsExecuted ==
  \A i \in Ids :
    (Pending(i) \/ i \in lingering) /\ crashes = MaxCrashes ~> executed[i] > 0
=============================================================================
