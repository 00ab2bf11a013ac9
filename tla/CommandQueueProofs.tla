------------------------ MODULE CommandQueueProofs ------------------------
(***************************************************************************)
(* Proofs about CommandQueue for any finite set of clients, one consumer   *)
(* or two, and any limit, number of requests and number of crashes.        *)
(***************************************************************************)
EXTENDS CommandQueue, FiniteSetTheorems, SequenceTheorems, TLAPS

(***************************************************************************)
(* QueueSound is not inductive: a client past its length check has a place *)
(* in the list although it has not pushed yet.                             *)
(***************************************************************************)
Checked == {c \in Clients : At(c, "checked")}

RoomInv == Len(queue) + Cardinality(Checked) <= MaxQueue + Cardinality(Clients) - 1

(***************************************************************************)
(* AtMostOnce and TruthfulReply rest on where a command is: not yet        *)
(* pushed, in one place of the list, held by one consumer, or settled and  *)
(* then nowhere.                                                           *)
(***************************************************************************)
InQueue(i) == \E k \in 1..Len(queue) : queue[k] = i
Held(i)    == \E w \in Consumers : running[w].id = i
Unpushed(c, n) == n > client[c].n \/ (n = client[c].n /\ At(c, "checked"))
Settled(i) == Begun(i) \/ results[i] # None \/ reply[i] \in {"done", "failed", "unknown", "full"}

ClientInv == \A c \in Clients : ~At(c, "idle") => client[c].n > 0

PlaceInv ==
  /\ \A j, k \in 1..Len(queue) : queue[j] = queue[k] => j = k
  /\ \A w \in Consumers, k \in 1..Len(queue) : running[w].id # queue[k]
  /\ \A v, w \in Consumers : running[v].id = running[w].id => v = w \/ running[v].id = NoId
  /\ \A w \in Consumers : running[w].id = NoId => running[w].answer = None

FreshInv ==
  \A c \in Clients, n \in 1..MaxRequests : Unpushed(c, n) =>
    ~InQueue(<<c, n>>) /\ ~Held(<<c, n>>) /\ ~Settled(<<c, n>>)

SettledInv == \A i \in Ids : Settled(i) => ~InQueue(i) /\ ~Underway(i)

\* An answer, a result and a reply all say what happened to the handler.
Says(answer, i) ==
  /\ answer = "done" => executed[i] > 0
  /\ answer \in {"full", "unknown"} => ~Begun(i)

TruthInv ==
  /\ \A i \in Ids : executed[i] <= 1 /\ (i \in lingering => executed[i] = 0)
  /\ \A i \in Ids : Says(results[i], i) /\ Says(reply[i], i)
  /\ \A w \in Consumers : running[w].id # NoId => Says(running[w].answer, running[w].id)

OnceInv == TypeOK /\ ClientInv /\ PlaceInv /\ FreshInv /\ SettledInv /\ TruthInv

-----------------------------------------------------------------------------
(* Facts about ids and about the list. *)

LEMMA IdFacts ==
  ASSUME TypeOK, NEW c \in Clients
  PROVE  /\ \A n \in 1..MaxRequests : <<c, n>> \in Ids
         /\ client[c].n \in 0..MaxRequests
         /\ client[c].pc \in {"idle", "checked", "waiting"}
BY DEF TypeOK, Ids

\* The request that a client is working on has an id.
LEMMA CurrentId ==
  ASSUME QueueAssumption, TypeOK, ClientInv, NEW c \in Clients, ~At(c, "idle")
  PROVE  client[c].n \in 1..MaxRequests /\ Id(c) = <<c, client[c].n>> /\ Id(c) \in Ids
<1>1. client[c].n \in 0..MaxRequests /\ client[c].n > 0 /\ MaxRequests \in Nat
  BY IdFacts DEF ClientInv, QueueAssumption
<1>2. client[c].n \in 1..MaxRequests
  BY <1>1
<1>3. QED
  BY <1>2, IdFacts DEF Id

\* What a consumer holds is a command, unless the consumer is idle.
LEMMA HeldId ==
  ASSUME TypeOK, NEW w \in Consumers
  PROVE  /\ running[w].id \in Ids \cup {NoId}
         /\ running[w].answer \in Answers
         /\ running[w] = [id |-> running[w].id, answer |-> running[w].answer]
BY DEF TypeOK

\* Only commands are in the list.
LEMMA QueuedId ==
  ASSUME TypeOK, NEW k \in 1..Len(queue)
  PROVE  queue[k] \in Ids
BY DEF TypeOK

-----------------------------------------------------------------------------
(* Type correctness, with the clients' counters. *)

LEMMA QueueTypes ==
  ASSUME QueueAssumption, TypeOK, ClientInv, [Next]_vars
  PROVE  TypeOK' /\ ClientInv'
<1> DEFINE Inv == TypeOK /\ ClientInv
<1> USE DEF QueueAssumption, Answers
<1>1. ASSUME NEW c \in Clients, NEW a \in Actions, Request(c, a) PROVE Inv'
  <2>1. client[c].n + 1 \in 1..MaxRequests
    BY <1>1, IdFacts DEF Request
  <2>2. <<c, client[c].n + 1>> \in Ids
    BY <2>1, IdFacts
  <2>3. client' \in [Clients -> [pc : {"idle", "checked", "waiting"}, n : 0..MaxRequests]]
    BY <1>1, <2>1 DEF Request, TypeOK
  <2>4. action' \in [Ids -> Actions]
    BY <1>1, <2>2 DEF Request, TypeOK
  <2>5. reply' \in [Ids -> Answers \cup {"full", "queued"}]
    BY <1>1, <2>2 DEF Request, TypeOK
  <2>6. ClientInv'
    BY <1>1, <2>1 DEF Request, ClientInv, At, TypeOK
  <2>7. QED
    BY <1>1, <2>3, <2>4, <2>5, <2>6 DEF Request, TypeOK
<1>2. ASSUME NEW c \in Clients, Push(c) \/ Poll(c) \/ Deadline(c) PROVE Inv'
  <2>1. Id(c) \in Ids /\ client[c].n \in 1..MaxRequests
    BY <1>2, CurrentId DEF Push, Poll, Deadline, At
  <2>2. /\ client' \in [Clients -> [pc : {"idle", "checked", "waiting"}, n : 0..MaxRequests]]
        /\ ClientInv'
    <3>1. PICK p \in {"idle", "waiting"} :
            client' = [client EXCEPT ![c] = [pc |-> p, n |-> client[c].n]]
      BY <1>2 DEF Push, Poll, Deadline, GoTo
    <3>2. client[c].n \in 0..MaxRequests /\ client[c].n > 0
      BY <2>1
    <3>3. client' \in [Clients -> [pc : {"idle", "checked", "waiting"}, n : 0..MaxRequests]]
      BY <3>1, <3>2 DEF TypeOK
    <3>4. \A d \in Clients : client'[d].n = client[d].n /\ (d # c => client'[d] = client[d])
      BY <3>1 DEF TypeOK
    <3>5. QED
      BY <2>1, <3>3, <3>4 DEF ClientInv, At
  <2>3. queue' \in Seq(Ids)
    <3>1. queue \in Seq(Ids) /\ Append(queue, Id(c)) \in Seq(Ids)
      BY <2>1, AppendProperties DEF TypeOK
    <3>2. QED
      BY <1>2, <3>1 DEF Push, Poll, Deadline
  <2>4. reply' \in [Ids -> Answers \cup {"full", "queued"}]
    BY <1>2, <2>1 DEF Push, Poll, Deadline, Tell, TypeOK
  <2>5. results' \in [Ids -> Answers]
    BY <1>2, <2>1 DEF Push, Poll, Deadline, TypeOK
  <2>6. QED
    BY <1>2, <2>2, <2>3, <2>4, <2>5 DEF Push, Poll, Deadline, TypeOK
<1>3. ASSUME NEW w \in Consumers, Pop(w) PROVE Inv'
  <2>1. Head(queue) \in Ids /\ Tail(queue) \in Seq(Ids)
    BY <1>3, HeadTailProperties DEF Pop, TypeOK
  <2>2. running' \in [Consumers -> [id : Ids \cup {NoId}, answer : Answers]]
    BY <1>3, <2>1 DEF Pop, TypeOK
  <2>3. QED
    BY <1>3, <2>1, <2>2 DEF Pop, TypeOK, ClientInv, At
<1>4. ASSUME NEW w \in Consumers, Handle(w) PROVE Inv'
  <2>1. running[w].id \in Ids
    BY <1>4, HeldId DEF Handle, Idle
  <2>2. running' \in [Consumers -> [id : Ids \cup {NoId}, answer : Answers]]
        /\ executed' \in [Ids -> Nat]
    <3>1. PICK a \in {"done", "unknown"} :
            running' = [running EXCEPT ![w] = [id |-> running[w].id, answer |-> a]]
      BY <1>4, HeldId DEF Handle, TypeOK
    <3>2. executed[running[w].id] \in Nat
      BY <2>1 DEF TypeOK
    <3>3. executed' \in [Ids -> Nat]
      <4>1. \/ executed' = executed
            \/ executed' = [executed EXCEPT ![running[w].id] = executed[running[w].id] + 1]
        BY <1>4 DEF Handle
      <4>2. executed[running[w].id] + 1 \in Nat
        BY <3>2
      <4>3. QED
        BY <2>1, <4>1, <4>2 DEF TypeOK
    <3>4. QED
      BY <2>1, <3>1, <3>3 DEF TypeOK
  <2>3. QED
    BY <1>4, <2>2 DEF Handle, TypeOK, ClientInv, At
<1>11. ASSUME NEW w \in Consumers, HandleTimesOut(w) PROVE Inv'
  <2>1. running[w].id \in Ids
    BY <1>11, HeldId DEF HandleTimesOut, Idle
  <2>2. running' = [running EXCEPT ![w] = [id |-> running[w].id, answer |-> "failed"]]
    <3>1. running[w] = [id |-> running[w].id, answer |-> running[w].answer]
      BY HeldId
    <3>2. [running[w] EXCEPT !.answer = "failed"] = [id |-> running[w].id, answer |-> "failed"]
      BY <3>1
    <3>3. running' = [running EXCEPT ![w] = [running[w] EXCEPT !.answer = "failed"]]
      BY <1>11 DEF HandleTimesOut
    <3>4. QED
      BY <3>2, <3>3
  <2>3. running' \in [Consumers -> [id : Ids \cup {NoId}, answer : Answers]]
    BY <2>1, <2>2 DEF TypeOK
  <2>4. QED
    BY <1>11, <2>1, <2>3 DEF HandleTimesOut, TypeOK, ClientInv, At
<1>12. ASSUME NEW i \in Ids, Linger(i) PROVE Inv'
  <2>1. executed' \in [Ids -> Nat]
    BY <1>12 DEF Linger, TypeOK
  <2>2. QED
    BY <1>12, <2>1 DEF Linger, TypeOK, ClientInv, At
<1>5. ASSUME NEW w \in Consumers, Post(w) PROVE Inv'
  <2>1. running' \in [Consumers -> [id : Ids \cup {NoId}, answer : Answers]]
    BY <1>5 DEF Post, Idle, TypeOK
  <2>2. results' \in [Ids -> Answers]
    BY <1>5 DEF Post, TypeOK
  <2>3. QED
    BY <1>5, <2>1, <2>2 DEF Post, TypeOK, ClientInv, At
<1>6. ASSUME NEW i \in Ids, ExpireResult(i) PROVE Inv'
  BY <1>6 DEF ExpireResult, TypeOK, ClientInv, At
<1>7. CASE Trim
  <2>1. queue \in Seq(Ids) /\ MaxQueue \in 1..Len(queue)
    BY <1>7, LenProperties DEF Trim, TypeOK
  <2>2. queue' \in Seq(Ids)
    BY <1>7, <2>1, SubSeqProperties DEF Trim
  <2>3. QED
    BY <1>7, <2>2 DEF Trim, TypeOK, ClientInv, At
<1>8. CASE Crash
  BY <1>8 DEF Crash, Idle, TypeOK, ClientInv, At
<1>9. CASE UNCHANGED vars
  BY <1>9 DEF vars, TypeOK, ClientInv, At
<1>10. QED
  BY <1>1, <1>2, <1>3, <1>4, <1>5, <1>6, <1>7, <1>8, <1>9, <1>11, <1>12 DEF Next, Consume

-----------------------------------------------------------------------------
(* The bound of the list. *)

LEMMA CheckedSize ==
  ASSUME QueueAssumption
  PROVE  /\ IsFiniteSet(Checked) /\ Cardinality(Checked) \in Nat
         /\ Cardinality(Clients) \in Nat \ {0}
         /\ Cardinality(Checked) <= Cardinality(Clients)
<1>1. Checked \subseteq Clients /\ IsFiniteSet(Clients) /\ Clients # {}
  BY DEF QueueAssumption, Checked
<1>2. IsFiniteSet(Checked) /\ Cardinality(Checked) <= Cardinality(Clients)
  BY <1>1, FS_Subset
<1>3. Cardinality(Clients) # 0
  BY <1>1, FS_EmptySet
<1>4. QED
  BY <1>1, <1>2, <1>3, FS_CardinalityType

\* The clients past the check, as one of them moves.
LEMMA CheckedMoves ==
  ASSUME QueueAssumption, TypeOK, NEW c \in Clients
  PROVE  /\ client' = [client EXCEPT ![c] = [pc |-> "checked", n |-> @.n + 1]] /\ At(c, "idle")
              => Cardinality(Checked') = Cardinality(Checked) + 1
         /\ GoTo(c, "waiting") /\ At(c, "checked")
              => Cardinality(Checked') = Cardinality(Checked) - 1
         /\ (client' = client \/ \E p \in {"idle", "waiting"}, m \in Nat :
                ~At(c, "checked") /\ client' = [client EXCEPT ![c] = [pc |-> p, n |-> m]])
              => Checked' = Checked
<1> USE DEF TypeOK, At, Checked
<1>1. ASSUME client' = [client EXCEPT ![c] = [pc |-> "checked", n |-> @.n + 1]], At(c, "idle")
      PROVE  Cardinality(Checked') = Cardinality(Checked) + 1
  <2>1. Checked' = Checked \cup {c} /\ c \notin Checked
    BY <1>1
  <2>2. QED
    BY <2>1, CheckedSize, FS_AddElement
<1>2. ASSUME GoTo(c, "waiting"), At(c, "checked")
      PROVE  Cardinality(Checked') = Cardinality(Checked) - 1
  <2>1. client' = [client EXCEPT ![c] = [pc |-> "waiting", n |-> client[c].n]]
    BY <1>2 DEF GoTo
  <2>2. Checked' = Checked \ {c} /\ c \in Checked
    BY <1>2, <2>1
  <2>3. IsFiniteSet(Checked)
    BY CheckedSize
  <2>4. Cardinality(Checked \ {c}) = Cardinality(Checked) - 1
    BY <2>2, <2>3, FS_RemoveElement
  <2>5. QED
    BY <2>2, <2>4
<1>3. ASSUME client' = client \/ \E p \in {"idle", "waiting"}, m \in Nat :
               ~At(c, "checked") /\ client' = [client EXCEPT ![c] = [pc |-> p, n |-> m]]
      PROVE  Checked' = Checked
  <2>1. CASE client' = client
    BY <2>1
  <2>2. CASE ~At(c, "checked") /\ \E p \in {"idle", "waiting"}, m \in Nat :
               client' = [client EXCEPT ![c] = [pc |-> p, n |-> m]]
    <3>1. PICK p \in {"idle", "waiting"}, m \in Nat :
            client' = [client EXCEPT ![c] = [pc |-> p, n |-> m]]
      BY <2>2
    <3>2. \A d \in Clients : d # c => client'[d] = client[d]
      BY <3>1
    <3>3. client'[c].pc # "checked"
      BY <3>1
    <3>4. QED
      BY <2>2, <3>2, <3>3
  <2>3. QED
    BY <1>3, <2>1, <2>2
<1>4. QED
  BY <1>1, <1>2, <1>3

LEMMA RoomSteps ==
  ASSUME QueueAssumption, TypeOK, ClientInv, RoomInv, [Next]_vars
  PROVE  RoomInv'
<1>1. /\ Cardinality(Checked) \in Nat /\ Cardinality(Clients) \in Nat \ {0}
      /\ Cardinality(Checked) <= Cardinality(Clients)
      /\ MaxQueue \in Nat /\ Len(queue) \in Nat /\ queue \in Seq(Ids)
  BY CheckedSize, LenProperties DEF QueueAssumption, TypeOK
<1>2. ASSUME Len(queue') \in Nat, Len(queue') <= Len(queue), Checked' = Checked
      PROVE  RoomInv'
  BY <1>1, <1>2 DEF RoomInv
<1>3. ASSUME client' = client PROVE Checked' = Checked
  BY <1>3 DEF Checked, At
<1>4. ASSUME NEW c \in Clients, NEW a \in Actions, Request(c, a) PROVE RoomInv'
  <2>1. At(c, "idle") /\ queue' = queue /\ client[c].n + 1 \in Nat
    BY <1>4, IdFacts DEF Request, QueueAssumption
  <2>2. CASE QueueFull
    <3>1. client' = [client EXCEPT ![c] = [pc |-> "idle", n |-> client[c].n + 1]]
      BY <1>4, <2>2 DEF Request
    <3>2. Checked' = Checked
      BY <2>1, <3>1, CheckedMoves DEF At
    <3>3. QED
      BY <1>1, <1>2, <2>1, <3>2
  <2>3. CASE ~QueueFull
    <3>1. client' = [client EXCEPT ![c] = [pc |-> "checked", n |-> client[c].n + 1]]
      BY <1>4, <2>3 DEF Request
    <3>2. Cardinality(Checked') = Cardinality(Checked) + 1
      BY <2>1, <3>1, CheckedMoves
    <3>3. c \notin Checked /\ Checked \subseteq Clients
      BY <2>1 DEF At, Checked
    <3>4. Cardinality(Checked) # Cardinality(Clients)
      BY <3>3, FS_Subset DEF QueueAssumption
    <3>5. QED
      BY <1>1, <2>1, <2>3, <3>2, <3>4 DEF QueueFull, RoomInv
  <2>4. QED
    BY <2>2, <2>3
<1>5. ASSUME NEW c \in Clients, Push(c) PROVE RoomInv'
  <2>1. Id(c) \in Ids
    BY <1>5, CurrentId DEF Push, At
  <2>2. Len(queue') = Len(queue) + 1
    BY <1>1, <1>5, <2>1 DEF Push
  <2>3. Cardinality(Checked') = Cardinality(Checked) - 1
    BY <1>5, CheckedMoves DEF Push
  <2>4. QED
    BY <1>1, <2>2, <2>3 DEF RoomInv
<1>6. ASSUME NEW c \in Clients, Poll(c) \/ Deadline(c) PROVE RoomInv'
  <2>1. /\ ~At(c, "checked") /\ client[c].n \in Nat /\ queue' = queue
        /\ client' = [client EXCEPT ![c] = [pc |-> "idle", n |-> client[c].n]]
    BY <1>6, IdFacts DEF Poll, Deadline, GoTo, At
  <2>2. Checked' = Checked
    BY <2>1, CheckedMoves
  <2>3. QED
    BY <1>1, <1>2, <2>1, <2>2
<1>7. ASSUME NEW w \in Consumers, Consume(w) PROVE RoomInv'
  <2>1. client' = client
    BY <1>7 DEF Consume, Pop, Handle, HandleTimesOut, Post
  <2>2. Pop(w) => Len(queue') = Len(queue) - 1 /\ Len(queue) # 0
    BY <1>1, HeadTailProperties, EmptySeq DEF Pop
  <2>3. Len(queue') \in Nat /\ Len(queue') <= Len(queue)
    BY <1>1, <1>7, <2>2 DEF Consume, Handle, HandleTimesOut, Post
  <2>4. QED
    BY <1>2, <1>3, <2>1, <2>3
<1>8. CASE Trim
  <2>1. Len(queue') = MaxQueue
    BY <1>1, <1>8, SubSeqProperties DEF Trim, QueueAssumption
  <2>2. QED
    BY <1>1, <1>2, <1>3, <1>8, <2>1 DEF Trim
<1>9. CASE Crash \/ UNCHANGED vars \/ \E i \in Ids : Linger(i) \/ ExpireResult(i)
  BY <1>1, <1>2, <1>3, <1>9 DEF Crash, vars, Linger, ExpireResult
<1>10. QED
  BY <1>4, <1>5, <1>6, <1>7, <1>8, <1>9 DEF Next

-----------------------------------------------------------------------------
(* Where a command is.  The places after each step, first. *)

\* What each kind of step does to the list.
LEMMA ListSteps ==
  ASSUME QueueAssumption, TypeOK
  PROVE  /\ \A c \in Clients : Push(c) /\ Id(c) \in Ids =>
              /\ Len(queue') = Len(queue) + 1 /\ Len(queue) \in Nat
              /\ \A k \in 1..Len(queue) : queue'[k] = queue[k]
              /\ queue'[Len(queue) + 1] = Id(c)
         /\ \A w \in Consumers : Pop(w) =>
              /\ Len(queue') = Len(queue) - 1 /\ Len(queue) \in Nat \ {0}
              /\ \A k \in 1..Len(queue') : queue'[k] = queue[k + 1]
              /\ Head(queue) = queue[1]
         /\ Trim => /\ Len(queue') <= Len(queue) /\ Len(queue) \in Nat /\ Len(queue') \in Nat
                    /\ \A k \in 1..Len(queue') : queue'[k] = queue[k]
<1>1. queue \in Seq(Ids) /\ Len(queue) \in Nat
  BY LenProperties DEF TypeOK
<1>2. ASSUME NEW c \in Clients, Push(c), Id(c) \in Ids
      PROVE  /\ Len(queue') = Len(queue) + 1
             /\ \A k \in 1..Len(queue) : queue'[k] = queue[k]
             /\ queue'[Len(queue) + 1] = Id(c)
  BY <1>1, <1>2, AppendProperties DEF Push
<1>3. ASSUME NEW w \in Consumers, Pop(w)
      PROVE  /\ Len(queue') = Len(queue) - 1 /\ Len(queue) \in Nat \ {0}
             /\ \A k \in 1..Len(queue') : queue'[k] = queue[k + 1]
             /\ Head(queue) = queue[1]
  <2>1. queue # <<>> /\ queue' = Tail(queue)
    BY <1>3 DEF Pop
  <2>2. Len(queue) \in Nat \ {0}
    BY <1>1, <2>1, EmptySeq
  <2>3. QED
    BY <1>1, <2>1, <2>2, HeadTailProperties
<1>4. ASSUME Trim
      PROVE  /\ Len(queue') <= Len(queue) /\ Len(queue') \in Nat
             /\ \A k \in 1..Len(queue') : queue'[k] = queue[k]
  <2>1. /\ Len(queue') = MaxQueue
        /\ \A k \in 1..MaxQueue : queue'[k] = queue[k]
    BY <1>1, <1>4, SubSeqProperties DEF Trim, QueueAssumption
  <2>2. QED
    BY <1>1, <1>4, <2>1 DEF Trim, QueueAssumption
<1>5. QED
  BY <1>1, <1>2, <1>3, <1>4

(***************************************************************************)
(* The steps that neither push nor pop: they leave the list as it is or    *)
(* cut it, and a consumer keeps its command or lets it go.                 *)
(***************************************************************************)
Quiet ==
  /\ Len(queue') \in Nat /\ Len(queue') <= Len(queue)
  /\ \A k \in 1..Len(queue') : queue'[k] = queue[k]
  /\ \A w \in Consumers : running'[w].id \in {running[w].id, NoId}
  /\ \A w \in Consumers : running'[w].id = NoId => running'[w].answer = None

LEMMA QuietSteps ==
  ASSUME QueueAssumption, TypeOK, PlaceInv, Next,
         ~\E c \in Clients : Push(c), ~\E w \in Consumers : Pop(w)
  PROVE  Quiet
<1>1. Len(queue) \in Nat
  BY LenProperties DEF TypeOK
<1>2. ASSUME queue' = queue, running' = running PROVE Quiet
  BY <1>1, <1>2 DEF Quiet, PlaceInv
<1>3. ASSUME NEW w \in Consumers, Handle(w) \/ HandleTimesOut(w) PROVE Quiet
  <2>1. running[w].id # NoId
    BY <1>3, HeldId DEF Handle, HandleTimesOut, Idle
  <2>2. /\ \A v \in Consumers : v # w => running'[v] = running[v]
        /\ running'[w].id = running[w].id
    BY <1>3 DEF Handle, HandleTimesOut, TypeOK
  <2>3. QED
    BY <1>1, <1>3, <2>1, <2>2 DEF Quiet, PlaceInv, Handle, HandleTimesOut
<1>4. ASSUME NEW w \in Consumers, Post(w) PROVE Quiet
  <2>1. /\ \A v \in Consumers : v # w => running'[v] = running[v]
        /\ running'[w] = Idle
    BY <1>4 DEF Post, TypeOK
  <2>2. QED
    BY <1>1, <1>4, <2>1 DEF Quiet, PlaceInv, Post, Idle
<1>5. CASE Trim
  BY <1>5, ListSteps DEF Quiet, PlaceInv, Trim
<1>6. CASE Crash
  BY <1>1, <1>6 DEF Quiet, PlaceInv, Crash, Idle
<1>7. QED
  BY <1>2, <1>3, <1>4, <1>5, <1>6 DEF Next, Consume, Request, Poll, Deadline, Linger, ExpireResult

LEMMA QuietPlaces ==
  ASSUME QueueAssumption, TypeOK, PlaceInv, Quiet
  PROVE  /\ PlaceInv'
         /\ \A i \in Ids : InQueue(i)' => InQueue(i)
         /\ \A i \in Ids : Held(i)' => Held(i)
<1>1. Len(queue) \in Nat /\ NoId \notin Ids
  BY LenProperties DEF TypeOK, QueueAssumption
<1>2. \A k \in 1..Len(queue') : k \in 1..Len(queue) /\ queue'[k] = queue[k] /\ queue'[k] # NoId
  BY <1>1, QueuedId DEF Quiet
<1>3. \A j, k \in 1..Len(queue') : queue'[j] = queue'[k] => j = k
  BY <1>2 DEF PlaceInv
<1>4. \A w \in Consumers, k \in 1..Len(queue') : running'[w].id # queue'[k]
  BY <1>2 DEF PlaceInv, Quiet
<1>5. \A v, w \in Consumers : running'[v].id = running'[w].id => v = w \/ running'[v].id = NoId
  BY DEF PlaceInv, Quiet
<1>6. PlaceInv'
  BY <1>3, <1>4, <1>5 DEF PlaceInv, Quiet
<1>7. \A i \in Ids : InQueue(i)' => InQueue(i)
  BY <1>2 DEF InQueue
<1>8. \A i \in Ids : Held(i)' => Held(i)
  BY <1>1 DEF Held, Quiet
<1>9. QED
  BY <1>6, <1>7, <1>8

\* A push puts a fresh command into the list and moves nothing else.
LEMMA PushPlaces ==
  ASSUME QueueAssumption, TypeOK, ClientInv, PlaceInv, FreshInv, NEW c \in Clients, Push(c)
  PROVE  /\ PlaceInv'
         /\ Id(c) \in Ids /\ ~Settled(Id(c)) /\ ~Held(Id(c))
         /\ \A i : InQueue(i)' => InQueue(i) \/ i = Id(c)
<1>1. Id(c) \in Ids /\ Id(c) = <<c, client[c].n>> /\ client[c].n \in 1..MaxRequests
  BY CurrentId DEF Push, At
<1>2. ~InQueue(Id(c)) /\ ~Held(Id(c)) /\ ~Settled(Id(c))
  BY <1>1 DEF FreshInv, Unpushed, Push
<1>3. /\ Len(queue') = Len(queue) + 1 /\ Len(queue) \in Nat
      /\ \A k \in 1..Len(queue) : queue'[k] = queue[k]
      /\ queue'[Len(queue) + 1] = Id(c)
  BY <1>1, ListSteps
<1>4. \A k \in 1..Len(queue') :
        \/ k \in 1..Len(queue) /\ queue'[k] = queue[k] /\ queue[k] # Id(c)
        \/ k = Len(queue) + 1 /\ queue'[k] = Id(c)
  BY <1>2, <1>3 DEF InQueue
<1>5. \A j, k \in 1..Len(queue') : queue'[j] = queue'[k] => j = k
  BY <1>4 DEF PlaceInv
<1>6. running' = running /\ \A w \in Consumers : running[w].id # Id(c)
  BY <1>2 DEF Push, Held
<1>7. PlaceInv'
  BY <1>4, <1>5, <1>6 DEF PlaceInv
<1>8. \A i : InQueue(i)' => InQueue(i) \/ i = Id(c)
  BY <1>4 DEF InQueue
<1>9. QED
  BY <1>1, <1>2, <1>7, <1>8

\* A pop moves a command from the list to a consumer.
LEMMA PopPlaces ==
  ASSUME QueueAssumption, TypeOK, PlaceInv, NEW w \in Consumers, Pop(w)
  PROVE  /\ PlaceInv'
         /\ \A i : InQueue(i)' => InQueue(i)
         /\ \A i : Held(i)' => Held(i) \/ InQueue(i)
         /\ \A i : Underway(i)' => Underway(i) \/ InQueue(i)
<1>1. /\ Len(queue') = Len(queue) - 1 /\ Len(queue) \in Nat \ {0}
      /\ \A k \in 1..Len(queue') : queue'[k] = queue[k + 1]
      /\ Head(queue) = queue[1]
  BY ListSteps
<1>2. /\ \A v \in Consumers : v # w => running'[v] = running[v]
      /\ running'[w].id = queue[1] /\ running'[w].answer = None
  BY <1>1 DEF Pop, TypeOK
<1>3. \A k \in 1..Len(queue') : k + 1 \in 1..Len(queue) /\ queue'[k] = queue[k + 1]
  BY <1>1
<1>4. 1 \in 1..Len(queue) /\ queue[1] \in Ids /\ NoId \notin Ids
  BY <1>1, QueuedId DEF QueueAssumption
<1>5. \A j, k \in 1..Len(queue') : queue'[j] = queue'[k] => j = k
  BY <1>3, <1>1 DEF PlaceInv
<1>6. \A v \in Consumers, k \in 1..Len(queue') : running'[v].id # queue'[k]
  <2>1. \A k \in 1..Len(queue') : queue'[k] # queue[1]
    BY <1>1, <1>3, <1>4 DEF PlaceInv
  <2>2. \A v \in Consumers, k \in 1..Len(queue') : running[v].id # queue'[k]
    BY <1>3 DEF PlaceInv
  <2>3. \A v \in Consumers : running'[v].id \in {running[v].id, queue[1]}
    BY <1>2
  <2>4. QED
    BY <2>1, <2>2, <2>3
<1>7. \A u, v \in Consumers : running'[u].id = running'[v].id => u = v \/ running'[u].id = NoId
  <2>1. \A v \in Consumers : running[v].id # queue[1]
    BY <1>4 DEF PlaceInv
  <2>2. \A v \in Consumers : v # w => running'[v].id = running[v].id /\ running'[v].id # queue[1]
    BY <1>2, <2>1
  <2>3. \A u, v \in Consumers : u # w /\ v # w /\ running'[u].id = running'[v].id =>
          u = v \/ running'[u].id = NoId
    BY <2>2 DEF PlaceInv
  <2>4. QED
    BY <1>2, <2>2, <2>3
<1>8. \A v \in Consumers : running'[v].id = NoId => running'[v].answer = None
  BY <1>2 DEF PlaceInv
<1>9. \A i : InQueue(i)' => InQueue(i)
  BY <1>3 DEF InQueue
<1>10. InQueue(queue[1])
  BY <1>4 DEF InQueue
<1>11. QED
  BY <1>2, <1>5, <1>6, <1>7, <1>8, <1>9, <1>10 DEF PlaceInv, Held, Underway

-----------------------------------------------------------------------------
(* One lemma per conjunct of OnceInv. *)

LEMMA PlaceSteps ==
  ASSUME QueueAssumption, TypeOK, ClientInv, PlaceInv, FreshInv, [Next]_vars
  PROVE  PlaceInv'
<1>1. CASE \E c \in Clients : Push(c)
  BY <1>1, PushPlaces
<1>2. CASE \E w \in Consumers : Pop(w)
  BY <1>2, PopPlaces
<1>3. CASE Next /\ ~(\E c \in Clients : Push(c)) /\ ~(\E w \in Consumers : Pop(w))
  BY <1>3, QuietSteps, QuietPlaces
<1>4. CASE UNCHANGED vars
  BY <1>4 DEF vars, PlaceInv
<1>5. QED
  BY <1>1, <1>2, <1>3, <1>4

\* A command is held by one consumer only, and not in the list as well.
LEMMA HeldAlone ==
  ASSUME TypeOK, PlaceInv, NEW w \in Consumers, running[w].id # NoId
  PROVE  /\ running[w].id \in Ids
         /\ ~InQueue(running[w].id)
         /\ \A v \in Consumers : v # w => running[v].id # running[w].id
BY HeldId DEF PlaceInv, InQueue

\* No step makes a request fresh again, and none but its own touches it.
LEMMA FreshSteps ==
  ASSUME QueueAssumption, TypeOK, ClientInv, PlaceInv, FreshInv, [Next]_vars
  PROVE  FreshInv'
<1> SUFFICES ASSUME NEW c \in Clients, NEW n \in 1..MaxRequests, Unpushed(c, n)'
             PROVE  ~InQueue(<<c, n>>)' /\ ~Held(<<c, n>>)' /\ ~Settled(<<c, n>>)'
  BY DEF FreshInv
<1> DEFINE i == <<c, n>>
<1>1. i \in Ids /\ i # NoId /\ client[c].n \in Nat /\ n \in Nat
  BY IdFacts DEF QueueAssumption
<1>2. ASSUME Unpushed(c, n) PROVE ~InQueue(i) /\ ~Held(i) /\ ~Settled(i)
  BY <1>2 DEF FreshInv
<1>3. ASSUME client' = client PROVE Unpushed(c, n)
  BY <1>3 DEF Unpushed, At
<1>4. ASSUME NEW d \in Clients, Push(d) PROVE ~InQueue(i)' /\ ~Held(i)' /\ ~Settled(i)'
  <2>1. client' = [client EXCEPT ![d] = [pc |-> "waiting", n |-> client[d].n]] /\ client[d].n \in Nat
    BY <1>4, IdFacts DEF Push, GoTo
  <2>2. Unpushed(c, n) /\ ~(c = d /\ n = client[d].n)
    BY <1>1, <2>1 DEF Unpushed, At, TypeOK
  <2>3. i # Id(d)
    BY <2>2 DEF Id
  <2>4. ~InQueue(i)'
    BY <1>2, <1>4, <2>2, <2>3, PushPlaces
  <2>5. QED
    BY <1>2, <1>4, <2>2, <2>4 DEF Push, Held, Settled, Begun
<1>5. ASSUME NEW w \in Consumers, Pop(w) PROVE ~InQueue(i)' /\ ~Held(i)' /\ ~Settled(i)'
  <2>1. Unpushed(c, n)
    BY <1>3, <1>5 DEF Pop
  <2>2. QED
    BY <1>2, <1>5, <2>1, PopPlaces DEF Pop, Settled, Begun
<1>6. ASSUME Quiet, Unpushed(c, n), Settled(i)' => Settled(i) PROVE ~InQueue(i)' /\ ~Held(i)' /\ ~Settled(i)'
  BY <1>1, <1>2, <1>6, QuietPlaces
<1>7. ASSUME Next, ~(\E d \in Clients : Push(d)), ~(\E w \in Consumers : Pop(w))
      PROVE  Unpushed(c, n) /\ (Settled(i)' => Settled(i))
  <2>1. ASSUME NEW d \in Clients, NEW a \in Actions, Request(d, a)
        PROVE  Unpushed(c, n) /\ (Settled(i)' => Settled(i))
    <3>1. PICK p \in {"idle", "checked"} :
            client' = [client EXCEPT ![d] = [pc |-> p, n |-> client[d].n + 1]] /\ (QueueFull => p = "idle")
      BY <2>1 DEF Request
    <3>2. client[d].n \in Nat /\ At(d, "idle")
      BY <2>1, IdFacts DEF Request
    <3>3. Unpushed(c, n)
      BY <1>1, <3>1, <3>2 DEF Unpushed, At, TypeOK
    <3>4. QueueFull => i # <<d, client[d].n + 1>>
      BY <1>1, <3>1, <3>2 DEF Unpushed, At, TypeOK
    <3>5. reply'[i] = reply[i]
      BY <1>1, <2>1, <3>4 DEF Request, TypeOK
    <3>6. QED
      BY <2>1, <3>3, <3>5 DEF Request, Settled, Begun
  <2>2. ASSUME NEW d \in Clients, Poll(d) \/ Deadline(d)
        PROVE  Unpushed(c, n) /\ (Settled(i)' => Settled(i))
    <3>1. client' = [client EXCEPT ![d] = [pc |-> "idle", n |-> client[d].n]] /\ client[d].n \in Nat
      BY <2>2, IdFacts DEF Poll, Deadline, GoTo
    <3>2. Unpushed(c, n) /\ ~(c = d /\ n = client[d].n)
      BY <1>1, <3>1 DEF Unpushed, At, TypeOK
    <3>3. i # Id(d)
      BY <3>2 DEF Id
    <3>4. /\ reply'[i] = reply[i] /\ results'[i] = results[i]
          /\ executed' = executed /\ lingering' = lingering
      BY <1>1, <2>2, <3>3 DEF Poll, Deadline, Tell, TypeOK
    <3>5. QED
      BY <3>2, <3>4 DEF Settled, Begun
  <2>3. ASSUME NEW w \in Consumers, Handle(w) \/ HandleTimesOut(w) \/ Post(w)
        PROVE  Unpushed(c, n) /\ (Settled(i)' => Settled(i))
    <3>1. Unpushed(c, n)
      BY <1>3, <2>3 DEF Handle, HandleTimesOut, Post
    <3>2. running[w].id # i
      BY <1>2, <3>1 DEF Held
    <3>3. /\ reply' = reply /\ results'[i] = results[i] /\ executed'[i] = executed[i]
          /\ i \in lingering' <=> i \in lingering
      BY <1>1, <2>3, <3>2 DEF Handle, HandleTimesOut, Post, TypeOK
    <3>4. QED
      BY <3>1, <3>3 DEF Settled, Begun
  <2>7. ASSUME NEW j \in Ids, Linger(j)
        PROVE  Unpushed(c, n) /\ (Settled(i)' => Settled(i))
    <3>1. Unpushed(c, n)
      BY <1>3, <2>7 DEF Linger
    <3>2. executed'[i] = executed[i] \/ i \in lingering
      BY <1>1, <2>7 DEF Linger, TypeOK
    <3>3. QED
      BY <2>7, <3>1, <3>2 DEF Linger, Settled, Begun
  <2>4. ASSUME NEW j \in Ids, ExpireResult(j)
        PROVE  Unpushed(c, n) /\ (Settled(i)' => Settled(i))
    BY <1>1, <1>3, <2>4 DEF ExpireResult, Settled, TypeOK, Begun
  <2>5. CASE Trim \/ Crash
    BY <1>3, <2>5 DEF Trim, Crash, Settled, Begun
  <2>6. QED
    BY <1>7, <2>1, <2>2, <2>3, <2>4, <2>5, <2>7 DEF Next, Consume
<1>8. CASE Next /\ ~(\E d \in Clients : Push(d)) /\ ~(\E w \in Consumers : Pop(w))
  BY <1>6, <1>7, <1>8, QuietSteps
<1>9. CASE UNCHANGED vars
  BY <1>2, <1>3, <1>9 DEF vars, InQueue, Held, Settled, Begun
<1>10. QED
  BY <1>4, <1>5, <1>8, <1>9

\* A settled command is neither in the list nor about to be run.
LEMMA SettledSteps ==
  ASSUME QueueAssumption, TypeOK, ClientInv, PlaceInv, FreshInv, SettledInv, [Next]_vars
  PROVE  SettledInv'
<1> DEFINE Stays(i) == Settled(i)' => ~InQueue(i)' /\ ~Underway(i)'
<1>1. ASSUME NEW i \in Ids,
             Settled(i)' => Settled(i),
             InQueue(i)' \/ Underway(i)' => InQueue(i) \/ Underway(i)
      PROVE  Stays(i)
  BY <1>1 DEF SettledInv
<1>2. ASSUME NEW c \in Clients, Push(c), NEW i \in Ids PROVE Stays(i)
  <2>1. Settled(i)' <=> Settled(i)
    BY <1>2 DEF Push, Settled, Begun
  <2>2. Underway(i)' <=> Underway(i)
    BY <1>2 DEF Push, Underway
  <2>3. Settled(i)' => i # Id(c)
    BY <1>2, <2>1, PushPlaces
  <2>4. QED
    BY <1>2, <2>1, <2>2, <2>3, PushPlaces DEF SettledInv
<1>3. ASSUME NEW w \in Consumers, Pop(w), NEW i \in Ids PROVE Stays(i)
  BY <1>1, <1>3, PopPlaces DEF Pop, Settled, Begun
<1>4. ASSUME queue' = queue, running' = running, NEW i \in Ids, Settled(i)' => Settled(i)
      PROVE  Stays(i)
  BY <1>1, <1>4 DEF InQueue, Underway
<1>5. ASSUME NEW c \in Clients, NEW a \in Actions, Request(c, a), NEW i \in Ids PROVE Stays(i)
  <2>1. client[c].n + 1 \in 1..MaxRequests /\ Unpushed(c, client[c].n + 1)
    BY <1>5, IdFacts DEF Request, Unpushed, QueueAssumption
  <2>2. ~InQueue(<<c, client[c].n + 1>>) /\ ~Held(<<c, client[c].n + 1>>)
    BY <2>1 DEF FreshInv
  <2>3. CASE i = <<c, client[c].n + 1>>
    BY <1>5, <2>2, <2>3 DEF Request, InQueue, Held, Underway
  <2>4. CASE i # <<c, client[c].n + 1>>
    <3>1. reply'[i] = reply[i]
      BY <1>5, <2>4 DEF Request, TypeOK
    <3>2. QED
      BY <1>4, <1>5, <3>1 DEF Request, Settled, Begun
  <2>5. QED
    BY <2>3, <2>4
<1>6. ASSUME NEW c \in Clients, Poll(c) \/ Deadline(c), NEW i \in Ids PROVE Stays(i)
  <2>1. CASE i = Id(c)
    BY <1>4, <1>6, <2>1 DEF Poll, Deadline, Tell, Settled, TypeOK, Begun
  <2>2. CASE i # Id(c)
    <3>1. /\ reply'[i] = reply[i] /\ results'[i] = results[i]
          /\ executed' = executed /\ lingering' = lingering
      BY <1>6, <2>2 DEF Poll, Deadline, Tell, TypeOK
    <3>2. QED
      BY <1>4, <1>6, <3>1 DEF Poll, Deadline, Settled, Begun
  <2>3. QED
    BY <2>1, <2>2
<1>7. ASSUME NEW w \in Consumers, Handle(w) \/ HandleTimesOut(w) \/ Post(w), NEW i \in Ids PROVE Stays(i)
  <2>1. running[w].id # NoId
    BY <1>7, HeldId DEF Handle, HandleTimesOut, Post, Idle, PlaceInv
  <2>2. /\ queue' = queue
        /\ \A v \in Consumers : v # w => running'[v] = running[v]
        /\ running'[w].answer # None \/ running'[w].id = NoId
    <3>1. ASSUME Handle(w) \/ HandleTimesOut(w)
          PROVE  /\ queue' = queue
                 /\ \A v \in Consumers : v # w => running'[v] = running[v]
                 /\ running'[w].answer # None
      BY <3>1 DEF Handle, HandleTimesOut, None, TypeOK
    <3>2. ASSUME Post(w)
          PROVE  /\ queue' = queue
                 /\ \A v \in Consumers : v # w => running'[v] = running[v]
                 /\ running'[w].id = NoId
      BY <3>2 DEF Post, Idle, TypeOK
    <3>3. QED
      BY <1>7, <3>1, <3>2
  <2>3. CASE i = running[w].id
    BY <2>1, <2>2, <2>3, HeldAlone DEF InQueue, Underway
  <2>4. CASE i # running[w].id
    <3>1. /\ reply' = reply /\ results'[i] = results[i] /\ executed'[i] = executed[i]
          /\ i \in lingering' <=> i \in lingering
      BY <1>7, <2>4 DEF Handle, HandleTimesOut, Post, TypeOK
    <3>2. i # NoId /\ running'[w].id \in {running[w].id, NoId}
      BY <1>7 DEF Handle, HandleTimesOut, Post, Idle, TypeOK, QueueAssumption
    <3>3. Underway(i)' => Underway(i)
      BY <2>2, <2>4, <3>2 DEF Underway
    <3>4. QED
      BY <1>1, <2>2, <3>1, <3>3 DEF Settled, InQueue, Begun
  <2>5. QED
    BY <2>3, <2>4
<1>12. ASSUME NEW j \in Ids, Linger(j), NEW i \in Ids PROVE Stays(i)
  <2>1. executed'[i] = executed[i] \/ i \in lingering
    BY <1>12 DEF Linger, TypeOK
  <2>2. QED
    BY <1>4, <1>12, <2>1 DEF Linger, Settled, Begun
<1>8. ASSUME NEW j \in Ids, ExpireResult(j), NEW i \in Ids PROVE Stays(i)
  BY <1>4, <1>8 DEF ExpireResult, Settled, TypeOK, Begun
<1>9. ASSUME Trim \/ Crash, NEW i \in Ids PROVE Stays(i)
  <2>1. Settled(i)' => Settled(i)
    BY <1>9 DEF Trim, Crash, Settled, Begun
  <2>2. CASE Trim
    <3>1. \A k \in 1..Len(queue') : k \in 1..Len(queue) /\ queue'[k] = queue[k]
      BY <2>2, ListSteps
    <3>2. QED
      BY <1>1, <2>1, <2>2, <3>1 DEF Trim, InQueue, Underway
  <2>3. CASE Crash
    <3>1. ~Underway(i)'
      BY <2>3 DEF Crash, Idle, Underway, QueueAssumption
    <3>2. InQueue(i)' => InQueue(i)
      BY <2>3 DEF Crash, InQueue
    <3>3. QED
      BY <1>1, <2>1, <3>1, <3>2
  <2>4. QED
    BY <1>9, <2>2, <2>3
<1>10. ASSUME UNCHANGED vars, NEW i \in Ids PROVE Stays(i)
  BY <1>4, <1>10 DEF vars, Settled, Begun
<1>11. QED
  <2>1. \A i \in Ids : Stays(i)
    BY <1>2, <1>3, <1>5, <1>6, <1>7, <1>8, <1>9, <1>10, <1>12 DEF Next, Consume
  <2>2. QED
    BY <2>1 DEF SettledInv

\* Answers, results and replies stay true, and no handler runs twice.
LEMMA TruthSteps ==
  ASSUME QueueAssumption, TypeOK, ClientInv, PlaceInv, FreshInv, SettledInv, TruthInv, [Next]_vars
  PROVE  TruthInv'
<1>1. ASSUME executed' = executed, lingering' \subseteq lingering,
             \A i \in Ids : Says(results'[i], i) /\ Says(reply'[i], i),
             \A v \in Consumers : \/ running'[v] = running[v]
                                  \/ running'[v].answer = None
                                  \/ running'[v].answer = "unknown" /\ running'[v].id \in Ids
                                     /\ ~Begun(running'[v].id)
      PROVE  TruthInv'
  <2>1. \A i \in Ids : executed'[i] <= 1 /\ (i \in lingering' => executed'[i] = 0)
    BY <1>1 DEF TruthInv
  <2>2. \A i \in Ids : (Says(results[i], i) /\ Says(reply[i], i))'
    BY <1>1 DEF Says, Begun
  <2>3. ASSUME NEW v \in Consumers, running'[v].id # NoId
        PROVE  Says(running[v].answer, running[v].id)'
    <3>1. CASE running'[v] = running[v]
      BY <1>1, <2>3, <3>1 DEF TruthInv, Says, Begun
    <3>2. CASE running'[v].answer = None
      BY <3>2 DEF Says, None
    <3>3. CASE running'[v].answer = "unknown" /\ ~Begun(running'[v].id)
      BY <1>1, <3>3 DEF Says, Begun
    <3>4. QED
      BY <1>1, <3>1, <3>2, <3>3
  <2>4. QED
    BY <2>1, <2>2, <2>3 DEF TruthInv
<1>2. \A i \in Ids : Says(results[i], i) /\ Says(reply[i], i) /\ Says(None, i) /\ Says("queued", i)
  BY DEF TruthInv, Says, None, Begun
<1>3. ASSUME NEW c \in Clients, NEW a \in Actions, Request(c, a) PROVE TruthInv'
  <2>1. client[c].n + 1 \in 1..MaxRequests /\ Unpushed(c, client[c].n + 1)
    BY <1>3, IdFacts DEF Request, Unpushed, QueueAssumption
  <2>2. <<c, client[c].n + 1>> \in Ids
    BY <2>1, IdFacts
  <2>3. ~Begun(<<c, client[c].n + 1>>)
    BY <2>1 DEF FreshInv, Settled, Begun
  <2>4. \A i \in Ids : Says(reply'[i], i)
    BY <1>2, <1>3, <2>2, <2>3 DEF Request, Says, TypeOK, Begun
  <2>5. QED
    BY <1>1, <1>2, <1>3, <2>4 DEF Request
<1>4. ASSUME NEW c \in Clients, Poll(c) \/ Deadline(c) PROVE TruthInv'
  <2>1. Id(c) \in Ids
    BY <1>4, CurrentId DEF Poll, Deadline, At
  <2>2. \A i \in Ids : reply'[i] \in {reply[i], results[i], "queued"} /\ results'[i] \in {results[i], None}
    BY <1>4, <2>1 DEF Poll, Deadline, Tell, TypeOK
  <2>3. \A i \in Ids : Says(results'[i], i) /\ Says(reply'[i], i)
    BY <1>2, <2>2
  <2>4. QED
    BY <1>1, <1>4, <2>3 DEF Poll, Deadline
<1>5. ASSUME NEW w \in Consumers, Handle(w) \/ HandleTimesOut(w) PROVE TruthInv'
  <2> DEFINE h == running[w].id
  <2>1. h \in Ids /\ h # NoId /\ running[w].answer = None
    BY <1>5, HeldId DEF Handle, HandleTimesOut, Idle, QueueAssumption
  <2>2. Underway(h)
    BY <2>1 DEF Underway
  <2>3. ~Settled(h)
    BY <2>1, <2>2 DEF SettledInv
  <2>4. \A v \in Consumers : v # w => running'[v] = running[v] /\ running[v].id # h
    BY <1>5, <2>1, HeldAlone DEF Handle, HandleTimesOut, TypeOK
  <2>5. results' = results /\ reply' = reply /\ running'[w].id = h
    BY <1>5 DEF Handle, HandleTimesOut, TypeOK
  <2>6. \A i \in Ids : i # h =>
          executed'[i] = executed[i] /\ (i \in lingering' <=> i \in lingering)
    BY <1>5 DEF Handle, HandleTimesOut, TypeOK
  <2>7. /\ executed'[h] <= 1 /\ (h \in lingering' => executed'[h] = 0)
        /\ Says(running[w].answer, h)'
    <3>1. executed[h] = 0 /\ h \notin lingering
      BY <2>1, <2>3 DEF Settled, Begun, TypeOK
    <3>2. CASE Handle(w) /\ Knows(w, action[h])
      <4>1. /\ executed'[h] = 1 /\ lingering' = lingering
            /\ running'[w].answer = "done"
        BY <2>1, <3>1, <3>2 DEF Handle, TypeOK
      <4>2. QED
        BY <2>5, <3>1, <4>1 DEF Says, Begun
    <3>3. CASE Handle(w) /\ ~Knows(w, action[h])
      <4>1. /\ executed' = executed /\ lingering' = lingering
            /\ running'[w].answer = "unknown"
        BY <3>3 DEF Handle, TypeOK
      <4>2. QED
        BY <2>5, <3>1, <4>1 DEF Says, Begun
    <3>4. CASE HandleTimesOut(w)
      <4>1. executed' = executed /\ running'[w].answer = "failed"
        BY <3>4 DEF HandleTimesOut, TypeOK
      <4>2. QED
        BY <2>5, <3>1, <4>1 DEF Says, Begun
    <3>5. QED
      BY <1>5, <3>2, <3>3, <3>4
  <2>8. \A i \in Ids : executed'[i] <= 1 /\ (i \in lingering' => executed'[i] = 0)
    BY <2>6, <2>7 DEF TruthInv
  <2>9. ASSUME NEW i \in Ids PROVE (Says(results[i], i) /\ Says(reply[i], i))'
    <3>1. CASE i # h
      BY <1>2, <2>5, <2>6, <3>1 DEF Says, Begun
    <3>2. CASE i = h
      <4>1. /\ results'[h] = None
            /\ reply'[h] \notin {"done", "unknown", "full"}
        BY <2>3, <2>5 DEF Settled, Begun
      <4>2. QED
        BY <3>2, <4>1 DEF Says, None
    <3>3. QED
      BY <3>1, <3>2
  <2>10. ASSUME NEW v \in Consumers, running'[v].id # NoId
         PROVE  Says(running[v].answer, running[v].id)'
    <3>1. CASE v = w
      BY <2>5, <2>7, <3>1
    <3>2. CASE v # w
      <4>1. running'[v] = running[v] /\ running[v].id \in Ids /\ running[v].id # h
        BY <2>4, <2>10, <3>2, HeldId
      <4>2. Says(running[v].answer, running[v].id)
        BY <2>10, <4>1 DEF TruthInv
      <4>3. QED
        BY <2>6, <4>1, <4>2 DEF Says, Begun
    <3>3. QED
      BY <3>1, <3>2
  <2>11. QED
    BY <2>8, <2>9, <2>10 DEF TruthInv
<1>13. ASSUME NEW j \in Ids, Linger(j) PROVE TruthInv'
  <2>1. /\ executed[j] = 0 /\ executed'[j] = 1 /\ j \in lingering /\ j \notin lingering'
        /\ results' = results /\ reply' = reply /\ running' = running
    BY <1>13 DEF Linger, TruthInv, TypeOK
  <2>2. \A i \in Ids : i # j =>
          executed'[i] = executed[i] /\ (i \in lingering' <=> i \in lingering)
    BY <1>13 DEF Linger, TypeOK
  <2>3. \A i \in Ids : executed'[i] <= 1 /\ (i \in lingering' => executed'[i] = 0)
    BY <2>1, <2>2 DEF TruthInv
  <2>4. \A i \in Ids : /\ executed[i] > 0 => executed'[i] > 0
                       /\ Begun(i)' => Begun(i)
    BY <2>1, <2>2 DEF Begun
  <2>5. \A i \in Ids : (Says(results[i], i) /\ Says(reply[i], i))'
    BY <1>2, <2>1, <2>4 DEF Says, Begun
  <2>6. ASSUME NEW v \in Consumers, running'[v].id # NoId
        PROVE  Says(running[v].answer, running[v].id)'
    <3>1. Says(running[v].answer, running[v].id) /\ running[v].id \in Ids
      BY <2>1, <2>6, HeldId DEF TruthInv
    <3>2. QED
      BY <2>1, <2>4, <3>1 DEF Says, Begun
  <2>7. QED
    BY <2>3, <2>5, <2>6 DEF TruthInv
<1>6. ASSUME NEW w \in Consumers, Post(w) PROVE TruthInv'
  <2>1. running[w].id \in Ids /\ running[w].id # NoId
    BY <1>6, HeldId DEF Post, PlaceInv, QueueAssumption
  <2>2. Says(running[w].answer, running[w].id)
    BY <2>1 DEF TruthInv
  <2>3. \A i \in Ids : Says(results'[i], i)
    BY <1>2, <1>6, <2>1, <2>2 DEF Post, TypeOK
  <2>4. \A v \in Consumers : running'[v] = running[v] \/ running'[v].answer = None
    BY <1>6 DEF Post, Idle, TypeOK
  <2>5. QED
    BY <1>1, <1>2, <1>6, <2>3, <2>4 DEF Post
<1>7. ASSUME NEW c \in Clients, Push(c) PROVE TruthInv'
  BY <1>1, <1>2, <1>7 DEF Push
<1>8. ASSUME NEW w \in Consumers, Pop(w) PROVE TruthInv'
  <2>1. \A v \in Consumers : running'[v] = running[v] \/ running'[v].answer = None
    BY <1>8 DEF Pop, TypeOK
  <2>2. QED
    BY <1>1, <1>2, <1>8, <2>1 DEF Pop
<1>9. ASSUME NEW j \in Ids, ExpireResult(j) PROVE TruthInv'
  <2>1. \A i \in Ids : results'[i] \in {results[i], None}
    BY <1>9 DEF ExpireResult, TypeOK
  <2>2. QED
    BY <1>1, <1>2, <1>9, <2>1 DEF ExpireResult
<1>10. CASE Trim \/ Crash
  BY <1>1, <1>2, <1>10 DEF Trim, Crash, Idle
<1>11. CASE UNCHANGED vars
  BY <1>11 DEF vars, TruthInv, Says, Begun
<1>12. QED
  BY <1>13, <1>3, <1>4, <1>5, <1>6, <1>7, <1>8, <1>9, <1>10, <1>11 DEF Next, Consume

-----------------------------------------------------------------------------
(* The theorems. *)

LEMMA QueueInit ==
  ASSUME QueueAssumption, Init
  PROVE  OnceInv /\ RoomInv
<1>1. TypeOK /\ ClientInv
  BY DEF Init, QueueAssumption, TypeOK, ClientInv, Idle, At, Actions, Answers
<1>2. Len(queue) = 0 /\ 1..Len(queue) = {}
  BY DEF Init
<1>3. PlaceInv /\ FreshInv /\ SettledInv
  BY <1>2, IdFacts, <1>1 DEF Init, PlaceInv, FreshInv, SettledInv, InQueue, Held, Underway, Settled, Begun,
                            Idle, None, QueueAssumption
<1>4. TruthInv
  BY DEF Init, TruthInv, Says, Idle, None, Begun
<1>5. Checked = {}
  BY DEF Init, Checked, At
<1>6. RoomInv
  BY <1>2, <1>5, CheckedSize, FS_EmptySet DEF RoomInv, QueueAssumption
<1>7. QED
  BY <1>1, <1>3, <1>4, <1>6 DEF OnceInv

\* OnceInv and RoomInv are inductive together.
THEOREM QueueInvariant == Spec => [](OnceInv /\ RoomInv)
<1>1. QueueAssumption /\ Init => OnceInv /\ RoomInv
  BY QueueInit
<1>2. QueueAssumption /\ OnceInv /\ RoomInv /\ [Next]_vars => (OnceInv /\ RoomInv)'
  BY QueueTypes, RoomSteps, PlaceSteps, FreshSteps, SettledSteps, TruthSteps DEF OnceInv
<1>3. QED
  BY <1>1, <1>2, QueueAssumption, PTL DEF Spec

(***************************************************************************)
(* Queue, results and replies stay well formed, and the list outgrows      *)
(* MAX_QUEUE_LENGTH by less than the number of clients, although each      *)
(* checks its length and pushes in two calls.                              *)
(***************************************************************************)
THEOREM QueueSoundHolds == Spec => []QueueSound
<1>1. OnceInv /\ RoomInv => QueueSound
  <2>1. ASSUME OnceInv, RoomInv PROVE QueueSound
    <3>1. queue \in Seq(Ids) /\ MaxQueue \in Nat
      BY <2>1, QueueAssumption DEF OnceInv, TypeOK, QueueAssumption
    <3>2. Len(queue) \in Nat
      BY <3>1, LenProperties
    <3>3. QED
      BY <2>1, <3>1, <3>2, QueueAssumption, CheckedSize DEF RoomInv, OnceInv, QueueSound
  <2>2. QED
    BY <2>1
<1>2. QED
  BY <1>1, QueueInvariant, PTL

(***************************************************************************)
(* No handler runs twice for one command, with one consumer or two,        *)
(* whatever crashes and deadlines there are.                               *)
(***************************************************************************)
THEOREM AtMostOnceHolds == Spec => []AtMostOnce
<1>1. OnceInv => AtMostOnce
  BY DEF OnceInv, TruthInv, AtMostOnce
<1>2. QED
  BY <1>1, QueueInvariant, PTL

\* A client is never told "done" of a handler that did not run, nor refused one that did.
THEOREM TruthfulReplyHolds == Spec => []TruthfulReply
<1>1. OnceInv => TruthfulReply
  <2> SUFFICES ASSUME OnceInv, NEW i \in Ids
               PROVE  /\ reply[i] = "done" => executed[i] > 0
                      /\ reply[i] \in {"full", "unknown"} => executed[i] = 0 /\ i \notin lingering
    BY DEF TruthfulReply
  <2>1. Says(reply[i], i) /\ executed[i] \in Nat
    BY DEF OnceInv, TruthInv, TypeOK
  <2>2. QED
    BY <2>1 DEF Says, Begun
<1>2. QED
  BY <1>1, QueueInvariant, PTL

-----------------------------------------------------------------------------
(* The order of one client's commands, with one consumer.  The list keeps  *)
(* them in the order they were pushed, what the consumer holds is older    *)
(* than what is in the list, and what has begun than what has not.         *)

OneConsumer == \A v, w \in Consumers : v = w

ListOrder ==
  \A c \in Clients : \A m, n \in 1..MaxRequests : \A j, k \in 1..Len(queue) :
    j < k /\ queue[j] = <<c, m>> /\ queue[k] = <<c, n>> => m < n

HeldOrder ==
  \A c \in Clients : \A m, n \in 1..MaxRequests : \A w \in Consumers, k \in 1..Len(queue) :
    running[w].id = <<c, m>> /\ queue[k] = <<c, n>> => m < n

RunOrder ==
  \A c \in Clients : \A m, n \in 1..MaxRequests :
    m < n /\ Begun(<<c, n>>) => ~InQueue(<<c, m>>) /\ ~Underway(<<c, m>>)

OrderInv == ListOrder /\ HeldOrder /\ RunOrder

\* A command in the list has a smaller number than its client's next push.
LEMMA QueuedEarlier ==
  ASSUME QueueAssumption, TypeOK, FreshInv, NEW c \in Clients, At(c, "checked"),
         NEW m \in 1..MaxRequests, InQueue(<<c, m>>) \/ Held(<<c, m>>) \/ Begun(<<c, m>>)
  PROVE  m < client[c].n
<1>1. ~Unpushed(c, m)
  BY DEF FreshInv, Settled, Begun
<1>2. client[c].n \in Nat /\ m \in Nat
  BY IdFacts DEF QueueAssumption
<1>3. QED
  BY <1>1, <1>2 DEF Unpushed

\* A step that only cuts the list and lets go of commands, and runs none.
LEMMA OrderKept ==
  ASSUME QueueAssumption, TypeOK, OrderInv, Quiet, \A i \in Ids : Begun(i)' => Begun(i),
         \A w \in Consumers : running'[w] = running[w] \/ running'[w].id = NoId
                                \/ running'[w].answer # None
  PROVE  OrderInv'
<1>1. \A c \in Clients, n \in 1..MaxRequests : <<c, n>> \in Ids /\ <<c, n>> # NoId
  BY DEF Ids, QueueAssumption
<1>2. \A k \in 1..Len(queue') : k \in 1..Len(queue) /\ queue'[k] = queue[k]
  BY LenProperties DEF Quiet, TypeOK
<1>3. ListOrder'
  BY <1>2 DEF OrderInv, ListOrder
<1>4. HeldOrder'
  <2>1. \A w \in Consumers : running'[w].id \in {running[w].id, NoId}
    BY DEF Quiet
  <2> SUFFICES ASSUME NEW c \in Clients, NEW m \in 1..MaxRequests, NEW n \in 1..MaxRequests,
                      NEW w \in Consumers, NEW k \in 1..Len(queue'),
                      running'[w].id = <<c, m>>, queue'[k] = <<c, n>>
               PROVE  m < n
    BY DEF HeldOrder
  <2>2. running[w].id = <<c, m>> /\ queue[k] = <<c, n>> /\ k \in 1..Len(queue)
    BY <1>1, <1>2, <2>1
  <2>3. QED
    BY <2>2 DEF OrderInv, HeldOrder
<1>5. \A c \in Clients, m \in 1..MaxRequests :
        /\ InQueue(<<c, m>>)' => InQueue(<<c, m>>)
        /\ Underway(<<c, m>>)' => Underway(<<c, m>>)
  BY <1>1, <1>2 DEF InQueue, Underway
<1>6. RunOrder'
  BY <1>1, <1>5 DEF OrderInv, RunOrder
<1>7. QED
  BY <1>3, <1>4, <1>6 DEF OrderInv

LEMMA OrderPush ==
  ASSUME QueueAssumption, OnceInv, OrderInv, NEW c \in Clients, Push(c)
  PROVE  OrderInv'
<1>1. TypeOK /\ ClientInv /\ PlaceInv /\ FreshInv
  BY DEF OnceInv
<1>2. /\ Id(c) = <<c, client[c].n>> /\ client[c].n \in 1..MaxRequests /\ Id(c) \in Ids
      /\ At(c, "checked") /\ running' = running
      /\ executed' = executed /\ lingering' = lingering
  BY <1>1, CurrentId DEF Push, At
<1>3. /\ Len(queue') = Len(queue) + 1 /\ Len(queue) \in Nat
      /\ \A k \in 1..Len(queue) : queue'[k] = queue[k]
      /\ queue'[Len(queue) + 1] = Id(c)
  BY <1>1, <1>2, ListSteps
<1>4. \A k \in 1..Len(queue') :
        \/ k \in 1..Len(queue) /\ queue'[k] = queue[k]
        \/ k = Len(queue) + 1 /\ queue'[k] = <<c, client[c].n>>
  BY <1>2, <1>3
<1>5. ListOrder'
  <2> SUFFICES ASSUME NEW d \in Clients, NEW m \in 1..MaxRequests, NEW n \in 1..MaxRequests,
                      NEW j \in 1..Len(queue'), NEW k \in 1..Len(queue'),
                      j < k, queue'[j] = <<d, m>>, queue'[k] = <<d, n>>
               PROVE  m < n
    BY DEF ListOrder
  <2>1. j \in 1..Len(queue) /\ queue[j] = <<d, m>>
    BY <1>3, <1>4
  <2>2. CASE k \in 1..Len(queue) /\ queue'[k] = queue[k]
    BY <2>1, <2>2 DEF OrderInv, ListOrder
  <2>3. CASE queue'[k] = <<c, client[c].n>>
    <3>1. d = c /\ n = client[c].n /\ InQueue(<<c, m>>)
      BY <2>1, <2>3 DEF InQueue
    <3>2. QED
      BY <1>1, <1>2, <3>1, QueuedEarlier
  <2>4. QED
    BY <1>4, <2>2, <2>3
<1>6. HeldOrder'
  <2> SUFFICES ASSUME NEW d \in Clients, NEW m \in 1..MaxRequests, NEW n \in 1..MaxRequests,
                      NEW w \in Consumers, NEW k \in 1..Len(queue'),
                      running[w].id = <<d, m>>, queue'[k] = <<d, n>>
               PROVE  m < n
    BY <1>2 DEF HeldOrder
  <2>1. CASE k \in 1..Len(queue) /\ queue'[k] = queue[k]
    BY <2>1 DEF OrderInv, HeldOrder
  <2>2. CASE queue'[k] = <<c, client[c].n>>
    <3>1. d = c /\ n = client[c].n /\ Held(<<c, m>>)
      BY <2>2 DEF Held
    <3>2. QED
      BY <1>1, <1>2, <3>1, QueuedEarlier
  <2>3. QED
    BY <1>4, <2>1, <2>2
<1>7. RunOrder'
  <2> SUFFICES ASSUME NEW d \in Clients, NEW m \in 1..MaxRequests, NEW n \in 1..MaxRequests,
                      m < n, Begun(<<d, n>>)
               PROVE  ~InQueue(<<d, m>>)' /\ ~Underway(<<d, m>>)'
    BY <1>2 DEF RunOrder, Begun
  <2>1. ~InQueue(<<d, m>>) /\ ~Underway(<<d, m>>)
    BY DEF OrderInv, RunOrder
  <2>2. <<d, m>> # <<c, client[c].n>>
    <3>1. ASSUME d = c, m = client[c].n PROVE FALSE
      <4>1. n < client[c].n
        BY <1>1, <1>2, <3>1, QueuedEarlier
      <4>2. client[c].n \in Nat /\ n \in Nat /\ m \in Nat
        BY <1>1, IdFacts DEF QueueAssumption
      <4>3. QED
        BY <3>1, <4>1, <4>2
    <3>2. QED
      BY <3>1
  <2>3. ~Underway(<<d, m>>)'
    BY <1>2, <2>1 DEF Underway
  <2>4. ~InQueue(<<d, m>>)'
    BY <1>4, <2>1, <2>2 DEF InQueue
  <2>5. QED
    BY <2>3, <2>4
<1>8. QED
  BY <1>5, <1>6, <1>7 DEF OrderInv

LEMMA OrderPop ==
  ASSUME QueueAssumption, OneConsumer, OnceInv, OrderInv, NEW w \in Consumers, Pop(w)
  PROVE  OrderInv'
<1>1. TypeOK /\ PlaceInv
  BY DEF OnceInv
<1>2. /\ Len(queue') = Len(queue) - 1 /\ Len(queue) \in Nat \ {0}
      /\ \A k \in 1..Len(queue') : queue'[k] = queue[k + 1]
      /\ Head(queue) = queue[1]
  BY <1>1, ListSteps
<1>3. \A k \in 1..Len(queue') : k + 1 \in 1..Len(queue) /\ k + 1 > 1 /\ queue'[k] = queue[k + 1]
  BY <1>2
<1>4. \A v \in Consumers : v = w /\ running'[v].id = queue[1]
  BY <1>1, <1>2 DEF Pop, TypeOK, OneConsumer
<1>5. ListOrder'
  <2> SUFFICES ASSUME NEW c \in Clients, NEW m \in 1..MaxRequests, NEW n \in 1..MaxRequests,
                      NEW j \in 1..Len(queue'), NEW k \in 1..Len(queue'),
                      j < k, queue'[j] = <<c, m>>, queue'[k] = <<c, n>>
               PROVE  m < n
    BY DEF ListOrder
  <2>1. j + 1 \in 1..Len(queue) /\ k + 1 \in 1..Len(queue) /\ j + 1 < k + 1
    BY <1>3
  <2>2. queue[j + 1] = <<c, m>> /\ queue[k + 1] = <<c, n>>
    BY <1>3
  <2>3. QED
    BY <2>1, <2>2 DEF OrderInv, ListOrder
<1>6. HeldOrder'
  <2> SUFFICES ASSUME NEW c \in Clients, NEW m \in 1..MaxRequests, NEW n \in 1..MaxRequests,
                      NEW k \in 1..Len(queue'), queue[1] = <<c, m>>, queue'[k] = <<c, n>>
               PROVE  m < n
    BY <1>4 DEF HeldOrder
  <2>1. 1 \in 1..Len(queue) /\ k + 1 \in 1..Len(queue) /\ 1 < k + 1 /\ queue[k + 1] = <<c, n>>
    BY <1>2, <1>3
  <2>2. QED
    BY <2>1 DEF OrderInv, ListOrder
<1>7. executed' = executed /\ lingering' = lingering
  BY DEF Pop
<1>8. RunOrder'
  BY <1>1, <1>7, PopPlaces DEF OrderInv, RunOrder, Begun
<1>9. QED
  BY <1>5, <1>6, <1>8 DEF OrderInv

LEMMA OrderHandle ==
  ASSUME QueueAssumption, OneConsumer, OnceInv, OrderInv, NEW w \in Consumers,
         Handle(w) \/ HandleTimesOut(w)
  PROVE  OrderInv'
<1>1. TypeOK
  BY DEF OnceInv
<1>2. /\ queue' = queue /\ running'[w].id = running[w].id /\ running'[w].answer # None
      /\ running[w].id \in Ids /\ \A v \in Consumers : v = w
  BY <1>1, HeldId DEF Handle, HandleTimesOut, TypeOK, OneConsumer, Idle, None
<1>3. \A i \in Ids : (Begun(i)' => Begun(i)) \/ i = running[w].id
  BY <1>1, <1>2 DEF Handle, HandleTimesOut, Begun, TypeOK
<1>4. ListOrder' /\ HeldOrder'
  BY <1>2 DEF OrderInv, ListOrder, HeldOrder
<1>5. \A i \in Ids : ~Underway(i)'
  BY <1>2 DEF Underway
<1>6. RunOrder'
  <2> SUFFICES ASSUME NEW c \in Clients, NEW m \in 1..MaxRequests, NEW n \in 1..MaxRequests,
                      m < n, Begun(<<c, n>>)'
               PROVE  ~InQueue(<<c, m>>)
    BY <1>2, <1>5 DEF RunOrder, InQueue, Ids
  <2>1. CASE Begun(<<c, n>>)
    BY <2>1 DEF OrderInv, RunOrder
  <2>2. CASE <<c, n>> = running[w].id
    <3>1. \A k \in 1..Len(queue) : queue[k] = <<c, m>> => n < m
      BY <2>2 DEF OrderInv, HeldOrder
    <3>2. QED
      BY <3>1 DEF InQueue, QueueAssumption
  <2>3. <<c, n>> \in Ids
    BY DEF Ids
  <2>4. QED
    BY <1>3, <2>1, <2>2, <2>3
<1>7. QED
  BY <1>4, <1>6 DEF OrderInv

LEMMA OrderSteps ==
  ASSUME QueueAssumption, OneConsumer, OnceInv, OrderInv, [Next]_vars
  PROVE  OrderInv'
<1>1. TypeOK /\ PlaceInv
  BY DEF OnceInv
<1>2. CASE \E c \in Clients : Push(c)
  BY <1>2, OrderPush
<1>3. CASE \E w \in Consumers : Pop(w)
  BY <1>3, OrderPop
<1>4. CASE \E w \in Consumers : Handle(w) \/ HandleTimesOut(w)
  BY <1>4, OrderHandle
<1>5. CASE /\ Next /\ ~(\E c \in Clients : Push(c)) /\ ~(\E w \in Consumers : Pop(w))
           /\ ~(\E w \in Consumers : Handle(w) \/ HandleTimesOut(w))
  <2>1. Quiet
    BY <1>1, <1>5, QuietSteps
  <2>2. ASSUME NEW i \in Ids, Begun(i)' PROVE Begun(i)
    <3>1. CASE \E j \in Ids : Linger(j)
      BY <1>1, <2>2, <3>1 DEF Linger, Begun, TypeOK
    <3>2. CASE executed' = executed /\ lingering' \subseteq lingering
      BY <2>2, <3>2 DEF Begun
    <3>3. QED
      BY <1>5, <3>1, <3>2
         DEF Next, Consume, Request, Poll, Deadline, Post, ExpireResult, Trim, Crash
  <2>3. \A w \in Consumers : running'[w] = running[w] \/ running'[w].id = NoId
    <3>1. CASE \E w \in Consumers : Post(w)
      BY <1>1, <3>1 DEF Post, Idle, TypeOK
    <3>2. CASE Crash
      BY <3>2 DEF Crash, Idle
    <3>3. CASE UNCHANGED running
      BY <3>3
    <3>4. QED
      BY <1>5, <3>1, <3>2, <3>3 DEF Next, Consume, Request, Poll, Deadline, Linger, ExpireResult, Trim
  <2>4. QED
    BY <1>1, <2>1, <2>2, <2>3, OrderKept
<1>6. CASE UNCHANGED vars
  BY <1>6 DEF vars, OrderInv, ListOrder, HeldOrder, RunOrder, InQueue, Underway, Begun
<1>7. QED
  BY <1>2, <1>3, <1>4, <1>5, <1>6

(***************************************************************************)
(* With one consumer, a client's commands begin in the order it sent them, *)
(* also those it gave up waiting for, and whatever a crash or a trim       *)
(* loses.  Two consumers (USE_SHARED_WORKER) can run them the other way.   *)
(***************************************************************************)
THEOREM SessionOrderHolds == ASSUME OneConsumer PROVE Spec => []SessionOrder
<1>1. Init => OrderInv
  BY DEF Init, OrderInv, ListOrder, HeldOrder, RunOrder, Ids, Begun
<1>2. OnceInv /\ OrderInv /\ [Next]_vars => OrderInv'
  BY QueueAssumption, OrderSteps
<1>3. OnceInv /\ OrderInv => SessionOrder
  <2> SUFFICES ASSUME OnceInv, OrderInv PROVE SessionOrder
    OBVIOUS
  <2>1. DOMAIN queue = 1..Len(queue)
    BY DEF OnceInv, TypeOK
  <2>2. QED
    BY <2>1 DEF OrderInv, RunOrder, SessionOrder, Pending, InQueue
<1>4. QED
  BY <1>1, <1>2, <1>3, QueueInvariant, PTL DEF Spec
=============================================================================
