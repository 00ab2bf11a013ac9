------------------------- MODULE PendingTradeProofs -------------------------
(***************************************************************************)
(* Proofs about PendingTrade for any trades, any number of overlapping     *)
(* coroutines, commands, web rejections and crashes.                       *)
(***************************************************************************)
EXTENDS PendingTrade, SequenceTheorems, TLAPS

StageSet == Stages \cup {"idle"}
CoType   == [stage : StageSet, batch : SUBSET Trades]

(***************************************************************************)
(* What has been approved stays on record at every stage of an approval:   *)
(* in the queue and the coroutine that somebody asked, at the order that   *)
(* the approval is committed.                                              *)
(***************************************************************************)
AskedInv ==
  /\ \A i \in DOMAIN queue : queue[i].action = "approve" => queue[i].trade \in asked
  /\ \A c \in Slots : co[c].stage \in {"approving", "approve", "place"} => co[c].batch \subseteq asked

RecordInv ==
  \A c \in Slots, t \in Trades :
    co[c].stage = "place" /\ t \in co[c].batch =>
      t \in approvedAt /\ <<"SIGNAL_APPROVED", t>> \in audit

ApprovalInv == TypeOK /\ AskedInv /\ RecordInv /\ OrderNeedsApproval

-----------------------------------------------------------------------------
(* Type correctness. *)

LEMMA PendingInitTypes == ASSUME PendingAssumption, Init PROVE TypeOK
BY DEF Init, TypeOK, PendingAssumption, Statuses, Idle, NoSlot

\* Marking rows keeps the column well typed.
LEMMA MarkType ==
  ASSUME TypeOK, NEW batch \in SUBSET Trades, NEW new \in Statuses
  PROVE  Mark(batch, new) \in [Trades -> Statuses]
BY DEF TypeOK, Mark

\* The coroutines stay well typed wherever one of them goes.
LEMMA CoTypes ==
  ASSUME TypeOK, NEW c \in Slots, NEW stage \in StageSet, NEW batch \in SUBSET Trades
  PROVE  /\ Begin(c, stage, batch) => co' \in [Slots -> CoType] /\ waiting' \in Slots \cup {NoSlot}
         /\ GoTo(c, stage, batch) => co' \in [Slots -> CoType] /\ waiting' \in Slots \cup {NoSlot}
         /\ Finish(c) => co' \in [Slots -> CoType] /\ waiting' \in Slots \cup {NoSlot}
<1>1. co \in [Slots -> CoType] /\ waiting \in Slots \cup {NoSlot}
  BY DEF TypeOK, CoType, StageSet
<1>2. [stage |-> stage, batch |-> batch] \in CoType
  BY DEF CoType
<1>3. Idle \in CoType
  BY DEF Idle, CoType, StageSet
<1>4. Begin(c, stage, batch) => co' \in [Slots -> CoType] /\ waiting' \in Slots \cup {NoSlot}
  BY <1>1, <1>2 DEF Begin
<1>5. GoTo(c, stage, batch) => co' \in [Slots -> CoType] /\ waiting' \in Slots \cup {NoSlot}
  BY <1>1, <1>2 DEF GoTo
<1>6. Finish(c) => co' \in [Slots -> CoType] /\ waiting' \in Slots \cup {NoSlot}
  BY <1>1, <1>3 DEF Finish
<1>7. QED
  BY <1>4, <1>5, <1>6

LEMMA PendingTypes ==
  ASSUME PendingAssumption, TypeOK, [Next]_vars
  PROVE  TypeOK'
<1>0. /\ Slots \cup {NoSlot} # {} /\ co \in [Slots -> CoType]
      /\ {"approving", "rejecting", "expiring", "approve", "place", "reject", "expire",
          "expire_one", "idle"} \subseteq StageSet
      /\ Statuses = {"none", "WAITING", "APPROVED", "REJECTED", "EXPIRED"}
  BY DEF TypeOK, CoType, StageSet, Stages, Statuses
<1> DEFINE TableOK == status \in [Trades -> Statuses] /\ due \subseteq Trades
                      /\ approvedAt \subseteq Trades
                      /\ audit \subseteq Events \X Trades /\ flushed \subseteq Events \X Trades
           RestOK  == orders \in [Trades -> Nat] /\ queue \in Seq(Commands)
                      /\ asked \subseteq Trades /\ overlapped \subseteq Trades /\ sent \in 0..MaxCommands
                      /\ webRejects \in 0..MaxWebRejects /\ crashes \in 0..MaxCrashes
           WorkOK  == waiting \in Slots \cup {NoSlot} /\ co \in [Slots -> CoType]
<1>1. TypeOK <=> TableOK /\ RestOK /\ WorkOK
  BY DEF TypeOK, CoType, StageSet
<1>2. TypeOK' <=> TableOK' /\ RestOK' /\ WorkOK'
  BY DEF TypeOK, CoType, StageSet
<1>3. UNCHANGED table => TableOK'
  BY <1>1 DEF table
<1>4. UNCHANGED <<orders, queue, history, bounds>> => RestOK'
  BY <1>1 DEF bounds, history
<1>5. UNCHANGED worker => WorkOK'
  BY <1>1 DEF worker
<1>6. ASSUME NEW t \in Trades, Propose(t) \/ Elapse(t) PROVE TypeOK'
  <2>1. TableOK'
    <3>1. Mark({t}, "WAITING") \in [Trades -> Statuses]
      BY MarkType, <1>0
    <3>2. Propose(t) => TableOK'
      <4>1. <<"SIGNAL_GENERATED", t>> \in Events \X Trades
        BY DEF Events
      <4>2. QED
        BY <1>1, <3>1, <4>1 DEF Propose
    <3>3. Elapse(t) => TableOK'
      BY <1>1 DEF Elapse
    <3>4. QED
      BY <1>6, <3>2, <3>3
  <2>2. QED
    BY <1>2, <1>4, <1>5, <1>6, <2>1 DEF Propose, Elapse
<1>7. ASSUME NEW t \in Trades, User(t) PROVE TypeOK'
  <2>1. ASSUME NEW channel, AskApprove(t, channel) PROVE TypeOK'
    <3>1. [action |-> "approve", trade |-> t] \in Commands
      BY DEF Commands
    <3>2. queue' \in Seq(Commands)
      BY <1>1, <2>1, <3>1 DEF AskApprove
    <3>3. RestOK'
      BY <1>1, <2>1, <3>2 DEF AskApprove, PendingAssumption
    <3>4. QED
      BY <1>2, <1>3, <1>5, <2>1, <3>3 DEF AskApprove
  <2>2. ASSUME AskReject(t) PROVE TypeOK'
    <3>1. [action |-> "reject", trade |-> t] \in Commands
      BY DEF Commands
    <3>2. queue' \in Seq(Commands)
      BY <1>1, <2>2, <3>1 DEF AskReject
    <3>3. RestOK'
      BY <1>1, <2>2, <3>2 DEF history, AskReject, PendingAssumption
    <3>4. QED
      BY <1>2, <1>3, <1>5, <2>2, <3>3 DEF AskReject
  <2>3. ASSUME WebReject(t) PROVE TypeOK'
    <3>1. Mark({t}, "REJECTED") \in [Trades -> Statuses]
      BY MarkType, <1>0
    <3>2. TableOK'
      BY <1>1, <2>3, <3>1 DEF WebReject
    <3>3. RestOK'
      BY <1>1, <2>3 DEF history, WebReject, PendingAssumption
    <3>4. QED
      BY <1>2, <1>5, <2>3, <3>2, <3>3 DEF WebReject
  <2>4. QED
    BY <1>7, <2>1, <2>2, <2>3 DEF User
<1>8. ASSUME NEW row \in flushed, CloseSession(row) PROVE TypeOK'
  <2>1. TableOK'
    BY <1>1, <1>8 DEF CloseSession
  <2>2. QED
    BY <1>2, <1>4, <1>5, <1>8, <2>1 DEF CloseSession
<1>9. ASSUME NEW c \in Slots, Pop(c) PROVE TypeOK'
  <2>1. Head(queue) \in Commands /\ Tail(queue) \in Seq(Commands)
    BY <1>1, <1>9, HeadTailProperties DEF Pop
  <2>2. {Head(queue).trade} \in SUBSET Trades
    BY <2>1 DEF Commands
  <2>3. RestOK' /\ UNCHANGED table
    BY <1>1, <1>9, <2>1 DEF history, Pop, bounds
  <2>4. \E stage \in {"approving", "rejecting"} : Begin(c, stage, {Head(queue).trade})
    BY <1>9 DEF Pop
  <2>5. WorkOK'
    BY <2>2, <2>4, <1>0, CoTypes
  <2>6. QED
    BY <1>2, <1>3, <2>3, <2>5
<1>10. ASSUME NEW c \in Slots, Sweep(c) PROVE TypeOK'
  <2>1. WorkOK'
    BY <1>0, <1>10, CoTypes DEF Sweep
  <2>2. QED
    BY <1>2, <1>3, <1>4, <1>10, <2>1 DEF Sweep
<1>11. ASSUME NEW c \in Slots, Coroutine(c) PROVE TypeOK'
  <2>0. co[c].batch \in SUBSET Trades
    BY <1>0 DEF CoType
  <2>1. CASE ApproveSelect(c)
    <3>1. \E t \in Trades : Finish(c) \/ GoTo(c, "expire_one", {t}) \/ GoTo(c, "approve", {t})
      BY <2>0, <2>1 DEF ApproveSelect
    <3>2. WorkOK'
      BY <3>1, <1>0, <2>0, CoTypes
    <3>3. overlapped' \subseteq Trades
      BY <1>1, <2>0, <2>1 DEF ApproveSelect
    <3>4. RestOK'
      BY <1>1, <2>1, <3>3 DEF ApproveSelect, bounds
    <3>5. QED
      BY <1>2, <1>3, <2>1, <3>2, <3>4 DEF ApproveSelect
  <2>2. CASE ExpireOnApprove(c)
    <3>1. Mark(co[c].batch, "EXPIRED") \in [Trades -> Statuses]
      BY MarkType, <1>0, <2>0
    <3>2. TableOK'
      BY <1>1, <2>0, <2>2, <3>1 DEF ExpireOnApprove, Events
    <3>3. WorkOK'
      BY <1>0, <2>0, <2>2, CoTypes DEF ExpireOnApprove
    <3>4. QED
      BY <1>2, <1>4, <2>2, <3>2, <3>3 DEF ExpireOnApprove
  <2>3. CASE ApproveCommit(c)
    <3>1. Mark(co[c].batch, "APPROVED") \in [Trades -> Statuses]
      BY MarkType, <1>0, <2>0
    <3>2. TableOK'
      BY <1>1, <2>0, <2>3, <3>1 DEF ApproveCommit, Events
    <3>3. WorkOK'
      BY <1>0, <2>0, <2>3, CoTypes DEF ApproveCommit
    <3>4. QED
      BY <1>2, <1>4, <2>3, <3>2, <3>3 DEF ApproveCommit
  <2>4. CASE Place(c)
    <3>1. WorkOK'
      BY <1>0, <2>0, <2>4, CoTypes DEF Place
    <3>2. orders' \in [Trades -> Nat] /\ flushed' \subseteq Events \X Trades
      BY <1>1, <2>0, <2>4 DEF Place, Events
    <3>3. QED
      BY <1>1, <1>2, <2>4, <3>1, <3>2 DEF history, Place, bounds
  <2>5. CASE RejectSelect(c)
    <3>1. \E t \in Trades : Finish(c) \/ GoTo(c, "reject", {t})
      BY <2>0, <2>5 DEF RejectSelect
    <3>2. WorkOK'
      BY <3>1, <1>0, <2>0, CoTypes
    <3>3. QED
      BY <1>2, <1>3, <1>4, <2>5, <3>2 DEF RejectSelect
  <2>6. CASE RejectCommit(c)
    <3>1. Mark(co[c].batch, "REJECTED") \in [Trades -> Statuses]
      BY MarkType, <1>0, <2>0
    <3>2. TableOK'
      BY <1>1, <2>0, <2>6, <3>1 DEF RejectCommit, Events
    <3>3. WorkOK'
      BY <1>0, <2>0, <2>6, CoTypes DEF RejectCommit
    <3>4. QED
      BY <1>2, <1>4, <2>6, <3>2, <3>3 DEF RejectCommit
  <2>7. CASE ExpireSelect(c)
    <3>1. Stale \in SUBSET Trades
      BY <1>1 DEF Stale
    <3>2. WorkOK'
      BY <3>1, <1>0, <2>7, CoTypes DEF ExpireSelect
    <3>3. QED
      BY <1>2, <1>3, <1>4, <2>7, <3>2 DEF ExpireSelect
  <2>8. CASE ExpireCommit(c)
    <3>1. Mark(co[c].batch, "EXPIRED") \in [Trades -> Statuses]
      BY MarkType, <1>0, <2>0
    <3>2. TableOK'
      BY <1>1, <2>0, <2>8, <3>1 DEF ExpireCommit, Events
    <3>3. WorkOK'
      BY <1>0, <2>0, <2>8, CoTypes DEF ExpireCommit
    <3>4. QED
      BY <1>2, <1>4, <2>8, <3>2, <3>3 DEF ExpireCommit
  <2>9. QED
    BY <1>11, <2>1, <2>2, <2>3, <2>4, <2>5, <2>6, <2>7, <2>8 DEF Coroutine
<1>12. CASE GiveUp
  BY <1>1, <1>2, <1>3, <1>4, <1>12 DEF GiveUp
<1>13. CASE Crash
  <2>1. co' \in [Slots -> CoType]
    BY <1>13 DEF Crash, Idle, CoType, StageSet
  <2>2. QED
    BY <1>1, <1>2, <1>13, <2>1 DEF history, Crash, PendingAssumption
<1>14. CASE UNCHANGED vars
  BY <1>2, <1>3, <1>4, <1>5, <1>14 DEF vars
<1>15. QED
  BY <1>6, <1>7, <1>8, <1>9, <1>10, <1>11, <1>12, <1>13, <1>14 DEF Next

-----------------------------------------------------------------------------
(* Approval on record. *)

\* The rows of a one-event audit batch.
LEMMA AuditRows ==
  ASSUME NEW event, NEW batch, NEW t
  PROVE  <<event, t>> \in {event} \X batch <=> t \in batch
OBVIOUS

LEMMA AskedSteps ==
  ASSUME PendingAssumption, TypeOK, AskedInv, Next
  PROVE  AskedInv'
<1>0. /\ co \in [Slots -> CoType] /\ queue \in Seq(Commands)
      /\ \A i \in DOMAIN queue : queue[i].action = "approve" => queue[i].trade \in asked
      /\ \A c \in Slots : co[c].stage \in {"approving", "approve", "place"}
                          => co[c].batch \subseteq asked
  BY DEF TypeOK, CoType, StageSet, AskedInv
<1>1. UNCHANGED <<queue, asked, co>> => AskedInv'
  BY DEF AskedInv
<1>2. ASSUME NEW c \in Slots, NEW stage, NEW batch, UNCHANGED <<queue, asked>>,
             \/ Finish(c)
             \/ /\ Begin(c, stage, batch) \/ GoTo(c, stage, batch)
                /\ stage \in {"approving", "approve", "place"} => batch \subseteq asked
      PROVE  AskedInv'
  BY <1>0, <1>2 DEF AskedInv, CoType, Begin, GoTo, Finish, Idle
<1>3. ASSUME NEW t \in Trades, Propose(t) \/ Elapse(t) \/ WebReject(t) PROVE AskedInv'
  BY <1>1, <1>3 DEF history, Propose, Elapse, WebReject, worker
<1>4. ASSUME NEW t \in Trades, NEW cmd \in Commands, queue' = Append(queue, cmd),
             asked \subseteq asked', cmd.action = "approve" => cmd.trade \in asked', UNCHANGED co
      PROVE  AskedInv'
  BY <1>0, <1>4 DEF AskedInv
<1>5. ASSUME NEW t \in Trades, NEW channel, AskApprove(t, channel) PROVE AskedInv'
  BY <1>4, <1>5 DEF AskApprove, Commands, worker
<1>6. ASSUME NEW t \in Trades, AskReject(t) PROVE AskedInv'
  BY <1>4, <1>6 DEF history, AskReject, Commands, worker
<1>7. ASSUME NEW row \in flushed, CloseSession(row) PROVE AskedInv'
  BY <1>1, <1>7 DEF history, CloseSession, worker
<1>8. ASSUME NEW c \in Slots, Pop(c) PROVE AskedInv'
  <2>1. /\ Head(queue) = queue[1] /\ 1 \in DOMAIN queue
        /\ DOMAIN Tail(queue) = 1..(Len(queue) - 1)
        /\ \A i \in 1..(Len(queue) - 1) : Tail(queue)[i] = queue[i + 1] /\ i + 1 \in DOMAIN queue
    BY <1>0, <1>8, HeadTailProperties DEF Pop
  <2>2. \A i \in DOMAIN queue' : queue'[i].action = "approve" => queue'[i].trade \in asked'
    BY <1>0, <1>8, <2>1 DEF history, Pop
  <2>3. PICK stage : /\ Begin(c, stage, {Head(queue).trade})
                     /\ stage = IF Head(queue).action = "approve" THEN "approving" ELSE "rejecting"
    BY <1>8 DEF Pop
  <2>4. stage \in {"approving", "approve", "place"} => Head(queue).trade \in asked
    BY <1>0, <2>1, <2>3
  <2>5. UNCHANGED asked
    BY <1>8 DEF history, Pop
  <2>6. QED
    BY <1>0, <2>2, <2>3, <2>4, <2>5 DEF AskedInv, CoType, Begin
<1>9. ASSUME NEW c \in Slots, Sweep(c) PROVE AskedInv'
  BY <1>2, <1>9 DEF history, Sweep
<1>10. ASSUME NEW c \in Slots, Coroutine(c) PROVE AskedInv'
  <2>1. CASE ApproveSelect(c)
    <3>1. \A t \in co[c].batch : t \in asked
      BY <1>0, <2>1 DEF ApproveSelect, At
    <3>2. QED
      BY <1>2, <2>1, <3>1 DEF ApproveSelect
  <2>2. CASE ApproveCommit(c)
    BY <1>0, <1>2, <2>2 DEF history, ApproveCommit, At
  <2>3. CASE RejectSelect(c) \/ ExpireSelect(c)
    <3>1. \/ Finish(c)
          \/ \E stage \in {"reject", "expire"} : \E batch : GoTo(c, stage, batch)
      BY <2>3 DEF RejectSelect, ExpireSelect
    <3>2. UNCHANGED <<queue, asked>>
      BY <2>3 DEF history, RejectSelect, ExpireSelect
    <3>3. QED
      BY <1>2, <3>1, <3>2
  <2>4. CASE ExpireOnApprove(c) \/ Place(c) \/ RejectCommit(c) \/ ExpireCommit(c)
    BY <1>2, <2>4 DEF history, ExpireOnApprove, Place, RejectCommit, ExpireCommit
  <2>5. QED
    BY <1>10, <2>1, <2>2, <2>3, <2>4 DEF Coroutine
<1>11. CASE GiveUp
  BY <1>1, <1>11 DEF history, GiveUp
<1>12. CASE Crash
  BY <1>0, <1>12 DEF history, Crash, AskedInv, Idle
<1>13. QED
  BY <1>3, <1>5, <1>6, <1>7, <1>8, <1>9, <1>10, <1>11, <1>12 DEF Next, User

\* Records are only added, and only ApproveCommit sends a coroutine to its order.
LEMMA RecordSteps ==
  ASSUME PendingAssumption, TypeOK, RecordInv, Next
  PROVE  RecordInv'
<1>0. co \in [Slots -> CoType]
  BY DEF TypeOK, CoType, StageSet
<1>1. ASSUME approvedAt \subseteq approvedAt', audit \subseteq audit',
             \A c \in Slots : co'[c].stage = "place" => co'[c] = co[c]
      PROVE  RecordInv'
  BY <1>1 DEF RecordInv
<1>2. ASSUME NEW c \in Slots, NEW stage, NEW batch, stage # "place",
             Begin(c, stage, batch) \/ GoTo(c, stage, batch) \/ Finish(c)
      PROVE  \A d \in Slots : co'[d].stage = "place" => co'[d] = co[d]
  BY <1>0, <1>2 DEF Begin, GoTo, Finish, Idle
<1>3. ASSUME NEW t \in Trades, Propose(t) \/ Elapse(t) \/ User(t) PROVE RecordInv'
  BY <1>1, <1>3 DEF Propose, Elapse, User, AskApprove, AskReject, WebReject, worker, table
<1>4. ASSUME NEW row \in flushed, CloseSession(row) PROVE RecordInv'
  BY <1>1, <1>4 DEF CloseSession, worker
<1>5. ASSUME NEW c \in Slots, Pop(c) \/ Sweep(c) PROVE RecordInv'
  <2>1. UNCHANGED table
    BY <1>5 DEF Pop, Sweep
  <2>2. \E stage \in {"approving", "rejecting", "expiring"}, batch \in {{Head(queue).trade}, {}} :
           Begin(c, stage, batch)
    BY <1>5 DEF Pop, Sweep
  <2>3. QED
    BY <1>1, <1>2, <2>1, <2>2 DEF table
<1>6. ASSUME NEW c \in Slots, Coroutine(c) PROVE RecordInv'
  <2>1. CASE ApproveCommit(c)
    <3>1. /\ approvedAt' = approvedAt \cup co[c].batch
          /\ audit' = audit \cup ({"SIGNAL_APPROVED"} \X co[c].batch)
          /\ co'[c].batch = co[c].batch
          /\ \A d \in Slots : d # c => co'[d] = co[d]
      BY <1>0, <2>1 DEF ApproveCommit, GoTo
    <3>2. QED
      BY <3>1, AuditRows DEF RecordInv
  <2>2. CASE ApproveSelect(c) \/ RejectSelect(c) \/ ExpireSelect(c)
    <3>1. UNCHANGED table
      BY <2>2 DEF ApproveSelect, RejectSelect, ExpireSelect
    <3>2. \/ Finish(c)
          \/ \E stage \in {"expire_one", "approve", "reject", "expire"}, batch \in SUBSET Trades :
                GoTo(c, stage, batch)
      <4>1. co[c].batch \subseteq Trades /\ Stale \subseteq Trades
        BY <1>0 DEF CoType, Stale, TypeOK
      <4>2. QED
        BY <2>2, <4>1 DEF ApproveSelect, RejectSelect, ExpireSelect
    <3>3. \A d \in Slots : co'[d].stage = "place" => co'[d] = co[d]
      BY <1>2, <3>2
    <3>4. QED
      BY <1>1, <3>1, <3>3 DEF table
  <2>3. CASE ExpireOnApprove(c) \/ Place(c) \/ RejectCommit(c) \/ ExpireCommit(c)
    <3>1. Finish(c) /\ approvedAt' = approvedAt /\ audit \subseteq audit'
      BY <2>3 DEF ExpireOnApprove, Place, RejectCommit, ExpireCommit
    <3>2. QED
      BY <1>1, <1>2, <3>1
  <2>4. QED
    BY <1>6, <2>1, <2>2, <2>3 DEF Coroutine
<1>7. CASE GiveUp
  BY <1>1, <1>7 DEF GiveUp, table
<1>8. CASE Crash
  BY <1>0, <1>8 DEF Crash, Idle, RecordInv
<1>9. QED
  BY <1>3, <1>4, <1>5, <1>6, <1>7, <1>8 DEF Next

\* Orders come from Place alone; what OrderNeedsApproval asks is only added to.
LEMMA OrderSteps ==
  ASSUME PendingAssumption, ApprovalInv, Next
  PROVE  OrderNeedsApproval'
<1>1. ASSUME UNCHANGED orders, asked \subseteq asked', approvedAt \subseteq approvedAt',
             audit \subseteq audit'
      PROVE  OrderNeedsApproval'
  BY <1>1 DEF ApprovalInv, OrderNeedsApproval
<1>2. ASSUME NEW c \in Slots, Place(c) PROVE OrderNeedsApproval'
  <2>1. PICK t \in co[c].batch : orders' = [orders EXCEPT ![t] = @ + 1] \/ orders' = orders
    BY <1>2 DEF Place
  <2>2. t \in Trades /\ co[c].stage = "place" /\ UNCHANGED <<asked, approvedAt, audit>>
    BY <1>2 DEF history, Place, At, ApprovalInv, TypeOK
  <2>3. t \in asked /\ t \in approvedAt /\ <<"SIGNAL_APPROVED", t>> \in audit
    BY <2>2 DEF ApprovalInv, AskedInv, RecordInv
  <2>4. QED
    BY <2>1, <2>2, <2>3 DEF ApprovalInv, TypeOK, OrderNeedsApproval
<1>3. ASSUME NEW c \in Slots, Coroutine(c), ~Place(c) PROVE OrderNeedsApproval'
  BY <1>1, <1>3 DEF history, Coroutine, ApproveSelect, ExpireOnApprove, ApproveCommit, RejectSelect,
                    RejectCommit, ExpireSelect, ExpireCommit, table
<1>4. ASSUME NEW t \in Trades, Propose(t) \/ Elapse(t) \/ User(t) PROVE OrderNeedsApproval'
  BY <1>1, <1>4 DEF history, Propose, Elapse, User, AskApprove, AskReject, WebReject, table
<1>5. ASSUME NEW c \in Slots, Pop(c) \/ Sweep(c) PROVE OrderNeedsApproval'
  BY <1>1, <1>5 DEF history, Pop, Sweep, table
<1>6. ASSUME NEW row \in flushed, CloseSession(row) PROVE OrderNeedsApproval'
  BY <1>1, <1>6 DEF history, CloseSession
<1>7. CASE GiveUp \/ Crash
  BY <1>1, <1>7 DEF history, GiveUp, Crash, table
<1>8. QED
  BY <1>2, <1>3, <1>4, <1>5, <1>6, <1>7 DEF Next

LEMMA ApprovalInit == ASSUME PendingAssumption, Init PROVE ApprovalInv
<1>1. AskedInv /\ RecordInv /\ OrderNeedsApproval
  BY DEF Init, Idle, AskedInv, RecordInv, OrderNeedsApproval
<1>2. QED
  BY <1>1, PendingInitTypes DEF ApprovalInv

LEMMA ApprovalStep ==
  ASSUME PendingAssumption, ApprovalInv, [Next]_vars
  PROVE  ApprovalInv'
<1>1. TypeOK'
  BY PendingTypes DEF ApprovalInv
<1>2. CASE Next
  BY <1>1, <1>2, AskedSteps, RecordSteps, OrderSteps DEF ApprovalInv
<1>3. CASE UNCHANGED vars
  BY <1>1, <1>3 DEF history, vars, table, worker, ApprovalInv, AskedInv, RecordInv, OrderNeedsApproval
<1>4. QED
  BY <1>2, <1>3

\* ApprovalInv is an invariant, whatever times out, crashes or is rejected meanwhile.
THEOREM ApprovalInvariant == PendingAssumption => (Spec => []ApprovalInv)
<1>1. PendingAssumption /\ Init => ApprovalInv
  BY ApprovalInit
<1>2. PendingAssumption /\ ApprovalInv /\ [Next]_vars => ApprovalInv'
  BY ApprovalStep
<1>3. QED
  BY <1>1, <1>2, PendingAssumption, PTL DEF Spec

\* The workflow's state stays well formed.
THEOREM PendingTypeCorrect == Spec => []TypeOK
<1>1. ApprovalInv => TypeOK
  BY DEF ApprovalInv
<1>2. QED
  BY <1>1, ApprovalInvariant, PendingAssumption, PTL

(***************************************************************************)
(* No order without an approval somebody asked for and that is committed   *)
(* in the table and in the audit log.                                      *)
(***************************************************************************)
THEOREM OrderNeedsApprovalHolds == Spec => []OrderNeedsApproval
<1>1. ApprovalInv => OrderNeedsApproval
  BY DEF ApprovalInv
<1>2. QED
  BY <1>1, ApprovalInvariant, PendingAssumption, PTL

-----------------------------------------------------------------------------
(***************************************************************************)
(* Orders of one trade.  A trade that was ordered, or is about to be, does *)
(* not wait any more, and never again, so no further approval of it passes *)
(* the status check; and while no second approval was begun with the first *)
(* under way, the one under way is the only one and nothing is ordered yet. *)
(***************************************************************************)
Undecided == {"none", "WAITING"}

DecidedInv ==
  /\ \A t \in Trades : orders[t] > 0 => status[t] \notin Undecided
  /\ \A c \in Slots : co[c].stage = "place" => \A t \in co[c].batch : status[t] \notin Undecided

AloneInv ==
  \A t \in Trades \ overlapped :
    /\ orders[t] <= 1
    /\ \A c \in InFlight(t) : orders[t] = 0 /\ InFlight(t) = {c}

OverlapInv == TypeOK /\ DecidedInv /\ AloneInv

\* What the type invariant says of the table and the coroutines.
LEMMA CoroutineType ==
  ASSUME TypeOK
  PROVE  /\ co \in [Slots -> CoType]
         /\ \A c \in Slots : co[c].batch \subseteq Trades
         /\ orders \in [Trades -> Nat] /\ status \in [Trades -> Statuses]
         /\ Stale \subseteq Trades
BY DEF TypeOK, CoType, StageSet, Stale

\* A step that places nothing and brings no approval past its check.
LEMMA QuietSteps ==
  ASSUME OverlapInv, UNCHANGED <<orders, overlapped>>,
         \A t \in Trades : InFlight(t)' \subseteq InFlight(t),
         \A c \in Slots : co'[c].stage = "place" => co'[c] = co[c],
         \A t \in Trades : status'[t] # status[t] => \/ status'[t] \notin Undecided
                                                   \/ status[t] = "none"
  PROVE  DecidedInv' /\ AloneInv'
<1>0. \A c \in Slots : co[c].batch \subseteq Trades
  BY CoroutineType DEF OverlapInv
<1>1. ASSUME NEW t \in Trades, status[t] \notin Undecided PROVE status'[t] \notin Undecided
  BY <1>1 DEF Undecided
<1>2. DecidedInv'
  BY <1>0, <1>1 DEF OverlapInv, DecidedInv
<1>3. AloneInv'
  BY DEF OverlapInv, AloneInv
<1>4. QED
  BY <1>2, <1>3

\* Where a coroutine may go without passing the check of an approval.
LEMMA LeavesFlight ==
  ASSUME TypeOK, NEW c \in Slots, NEW stage, NEW batch, stage \notin {"approve", "place"},
         Begin(c, stage, batch) \/ GoTo(c, stage, batch) \/ Finish(c)
  PROVE  /\ \A t \in Trades : InFlight(t)' \subseteq InFlight(t) \ {c}
         /\ \A d \in Slots : co'[d].stage = "place" => co'[d] = co[d]
<1>1. \E to : to.stage \notin {"approve", "place"} /\ co' = [co EXCEPT ![c] = to]
  BY DEF Begin, GoTo, Finish, Idle
<1>2. PICK to : to.stage \notin {"approve", "place"} /\ co' = [co EXCEPT ![c] = to]
  BY <1>1
<1>3. co'[c] = to /\ \A d \in Slots \ {c} : co'[d] = co[d]
  BY <1>2, CoroutineType
<1>4. QED
  BY <1>2, <1>3 DEF InFlight

LEMMA CoroutineSteps ==
  ASSUME OverlapInv, NEW c \in Slots, Coroutine(c)
  PROVE  DecidedInv' /\ AloneInv'
<1>0. /\ TypeOK /\ co \in [Slots -> CoType] /\ co[c].batch \subseteq Trades
      /\ orders \in [Trades -> Nat] /\ status \in [Trades -> Statuses] /\ Stale \subseteq Trades
  BY CoroutineType DEF OverlapInv
<1>1. ASSUME NEW stage, NEW batch, stage \notin {"approve", "place"},
             Begin(c, stage, batch) \/ GoTo(c, stage, batch) \/ Finish(c),
             UNCHANGED <<orders, overlapped>>,
             \/ UNCHANGED status
             \/ \E new \in {"REJECTED", "EXPIRED"} : status' = Mark(co[c].batch, new)
      PROVE  DecidedInv' /\ AloneInv'
  <2>1. \A t \in Trades : status'[t] # status[t] => status'[t] \notin Undecided
    BY <1>1 DEF Mark, Undecided
  <2>2. /\ \A t \in Trades : InFlight(t)' \subseteq InFlight(t)
        /\ \A d \in Slots : co'[d].stage = "place" => co'[d] = co[d]
    BY <1>0, <1>1, LeavesFlight
  <2>3. QED
    BY <1>1, <2>1, <2>2, QuietSteps
<1>2. CASE ApproveSelect(c)
  <2>1. PICK t \in co[c].batch :
          \/ ~StillWaiting(t) /\ Finish(c) /\ UNCHANGED overlapped
          \/ StillWaiting(t) /\ t \in due /\ GoTo(c, "expire_one", {t}) /\ UNCHANGED overlapped
          \/ /\ StillWaiting(t) /\ t \notin due /\ GoTo(c, "approve", {t})
             /\ overlapped' = overlapped \cup (IF InFlight(t) = {} THEN {} ELSE {t})
    BY <1>2 DEF ApproveSelect
  <2>2. UNCHANGED <<orders, status>>
    BY <1>2 DEF ApproveSelect, table
  <2>3. CASE UNCHANGED overlapped /\ (Finish(c) \/ GoTo(c, "expire_one", {t}))
    BY <1>1, <2>2, <2>3
  <2>4. CASE /\ StillWaiting(t) /\ GoTo(c, "approve", {t})
             /\ overlapped' = overlapped \cup (IF InFlight(t) = {} THEN {} ELSE {t})
    <3>1. /\ t \in Trades /\ orders[t] = 0
          /\ co'[c] = [stage |-> "approve", batch |-> {t}]
          /\ \A d \in Slots \ {c} : co'[d] = co[d]
      BY <1>0, <2>4 DEF OverlapInv, DecidedInv, StillWaiting, IsWaiting, Undecided, GoTo
    <3>2. DecidedInv'
      BY <2>2, <3>1 DEF OverlapInv, DecidedInv
    <3>3. /\ \A u \in Trades \ {t} : InFlight(u)' \subseteq InFlight(u)
          /\ InFlight(t)' = InFlight(t) \cup {c}
      BY <3>1 DEF InFlight
    <3>4. AloneInv'
      BY <2>2, <2>4, <3>1, <3>3 DEF OverlapInv, AloneInv
    <3>5. QED
      BY <3>2, <3>4
  <2>5. QED
    BY <2>1, <2>3, <2>4
<1>3. CASE ApproveCommit(c)
  <2>1. /\ status' = Mark(co[c].batch, "APPROVED") /\ UNCHANGED <<orders, overlapped>>
        /\ co[c].stage = "approve" /\ co'[c] = [stage |-> "place", batch |-> co[c].batch]
        /\ \A d \in Slots \ {c} : co'[d] = co[d]
    BY <1>0, <1>3 DEF ApproveCommit, GoTo, At, history
  <2>2. \A t \in Trades : InFlight(t)' = InFlight(t)
    BY <2>1 DEF InFlight
  <2>3. /\ \A t \in Trades : status'[t] # status[t] => status'[t] \notin Undecided
        /\ \A t \in co[c].batch : status'[t] \notin Undecided
    BY <1>0, <2>1 DEF Mark, Undecided
  <2>4. DecidedInv'
    <3>1. \A t \in Trades : status[t] \notin Undecided => status'[t] \notin Undecided
      BY <2>3
    <3>2. \A d \in Slots : co[d].batch \subseteq Trades
      BY <1>0, CoroutineType
    <3>3. QED
      BY <2>1, <2>3, <3>1, <3>2 DEF OverlapInv, DecidedInv
  <2>5. AloneInv'
    BY <2>1, <2>2 DEF OverlapInv, AloneInv
  <2>6. QED
    BY <2>4, <2>5
<1>4. CASE Place(c)
  <2>1. PICK t \in co[c].batch : orders' = [orders EXCEPT ![t] = @ + 1] \/ orders' = orders
    BY <1>4 DEF Place
  <2>2. /\ t \in Trades /\ status[t] \notin Undecided /\ c \in InFlight(t)
        /\ Finish(c) /\ UNCHANGED <<status, overlapped>>
    BY <1>0, <1>4, <2>1 DEF Place, At, OverlapInv, DecidedInv, InFlight, history
  <2>3. /\ \A u \in Trades : InFlight(u)' \subseteq InFlight(u) \ {c}
        /\ \A d \in Slots : co'[d].stage = "place" => co'[d] = co[d]
    <3>1. "idle" \notin {"approve", "place"}
      OBVIOUS
    <3>2. QED
      BY <1>0, <2>2, <3>1, LeavesFlight
  <2>4. CASE orders' = orders
    <3>1. \A u \in Trades : InFlight(u)' \subseteq InFlight(u) /\ status'[u] = status[u]
      BY <2>2, <2>3
    <3>2. QED
      BY <2>2, <2>3, <2>4, <3>1, QuietSteps
  <2>5. CASE orders' = [orders EXCEPT ![t] = @ + 1]
    <3>1. DecidedInv'
      BY <1>0, <2>2, <2>3, <2>5 DEF OverlapInv, DecidedInv
    <3>2. ASSUME NEW u \in Trades \ overlapped
          PROVE  orders'[u] <= 1 /\ \A d \in InFlight(u)' : orders'[u] = 0 /\ InFlight(u)' = {d}
      <4>1. CASE u = t
        <5>1. InFlight(t) = {c} /\ orders[t] = 0
          BY <2>2, <3>2, <4>1 DEF OverlapInv, AloneInv
        <5>2. InFlight(t)' = {} /\ orders'[t] = 1
          BY <1>0, <2>2, <2>3, <2>5, <5>1
        <5>3. QED
          BY <4>1, <5>2
      <4>2. CASE u # t
        <5>1. orders'[u] = orders[u] /\ InFlight(u)' \subseteq InFlight(u)
          BY <1>0, <2>3, <2>5, <4>2
        <5>2. QED
          BY <3>2, <5>1 DEF OverlapInv, AloneInv
      <4>3. QED
        BY <4>1, <4>2
    <3>3. AloneInv'
      BY <2>2, <3>2 DEF AloneInv
    <3>4. QED
      BY <3>1, <3>3
  <2>6. QED
    BY <2>1, <2>4, <2>5
<1>5. CASE RejectSelect(c) \/ ExpireSelect(c)
  <2>1. Finish(c) \/ \E stage \in {"reject", "expire"} : \E batch : GoTo(c, stage, batch)
    BY <1>5 DEF RejectSelect, ExpireSelect
  <2>2. UNCHANGED <<orders, overlapped, status>>
    BY <1>5 DEF RejectSelect, ExpireSelect, table, history
  <2>3. QED
    BY <1>1, <2>1, <2>2
<1>6. CASE ExpireOnApprove(c) \/ RejectCommit(c) \/ ExpireCommit(c)
  <2>1. \E new \in {"REJECTED", "EXPIRED"} : status' = Mark(co[c].batch, new)
    BY <1>6 DEF ExpireOnApprove, RejectCommit, ExpireCommit
  <2>2. Finish(c) /\ UNCHANGED <<orders, overlapped>>
    BY <1>6 DEF ExpireOnApprove, RejectCommit, ExpireCommit, history
  <2>3. QED
    BY <1>1, <2>1, <2>2
<1>7. QED
  BY <1>2, <1>3, <1>4, <1>5, <1>6 DEF Coroutine

LEMMA OverlapSteps ==
  ASSUME PendingAssumption, OverlapInv, Next
  PROVE  DecidedInv' /\ AloneInv'
<1>0. TypeOK /\ co \in [Slots -> CoType]
  BY CoroutineType DEF OverlapInv
<1>1. ASSUME UNCHANGED <<orders, co, overlapped>>,
             \A t \in Trades : status'[t] # status[t] => \/ status'[t] \notin Undecided
                                                       \/ status[t] = "none"
      PROVE  DecidedInv' /\ AloneInv'
  <2>1. \A t \in Trades : InFlight(t)' = InFlight(t)
    BY <1>1 DEF InFlight
  <2>2. QED
    BY <1>1, <2>1, QuietSteps
<1>2. ASSUME NEW t \in Trades, Propose(t) \/ Elapse(t) \/ User(t)
      PROVE  DecidedInv' /\ AloneInv'
  <2>1. UNCHANGED <<orders, co, overlapped>>
    BY <1>2 DEF Propose, Elapse, User, AskApprove, AskReject, WebReject, worker, history
  <2>2. \/ UNCHANGED status
        \/ status[t] = "none" /\ status' = Mark({t}, "WAITING")
        \/ status' = Mark({t}, "REJECTED")
    BY <1>2 DEF Propose, Elapse, User, AskApprove, AskReject, WebReject, table
  <2>3. QED
    BY <1>1, <2>1, <2>2 DEF Mark, Undecided
<1>3. ASSUME NEW row \in flushed, CloseSession(row) PROVE DecidedInv' /\ AloneInv'
  BY <1>1, <1>3 DEF CloseSession, worker, history
<1>4. ASSUME NEW c \in Slots, Pop(c) \/ Sweep(c) PROVE DecidedInv' /\ AloneInv'
  <2>1. \E stage \in {"approving", "rejecting", "expiring"} : \E batch : Begin(c, stage, batch)
    BY <1>4 DEF Pop, Sweep
  <2>2. /\ \A t \in Trades : InFlight(t)' \subseteq InFlight(t)
        /\ \A d \in Slots : co'[d].stage = "place" => co'[d] = co[d]
    BY <1>0, <2>1, LeavesFlight
  <2>3. UNCHANGED <<orders, overlapped, status>>
    BY <1>4 DEF Pop, Sweep, table, history
  <2>4. QED
    BY <2>2, <2>3, QuietSteps
<1>5. CASE GiveUp
  BY <1>1, <1>5 DEF GiveUp, table, history
<1>6. CASE Crash
  <2>1. /\ \A t \in Trades : InFlight(t)' = {}
        /\ \A c \in Slots : co'[c].stage # "place"
    BY <1>6 DEF Crash, InFlight, Idle
  <2>2. UNCHANGED <<orders, overlapped, status>>
    BY <1>6 DEF Crash, history
  <2>3. QED
    BY <2>1, <2>2, QuietSteps
<1>7. QED
  BY <1>2, <1>3, <1>4, <1>5, <1>6, CoroutineSteps DEF Next

LEMMA OverlapStep ==
  ASSUME PendingAssumption, OverlapInv, [Next]_vars
  PROVE  OverlapInv'
<1>1. TypeOK'
  BY PendingTypes DEF OverlapInv
<1>2. CASE Next
  BY <1>1, <1>2, OverlapSteps DEF OverlapInv
<1>3. CASE UNCHANGED vars
  BY <1>1, <1>3 DEF vars, table, worker, history, OverlapInv, DecidedInv, AloneInv, InFlight
<1>4. QED
  BY <1>2, <1>3

(***************************************************************************)
(* Whatever times out, is rejected on the web or is cut short by a crash,  *)
(* a trade is ordered twice only if a second approval of it was begun      *)
(* before the first had placed its order.                                  *)
(***************************************************************************)
THEOREM DoubleOrderNeedsOverlapHolds == Spec => []DoubleOrderNeedsOverlap
<1>1. Init => OverlapInv
  <2>1. Init => DecidedInv /\ AloneInv
    BY DEF Init, DecidedInv, AloneInv, InFlight, Idle
  <2>2. QED
    BY <2>1, PendingAssumption, PendingInitTypes DEF OverlapInv
<1>2. OverlapInv /\ [Next]_vars => OverlapInv'
  BY PendingAssumption, OverlapStep
<1>3. OverlapInv => DoubleOrderNeedsOverlap
  BY DEF OverlapInv, AloneInv, TypeOK, DoubleOrderNeedsOverlap
<1>4. QED
  BY <1>1, <1>2, <1>3, PTL DEF Spec
=============================================================================
