--------------------------- MODULE BillingProofs ---------------------------
(***************************************************************************)
(* Proofs about Billing for any users, plans, payments and request         *)
(* handlers, any number of days and of orders: the invoices, and who can   *)
(* trade live.                                                             *)
(***************************************************************************)
EXTENDS MCBilling, FiniteSetTheorems, SequenceTheorems, WellFoundedInduction, TLAPS

PlanOrNone == Plans \cup {NoPlan}

SubStatuses == {"trial", "active", "expired", "cancelled", "suspended"}
PayStatuses == {"none", "created", "success", "failed", "pending_verification", "approved", "rejected"}
Kinds       == Finalisers \cup Refusers

Rows == [user : Users, plan : PlanOrNone, status : SubStatuses, current : BOOLEAN, end : Nat,
         pending : PlanOrNone]

PayRows == [status : PayStatuses, provider : {"none", "RAZORPAY", "MANUAL"},
            user : Users \cup {"nobody"}, plan : PlanOrNone]

TxRows == [kind : Kinds \cup {"none"}, p : Payments \cup {"none"},
           pc : {"idle", "checked", "read", "wrote", "numbered"}, cur : Nat, row : Rows \cup {NoRow},
           op : {"none", "activate", "renew", "revive", "queue"}, rows : SUBSET Nat, end : Nat, number : Nat]

BillingTypes ==
  /\ now \in 0..MaxTime /\ mode \in {"immediate", "queued"} /\ lastNumber \in Nat
  /\ pay \in [Payments -> PayRows]
  /\ subs \in Seq(Rows)
  /\ events \subseteq Payments
  /\ invoices \subseteq [number : Nat, payment : Payments] /\ IsFiniteSet(invoices)
  /\ tx \in [Handlers -> TxRows]
  /\ \A j \in job : j.row \in 1..Len(subs) /\ j.pending \in PlanOrNone

(***************************************************************************)
(* What a handler has read is still good enough when it commits: its       *)
(* payment was ordered, the row it renews or queues on is its user's, and  *)
(* the number it has read is at most one ahead of the counter.             *)
(***************************************************************************)
Sound(t) ==
  /\ t.pc # "idle" => t.kind \in Kinds /\ t.p \in Payments /\ pay[t.p].status # "none"
  /\ t.pc \in {"read", "wrote", "numbered"} => t.kind \in Finalisers
  /\ t.pc = "read" =>
       t.cur = 0 \/ (t.cur \in 1..Len(subs) /\ subs[t.cur].user = pay[t.p].user /\ t.row \in Rows)
  /\ t.pc \in {"wrote", "numbered"} =>
       /\ t.op \in {"activate", "renew", "revive", "queue"}
       /\ t.op # "activate" => \E c \in 1..Len(subs) : t.rows = {c} /\ subs[c].user = pay[t.p].user
  /\ t.pc = "numbered" => t.number \in 1..(lastNumber + 1)

HandlerInv == \A h \in Handlers : Sound(tx[h])

PayInv ==
  \A p \in Payments :
    /\ pay[p].status = "none" <=> pay[p].provider = "none"
    /\ pay[p].status # "none" => pay[p].user \in Users /\ pay[p].plan \in Plans
    /\ Invoiced(p) => pay[p].status # "none"

(***************************************************************************)
(* TrialNeverLive is not inductive: a plan may still be queued, or listed  *)
(* by the daily job.  Wherever one is, its user has paid or was let in.    *)
(***************************************************************************)
Entitled(u) == u \in given \/ \E p \in Payments : pay[p].user = u /\ Invoiced(p)
Asks(r)     == r.plan # NoPlan \/ r.pending # NoPlan

EntitledInv ==
  /\ \A i \in 1..Len(subs) : Asks(subs[i]) => Entitled(subs[i].user)
  /\ \A j \in job : j.pending # NoPlan => Entitled(subs[j.row].user)

BillingInv == BillingTypes /\ HandlerInv /\ PayInv /\ EntitledInv /\ InvoicesExact

-----------------------------------------------------------------------------
(* The current row. *)

\* A set of naturals that is bounded has a maximum.
LEMMA MaxIsMember ==
  ASSUME NEW S, NEW n \in Nat, S \subseteq 0..n, S # {}
  PROVE  Max(S) \in S
<1> DEFINE T == {k \in Nat : n - k \in S}
<1>1. T # {} /\ T \subseteq Nat
  <2>1. PICK x \in S : TRUE
    OBVIOUS
  <2>2. n - x \in Nat /\ n - (n - x) = x
    OBVIOUS
  <2>3. QED
    BY <2>1, <2>2
<1>2. PICK m \in T : \A k \in T : <<k, m>> \notin OpToRel(<, Nat)
  BY <1>1, NatLessThanWellFounded, WFMin
<1>3. \A k \in T : ~(k < m)
  BY <1>1, <1>2, Zenon DEF OpToRel
<1>4. \A y \in S : n - y \in T /\ y \in Nat
  <2> SUFFICES ASSUME NEW y \in S PROVE n - y \in T /\ y \in Nat
    OBVIOUS
  <2>1. n - y \in Nat /\ n - (n - y) = y
    OBVIOUS
  <2>2. QED
    BY <2>1
<1>5. n - m \in S /\ m \in Nat
  BY <1>2
<1>6. \A y \in S : n - m >= y
  <2> SUFFICES ASSUME NEW y \in S PROVE n - m >= y
    OBVIOUS
  <2>1. ~(n - y < m) /\ y \in Nat
    BY <1>3, <1>4
  <2>2. QED
    BY <1>5, <2>1
<1>7. QED
  BY <1>5, <1>6 DEF Max

\* Current finds a row of the user, if there is one.
LEMMA CurrentRow ==
  ASSUME BillingTypes, NEW u, Current(u) # 0
  PROVE  /\ Current(u) \in CurrentRows(u)
         /\ Current(u) \in 1..Len(subs) /\ subs[Current(u)] \in Rows /\ subs[Current(u)].user = u
<1>1. DOMAIN subs = 1..Len(subs) /\ Len(subs) \in Nat /\ \A i \in 1..Len(subs) : subs[i] \in Rows
  BY LenProperties, ElementOfSeq DEF BillingTypes
<1>2. CurrentRows(u) \subseteq 0..Len(subs) /\ CurrentRows(u) # {}
  BY <1>1 DEF CurrentRows, Current
<1>3. Current(u) \in CurrentRows(u)
  BY <1>1, <1>2, MaxIsMember DEF Current
<1>4. QED
  BY <1>1, <1>3 DEF CurrentRows

-----------------------------------------------------------------------------
(* What happens to the subscriptions table: rows are edited or added, and  *)
(* none changes its user.                                                  *)

Kept(i) == /\ subs'[i].user = subs[i].user
           /\ Asks(subs'[i]) => Asks(subs[i])

TableGrows ==
  /\ subs' \in Seq(Rows) /\ Len(subs') >= Len(subs)
  /\ \A i \in 1..Len(subs) : subs'[i].user = subs[i].user

\* A new row replaces those in R as the user's current one.
LEMMA TableReplaced ==
  ASSUME BillingTypes, NEW R, NEW r \in Rows, subs' = Replacing(R, r)
  PROVE  /\ TableGrows /\ Len(subs') = Len(subs) + 1 /\ subs'[Len(subs) + 1] = r
         /\ \A i \in 1..Len(subs) : Kept(i)
<1> DEFINE old == [i \in DOMAIN subs |-> IF i \in R THEN [subs[i] EXCEPT !.current = FALSE] ELSE subs[i]]
<1>1. DOMAIN subs = 1..Len(subs) /\ Len(subs) \in Nat /\ \A i \in 1..Len(subs) : subs[i] \in Rows
  BY LenProperties, ElementOfSeq DEF BillingTypes
<1>2. \A i \in 1..Len(subs) : /\ old[i] \in Rows /\ old[i].user = subs[i].user
                              /\ old[i].plan = subs[i].plan /\ old[i].pending = subs[i].pending
  <2> SUFFICES ASSUME NEW i \in 1..Len(subs)
               PROVE  /\ old[i] \in Rows /\ old[i].user = subs[i].user
                      /\ old[i].plan = subs[i].plan /\ old[i].pending = subs[i].pending
    OBVIOUS
  <2>1. subs[i] \in Rows /\ old[i] \in {subs[i], [subs[i] EXCEPT !.current = FALSE]}
    BY <1>1
  <2>2. QED
    BY <2>1 DEF Rows
<1>3. old \in Seq(Rows) /\ Len(old) = Len(subs)
  <2>1. old \in [1..Len(subs) -> Rows]
    BY <1>1, <1>2
  <2>2. QED
    BY <1>1, <2>1, SeqDef, LenProperties
<1>4. subs' = Append(old, r)
  BY DEF Replacing
<1> HIDE DEF old
<1>5. /\ subs' \in Seq(Rows) /\ Len(subs') = Len(subs) + 1 /\ subs'[Len(subs) + 1] = r
      /\ \A i \in 1..Len(subs) : subs'[i] = old[i]
  BY <1>3, <1>4, AppendProperties
<1>6. QED
  BY <1>1, <1>2, <1>5 DEF TableGrows, Kept, Asks

\* One row is edited.
LEMMA TableEdited ==
  ASSUME BillingTypes, NEW c, NEW r, c \in 1..Len(subs) => r \in Rows /\ r.user = subs[c].user,
         subs' = [subs EXCEPT ![c] = r]
  PROVE  /\ TableGrows /\ Len(subs') = Len(subs)
         /\ \A i \in 1..Len(subs) : subs'[i] = IF i = c THEN r ELSE subs[i]
<1>1. DOMAIN subs = 1..Len(subs) /\ Len(subs) \in Nat /\ \A i \in 1..Len(subs) : subs[i] \in Rows
  BY LenProperties, ElementOfSeq DEF BillingTypes
<1>2. subs \in [1..Len(subs) -> Rows]
  BY LenProperties DEF BillingTypes
<1>3. subs' \in [1..Len(subs) -> Rows] /\ \A i \in 1..Len(subs) : subs'[i] = IF i = c THEN r ELSE subs[i]
  BY <1>2
<1>4. subs' \in Seq(Rows) /\ Len(subs') = Len(subs)
  BY <1>1, <1>3, SeqDef, LenProperties
<1>5. QED
  BY <1>1, <1>3, <1>4 DEF TableGrows

-----------------------------------------------------------------------------
(* The database only grows: rows keep their users, ordered payments their  *)
(* orders, and what has been granted or invoiced stays so.                 *)

Grows ==
  /\ TableGrows
  /\ \A p \in Payments : pay[p].status # "none" => pay'[p].status # "none" /\ pay'[p].user = pay[p].user
  /\ lastNumber' >= lastNumber /\ given \subseteq given' /\ invoices \subseteq invoices'

LEMMA EntitledStays ==
  ASSUME PayInv, Grows, NEW u, Entitled(u)
  PROVE  Entitled(u)'
BY DEF PayInv, Grows, Entitled, Invoiced

\* What asks for a plan did so before, or its user is entitled to it now.
NewAsks ==
  \A i \in 1..Len(subs') : Asks(subs'[i]) =>
    (i \in 1..Len(subs) /\ Asks(subs[i])) \/ Entitled(subs[i].user)'

LEMMA TableSame ==
  ASSUME BillingTypes, subs' = subs
  PROVE  TableGrows /\ NewAsks
BY LenProperties DEF BillingTypes, TableGrows, NewAsks

\* A replacement asks for nothing, or for a user who is entitled.
LEMMA ReplacementAsks ==
  ASSUME BillingTypes, NEW R, NEW u \in Users, NEW q \in PlanOrNone, NEW s \in SubStatuses, NEW e \in Nat,
         subs' = Replacing(R, Row(u, q, s, e)), q # NoPlan => Entitled(u)'
  PROVE  TableGrows /\ NewAsks
<1>1. Row(u, q, s, e) \in Rows
  BY DEF Row, Rows, PlanOrNone
<1>2. /\ TableGrows /\ Len(subs') = Len(subs) + 1 /\ subs'[Len(subs) + 1] = Row(u, q, s, e)
      /\ \A i \in 1..Len(subs) : Kept(i)
  BY <1>1, TableReplaced
<1>3. Asks(Row(u, q, s, e)) => q # NoPlan
  BY DEF Asks, Row
<1>4. Row(u, q, s, e).user = u
  BY DEF Row
<1>5. ASSUME NEW i \in 1..Len(subs'), Asks(subs'[i])
      PROVE  (i \in 1..Len(subs) /\ Asks(subs[i])) \/ Entitled(subs[i].user)'
  <2>1. Len(subs) \in Nat
    BY LenProperties DEF BillingTypes
  <2>2. CASE i \in 1..Len(subs)
    BY <1>2, <1>5, <2>2 DEF Kept
  <2>3. CASE i = Len(subs) + 1
    <3>1. subs'[i] = Row(u, q, s, e)
      BY <1>2, <2>3
    <3>2. subs'[i].user = u
      BY <1>4, <3>1
    <3>3. q # NoPlan
      BY <1>3, <1>5, <3>1
    <3>4. QED
      BY <3>2, <3>3
  <2>4. QED
    BY <1>2, <2>1, <2>2, <2>3
<1>6. QED
  BY <1>2, <1>5 DEF NewAsks

\* An edit that leaves the plan and the queued plan alone, or queues one for a user who is entitled.
LEMMA EditAsks ==
  ASSUME BillingTypes, NEW c, NEW r, c \in 1..Len(subs) => r \in Rows /\ r.user = subs[c].user,
         subs' = [subs EXCEPT ![c] = r],
         c \in 1..Len(subs) => (Asks(r) = Asks(subs[c]) \/ Entitled(r.user)')
  PROVE  TableGrows /\ NewAsks
<1>1. /\ TableGrows /\ Len(subs') = Len(subs)
      /\ \A i \in 1..Len(subs) : subs'[i] = IF i = c THEN r ELSE subs[i]
  BY TableEdited
<1>2. ASSUME NEW i \in 1..Len(subs'), Asks(subs'[i])
      PROVE  (i \in 1..Len(subs) /\ Asks(subs[i])) \/ Entitled(subs[i].user)'
  <2>1. CASE i = c
    <3>1. subs'[i] = r /\ i \in 1..Len(subs)
      BY <1>1, <2>1
    <3>2. CASE Entitled(r.user)'
      BY <3>1, <3>2 DEF Entitled
    <3>3. QED
      BY <1>2, <2>1, <3>1, <3>2
  <2>2. QED
    BY <1>1, <1>2, <2>1
<1>3. QED
  BY <1>1, <1>2 DEF NewAsks

RowStep ==
  \/ \E u \in Users : StartTrial(u) \/ VerifyReward(u)
  \/ \E u \in Users, plan \in Plans : Downgrade(u, plan) \/ AdminActivate(u, plan)
  \/ \E i \in DOMAIN subs : AdminEdit(i)
  \/ \E j \in job : JobStep(j)

\* Rows that no payment asked for: a trial asks for nothing, the others let the user in.
LEMMA RowSteps ==
  ASSUME BillingAssumption, BillingTypes, PayInv, EntitledInv, RowStep
  PROVE  TableGrows /\ NewAsks
<1>0. /\ now \in Nat /\ now + 1 \in Nat /\ {"trial", "active", "suspended", "cancelled", "expired"} \subseteq SubStatuses
      /\ NoPlan \in PlanOrNone /\ Plans \subseteq PlanOrNone
      /\ DOMAIN subs = 1..Len(subs) /\ \A i \in 1..Len(subs) : subs[i] \in Rows
  BY LenProperties, ElementOfSeq DEF BillingTypes, BillingAssumption, SubStatuses, PlanOrNone
<1>1. ASSUME NEW u \in Users, StartTrial(u) \/ VerifyReward(u) PROVE TableGrows /\ NewAsks
  <2>1. subs' = Replacing(CurrentRows(u), Row(u, NoPlan, "trial", now + 1))
    BY <1>1 DEF StartTrial, VerifyReward
  <2>2. QED
    BY <1>0, <2>1, ReplacementAsks
<1>2. ASSUME NEW u \in Users, NEW plan \in Plans, Downgrade(u, plan) PROVE TableGrows /\ NewAsks
  <2>1. PICK c : c = Current(u)
    OBVIOUS
  <2>2. PICK r : r = [subs[c] EXCEPT !.pending = plan]
    OBVIOUS
  <2>3. c # 0 /\ subs' = [subs EXCEPT ![c] = r] /\ u \in given'
    BY <1>2, <2>1, <2>2 DEF Downgrade
  <2>4. c \in 1..Len(subs) /\ subs[c].user = u /\ subs[c] \in Rows
    BY <2>1, <2>3, CurrentRow
  <2>5. r \in Rows /\ r.user = u
    BY <1>0, <2>2, <2>4 DEF Rows
  <2>6. Entitled(r.user)'
    BY <2>3, <2>5 DEF Entitled
  <2>7. QED
    BY <2>3, <2>4, <2>5, <2>6, EditAsks
<1>3. ASSUME NEW u \in Users, NEW plan \in Plans, AdminActivate(u, plan) PROVE TableGrows /\ NewAsks
  <2>1. subs' = Replacing(CurrentRows(u), Row(u, plan, "active", now + 1)) /\ u \in given'
    BY <1>3 DEF AdminActivate
  <2>2. Entitled(u)'
    BY <2>1 DEF Entitled
  <2>3. QED
    BY <1>0, <2>1, <2>2, ReplacementAsks
<1>4. ASSUME NEW i \in DOMAIN subs, AdminEdit(i) PROVE TableGrows /\ NewAsks
  <2>1. subs[i] \in Rows /\ subs[i].end + 1 \in Nat
    BY <1>0 DEF Rows
  <2>2. PICK r \in {[subs[i] EXCEPT !.status = s] : s \in SubStatuses} \cup {[subs[i] EXCEPT !.end = subs[i].end + 1]} :
          subs' = [subs EXCEPT ![i] = r]
    <3>1. CASE \E s \in {"suspended", "cancelled"} : subs' = [subs EXCEPT ![i].status = s]
      BY <1>0, <3>1
    <3>2. CASE subs' = [subs EXCEPT ![i].status = IF subs[i].end > now THEN "active" ELSE "expired"]
      BY <1>0, <3>2
    <3>3. CASE subs' = [subs EXCEPT ![i].end = subs[i].end + 1]
      BY <3>3
    <3>4. QED
      BY <1>4, <3>1, <3>2, <3>3 DEF AdminEdit
  <2>3. r \in Rows /\ r.user = subs[i].user /\ Asks(r) = Asks(subs[i])
    <3>1. ASSUME NEW s \in SubStatuses, r = [subs[i] EXCEPT !.status = s]
          PROVE  r \in Rows /\ r.user = subs[i].user /\ Asks(r) = Asks(subs[i])
      BY <2>1, <3>1 DEF Rows, Asks
    <3>2. CASE r = [subs[i] EXCEPT !.end = subs[i].end + 1]
      BY <2>1, <3>2 DEF Rows, Asks
    <3>3. QED
      BY <3>1, <3>2
  <2>4. QED
    BY <2>2, <2>3, EditAsks
<1>5. ASSUME NEW j \in job, JobStep(j) PROVE TableGrows /\ NewAsks
  <2>1. j.row \in 1..Len(subs) /\ j.pending \in PlanOrNone /\ subs[j.row] \in Rows /\ subs[j.row].user \in Users
    BY <1>0 DEF BillingTypes, Rows
  <2>2. CASE j.pending # NoPlan
    <3>1. subs' = Replacing(CurrentRows(subs[j.row].user), Row(subs[j.row].user, j.pending, "active", now + 1))
      BY <1>5, <2>2 DEF JobStep
    <3>2. Entitled(subs[j.row].user)
      BY <2>2 DEF EntitledInv
    <3>3. UNCHANGED <<pay, invoices, given>>
      BY <1>5 DEF JobStep
    <3> DEFINE u == subs[j.row].user
    <3>4. Entitled(u) => \E v : v = u /\ (v \in given' \/ \E p \in Payments : pay'[p].user = v /\ Invoiced(p)')
      BY <3>3 DEF Entitled, Invoiced
    <3>5. PICK v : v = u /\ (v \in given' \/ \E p \in Payments : pay'[p].user = v /\ Invoiced(p)')
      BY <3>2, <3>4
    <3>6. Entitled(v)' /\ v \in Users
      BY <2>1, <3>5 DEF Entitled
    <3>7. subs' = Replacing(CurrentRows(v), Row(v, j.pending, "active", now + 1))
      BY <3>1, <3>5
    <3> HIDE DEF u
    <3>8. QED
      BY <1>0, <2>1, <3>6, <3>7, ReplacementAsks
  <2>3. CASE j.pending = NoPlan
    <3>1. subs' = [subs EXCEPT ![j.row] = [subs[j.row] EXCEPT !.status = "expired"]]
      BY <1>5, <2>3 DEF JobStep
    <3>2. /\ [subs[j.row] EXCEPT !.status = "expired"] \in Rows
          /\ [subs[j.row] EXCEPT !.status = "expired"].user = subs[j.row].user
          /\ Asks([subs[j.row] EXCEPT !.status = "expired"]) = Asks(subs[j.row])
      BY <1>0, <2>1 DEF Rows, Asks
    <3>3. QED
      BY <3>1, <3>2, EditAsks
  <2>4. QED
    BY <2>2, <2>3
<1>6. QED
  BY <1>1, <1>2, <1>3, <1>4, <1>5 DEF RowStep

-----------------------------------------------------------------------------
(* The payments. *)

\* The payment a handler works on, and what it will write for it.
LEMMA HandlersPayment ==
  ASSUME BillingTypes, HandlerInv, NEW h \in Handlers, tx[h].pc # "idle"
  PROVE  /\ tx[h] \in TxRows /\ tx[h].kind \in Kinds /\ tx[h].p \in Payments
         /\ pay[tx[h].p] \in PayRows /\ pay[tx[h].p].status # "none"
BY DEF BillingTypes, HandlerInv, Sound

LEMMA Outcomes ==
  /\ \A k \in Finalisers : Outcome(k) \in {"success", "approved"}
  /\ \A k \in Refusers : Outcome(k) \in {"failed", "rejected"}
BY DEF Finalisers, Refusers, Outcome

\* A payment's new status alone.
LEMMA StatusWritten ==
  ASSUME BillingTypes, PayInv, NEW q \in Payments, NEW s \in PayStatuses \ {"none"},
         pay[q].status # "none", pay' = [pay EXCEPT ![q].status = s],
         \A p \in Payments : Invoiced(p)' => Invoiced(p) \/ p = q
  PROVE  /\ pay' \in [Payments -> PayRows] /\ PayInv' /\ pay'[q].status = s
         /\ \A p \in Payments : /\ pay'[p].user = pay[p].user /\ (p # q => pay'[p] = pay[p])
                                /\ pay[p].status # "none" => pay'[p].status # "none"
<1>1. pay \in [Payments -> PayRows] /\ pay[q] \in PayRows
  BY DEF BillingTypes
<1>2. /\ [pay[q] EXCEPT !.status = s] \in PayRows
      /\ [pay[q] EXCEPT !.status = s].user = pay[q].user
      /\ [pay[q] EXCEPT !.status = s].plan = pay[q].plan
      /\ [pay[q] EXCEPT !.status = s].provider = pay[q].provider
      /\ [pay[q] EXCEPT !.status = s].status = s
  BY <1>1 DEF PayRows
<1>3. /\ pay' \in [Payments -> PayRows] /\ pay'[q] = [pay[q] EXCEPT !.status = s]
      /\ \A p \in Payments : p # q => pay'[p] = pay[p]
  BY <1>1, <1>2
<1>4. QED
  BY <1>2, <1>3 DEF PayInv

\* A new order: the payment's row did not exist.
LEMMA Ordered ==
  ASSUME BillingTypes, PayInv, NEW q \in Payments, NEW u \in Users, NEW plan \in Plans,
         pay[q].status = "none", UNCHANGED invoices,
         \/ pay' = [pay EXCEPT ![q] = [status |-> "created", provider |-> "RAZORPAY", user |-> u, plan |-> plan]]
         \/ pay' = [pay EXCEPT ![q] = [status |-> "pending_verification", provider |-> "MANUAL", user |-> u, plan |-> plan]]
  PROVE  /\ pay' \in [Payments -> PayRows] /\ PayInv' /\ pay'[q].status \in {"created", "pending_verification"}
         /\ \A p \in Payments : p # q => pay'[p] = pay[p]
<1>1. pay \in [Payments -> PayRows] /\ plan \in PlanOrNone
  BY DEF BillingTypes, PlanOrNone
<1>2. PICK r \in {[status |-> "created", provider |-> "RAZORPAY", user |-> u, plan |-> plan],
                  [status |-> "pending_verification", provider |-> "MANUAL", user |-> u, plan |-> plan]} :
        pay' = [pay EXCEPT ![q] = r]
  OBVIOUS
<1>3. /\ r \in PayRows /\ r.status # "none" /\ r.provider # "none" /\ r.user \in Users /\ r.plan \in Plans
      /\ r.status \in {"created", "pending_verification"}
  BY <1>1, <1>2 DEF PayRows, PayStatuses
<1>4. /\ pay' \in [Payments -> PayRows] /\ pay'[q] = r
      /\ \A p \in Payments : p # q => pay'[p] = pay[p]
  BY <1>1, <1>2, <1>3
<1>5. \A p \in Payments : Invoiced(p)' <=> Invoiced(p)
  BY DEF Invoiced
<1>6. QED
  BY <1>3, <1>4, <1>5 DEF PayInv

\* The steps that leave payments, invoices and events alone.
Aside ==
  \/ \E h \in Handlers : FlushPayment(h) \/ WriteSubscription(h) \/ ReadNumber(h) \/ Crash(h)
  \/ RowStep
  \/ \E u \in Users : Login(u) \/ LoginLost(u) \/ SubmitReward(u) \/ RejectReward(u)
  \/ JobList \/ Tick

\* A commit is a Finish that no constraint refuses.
Commit(h) == Finish(h) /\ ~Taken(tx[h].number, tx[h].p)

LEMMA StepKinds ==
  ASSUME Next
  PROVE  \/ \E p \in Payments, u \in Users, plan \in Plans : CreateOrder(p, u, plan) \/ SubmitManual(p, u, plan)
         \/ \E p \in Payments, h \in Handlers, kind \in Kinds : Receive(h, kind, p)
         \/ \E h \in Handlers : Refuse(h) \/ Commit(h) \/ (Finish(h) /\ ~Commit(h))
         \/ Aside
BY DEF Next, Proceed, Aside, RowStep, Commit, Kinds

LEMMA AsideKeeps ==
  ASSUME Aside
  PROVE  UNCHANGED <<mode, pay, invoices, lastNumber, events>> /\ given \subseteq given'
BY DEF Aside, RowStep, FlushPayment, WriteSubscription, ReadNumber, Crash, StartTrial, VerifyReward, Downgrade,
       AdminActivate, AdminEdit, JobStep, Login, LoginLost, SubmitReward, RejectReward, JobList, Tick

\* The clock, the daily job and what has been granted are not the business of a payment request.
LEMMA RequestKeeps ==
  ASSUME Next, ~Aside
  PROVE  UNCHANGED <<now, mode, given, job>>
<1>1. ASSUME NEW p \in Payments, NEW u \in Users, NEW plan \in Plans, CreateOrder(p, u, plan) \/ SubmitManual(p, u, plan)
      PROVE  UNCHANGED <<now, mode, given, job>>
  BY <1>1 DEF CreateOrder, SubmitManual
<1>2. ASSUME NEW p \in Payments, NEW h \in Handlers, NEW kind \in Kinds, Receive(h, kind, p)
      PROVE  UNCHANGED <<now, mode, given, job>>
  BY <1>2 DEF Receive
<1>3. ASSUME NEW h \in Handlers, Refuse(h) \/ Finish(h) PROVE UNCHANGED <<now, mode, given, job>>
  BY <1>3 DEF Refuse, Finish
<1>4. QED
  BY <1>1, <1>2, <1>3, StepKinds DEF Commit

LEMMA AsideClock ==
  ASSUME Aside
  PROVE  (job' \subseteq job \/ JobList) /\ (UNCHANGED now \/ Tick)
BY DEF Aside, RowStep, FlushPayment, WriteSubscription, ReadNumber, Crash, StartTrial, VerifyReward, Downgrade,
       AdminActivate, AdminEdit, JobStep, Login, LoginLost, SubmitReward, RejectReward, JobList, Tick

LEMMA PaySteps ==
  ASSUME BillingAssumption, BillingTypes, HandlerInv, PayInv, Next
  PROVE  /\ pay' \in [Payments -> PayRows] /\ PayInv'
         /\ \A p \in Payments :
              pay[p].status # "none" => pay'[p].status # "none" /\ pay'[p].user = pay[p].user
<1>0. pay \in [Payments -> PayRows]
  BY DEF BillingTypes
<1>1. CASE UNCHANGED <<pay, invoices>>
  BY <1>0, <1>1 DEF PayInv, Invoiced
<1>2. ASSUME NEW p \in Payments, NEW u \in Users, NEW plan \in Plans, CreateOrder(p, u, plan) \/ SubmitManual(p, u, plan)
      PROVE  /\ pay' \in [Payments -> PayRows] /\ PayInv'
             /\ \A q \in Payments :
                  pay[q].status # "none" => pay'[q].status # "none" /\ pay'[q].user = pay[q].user
  BY <1>2, Ordered DEF CreateOrder, SubmitManual
<1>3. ASSUME NEW h \in Handlers, Refuse(h)
      PROVE  /\ pay' \in [Payments -> PayRows] /\ PayInv'
             /\ \A q \in Payments :
                  pay[q].status # "none" => pay'[q].status # "none" /\ pay'[q].user = pay[q].user
  <2>1. tx[h].p \in Payments /\ pay[tx[h].p].status # "none" /\ tx[h].kind \in Refusers
    BY <1>3, HandlersPayment DEF Refuse
  <2>2. PICK q \in Payments, s \in PayStatuses \ {"none"} :
          q = tx[h].p /\ pay' = [pay EXCEPT ![q].status = s] /\ pay[q].status # "none"
    BY <1>3, <2>1, Outcomes DEF Refuse, PayStatuses
  <2>3. \A p \in Payments : Invoiced(p)' => Invoiced(p)
    BY <1>3 DEF Refuse, Invoiced
  <2>4. QED
    BY <2>2, <2>3, StatusWritten
<1>4. ASSUME NEW h \in Handlers, Commit(h)
      PROVE  /\ pay' \in [Payments -> PayRows] /\ PayInv'
             /\ \A q \in Payments :
                  pay[q].status # "none" => pay'[q].status # "none" /\ pay'[q].user = pay[q].user
  <2>1. tx[h].p \in Payments /\ pay[tx[h].p].status # "none" /\ tx[h].kind \in Finalisers
    BY <1>4, HandlersPayment DEF Commit, Finish, HandlerInv, Sound
  <2>2. PICK q \in Payments, s \in PayStatuses \ {"none"} :
          q = tx[h].p /\ pay' = [pay EXCEPT ![q].status = s] /\ pay[q].status # "none"
    BY <1>4, <2>1, Outcomes DEF Commit, Finish, PayStatuses
  <2>3. \A p \in Payments : Invoiced(p)' => Invoiced(p) \/ p = q
    BY <1>4, <2>2 DEF Commit, Finish, Invoiced
  <2>4. QED
    BY <2>2, <2>3, StatusWritten
<1>5. ASSUME NEW h \in Handlers, Finish(h), ~Commit(h) PROVE UNCHANGED <<pay, invoices>>
  BY <1>5 DEF Commit, Finish
<1>6. ASSUME NEW p \in Payments, NEW h \in Handlers, NEW kind \in Kinds, Receive(h, kind, p)
      PROVE  UNCHANGED <<pay, invoices>>
  BY <1>6 DEF Receive
<1>7. QED
  BY <1>1, <1>2, <1>3, <1>4, <1>5, <1>6, StepKinds, AsideKeeps

-----------------------------------------------------------------------------
(* The invoices. *)

InvoiceTypes == /\ lastNumber \in Nat /\ events \subseteq Payments
                /\ invoices \subseteq [number : Nat, payment : Payments] /\ IsFiniteSet(invoices)

LEMMA InvoiceSteps ==
  ASSUME BillingAssumption, BillingTypes, HandlerInv, PayInv, InvoicesExact, Next
  PROVE  InvoiceTypes' /\ InvoicesExact' /\ lastNumber' >= lastNumber /\ invoices \subseteq invoices'
<1>0. InvoiceTypes
  BY DEF BillingTypes, InvoiceTypes
<1>1. CASE UNCHANGED <<pay, invoices, lastNumber, events>>
  BY <1>0, <1>1 DEF InvoiceTypes, InvoicesExact, Invoiced
<1>2. ASSUME NEW p \in Payments, NEW u \in Users, NEW plan \in Plans, CreateOrder(p, u, plan) \/ SubmitManual(p, u, plan)
      PROVE  InvoiceTypes' /\ InvoicesExact' /\ lastNumber' >= lastNumber /\ invoices \subseteq invoices'
  <2>1. /\ pay'[p].status \in {"created", "pending_verification"}
        /\ \A q \in Payments : q # p => pay'[q] = pay[q]
        /\ UNCHANGED <<invoices, lastNumber, events>>
    BY <1>2, Ordered DEF CreateOrder, SubmitManual
  <2>2. QED
    BY <1>0, <2>1 DEF InvoiceTypes, InvoicesExact, Invoiced
<1>3. ASSUME NEW h \in Handlers, Refuse(h)
      PROVE  InvoiceTypes' /\ InvoicesExact' /\ lastNumber' >= lastNumber /\ invoices \subseteq invoices'
  <2>1. tx[h].p \in Payments /\ pay[tx[h].p].status # "none" /\ tx[h].kind \in Refusers
    BY <1>3, HandlersPayment DEF Refuse
  <2>2. PICK q \in Payments, s \in {"failed", "rejected"} :
          pay' = [pay EXCEPT ![q].status = s] /\ pay[q].status # "none"
    BY <1>3, <2>1, Outcomes DEF Refuse
  <2>3. UNCHANGED <<invoices, lastNumber, events>>
    BY <1>3 DEF Refuse
  <2>4. /\ pay'[q].status \in {"failed", "rejected"}
        /\ \A p \in Payments : p # q => pay'[p] = pay[p]
    BY <2>2, <2>3, StatusWritten DEF PayStatuses, Invoiced
  <2>5. QED
    BY <1>0, <2>3, <2>4 DEF InvoiceTypes, InvoicesExact, Invoiced
<1>4. ASSUME NEW h \in Handlers, Commit(h)
      PROVE  InvoiceTypes' /\ InvoicesExact' /\ lastNumber' >= lastNumber /\ invoices \subseteq invoices'
  <2>1. /\ tx[h] \in TxRows /\ tx[h].p \in Payments /\ pay[tx[h].p].status # "none"
        /\ tx[h].number \in 1..(lastNumber + 1)
    BY <1>4, HandlersPayment DEF Commit, Finish, HandlerInv, Sound
  <2>2. PICK n, q, v : n = tx[h].number /\ q = tx[h].p /\ v = [number |-> n, payment |-> q]
    OBVIOUS
  <2>3. /\ invoices' = invoices \cup {v} /\ lastNumber' = n
        /\ events' \subseteq events \cup {q}
        /\ \A w \in invoices : w.number # n /\ w.payment # q
        /\ pay' = [pay EXCEPT ![q].status = Outcome(tx[h].kind)]
    BY <1>4, <2>2 DEF Commit, Finish, Taken
  <2>4. n = lastNumber + 1
    BY <1>0, <2>1, <2>2, <2>3 DEF InvoiceTypes, InvoicesExact
  <2>5. v \in [number : Nat, payment : Payments] /\ v.number = n /\ v.payment = q /\ v \notin invoices
    BY <1>0, <2>1, <2>2, <2>3, <2>4 DEF InvoiceTypes
  <2>6. InvoiceTypes' /\ Cardinality(invoices') = n
    <3>1. IsFiniteSet(invoices') /\ Cardinality(invoices') = Cardinality(invoices) + 1
      BY <1>0, <2>3, <2>5, FS_AddElement DEF InvoiceTypes
    <3>2. QED
      BY <1>0, <2>1, <2>2, <2>3, <2>4, <2>5, <3>1 DEF InvoiceTypes, InvoicesExact
  <2>7. \A w, x \in invoices' : w.payment = x.payment => w = x
    BY <2>3, <2>5 DEF InvoicesExact
  <2>8. {w.number : w \in invoices'} = 1..lastNumber'
    <3>1. {w.number : w \in invoices'} = {w.number : w \in invoices} \cup {n}
      BY <2>3, <2>5
    <3>2. 1..(lastNumber + 1) = (1..lastNumber) \cup {lastNumber + 1}
      BY <1>0 DEF InvoiceTypes
    <3>3. QED
      BY <2>3, <2>4, <3>1, <3>2 DEF InvoicesExact
  <2>9. \A p \in Payments : pay'[p].status \in {"success", "approved"} \/ p \in events' => Invoiced(p)'
    <3>1. \A p \in Payments : p # q => pay'[p] = pay[p]
      BY <2>3 DEF BillingTypes
    <3>2. Invoiced(q)' /\ \A p : Invoiced(p) => Invoiced(p)'
      BY <2>3, <2>5 DEF Invoiced
    <3>3. QED
      BY <2>3, <3>1, <3>2 DEF InvoicesExact
  <2>10. QED
    BY <1>0, <2>3, <2>4, <2>6, <2>7, <2>8, <2>9 DEF InvoicesExact, InvoiceTypes
<1>5. ASSUME NEW h \in Handlers, Finish(h), ~Commit(h) PROVE UNCHANGED <<pay, invoices, lastNumber, events>>
  BY <1>5 DEF Commit, Finish
<1>6. ASSUME NEW p \in Payments, NEW h \in Handlers, NEW kind \in Kinds, Receive(h, kind, p)
      PROVE  InvoiceTypes' /\ InvoicesExact' /\ lastNumber' >= lastNumber /\ invoices \subseteq invoices'
  <2>1. UNCHANGED <<pay, invoices, lastNumber>> /\ (events' = events \/ (events' = events \cup {p} /\ pay[p].status = "success"))
    BY <1>6 DEF Receive
  <2>2. QED
    BY <1>0, <2>1 DEF InvoiceTypes, InvoicesExact, Invoiced
<1>7. QED
  BY <1>1, <1>2, <1>3, <1>4, <1>5, <1>6, StepKinds, AsideKeeps DEF InvoiceTypes

\* A plan that is committed has been paid for.
LEMMA CommitsTable ==
  ASSUME BillingAssumption, BillingTypes, HandlerInv, PayInv, NEW h \in Handlers, Commit(h), Next
  PROVE  TableGrows /\ NewAsks
<1>1. PICK q, e, rows, op, u, plan :
        /\ q = tx[h].p /\ e = tx[h].end /\ rows = tx[h].rows /\ op = tx[h].op
        /\ u = pay[q].user /\ plan = pay[q].plan
  OBVIOUS
<1>2. /\ q \in Payments /\ pay[q].status # "none" /\ u \in Users /\ plan \in Plans /\ e \in Nat
      /\ op \in {"activate", "renew", "revive", "queue"}
      /\ op # "activate" => \E c \in 1..Len(subs) : rows = {c} /\ subs[c].user = u
  <2>1. /\ tx[h] \in TxRows /\ q \in Payments /\ pay[q].status # "none" /\ tx[h].pc = "numbered"
    BY <1>1, HandlersPayment DEF Commit, Finish
  <2>2. QED
    BY <1>1, <2>1 DEF HandlerInv, Sound, PayInv, TxRows
<1>3. subs' = Subscribed(h) /\ Invoiced(q)'
  <2>1. subs' = Subscribed(h)
    BY DEF Commit, Finish
  <2>2. PICK v : v = [number |-> tx[h].number, payment |-> q]
    OBVIOUS
  <2>3. v \in invoices' /\ v.payment = q
    BY <1>1, <2>2 DEF Commit, Finish
  <2>4. QED
    BY <2>1, <2>3 DEF Invoiced
<1>4. Entitled(u)'
  <2>1. pay'[q].user = u
    BY <1>1, <1>2, PaySteps
  <2>2. QED
    BY <1>2, <1>3, <2>1 DEF Entitled
<1>5. CASE op = "activate"
  <2>1. subs' = Replacing(rows, Row(u, plan, "active", e))
    BY <1>1, <1>3, <1>5 DEF Subscribed
  <2>2. plan \in PlanOrNone /\ "active" \in SubStatuses
    BY <1>2 DEF PlanOrNone, SubStatuses
  <2>3. QED
    BY <1>2, <1>4, <2>1, <2>2, ReplacementAsks
<1>6. CASE op # "activate"
  <2>1. PICK c \in 1..Len(subs) : rows = {c} /\ subs[c].user = u
    BY <1>2, <1>6
  <2>2. c \in Nat /\ subs[c] \in Rows /\ plan \in PlanOrNone /\ "active" \in SubStatuses
    BY <1>2, LenProperties, ElementOfSeq DEF BillingTypes, PlanOrNone, SubStatuses
  <2>3. Max(rows) = c
    BY <2>1, <2>2, MaxIsMember
  <2>4. PICK r : /\ subs' = [subs EXCEPT ![c] = r]
                 /\ \/ r = [subs[c] EXCEPT !.end = e]
                    \/ r = [subs[c] EXCEPT !.end = e, !.status = "active"]
                    \/ r = [subs[c] EXCEPT !.pending = plan]
    <3>1. CASE op = "renew"
      BY <1>1, <1>3, <2>3, <3>1 DEF Subscribed
    <3>2. CASE op = "revive"
      <4>1. subs' = [subs EXCEPT ![c].end = e, ![c].status = "active"]
        BY <1>1, <1>3, <2>3, <3>2 DEF Subscribed
      <4>2. subs' = [subs EXCEPT ![c] = [subs[c] EXCEPT !.end = e, !.status = "active"]]
        BY <2>1, <2>2, <4>1, LenProperties DEF BillingTypes
      <4>3. QED
        BY <4>2
    <3>3. CASE op = "queue"
      BY <1>1, <1>3, <2>3, <3>3 DEF Subscribed
    <3>4. QED
      BY <1>2, <1>6, <3>1, <3>2, <3>3
  <2>5. r \in Rows /\ r.user = u
    BY <1>2, <2>1, <2>2, <2>4 DEF Rows
  <2>6. Entitled(r.user)'
    BY <1>4, <2>5
  <2>7. QED
    BY <2>1, <2>4, <2>5, <2>6, EditAsks
<1>7. QED
  BY <1>5, <1>6

\* Every step: the table, and with it the database, only grows.
LEMMA TableSteps ==
  ASSUME BillingAssumption, BillingInv, Next
  PROVE  Grows /\ NewAsks
<1>0. BillingTypes /\ HandlerInv /\ PayInv /\ EntitledInv /\ InvoicesExact
  BY DEF BillingInv
<1>1. TableGrows /\ NewAsks
  <2>1. CASE RowStep
    BY <1>0, <2>1, RowSteps
  <2>2. CASE \E h \in Handlers : Commit(h)
    BY <1>0, <2>2, CommitsTable
  <2>3. CASE Next /\ ~RowStep /\ ~\E h \in Handlers : Commit(h)
    <3>1. subs' = subs
      BY <2>3, StepKinds
      DEF Aside, CreateOrder, SubmitManual, Receive, Refuse, Commit, Finish, FlushPayment, WriteSubscription,
          ReadNumber, Crash, Login, LoginLost, SubmitReward, RejectReward, JobList, Tick
    <3>2. QED
      BY <1>0, <3>1, TableSame
  <2>4. QED
    BY <2>1, <2>2, <2>3
<1>2. lastNumber' >= lastNumber /\ invoices \subseteq invoices'
  BY <1>0, InvoiceSteps
<1>3. given \subseteq given'
  BY AsideKeeps, RequestKeeps
<1>4. QED
  BY <1>0, <1>1, <1>2, <1>3, PaySteps DEF Grows


-----------------------------------------------------------------------------
(* The request handlers. *)

\* What a handler has read stays good enough while the others work.
LEMMA SoundStays ==
  ASSUME BillingTypes, Grows, lastNumber' \in Nat, NEW t \in TxRows, Sound(t)
  PROVE  Sound(t)'
<1>0. Len(subs) \in Nat /\ Len(subs') \in Nat /\ lastNumber \in Nat
  BY LenProperties DEF BillingTypes, Grows, TableGrows
<1>1. 1..Len(subs) \subseteq 1..Len(subs') /\ \A i \in 1..Len(subs) : subs'[i].user = subs[i].user
  BY <1>0 DEF Grows, TableGrows
<1>2. \A n \in 1..(lastNumber + 1) : n \in 1..(lastNumber' + 1)
  <2>1. lastNumber' >= lastNumber /\ lastNumber' \in Nat
    BY DEF Grows
  <2>2. PICK a, b : a = lastNumber /\ b = lastNumber'
    OBVIOUS
  <2>3. a \in Nat /\ b \in Nat /\ b >= a
    BY <1>0, <2>1, <2>2
  <2>4. \A n \in 1..(a + 1) : n \in 1..(b + 1)
    BY <2>3
  <2>5. QED
    BY <2>2, <2>4
<1>3. t.pc # "idle" => t.p \in Payments /\ pay'[t.p].status # "none" /\ pay'[t.p].user = pay[t.p].user
  BY DEF Sound, Grows
<1>4. t.pc = "read" =>
        t.cur = 0 \/ (t.cur \in 1..Len(subs') /\ subs'[t.cur].user = pay'[t.p].user /\ t.row \in Rows)
  BY <1>1, <1>3 DEF Sound
<1>5. t.pc \in {"wrote", "numbered"} /\ t.op # "activate" =>
        \E c \in 1..Len(subs') : t.rows = {c} /\ subs'[c].user = pay'[t.p].user
  BY <1>1, <1>3 DEF Sound
<1>6. QED
  BY <1>2, <1>3, <1>4, <1>5 DEF Sound

LEMMA IdleSound == Idle \in TxRows /\ Sound(Idle)'
BY DEF Idle, TxRows, Sound

\* One handler's row changes, or none does.
LEMMA TxWritten ==
  ASSUME BillingTypes, HandlerInv, Grows, lastNumber' \in Nat,
         tx' = tx \/ \E h \in Handlers, t \in TxRows : tx' = [tx EXCEPT ![h] = t] /\ Sound(t)'
  PROVE  tx' \in [Handlers -> TxRows] /\ HandlerInv'
<1>1. tx \in [Handlers -> TxRows] /\ \A h \in Handlers : Sound(tx[h])
  BY DEF BillingTypes, HandlerInv
<1>2. \A h \in Handlers : \E t : t = tx[h] /\ Sound(t)'
  BY <1>1, SoundStays
<1>3. CASE tx' = tx
  BY <1>1, <1>2, <1>3 DEF HandlerInv
<1>4. ASSUME NEW h \in Handlers, NEW t \in TxRows, tx' = [tx EXCEPT ![h] = t], Sound(t)'
      PROVE  tx' \in [Handlers -> TxRows] /\ HandlerInv'
  <2>1. tx' \in [Handlers -> TxRows] /\ tx'[h] = t /\ \A g \in Handlers : g # h => tx'[g] = tx[g]
    BY <1>1, <1>4
  <2>2. QED
    BY <1>2, <1>4, <2>1 DEF HandlerInv
<1>5. QED
  BY <1>3, <1>4

\* A request that comes in is about a payment that was ordered.
LEMMA ReceiveSound ==
  ASSUME BillingTypes, PayInv, NEW h \in Handlers, NEW p \in Payments, NEW kind \in Kinds, Receive(h, kind, p)
  PROVE  tx' = tx \/ \E t \in TxRows : tx' = [tx EXCEPT ![h] = t] /\ Sound(t)'
<1>1. pay' = pay /\ pay[p].status # "none"
  BY DEF Receive, Admits, PayInv
<1>2. PICK t : t = [Idle EXCEPT !.kind = kind, !.p = p, !.pc = "checked"]
  OBVIOUS
<1>3. t \in TxRows /\ t.kind = kind /\ t.p = p /\ t.pc = "checked"
  BY <1>2 DEF Idle, TxRows
<1>4. Sound(t)'
  BY <1>1, <1>3 DEF Sound
<1>5. QED
  BY <1>2, <1>3, <1>4 DEF Receive

LEMMA FlushSound ==
  ASSUME BillingTypes, HandlerInv, NEW h \in Handlers, FlushPayment(h)
  PROVE  \E t \in TxRows : tx' = [tx EXCEPT ![h] = t] /\ Sound(t)'
<1>1. /\ tx[h] \in TxRows /\ tx[h].kind \in Kinds \cap Finalisers /\ tx[h].p \in Payments
      /\ pay[tx[h].p].status # "none" /\ UNCHANGED <<pay, subs, lastNumber>>
  BY HandlersPayment DEF FlushPayment
<1>2. PICK c : c = Current(pay[tx[h].p].user)
  OBVIOUS
<1>3. c = 0 \/ (c \in 1..Len(subs) /\ subs[c] \in Rows /\ subs[c].user = pay[tx[h].p].user)
  BY <1>2, CurrentRow
<1>4. PICK r : r = IF c = 0 THEN NoRow ELSE subs[c]
  OBVIOUS
<1>5. c \in Nat /\ r \in Rows \cup {NoRow} /\ (c # 0 => r \in Rows)
  BY <1>3, <1>4
<1>6. PICK t : t = [tx[h] EXCEPT !.pc = "read", !.cur = c, !.row = r]
  OBVIOUS
<1>7. t \in TxRows /\ t.pc = "read" /\ t.cur = c /\ t.row = r /\ t.kind = tx[h].kind /\ t.p = tx[h].p
  BY <1>1, <1>5, <1>6 DEF TxRows
<1>8. tx' = [tx EXCEPT ![h] = t]
  BY <1>2, <1>4, <1>6 DEF FlushPayment
<1>9. Sound(t)'
  BY <1>1, <1>3, <1>5, <1>7 DEF Sound
<1>10. QED
  BY <1>7, <1>8, <1>9

LEMMA WriteSound ==
  ASSUME BillingTypes, HandlerInv, NEW h \in Handlers, WriteSubscription(h)
  PROVE  \E t \in TxRows : tx' = [tx EXCEPT ![h] = t] /\ Sound(t)'
<1>1. /\ tx[h] \in TxRows /\ tx[h].kind \in Kinds \cap Finalisers /\ tx[h].p \in Payments
      /\ pay[tx[h].p].status # "none" /\ UNCHANGED <<pay, subs, lastNumber>> /\ tx[h].pc = "read"
  BY HandlersPayment DEF WriteSubscription, HandlerInv, Sound
<1>2. PICK op : op = Operation(h)
  OBVIOUS
<1>3. op \in {"activate", "renew", "revive", "queue"}
  BY <1>2 DEF Operation
<1>4. op # "activate" =>
        /\ tx[h].cur \in 1..Len(subs) /\ subs[tx[h].cur].user = pay[tx[h].p].user
        /\ tx[h].row \in Rows
  <2>1. tx[h].cur = 0 => op = "activate"
    BY <1>2 DEF Operation
  <2>2. Sound(tx[h])
    BY DEF HandlerInv
  <2>3. QED
    BY <1>1, <2>1, <2>2 DEF Sound
<1>5. PICK rows : rows = IF op = "activate" THEN CurrentRows(pay[tx[h].p].user) ELSE {tx[h].cur}
  OBVIOUS
<1>6. rows \in SUBSET Nat
  <2>1. DOMAIN subs = 1..Len(subs)
    BY LenProperties DEF BillingTypes
  <2>2. QED
    BY <1>4, <1>5, <2>1 DEF CurrentRows
<1>7. PICK e : e = IF op = "queue" THEN 0 ELSE Max({now, IF op = "activate" THEN 0 ELSE tx[h].row.end}) + 1
  OBVIOUS
<1>8. e \in Nat
  <2>1. PICK x : x = IF op = "activate" THEN 0 ELSE tx[h].row.end
    OBVIOUS
  <2>2. x \in Nat /\ now \in Nat
    BY <1>4, <2>1 DEF Rows, BillingTypes, BillingAssumption
  <2>3. Max({now, x}) \in {now, x}
    <3>1. {now, x} \subseteq 0..(now + x) /\ now + x \in Nat
      BY <2>2
    <3>2. QED
      BY <3>1, MaxIsMember
  <2>4. QED
    BY <1>7, <2>1, <2>2, <2>3
<1>9. PICK t : t = [tx[h] EXCEPT !.pc = "wrote", !.op = op, !.rows = rows, !.cur = 0, !.row = NoRow, !.end = e]
  OBVIOUS
<1>10. /\ t \in TxRows /\ t.pc = "wrote" /\ t.op = op /\ t.rows = rows
       /\ t.kind = tx[h].kind /\ t.p = tx[h].p
  BY <1>1, <1>3, <1>6, <1>8, <1>9 DEF TxRows
<1>11. tx' = [tx EXCEPT ![h] = t]
  BY <1>2, <1>5, <1>7, <1>9 DEF WriteSubscription
<1>12. Sound(t)'
  BY <1>1, <1>3, <1>4, <1>5, <1>10 DEF Sound
<1>13. QED
  BY <1>10, <1>11, <1>12

LEMMA NumberSound ==
  ASSUME BillingTypes, HandlerInv, NEW h \in Handlers, ReadNumber(h)
  PROVE  \E t \in TxRows : tx' = [tx EXCEPT ![h] = t] /\ Sound(t)'
<1>1. /\ tx[h] \in TxRows /\ Sound(tx[h]) /\ tx[h].pc = "wrote"
      /\ UNCHANGED <<pay, subs, lastNumber>> /\ lastNumber \in Nat
  BY DEF ReadNumber, BillingTypes, HandlerInv
<1>2. PICK n : n = lastNumber + 1
  OBVIOUS
<1>3. PICK t : t = [tx[h] EXCEPT !.pc = "numbered", !.number = n]
  OBVIOUS
<1>4. n \in Nat /\ n \in 1..(lastNumber + 1)
  BY <1>1, <1>2
<1>5. /\ t \in TxRows /\ t.pc = "numbered" /\ t.number = n /\ t.op = tx[h].op /\ t.rows = tx[h].rows
      /\ t.kind = tx[h].kind /\ t.p = tx[h].p
  BY <1>1, <1>3, <1>4 DEF TxRows
<1>6. tx' = [tx EXCEPT ![h] = t]
  BY <1>2, <1>3 DEF ReadNumber
<1>7. Sound(t)'
  BY <1>1, <1>4, <1>5 DEF Sound
<1>8. QED
  BY <1>5, <1>6, <1>7

LEMMA HandlerSteps ==
  ASSUME BillingAssumption, BillingInv, Next
  PROVE  tx' \in [Handlers -> TxRows] /\ HandlerInv'
<1>0. /\ BillingTypes /\ HandlerInv /\ PayInv /\ Grows /\ lastNumber' \in Nat
  BY TableSteps, InvoiceSteps DEF BillingInv, InvoiceTypes
<1>1. ASSUME NEW p \in Payments, NEW h \in Handlers, NEW kind \in Kinds, Receive(h, kind, p)
      PROVE  tx' = tx \/ \E t \in TxRows : tx' = [tx EXCEPT ![h] = t] /\ Sound(t)'
  BY <1>0, <1>1, ReceiveSound
<1>2. ASSUME NEW h \in Handlers, FlushPayment(h) \/ WriteSubscription(h) \/ ReadNumber(h)
      PROVE  \E t \in TxRows : tx' = [tx EXCEPT ![h] = t] /\ Sound(t)'
  BY <1>0, <1>2, FlushSound, WriteSound, NumberSound
<1>3. ASSUME NEW h \in Handlers, Refuse(h) \/ Finish(h) \/ Crash(h) PROVE tx' = [tx EXCEPT ![h] = Idle]
  BY <1>3 DEF Refuse, Finish, Crash
<1>4. CASE \/ \E p \in Payments, u \in Users, plan \in Plans : CreateOrder(p, u, plan) \/ SubmitManual(p, u, plan)
           \/ RowStep \/ JobList \/ Tick
           \/ \E u \in Users : Login(u) \/ LoginLost(u) \/ SubmitReward(u) \/ RejectReward(u)
  <2>1. UNCHANGED tx
    BY <1>4 DEF CreateOrder, SubmitManual, RowStep, JobList, Tick, StartTrial, VerifyReward, Downgrade,
                AdminActivate, AdminEdit, JobStep, Login, LoginLost, SubmitReward, RejectReward
  <2>2. QED
    BY <1>0, <2>1, TxWritten
<1>5. CASE \/ \E p \in Payments, h \in Handlers, kind \in Kinds : Receive(h, kind, p)
           \/ \E h \in Handlers : \/ FlushPayment(h) \/ WriteSubscription(h) \/ ReadNumber(h)
                                  \/ Refuse(h) \/ Finish(h) \/ Crash(h)
  <2>1. tx' = tx \/ \E h \in Handlers, t \in TxRows : tx' = [tx EXCEPT ![h] = t] /\ Sound(t)'
    BY <1>1, <1>2, <1>3, <1>5, IdleSound
  <2>2. QED
    BY <1>0, <2>1, TxWritten
<1>6. QED
  BY <1>4, <1>5, StepKinds DEF Aside, Commit


-----------------------------------------------------------------------------
(* Who is entitled to a plan. *)

JobTypes == \A j \in job : j.row \in 1..Len(subs) /\ j.pending \in PlanOrNone

\* The rows the daily job has listed are in the table, and stay there.
LEMMA JobSteps ==
  ASSUME BillingAssumption, BillingInv, Next
  PROVE  JobTypes' /\ EntitledInv'
<1>0. /\ BillingTypes /\ HandlerInv /\ PayInv /\ EntitledInv /\ InvoicesExact /\ Grows /\ NewAsks
  BY TableSteps DEF BillingInv
<1>1. /\ Len(subs) \in Nat /\ Len(subs') \in Nat /\ DOMAIN subs = 1..Len(subs)
      /\ \A i \in 1..Len(subs) : subs[i] \in Rows
  BY <1>0, LenProperties, ElementOfSeq DEF BillingTypes, Grows, TableGrows
<1>2. /\ \A i \in 1..Len(subs) : i \in 1..Len(subs') /\ subs'[i].user = subs[i].user
  BY <1>0, <1>1 DEF Grows, TableGrows
<1>3. ASSUME NEW i \in 1..Len(subs), Entitled(subs[i].user)
      PROVE  Entitled(subs[i].user)'
  <2>1. PICK u : u = subs[i].user
    OBVIOUS
  <2>2. Entitled(u)'
    BY <1>0, <1>3, <2>1, EntitledStays
  <2>3. QED
    BY <1>2, <2>1, <2>2
<1>4. ASSUME NEW i \in 1..Len(subs'), Asks(subs'[i])
      PROVE  Entitled(subs[i].user)'
  BY <1>0, <1>3, <1>4 DEF NewAsks, EntitledInv
<1>5. ASSUME NEW j \in job'
      PROVE  /\ j.row \in 1..Len(subs) /\ j.pending \in PlanOrNone
             /\ j.pending # NoPlan => Entitled(subs[j.row].user)
  <2>1. CASE j \in job
    BY <1>0, <2>1 DEF BillingTypes, EntitledInv
  <2>2. CASE j \notin job
    <3>1. JobList
      BY <2>2, AsideClock, RequestKeeps
    <3>2. PICK i \in PastDue : j = [row |-> i, pending |-> subs[i].pending]
      BY <3>1 DEF JobList
    <3>3. i \in 1..Len(subs) /\ subs[i] \in Rows /\ j.row = i /\ j.pending = subs[i].pending
      BY <1>1, <3>2 DEF PastDue
    <3>4. j.pending \in PlanOrNone
      BY <3>3 DEF Rows
    <3>5. j.pending # NoPlan => Asks(subs[i])
      BY <3>3 DEF Asks
    <3>6. QED
      BY <1>0, <3>3, <3>4, <3>5 DEF EntitledInv
  <2>3. QED
    BY <2>1, <2>2
<1>6. JobTypes'
  BY <1>2, <1>5 DEF JobTypes
<1>7. \A j \in job' : j.pending # NoPlan => Entitled(subs[j.row].user)'
  BY <1>3, <1>5
<1>8. QED
  BY <1>4, <1>6, <1>7 DEF EntitledInv

LEMMA ClockSteps ==
  ASSUME BillingAssumption, BillingTypes, Next
  PROVE  now' \in 0..MaxTime /\ mode' \in {"immediate", "queued"}
<1>0. now \in 0..MaxTime /\ mode \in {"immediate", "queued"} /\ MaxTime \in Nat
  BY DEF BillingTypes, BillingAssumption
<1>1. CASE Tick
  BY <1>0, <1>1 DEF Tick
<1>2. CASE ~Tick
  <2>1. UNCHANGED <<now, mode>>
    BY <1>2, AsideClock, AsideKeeps, RequestKeeps
  <2>2. QED
    BY <1>0, <2>1
<1>3. QED
  BY <1>1, <1>2

-----------------------------------------------------------------------------
LEMMA BillingInit ==
  ASSUME BillingAssumption, Init
  PROVE  BillingInv
<1>1. subs \in Seq(Rows) /\ Len(subs) = 0
  BY DEF Init
<1>2. IsFiniteSet(invoices) /\ Cardinality(invoices) = 0 /\ 1..lastNumber = {}
  BY FS_EmptySet DEF Init
<1>3. /\ pay \in [Payments -> PayRows] /\ tx \in [Handlers -> TxRows]
      /\ \A p \in Payments : pay[p].status = "none" /\ pay[p].provider = "none"
      /\ \A h \in Handlers : tx[h].pc = "idle"
  BY IdleSound DEF Init, PayRows, PayStatuses, PlanOrNone, Idle
<1>4. BillingTypes
  BY <1>1, <1>2, <1>3 DEF Init, BillingTypes, BillingAssumption
<1>5. HandlerInv
  BY <1>3 DEF HandlerInv, Sound
<1>6. PayInv
  BY <1>3 DEF Init, PayInv, Invoiced
<1>7. EntitledInv
  BY <1>1 DEF Init, EntitledInv
<1>8. InvoicesExact
  BY <1>2, <1>3 DEF Init, InvoicesExact
<1>9. QED
  BY <1>4, <1>5, <1>6, <1>7, <1>8 DEF BillingInv

LEMMA BillingStutter ==
  ASSUME BillingInv, UNCHANGED vars
  PROVE  BillingInv'
<1>1. BillingTypes' /\ InvoicesExact'
  BY DEF BillingInv, BillingTypes, InvoicesExact, vars, Invoiced
<1>2. PayInv'
  BY DEF BillingInv, PayInv, vars, Invoiced
<1>3. HandlerInv'
  BY DEF BillingInv, HandlerInv, vars, Sound
<1>4. EntitledInv'
  BY DEF BillingInv, EntitledInv, vars, Invoiced, Entitled
<1>5. QED
  BY <1>1, <1>2, <1>3, <1>4 DEF BillingInv

\* The inductive invariant: types, what handlers have read, payments, entitlement and invoices.
THEOREM BillingInvariant == ASSUME BillingAssumption PROVE Spec => []BillingInv
<1>1. Init => BillingInv
  BY BillingInit
<1>2. BillingInv /\ [Next]_vars => BillingInv'
  <2> SUFFICES ASSUME BillingInv, [Next]_vars PROVE BillingInv'
    OBVIOUS
  <2>1. CASE UNCHANGED vars
    BY <2>1, BillingStutter
  <2>2. CASE Next
    <3>0. BillingTypes /\ HandlerInv /\ PayInv /\ InvoicesExact
      BY DEF BillingInv
    <3>1. pay' \in [Payments -> PayRows] /\ PayInv'
      BY <2>2, <3>0, PaySteps
    <3>2. InvoiceTypes' /\ InvoicesExact'
      BY <2>2, <3>0, InvoiceSteps
    <3>3. subs' \in Seq(Rows)
      BY <2>2, TableSteps DEF Grows, TableGrows
    <3>4. tx' \in [Handlers -> TxRows] /\ HandlerInv'
      BY <2>2, HandlerSteps
    <3>5. JobTypes' /\ EntitledInv'
      BY <2>2, JobSteps
    <3>6. now' \in 0..MaxTime /\ mode' \in {"immediate", "queued"}
      BY <2>2, <3>0, ClockSteps
    <3>7. BillingTypes'
      BY <3>1, <3>2, <3>3, <3>4, <3>5, <3>6 DEF BillingTypes, InvoiceTypes, JobTypes
    <3>8. QED
      BY <3>1, <3>2, <3>4, <3>5, <3>7 DEF BillingInv
  <2>3. QED
    BY <2>1, <2>2
<1>3. QED
  BY <1>1, <1>2, PTL DEF Spec

\* A payment is credited once and has one invoice, numbers have neither gaps nor doubles, and what
\* counts as paid has its invoice, whoever races (_finalize_successful_payment, create_invoice_record).
THEOREM InvoicesSoundHolds == ASSUME BillingAssumption PROVE Spec => []InvoicesSound
<1>1. BillingInv => InvoicesSound
  <2> SUFFICES ASSUME BillingInv PROVE InvoicesSound
    OBVIOUS
  <2>1. BillingTypes /\ InvoicesExact
    BY DEF BillingInv
  <2>2. \A p \in Payments : pay[p].status \in PayStatuses
    BY <2>1 DEF BillingTypes, PayRows
  <2>3. \A h \in Handlers : tx[h].pc \in {"idle", "checked", "read", "wrote", "numbered"}
    <3> SUFFICES ASSUME NEW h \in Handlers PROVE tx[h].pc \in {"idle", "checked", "read", "wrote", "numbered"}
      OBVIOUS
    <3>1. tx[h] \in TxRows
      BY <2>1 DEF BillingTypes
    <3>2. QED
      BY <3>1 DEF TxRows
  <2>4. \A i \in DOMAIN subs : subs[i].status \in SubStatuses
    <3>1. \A i \in DOMAIN subs : subs[i] \in Rows
      BY <2>1, LenProperties, ElementOfSeq DEF BillingTypes
    <3>2. QED
      BY <3>1 DEF Rows
  <2>5. TypeOK
    BY <2>1, <2>2, <2>3, <2>4 DEF TypeOK, BillingTypes, PayStatuses, SubStatuses
  <2>6. QED
    BY <2>1, <2>5 DEF InvoicesSound
<1>2. QED
  BY <1>1, BillingInvariant, PTL

\* Live trading is open only to who has paid, was let in, or has a queued plan that was paid for
\* (check_trading_permission): a trial or a reward never leads there.
THEOREM TrialNeverLiveHolds == ASSUME BillingAssumption PROVE Spec => []TrialNeverLive
<1>1. BillingInv => TrialNeverLive
  <2> SUFFICES ASSUME BillingInv, NEW u \in Users, LiveAllowed(u) PROVE Entitled(u)
    BY DEF TrialNeverLive, Entitled
  <2>1. PICK c : c = Current(u)
    OBVIOUS
  <2>2. c # 0 /\ subs[c].plan # NoPlan
    BY <2>1 DEF LiveAllowed, HasSymbols
  <2>3. c \in 1..Len(subs) /\ subs[c].user = u
    BY <2>1, <2>2, CurrentRow DEF BillingInv
  <2>4. QED
    BY <2>2, <2>3 DEF BillingInv, EntitledInv, Asks
<1>2. QED
  BY <1>1, BillingInvariant, PTL

-----------------------------------------------------------------------------
(* The ledger.                                                             *)

LEMMA EntriesSame == ASSUME UNCHANGED <<invoices, lastNumber>> PROVE Entries' = Entries
BY DEF Entries

LEMMA StandingsWritten ==
  ASSUME NEW q \in Payments, \A p \in Payments : p # q => pay'[p] = pay[p]
  PROVE  Standings' = [Standings EXCEPT ![q] = Standing(pay'[q].status)]
BY DEF Standings

\* Every number that was given is that of an invoice.
LEMMA EntryIsInvoice ==
  ASSUME InvoicesExact, NEW n \in 1..lastNumber
  PROVE  \E v \in invoices : v.number = n /\ Entries[n] = v.payment
<1> DEFINE S == {v \in invoices : v.number = n}
<1>1. S # {}
  BY DEF InvoicesExact
<1>2. TheOnly(S) \in S
  BY <1>1 DEF TheOnly
<1>3. Entries[n] = TheOnly(S).payment
  BY DEF Entries
<1>4. QED
  BY <1>2, <1>3

\* A commit enters its payment behind all that were entered before.
LEMMA CommitEnters ==
  ASSUME BillingTypes, HandlerInv, InvoicesExact, NEW h \in Handlers, Commit(h)
  PROVE  /\ ~Ledger!Entered(tx[h].p)
         /\ Entries' = Append(Entries, tx[h].p)
<1> DEFINE q == tx[h].p
           n == tx[h].number
           v == [number |-> n, payment |-> q]
<1>1. /\ invoices' = invoices \cup {v} /\ lastNumber' = n
      /\ \A w \in invoices : w.number # n /\ w.payment # q
  BY DEF Commit, Finish, Taken
<1>2. lastNumber \in Nat /\ n \in 1..(lastNumber + 1)
  BY DEF BillingTypes, HandlerInv, Sound, Commit, Finish
<1>3. n = lastNumber + 1
  BY <1>1, <1>2 DEF InvoicesExact
<1>4. v.number = n /\ v.payment = q
  OBVIOUS
<1> HIDE DEF v, n, q
<1>5. ASSUME NEW k \in DOMAIN Entries PROVE Entries[k] # q
  <2>1. k \in 1..lastNumber
    BY DEF Entries
  <2>2. QED
    BY <1>1, <2>1, EntryIsInvoice
<1>6. ~Ledger!Entered(q)
  BY <1>5 DEF Ledger!Entered
<1>7. ASSUME NEW k \in 1..lastNumber PROVE Entries'[k] = Entries[k]
  <2>1. {w \in invoices' : w.number = k} = {w \in invoices : w.number = k}
    BY <1>1, <1>2, <1>3, <1>4
  <2>2. Entries[k] = TheOnly({w \in invoices : w.number = k}).payment
    BY DEF Entries
  <2>3. Entries'[k] = TheOnly({w \in invoices' : w.number = k}).payment
    BY <1>1, <1>2, <1>3 DEF Entries
  <2>4. QED
    BY <2>1, <2>2, <2>3
<1>8. Entries'[n] = q
  <2>1. {w \in invoices' : w.number = n} = {v}
    BY <1>1, <1>4
  <2>2. TheOnly({v}) = v
    BY DEF TheOnly
  <2>3. Entries'[n] = TheOnly({w \in invoices' : w.number = n}).payment
    BY <1>1, <1>2, <1>3 DEF Entries
  <2>4. QED
    BY <1>4, <2>1, <2>2, <2>3
<1>9. Entries' = Append(Entries, q)
  <2> DEFINE T == {Entries[k] : k \in 1..lastNumber} \cup {q}
  <2>1. Entries = [k \in 1..lastNumber |-> Entries[k]] /\ \A k \in 1..lastNumber : Entries[k] \in T
    BY DEF Entries
  <2>2. Entries' = [k \in 1..n |-> Entries'[k]]
    BY <1>1 DEF Entries
  <2>3. q \in T /\ Entries'[n] \in T /\ \A k \in 1..lastNumber : Entries'[k] \in T
    BY <1>7, <1>8, <2>1
  <2> HIDE DEF T
  <2>4. Entries \in Seq(T) /\ Len(Entries) = lastNumber
    BY <1>2, <2>1, IsASeq
  <2>5. Entries' \in Seq(T) /\ Len(Entries') = n
    BY <1>2, <1>3, <2>2, <2>3, IsASeq
  <2>6. /\ Append(Entries, q) \in Seq(T) /\ Len(Append(Entries, q)) = lastNumber + 1
        /\ Append(Entries, q)[lastNumber + 1] = q
        /\ \A k \in 1..lastNumber : Append(Entries, q)[k] = Entries[k]
    BY <2>3, <2>4, AppendProperties
  <2>7. \A k \in 1..n : Entries'[k] = Append(Entries, q)[k]
    BY <1>2, <1>3, <1>7, <1>8, <2>6
  <2>8. QED
    BY <1>3, <2>5, <2>6, <2>7, SeqEqual
<1>10. QED
  BY <1>6, <1>9 DEF q

LEMMA LedgerSteps ==
  ASSUME BillingInv, Next
  PROVE  [Ledger!Next]_<<Standings, Entries>>
<1>0. BillingTypes /\ HandlerInv /\ PayInv /\ InvoicesExact /\ pay \in [Payments -> PayRows]
  BY DEF BillingInv, BillingTypes
<1>1. CASE UNCHANGED <<pay, invoices, lastNumber>>
  BY <1>1, EntriesSame DEF Standings
<1>2. ASSUME NEW p \in Payments, NEW u \in Users, NEW plan \in Plans, CreateOrder(p, u, plan) \/ SubmitManual(p, u, plan)
      PROVE  Ledger!Order(p)
  <2>1. /\ pay[p].status = "none" /\ UNCHANGED <<invoices, lastNumber>>
        /\ pay'[p].status \in {"created", "pending_verification"}
        /\ \A q \in Payments : q # p => pay'[q] = pay[q]
    BY <1>0, <1>2, Ordered DEF CreateOrder, SubmitManual
  <2>2. Standings[p] = "none" /\ Standing(pay'[p].status) = "open"
    BY <2>1 DEF Standings, Standing
  <2>3. QED
    BY <2>1, <2>2, EntriesSame, StandingsWritten DEF Ledger!Order
<1>3. ASSUME NEW h \in Handlers, Refuse(h) PROVE \E p \in Payments : Ledger!Refuse(p)
  <2>1. tx[h].p \in Payments /\ pay[tx[h].p].status # "none" /\ tx[h].kind \in Refusers
    BY <1>0, <1>3, HandlersPayment DEF Refuse
  <2>2. PICK q \in Payments, s \in {"failed", "rejected"} :
          pay' = [pay EXCEPT ![q].status = s] /\ pay[q].status # "none"
    BY <1>3, <2>1, Outcomes DEF Refuse
  <2>3. UNCHANGED <<invoices, lastNumber>>
    BY <1>3 DEF Refuse
  <2>4. pay'[q].status = s /\ \A p \in Payments : p # q => pay'[p] = pay[p]
    BY <1>0, <2>2 DEF PayRows
  <2>5. Standings[q] # "none" /\ Standing(pay'[q].status) = "refused"
    BY <2>2, <2>4 DEF Standings, Standing
  <2>6. Ledger!Refuse(q)
    BY <2>3, <2>4, <2>5, EntriesSame, StandingsWritten DEF Ledger!Refuse
  <2>7. QED
    BY <2>6
<1>4. ASSUME NEW h \in Handlers, Commit(h) PROVE \E p \in Payments : Ledger!Credit(p)
  <2>1. tx[h].p \in Payments /\ pay[tx[h].p].status # "none" /\ tx[h].kind \in Finalisers
    BY <1>0, <1>4, HandlersPayment DEF Commit, Finish, HandlerInv, Sound
  <2>2. PICK q \in Payments, s \in {"success", "approved"} :
          q = tx[h].p /\ pay' = [pay EXCEPT ![q].status = s] /\ pay[q].status # "none"
    BY <1>4, <2>1, Outcomes DEF Commit, Finish
  <2>3. pay'[q].status = s /\ \A p \in Payments : p # q => pay'[p] = pay[p]
    BY <1>0, <2>2 DEF PayRows
  <2>4. Standings[q] # "none" /\ Standing(pay'[q].status) = "paid"
    BY <2>2, <2>3 DEF Standings, Standing
  <2>5. ~Ledger!Entered(q) /\ Entries' = Append(Entries, q)
    BY <1>0, <1>4, <2>2, CommitEnters
  <2>6. Ledger!Credit(q)
    BY <2>3, <2>4, <2>5, StandingsWritten DEF Ledger!Credit
  <2>7. QED
    BY <2>6
<1>5. ASSUME NEW h \in Handlers, Finish(h), ~Commit(h) PROVE UNCHANGED <<pay, invoices, lastNumber>>
  BY <1>5 DEF Commit, Finish
<1>6. ASSUME NEW p \in Payments, NEW h \in Handlers, NEW kind \in Kinds, Receive(h, kind, p)
      PROVE  UNCHANGED <<pay, invoices, lastNumber>>
  BY <1>6 DEF Receive
<1>7. QED
  BY <1>1, <1>2, <1>3, <1>4, <1>5, <1>6, StepKinds, AsideKeeps DEF Ledger!Next

(***************************************************************************)
(* For any number of payments and handlers, whatever of their transactions *)
(* overlap, roll back or die, billing implements PaymentLedger: every step *)
(* orders a payment, credits one that is not in the ledger, behind all     *)
(* that are, in the step in which it counts as paid, refuses one, or       *)
(* leaves standing and ledger alone (_finalize_successful_payment).        *)
(***************************************************************************)
THEOREM CreditedOnceHolds == ASSUME BillingAssumption PROVE Spec => CreditedOnce
<1>1. Init => Ledger!Init
  <2> SUFFICES ASSUME Init PROVE Ledger!Init
    OBVIOUS
  <2>1. \A p \in Payments : pay[p].status = "none"
    BY DEF Init
  <2>2. Standings = [p \in Payments |-> "none"]
    BY <2>1 DEF Standings, Standing
  <2>3. Entries = <<>>
    BY DEF Init, Entries
  <2>4. QED
    BY <2>2, <2>3 DEF Ledger!Init
<1>2. BillingInv /\ [Next]_vars => [Ledger!Next]_<<Standings, Entries>>
  <2>1. UNCHANGED vars => UNCHANGED <<Standings, Entries>>
    BY EntriesSame DEF vars, Standings
  <2>2. QED
    BY <2>1, LedgerSteps
<1>3. QED
  BY <1>1, <1>2, BillingInvariant, PTL DEF Spec, CreditedOnce, Ledger!Spec
=============================================================================
