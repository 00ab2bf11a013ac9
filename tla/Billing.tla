------------------------------- MODULE Billing -------------------------------
(***************************************************************************)
(* Subscriptions, payments and invoices: backend/routers/                  *)
(* subscription_router.py, backend/services/subscription_service.py,       *)
(* manual_payment_service.py, invoice_service.py, campaign_service.py, the *)
(* admin endpoints and scripts/subscription_daily_job.py.                  *)
(*                                                                         *)
(* A request handler is a database transaction (PostgreSQL, READ           *)
(* COMMITTED): its SELECTs see what is committed, its UPDATEs lock the row *)
(* until it ends, and a violated UNIQUE constraint rolls all of it back.   *)
(* Handlers whose write does not depend on an earlier read are one step.   *)
(***************************************************************************)
EXTENDS Integers, Sequences, FiniteSets, FiniteSetsExt

CONSTANTS
  Users,
  Payments,      \* ids of payment rows; a manual one has a UTR of its own
  Plans,
  Handlers,      \* requests that can be served at one time
  MaxTime,       \* bound: days that pass; a period lasts one, and is over when the next begins
  MaxWork        \* bound: requests; orders, rewards and overlapping logins are counted twice

NoPlan == "no plan"
Dated  == {"trial", "active", "pending_payment"}

ASSUME BillingAssumption ==
  /\ NoPlan \notin Plans
  /\ MaxTime \in Nat /\ MaxWork \in Nat

VARIABLES
  now,
  mode,         \* billing_settings.upgrade_mode
  trialUsed,    \* User.trial_used
  logins,       \* logins that have loaded a user whose trial_used is not set
  reward,       \* status of each user's latest PartnerRewardRequest
  pay,          \* the payments table
  subs,         \* the subscriptions table, oldest row first
  invoices,     \* the invoices table: [number, payment]
  lastNumber,   \* invoice_sequences.last_number
  events,       \* payments whose payment.captured event is in payment_logs
  tx,           \* what each handler is doing, and what it has read
  job,          \* rows the daily job has listed and not dealt with
  given,        \* users who got a plan, or had one queued, without a payment
  work          \* counter of the bound

trials == <<trialUsed, logins>>
vars   == <<now, mode, trials, reward, pay, subs, invoices, lastNumber,
          events, tx, job, given, work>>

Row(u, plan, status, end) ==
  [user |-> u, plan |-> plan, status |-> status, current |-> TRUE, end |-> end, pending |-> NoPlan]

NoRow == [user |-> "nobody", plan |-> NoPlan, status |-> "none", current |-> FALSE,
          end |-> 0, pending |-> NoPlan]
Idle  == [kind |-> "none", p |-> "none", pc |-> "idle", cur |-> 0, row |-> NoRow,
          op |-> "none", rows |-> {}, end |-> 0, number |-> 0]

Init ==
  /\ now = 0
  /\ mode \in {"immediate", "queued"}
  /\ trialUsed = [u \in Users |-> FALSE]
  /\ logins = [u \in Users |-> 0]
  /\ reward = [u \in Users |-> "none"]
  /\ pay = [p \in Payments |-> [status |-> "none", provider |-> "none", user |-> "nobody", plan |-> NoPlan]]
  /\ events = {} /\ invoices = {} /\ job = {} /\ given = {}
  /\ subs = <<>>
  /\ lastNumber = 0
  /\ tx = [h \in Handlers |-> Idle]
  /\ work = 0

-----------------------------------------------------------------------------
(* The tables. *)

CurrentRows(u) == {i \in DOMAIN subs : subs[i].user = u /\ subs[i].current}

\* SubscriptionRepository.get_current: the newest row with is_current; 0 is None.
Current(u) == IF CurrentRows(u) = {} THEN 0 ELSE Max(CurrentRows(u))

\* clear_current and create: the table after the row r has replaced the others.
Replacing(rows, r) ==
  Append([i \in DOMAIN subs |-> IF i \in rows THEN [subs[i] EXCEPT !.current = FALSE] ELSE subs[i]], r)

\* Row locks: a handler holds what it has updated until it commits or rolls back.
PayLocked(p) == \E h \in Handlers : tx[h].p = p /\ tx[h].pc \in {"read", "wrote", "numbered"}
RowsFree(R)  == \A h \in Handlers : tx[h].rows \cap R = {}

Invoiced(p) == \E v \in invoices : v.payment = p

-----------------------------------------------------------------------------
(* Orders. *)

Spend(n) == work + n <= MaxWork /\ work' = work + n

\* POST /order in Razorpay mode.
CreateOrder(p, u, plan) ==
  /\ pay[p].status = "none"
  /\ Spend(2)
  /\ pay' = [pay EXCEPT ![p] = [status |-> "created", provider |-> "RAZORPAY", user |-> u, plan |-> plan]]
  /\ UNCHANGED <<now, mode, trials, reward, subs, invoices, lastNumber, events, tx, job, given>>

\* submit_manual_payment: a UTR that is not in the table yet.
SubmitManual(p, u, plan) ==
  /\ pay[p].status = "none"
  /\ Spend(2)
  /\ pay' = [pay EXCEPT ![p] = [status |-> "pending_verification", provider |-> "MANUAL", user |-> u, plan |-> plan]]
  /\ UNCHANGED <<now, mode, trials, reward, subs, invoices, lastNumber, events, tx, job, given>>

-----------------------------------------------------------------------------
(* Requests about a payment. *)

Finalisers == {"verify", "webhook", "approve"}
Refusers   == {"failed", "reject"}

\* For mutation: the provider's word for the status is stored.
ProviderOutcome(kind) == IF kind = "webhook" THEN "captured" ELSE "success"

\* The status each of them writes.
Outcome(kind) == CASE kind \in {"verify", "webhook"} -> "success"
                   [] kind = "approve"               -> "approved"
                   [] kind = "failed"                -> "failed"
                   [] kind = "reject"                -> "rejected"

\* verify-payment with a good signature, the webhook's
\* payment.captured, the two admin decisions, and "failed" for a bad signature
\* or the webhook's payment.failed: the checks before the first write.
Admits(kind, p) ==
  CASE kind \in {"verify", "failed"} -> pay[p].provider = "RAZORPAY" /\ pay[p].status # "success"
    [] kind = "webhook"             -> pay[p].provider = "RAZORPAY" /\ p \notin events
    [] OTHER                        -> pay[p].provider = "MANUAL" /\ pay[p].status = "pending_verification"

\* A request comes in and reads the payment; a webhook for a payment that is
\* already a success only logs its event.
Receive(h, kind, p) ==
  /\ tx[h].pc = "idle"
  /\ Admits(kind, p)
  /\ IF kind = "webhook" /\ pay[p].status = "success"
     THEN events' = events \cup {p} /\ UNCHANGED tx
     ELSE /\ tx' = [tx EXCEPT ![h] = [Idle EXCEPT !.kind = kind, !.p = p, !.pc = "checked"]]
          /\ UNCHANGED events
  /\ UNCHANGED <<now, mode, trials, reward, pay, subs, invoices, lastNumber, job, given, work>>

\* The other outcomes are written as soon as the row is free.
Refuse(h) ==
  /\ tx[h].pc = "checked" /\ tx[h].kind \in Refusers
  /\ ~PayLocked(tx[h].p)
  /\ pay' = [pay EXCEPT ![tx[h].p].status = Outcome(tx[h].kind)]
  /\ tx' = [tx EXCEPT ![h] = Idle]
  /\ UNCHANGED <<now, mode, trials, reward, subs, invoices, lastNumber, events, job, given, work>>

\* For mutation: the payment's new status is committed before the invoice.
FlushCommitted(h) ==
  /\ tx[h].pc = "checked" /\ tx[h].kind \in Finalisers
  /\ ~PayLocked(tx[h].p)
  /\ LET c == Current(pay[tx[h].p].user)
     IN  tx' = [tx EXCEPT ![h].pc = "read", ![h].cur = c, ![h].row = IF c = 0 THEN NoRow ELSE subs[c]]
  /\ pay' = [pay EXCEPT ![tx[h].p].status = Outcome(tx[h].kind)]
  /\ UNCHANGED <<now, mode, trials, reward, subs, invoices, lastNumber, events, job, given, work>>

\* The payment's row is updated (and locked); _finalize_successful_payment
\* reads the subscription.
FlushPayment(h) ==
  /\ tx[h].pc = "checked" /\ tx[h].kind \in Finalisers
  /\ ~PayLocked(tx[h].p)
  /\ LET c == Current(pay[tx[h].p].user)
     IN  tx' = [tx EXCEPT ![h].pc = "read", ![h].cur = c, ![h].row = IF c = 0 THEN NoRow ELSE subs[c]]
  /\ UNCHANGED <<now, mode, trials, reward, pay, subs, invoices, lastNumber, events, job, given, work>>

\* Activate, renew or change the plan, by the row that was read.
Operation(h) ==
  LET t == tx[h] IN
  IF t.cur = 0 \/ t.row.status \in {"expired", "cancelled", "trial"} THEN "activate"
  ELSE IF t.row.plan # pay[t.p].plan
       THEN IF mode = "queued" THEN "queue" ELSE "activate"
       ELSE IF t.row.status = "active" THEN "renew" ELSE "revive"

\* The subscription rows are updated, and locked.
WriteSubscription(h) ==
  LET t    == tx[h]
      op   == Operation(h)
      rows == IF op = "activate" THEN CurrentRows(pay[t.p].user) ELSE {t.cur}
  IN  /\ t.pc = "read"
      /\ RowsFree(rows)
      /\ tx' = [tx EXCEPT ![h] = [t EXCEPT !.pc = "wrote", !.op = op, !.rows = rows, !.cur = 0, !.row = NoRow,
                   !.end = IF op = "queue" THEN 0 ELSE Max({now, IF op = "activate" THEN 0 ELSE t.row.end}) + 1]]
      /\ UNCHANGED <<now, mode, trials, reward, pay, subs, invoices, lastNumber, events, job, given, work>>

\* next_sequence_number reads the counter.
ReadNumber(h) ==
  /\ tx[h].pc = "wrote"
  /\ tx' = [tx EXCEPT ![h].pc = "numbered", ![h].number = lastNumber + 1]
  /\ UNCHANGED <<now, mode, trials, reward, pay, subs, invoices, lastNumber, events, job, given, work>>

\* The table after the handler's commit.  A column is written when it differs
\* from what was read: renewing an active row does not write the status.
Subscribed(h) ==
  LET t == tx[h]
      c == Max(t.rows)
  IN  CASE t.op = "activate" -> Replacing(t.rows, Row(pay[t.p].user, pay[t.p].plan, "active", t.end))
        [] t.op = "renew"    -> [subs EXCEPT ![c].end = t.end]
        [] t.op = "revive"   -> [subs EXCEPT ![c].end = t.end, ![c].status = "active"]
        [] t.op = "queue"    -> [subs EXCEPT ![c].pending = pay[t.p].plan]

\* For mutation: the payment of an invoice is not UNIQUE.
TakenNumberOnly(n, p) == \E v \in invoices : v.number = n

\* The UNIQUE constraints of the invoices table.
Taken(n, p) == \E v \in invoices : v.number = n \/ v.payment = p

\* The counter is written, the invoice inserted and the transaction committed;
\* or a constraint refuses the invoice and everything is rolled back.
Finish(h) ==
  LET t == tx[h] IN
  /\ t.pc = "numbered"
  /\ IF Taken(t.number, t.p)
     THEN UNCHANGED <<pay, subs, invoices, lastNumber, events>>
     ELSE /\ pay' = [pay EXCEPT ![t.p].status = Outcome(t.kind)]
          /\ subs' = Subscribed(h)
          /\ invoices' = invoices \cup {[number |-> t.number, payment |-> t.p]}
          /\ lastNumber' = t.number
          /\ events' = IF t.kind = "webhook" THEN events \cup {t.p} ELSE events
  /\ tx' = [tx EXCEPT ![h] = Idle]
  /\ UNCHANGED <<now, mode, trials, reward, job, given, work>>

\* The process dies, or the connection does: the transaction is rolled back.
Crash(h) ==
  /\ tx[h].pc # "idle"
  /\ tx' = [tx EXCEPT ![h] = Idle]
  /\ UNCHANGED <<now, mode, trials, reward, pay, subs, invoices, lastNumber, events, job, given, work>>

-----------------------------------------------------------------------------
(* Rows that no payment asked for. *)

\* A login loads the user.
Login(u) ==
  /\ ~trialUsed[u]
  /\ Spend(2 * logins[u])
  /\ logins' = [logins EXCEPT ![u] = @ + 1]
  /\ UNCHANGED <<now, mode, trialUsed, reward, pay, subs, invoices, lastNumber, events, tx, job, given>>

\* start_trial looks at the object that was loaded, clears the current rows,
\* adds its own and sets the flag.
StartTrial(u) ==
  /\ logins[u] > 0
  /\ RowsFree(CurrentRows(u))
  /\ logins' = [logins EXCEPT ![u] = @ - 1]
  /\ trialUsed' = [trialUsed EXCEPT ![u] = TRUE]
  /\ subs' = Replacing(CurrentRows(u), Row(u, NoPlan, "trial", now + 1))
  /\ UNCHANGED <<now, mode, reward, pay, invoices, lastNumber, events, tx, job, given, work>>

\* Its process dies before the commit.
LoginLost(u) ==
  /\ logins[u] > 0
  /\ logins' = [logins EXCEPT ![u] = @ - 1]
  /\ UNCHANGED <<now, mode, trialUsed, reward, pay, subs, invoices, lastNumber, events, tx, job, given, work>>

\* submit_reward_request, verify_reward_request and reject_reward_request.
SubmitReward(u) ==
  /\ reward[u] # "Pending"
  /\ Spend(2)
  /\ reward' = [reward EXCEPT ![u] = "Pending"]
  /\ UNCHANGED <<now, mode, trials, pay, subs, invoices, lastNumber, events, tx, job, given>>

VerifyReward(u) ==
  /\ reward[u] = "Pending"
  /\ RowsFree(CurrentRows(u))
  /\ reward' = [reward EXCEPT ![u] = "Verified"]
  /\ subs' = Replacing(CurrentRows(u), Row(u, NoPlan, "trial", now + 1))
  /\ UNCHANGED <<now, mode, trials, pay, invoices, lastNumber, events, tx, job, given, work>>

RejectReward(u) ==
  /\ reward[u] = "Pending"
  /\ reward' = [reward EXCEPT ![u] = "Rejected"]
  /\ UNCHANGED <<now, mode, trials, pay, subs, invoices, lastNumber, events, tx, job, given, work>>

\* POST /downgrade: no payment; the plan waits for the period's end.
Downgrade(u, plan) ==
  LET c == Current(u) IN
  /\ c # 0 /\ subs[c].status = "active" /\ RowsFree({c})
  /\ Spend(1)
  /\ subs' = [subs EXCEPT ![c].pending = plan]
  /\ given' = given \cup {u}
  /\ UNCHANGED <<now, mode, trials, reward, pay, invoices, lastNumber, events, tx, job>>

\* suspend_sub, resume_sub, cancel_sub and extend_sub.
AdminEdit(i) ==
  /\ RowsFree({i})
  /\ Spend(1)
  /\ \/ subs' = [subs EXCEPT ![i].status = "suspended"]
     \/ subs' = [subs EXCEPT ![i].status = "cancelled"]
     \/ /\ subs[i].status = "suspended"
        /\ subs' = [subs EXCEPT ![i].status = IF subs[i].end > now THEN "active" ELSE "expired"]
     \/ subs' = [subs EXCEPT ![i].end = @ + 1]
  /\ UNCHANGED <<now, mode, trials, reward, pay, invoices, lastNumber, events, tx, job, given>>

\* convert_trial and activate_custom_subscription: a plan without a payment.
AdminActivate(u, plan) ==
  /\ RowsFree(CurrentRows(u))
  /\ Spend(1)
  /\ subs' = Replacing(CurrentRows(u), Row(u, plan, "active", now + 1))
  /\ given' = given \cup {u}
  /\ UNCHANGED <<now, mode, trials, reward, pay, invoices, lastNumber, events, tx, job>>

-----------------------------------------------------------------------------
(* The daily job lists the rows once and commits them one by one. *)

PastDue == {i \in DOMAIN subs : subs[i].current /\ subs[i].end <= now /\ subs[i].status \in Dated}

JobList ==
  /\ job = {} /\ PastDue # {}
  /\ job' = {[row |-> i, pending |-> subs[i].pending] : i \in PastDue}
  /\ UNCHANGED <<now, mode, trials, reward, pay, subs, invoices, lastNumber, events, tx, given, work>>

\* A queued plan starts; a row without one expires.
JobStep(j) ==
  LET u == subs[j.row].user IN
  /\ job' = job \ {j}
  /\ IF j.pending # NoPlan
     THEN /\ RowsFree(CurrentRows(u))
          /\ subs' = Replacing(CurrentRows(u), Row(u, j.pending, "active", now + 1))
     ELSE /\ RowsFree({j.row})
          /\ subs' = [subs EXCEPT ![j.row].status = "expired"]
  /\ UNCHANGED <<now, mode, trials, reward, pay, invoices, lastNumber, events, tx, given, work>>

Tick ==
  /\ now < MaxTime
  /\ now' = now + 1
  /\ UNCHANGED <<mode, trials, reward, pay, subs, invoices, lastNumber, events, tx, job, given, work>>

\* The steps of a handler that has received its request.
Proceed(h) == Refuse(h) \/ FlushPayment(h) \/ WriteSubscription(h) \/ ReadNumber(h) \/ Finish(h)

Next ==
  \/ \E p \in Payments :
       \/ \E u \in Users, plan \in Plans : CreateOrder(p, u, plan) \/ SubmitManual(p, u, plan)
       \/ \E h \in Handlers, kind \in Finalisers \cup Refusers : Receive(h, kind, p)
  \/ \E h \in Handlers : Proceed(h) \/ Crash(h)
  \/ \E u \in Users : Login(u) \/ StartTrial(u) \/ LoginLost(u)
  \/ \E u \in Users : SubmitReward(u) \/ VerifyReward(u) \/ RejectReward(u)
  \/ \E u \in Users, plan \in Plans : Downgrade(u, plan) \/ AdminActivate(u, plan)
  \/ \E i \in DOMAIN subs : AdminEdit(i)
  \/ JobList
  \/ \E j \in job : JobStep(j)
  \/ Tick

Spec == Init /\ [][Next]_vars

-----------------------------------------------------------------------------
TypeOK ==
  /\ now \in 0..MaxTime /\ mode \in {"immediate", "queued"}
  /\ \A p \in Payments : pay[p].status \in {"none", "created", "success", "failed",
                                            "pending_verification", "approved", "rejected"}
  /\ events \subseteq Payments
  /\ invoices \subseteq [number : Nat, payment : Payments]
  /\ \A h \in Handlers : tx[h].pc \in {"idle", "checked", "read", "wrote", "numbered"}
  /\ \A i \in DOMAIN subs : subs[i].status \in {"trial", "active", "expired", "cancelled", "suspended"}

(***************************************************************************)
(* However the browser's verification, the provider's webhook and two      *)
(* administrators race, a payment is credited once: whoever comes second   *)
(* passes the status check, and is undone by the invoice it cannot insert. *)
(* Invoice numbers have neither gaps nor doubles, although the counter is  *)
(* read and written in two steps and transactions are rolled back.  And a  *)
(* payment that counts as paid, or an event that will not be looked at     *)
(* again, has its invoice: a crash loses no money.                         *)
(***************************************************************************)
InvoicesExact ==
  /\ \A v, w \in invoices : v.payment = w.payment => v = w
  /\ {v.number : v \in invoices} = 1..lastNumber /\ Cardinality(invoices) = lastNumber
  /\ \A p \in Payments : pay[p].status \in {"success", "approved"} \/ p \in events => Invoiced(p)

(***************************************************************************)
(* Seen by the invoices' numbers and the payments' statuses, the handlers, *)
(* their transactions, rollbacks and crashes implement PaymentLedger: a    *)
(* payment is credited at one moment, behind all that were before it, and  *)
(* what was credited stays.                                                *)
(***************************************************************************)
Standing(status) == CASE status = "none"                               -> "none"
                      [] status \in {"created", "pending_verification"} -> "open"
                      [] status \in {"success", "approved"}             -> "paid"
                      [] OTHER                                          -> "refused"

TheOnly(S) == CHOOSE x \in S : TRUE

Standings == [p \in Payments |-> Standing(pay[p].status)]
Entries   == [n \in 1..lastNumber |-> TheOnly({v \in invoices : v.number = n}).payment]

Ledger == INSTANCE PaymentLedger WITH standing <- Standings, ledger <- Entries

CreditedOnce == Ledger!Spec

\* For mutation: an empty symbol map that is not looked at.
AnySymbols(r) == TRUE

\* symbols_and_limits_for_subscription is not empty.
HasSymbols(r) == r.plan # NoPlan

\* check_trading_permission, for a live start.
LiveAllowed(u) ==
  /\ Current(u) # 0
  /\ LET r == subs[Current(u)] IN r.status = "active" /\ r.end > now /\ HasSymbols(r)

(***************************************************************************)
(* Live trading is open only to a user who has paid, whom an administrator *)
(* has let in, or whose queued plan has started: a trial or a reward never *)
(* leads there, though suspending and resuming it makes its row active.    *)
(***************************************************************************)
TrialNeverLive ==
  \A u \in Users : LiveAllowed(u) =>
    u \in given \/ \E p \in Payments : pay[p].user = u /\ Invoiced(p)

\* Refuted: start_trial, "trials can never be restarted, extended, or reclaimed".
TrialStartedOnce == [][\A u \in Users : StartTrial(u) => ~trialUsed[u]]_vars

\* Refuted: the daily job's first duty, "Expire trials/subscriptions whose end_date has
\* passed" - and no other.
ExpiredIsPast ==
  [][\A i \in DOMAIN subs : subs[i].status # "expired" /\ subs'[i].status = "expired" => subs[i].end <= now]_vars

=============================================================================
