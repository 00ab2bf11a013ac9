----------------------------- MODULE OrderStore -----------------------------
(***************************************************************************)
(* How the worker learns that a live order has been filled: the broker's   *)
(* webhook (backend/routers/webhook.py), the order store in Redis          *)
(* (backend/services/order_store.py) and _get_fill_price of the engine.    *)
(*                                                                         *)
(* The webhook stores an update and then publishes it; the two are separate *)
(* calls, requests are served at the same time, and the broker repeats an  *)
(* event until it is answered, so updates may come late, twice and in any  *)
(* order.  The worker subscribes, reads the store, and then waits.         *)
(***************************************************************************)
EXTENDS Integers, Sequences

CONSTANTS
  Orders,
  MaxInbox      \* bound: messages of one subscription that have not been read

ASSUME OrderAssumption == MaxInbox \in Nat

Filled   == "complete"                       \* is_filled_status
Rejected == {"rejected", "cancelled"}        \* is_rejected_status
Working  == {"open", "trigger_pending"}
Updates  == [status : Working \cup Rejected \cup {Filled}, priced : BOOLEAN]
NoUpdate == [status |-> "none", priced |-> FALSE]

VARIABLES
  order,        \* the order at the broker
  sent,         \* updates the broker has sent and may send again
  publishing,   \* updates stored and not yet published, by requests in progress
  stored,       \* order_update:<order>
  placed,       \* orders whose id is in bot:orders:<user>
  notified,     \* orders the user's dashboard has had an event of
  pcFill,       \* where _get_fill_price is
  inbox,        \* messages of its subscription
  late,         \* its deadline has passed
  unread,       \* a priced fill that came to the subscription, or was in the store when it was read
  outcome       \* what it returned

orderVars == <<order, sent, publishing, stored, placed, notified, pcFill, inbox, late, unread, outcome>>

OrderInit ==
  /\ order = [o \in Orders |-> "unplaced"]
  /\ sent = [o \in Orders |-> {}]
  /\ publishing = [o \in Orders |-> {}]
  /\ stored = [o \in Orders |-> NoUpdate]
  /\ placed = {} /\ notified = {}
  /\ pcFill = [o \in Orders |-> "idle"]
  /\ inbox = [o \in Orders |-> <<>>]
  /\ late = [o \in Orders |-> FALSE]
  /\ unread = [o \in Orders |-> FALSE]
  /\ outcome = [o \in Orders |-> "none"]

Terminal(o) == order[o] \in Rejected \cup {Filled}
PricedFill(u) == u.status = Filled /\ u.priced

-----------------------------------------------------------------------------
(* The broker (external): an order works until it is filled or rejected;   *)
(* each change of it is an event, a fill with its average price as a rule. *)

BrokerMoves(o) ==
  /\ order[o] # "unplaced" /\ ~Terminal(o)
  /\ \E u \in Updates :
       /\ u.priced => u.status = Filled
       /\ u.status # order[o]
       /\ order' = [order EXCEPT ![o] = u.status]
       /\ sent' = [sent EXCEPT ![o] = @ \cup {u}]
  /\ UNCHANGED <<publishing, stored, placed, notified, pcFill, inbox, late, unread, outcome>>

-----------------------------------------------------------------------------
(* upstox_webhook and publish_order_update.  The owner is found when the   *)
(* order's id has been registered; without an owner there is no event.     *)

WebhookStores(o) ==
  /\ \E u \in sent[o] :
       /\ stored' = [stored EXCEPT ![o] = u]
       /\ publishing' = [publishing EXCEPT ![o] = @ \cup {[update |-> u, owner |-> o \in placed]}]
  /\ UNCHANGED <<order, sent, placed, notified, pcFill, inbox, late, unread, outcome>>

Subscribed(o) == pcFill[o] \in {"subscribed", "waiting"}

WebhookPublishes(o) ==
  /\ Len(inbox[o]) < MaxInbox
  /\ \E p \in publishing[o] :
       /\ publishing' = [publishing EXCEPT ![o] = @ \ {p}]
       /\ inbox' = IF Subscribed(o) THEN [inbox EXCEPT ![o] = Append(@, p.update)] ELSE inbox
       /\ unread' = [unread EXCEPT ![o] = @ \/ (Subscribed(o) /\ ~late[o] /\ PricedFill(p.update))]
       /\ notified' = IF p.owner THEN notified \cup {o} ELSE notified
  /\ UNCHANGED <<order, sent, stored, placed, pcFill, late, outcome>>

-----------------------------------------------------------------------------
(* The worker. *)

WorkerSame == UNCHANGED <<order, sent, publishing, stored, notified>>

\* _place_order: the broker has the order before its id is registered.
PlaceOrder(o) ==
  /\ order[o] = "unplaced"
  /\ order' = [order EXCEPT ![o] = "placed"]
  /\ pcFill' = [pcFill EXCEPT ![o] = "placing"]
  /\ UNCHANGED <<sent, publishing, stored, placed, notified, inbox, late, unread, outcome>>

RegisterOrder(o) ==
  /\ pcFill[o] = "placing"
  /\ placed' = placed \cup {o}
  /\ pcFill' = [pcFill EXCEPT ![o] = "unsubscribed"]
  /\ WorkerSame /\ UNCHANGED <<inbox, late, unread, outcome>>

Subscribe(o) ==
  /\ pcFill[o] = "unsubscribed"
  /\ pcFill' = [pcFill EXCEPT ![o] = "subscribed"]
  /\ WorkerSame /\ UNCHANGED <<placed, inbox, late, unread, outcome>>

\* The wait ends; None, or the price of the fill.
Ends(o, u) ==
  /\ pcFill' = [pcFill EXCEPT ![o] = IF PricedFill(u) THEN "done" ELSE "polling"]
  /\ outcome' = [outcome EXCEPT ![o] = IF PricedFill(u) THEN "filled" ELSE @]
  /\ inbox' = [inbox EXCEPT ![o] = <<>>]

\* For mutation: any update ends the wait.
AnyUpdate(u) == u # NoUpdate

\* What ends the wait: a fill, whatever its price, or the end of the order.
Decisive(u) == u.status \in Rejected \cup {Filled}

\* The fast path, after the subscription; whatever it read, the loop begins then.
FastPath(o) ==
  /\ pcFill[o] = "subscribed"
  /\ unread' = [unread EXCEPT ![o] = @ \/ PricedFill(stored[o])]
  /\ IF Decisive(stored[o])
       THEN Ends(o, stored[o])
       ELSE pcFill' = [pcFill EXCEPT ![o] = "waiting"] /\ UNCHANGED <<inbox, outcome>>
  /\ WorkerSame /\ UNCHANGED <<placed, late>>

\* One turn of the loop: a message, or the store when half a second brought none.
Look(o) ==
  LET u == IF inbox[o] = <<>> THEN stored[o] ELSE Head(inbox[o]) IN
  /\ pcFill[o] = "waiting" /\ ~late[o]
  /\ IF Decisive(u)
       THEN Ends(o, u)
       ELSE /\ inbox' = [inbox EXCEPT ![o] = IF @ = <<>> THEN @ ELSE Tail(@)]
            /\ UNCHANGED <<pcFill, outcome>>
  /\ WorkerSame /\ UNCHANGED <<placed, late, unread>>

\* Time: the deadline passes once the loop has read what there was to read.
DeadlinePasses(o) ==
  /\ pcFill[o] = "waiting" /\ ~late[o] /\ inbox[o] = <<>>
  /\ late' = [late EXCEPT ![o] = TRUE]
  /\ WorkerSame /\ UNCHANGED <<placed, pcFill, inbox, unread, outcome>>

WaitTimesOut(o) ==
  /\ pcFill[o] = "waiting" /\ late[o]
  /\ Ends(o, NoUpdate)
  /\ WorkerSame /\ UNCHANGED <<placed, late, unread>>

\* The fallback asks the broker itself for five seconds, and may get no answer.
PollFinds(o) ==
  /\ pcFill[o] = "polling" /\ order[o] = Filled
  /\ pcFill' = [pcFill EXCEPT ![o] = "done"]
  /\ outcome' = [outcome EXCEPT ![o] = "filled"]
  /\ WorkerSame /\ UNCHANGED <<placed, inbox, late, unread>>

PollGivesUp(o) ==
  /\ pcFill[o] = "polling"
  /\ pcFill' = [pcFill EXCEPT ![o] = "done"]
  /\ outcome' = [outcome EXCEPT ![o] = "unconfirmed"]
  /\ WorkerSame /\ UNCHANGED <<placed, inbox, late, unread>>

OrderNext ==
  \E o \in Orders :
    \/ BrokerMoves(o) \/ WebhookStores(o) \/ WebhookPublishes(o)
    \/ PlaceOrder(o) \/ RegisterOrder(o) \/ Subscribe(o) \/ FastPath(o) \/ Look(o)
    \/ DeadlinePasses(o) \/ WaitTimesOut(o) \/ PollFinds(o) \/ PollGivesUp(o)

OrderSpec == OrderInit /\ [][OrderNext]_orderVars

-----------------------------------------------------------------------------
(* Properties. *)

OrderTypeOK ==
  /\ order \in [Orders -> {"unplaced", "placed", Filled} \cup Working \cup Rejected]
  /\ sent \in [Orders -> SUBSET Updates]
  /\ stored \in [Orders -> Updates \cup {NoUpdate}]
  /\ placed \subseteq Orders /\ notified \subseteq placed
  /\ \A o \in Orders : Len(inbox[o]) <= MaxInbox
  /\ outcome \in [Orders -> {"none", "filled", "unconfirmed"}]

\* An entry is never given up on although its fill was there to be seen: when
\* _get_fill_price leaves the webhook path without a price, no priced fill had
\* been published to its subscription before the deadline, and none was stored
\* when it first looked, although a late "open" may overwrite a stored fill and
\* updates come in any order.
FillNotMissed ==
  \A o \in Orders :
    pcFill[o] = "polling" \/ outcome[o] = "unconfirmed" => ~unread[o]

\* A fill is never made up: what is reported filled is filled at the broker.
NoPhantomFill ==
  \A o \in Orders : outcome[o] = "filled" => order[o] = Filled
=============================================================================
