--------------------------- MODULE GatewayDelivery ---------------------------
(***************************************************************************)
(* CONTACT notifications of one application: GatewayNotifier and           *)
(* deliverPendingNotifications.  inbox.json and deliveries.json are two    *)
(* files, each replaced by an atomic rename, never both at once.  Every    *)
(* handler holds the lock `${id}:notifications` from its first read to its *)
(* last write, so at most one is under way; its copies of the two files    *)
(* are `box` and `out`.  A crash and a failing read or write both abandon  *)
(* the handler: what it had in memory is gone, what it wrote stays.        *)
(*                                                                         *)
(* Items are numbered in the order they are created, which is their order  *)
(* in inbox.json.  The clock is abstracted to what the handlers compare:   *)
(* an item's age and whether a delivery is due; it moves between handlers. *)
(***************************************************************************)
EXTENDS Naturals, FiniteSets

CONSTANTS Adapters,   \* notification adapters, the webhook among them
          Keys, NoKey,\* dedupe keys
          MaxInbox,   \* MAX_INBOX
          Delays,     \* RETRY_DELAYS.length
          MaxItems,   \* bound: contacts that create an item
          MaxRetries, \* bound: retries a user asks for
          MaxAbandons \* bound: handlers abandoned

ASSUME DeliveryAssumption ==
  /\ NoKey \notin Keys
  /\ MaxInbox \in Nat \ {0} /\ Delays \in Nat
  /\ MaxItems \in Nat /\ MaxRetries \in Nat /\ MaxAbandons \in Nat

VARIABLES
  inbox,      \* inbox.json
  deliveries, \* deliveries.json
  lockStep,   \* where the handler that holds the lock stands, "free" if there is none
  wanted,     \* adapters of the item recordContact is writing
  todo,       \* deliveries deliverPendingNotifications has yet to attempt
  box, out,   \* the handler's copies of inbox.json and deliveries.json
  made,       \* items created
  retries, abandoned,
  seen,       \* history: items that were in inbox.json
  sent,       \* history: how often an adapter accepted the delivery
  tries       \* history: attempts since the delivery was last queued by a caller

memVars  == <<lockStep, wanted, todo, box, out>>
histVars == <<seen, sent, tries>>
deliveryVars == <<inbox, deliveries, memVars, made, retries, abandoned, histVars>>

Items  == 1..MaxItems
Pairs  == Items \X Adapters
Item   == [status : {"absent", "none", "queued", "delivered", "failed"},
           age : {"fresh", "old", "expired"}, key : Keys \union {NoKey}, read : BOOLEAN]
Delivery == [status : {"absent", "queued", "delivered", "failed"}, attempts : Nat, due : BOOLEAN]

NoItem     == [status |-> "absent", age |-> "fresh", key |-> NoKey, read |-> FALSE]
NoDelivery == [status |-> "absent", attempts |-> 0, due |-> FALSE]
NoBox      == [i \in Items |-> NoItem]
NoOut      == [d \in Pairs |-> NoDelivery]
Of(f, i)   == {d \in Pairs : d[1] = i /\ f[d].status # "absent"}
In(f)      == {i \in Items : f[i].status # "absent"}

DeliveryTypeOK ==
  /\ inbox \in [Items -> Item] /\ box \in [Items -> Item]
  /\ deliveries \in [Pairs -> Delivery] /\ out \in [Pairs -> Delivery]
  /\ lockStep \in {"free", "newInbox", "newDeliveries", "sending", "writeInbox"}
  /\ wanted \subseteq Adapters /\ todo \subseteq Pairs
  /\ made \in 0..MaxItems /\ retries \in 0..MaxRetries /\ abandoned \in 0..MaxAbandons
  /\ seen \subseteq Items /\ sent \in [Pairs -> Nat] /\ tries \in [Pairs -> Nat]

DeliveryInit ==
  /\ inbox = NoBox /\ deliveries = NoOut
  /\ lockStep = "free" /\ wanted = {} /\ todo = {} /\ box = NoBox /\ out = NoOut
  /\ made = 0 /\ retries = 0 /\ abandoned = 0
  /\ seen = {} /\ sent = [d \in Pairs |-> 0] /\ tries = [d \in Pairs |-> 0]

\* The definitions named Slip... are one-line mistakes in the definition that follows
\* them; each shows that a property of the runs notices it.

Unlock == lockStep' = "free" /\ wanted' = {} /\ todo' = {} /\ box' = NoBox /\ out' = NoOut

-----------------------------------------------------------------------------
(* recordContact                                                           *)

\* The notification an earlier contact with this key left within the last day.
Duplicate(k) == k # NoKey /\ \E i \in Items : inbox[i].status # "absent"
                              /\ inbox[i].key = k /\ inbox[i].age = "fresh"

Newest(S) == {i \in S : Cardinality({j \in S : j >= i}) <= MaxInbox}

\* A duplicate is answered without a write.  Otherwise the expired items go, the new
\* one is appended and only the newest MAX_INBOX stay.
Contact(k, as) ==
  LET new  == made + 1
      kept == Newest({i \in In(inbox) : inbox[i].age # "expired"} \union {new})
      item == [status |-> IF as = {} THEN "none" ELSE "queued", age |-> "fresh",
               key |-> k, read |-> FALSE]
  IN /\ lockStep = "free" /\ made < MaxItems /\ ~Duplicate(k)
     /\ made' = new /\ wanted' = as /\ lockStep' = "newInbox"
     /\ box' = [i \in Items |-> IF i = new THEN item ELSE IF i \in kept THEN inbox[i] ELSE NoItem]
     /\ UNCHANGED <<inbox, deliveries, todo, out, retries, abandoned, histVars>>

\* The inbox is written first; an item without adapters needs nothing else.
ContactInbox ==
  /\ lockStep = "newInbox"
  /\ inbox' = box /\ seen' = seen \union In(box)
  /\ IF wanted = {} THEN Unlock
     ELSE lockStep' = "newDeliveries" /\ UNCHANGED <<wanted, todo, box, out>>
  /\ UNCHANGED <<deliveries, made, retries, abandoned, sent, tries>>

SlipNotAwaited == lockStep \in {"newInbox", "newDeliveries"} /\ wanted # {}
InboxWritten == lockStep = "newDeliveries"
ContactDeliveries ==
  /\ InboxWritten
  /\ deliveries' = [d \in Pairs |->
       IF d[1] = made /\ d[2] \in wanted
         THEN [status |-> "queued", attempts |-> 0, due |-> TRUE] ELSE deliveries[d]]
  /\ Unlock
  /\ UNCHANGED <<inbox, made, retries, abandoned, histVars>>

-----------------------------------------------------------------------------
(* deliverPendingNotifications, called by every tick                       *)

SlipTakesUndelivered == {d \in Pairs : deliveries[d].status # "absent"}
Due == {d \in Pairs : deliveries[d].status = "queued" /\ deliveries[d].due}

\* Without a due delivery nothing is written.
DeliverBegin ==
  /\ lockStep = "free" /\ Due # {}
  /\ lockStep' = "sending" /\ todo' = Due /\ box' = inbox /\ out' = deliveries
  /\ UNCHANGED <<inbox, deliveries, wanted, made, retries, abandoned, histVars>>

\* The deliveries of the file are attempted in its order, one at a time.
Attempt(d) ==
  /\ lockStep = "sending" /\ d \in todo /\ \A e \in todo : d[1] <= e[1]
  /\ todo' = todo \ {d}
  /\ UNCHANGED <<inbox, deliveries, lockStep, wanted, made, retries, abandoned, seen>>

\* Every attempt dates the item anew, which reopens its dedupe window.
Marked(i, st) == box' = [box EXCEPT ![i] = [status |-> st, age |-> "fresh",
                                            key |-> box[i].key, read |-> box[i].read]]
OutWith(d, st, n, due) == out' = [out EXCEPT ![d] = [status |-> st, attempts |-> n, due |-> due]]

\* The item was pruned from the inbox.
SlipSkipped == "queued"
Removed == "failed"
AttemptMissing(d) ==
  /\ Attempt(d) /\ box[d[1]].status = "absent"
  /\ OutWith(d, Removed, out[d].attempts, out[d].due)
  /\ UNCHANGED <<box, sent, tries>>

SlipCountsItself(d) == {e \in Of(out, d[1]) : out[e].status # "delivered"}
Others(d) == {e \in Of(out, d[1]) \ {d} : out[e].status # "delivered"}
AttemptAccepted(d) ==
  /\ Attempt(d) /\ box[d[1]].status # "absent"
  /\ OutWith(d, "delivered", out[d].attempts, out[d].due)
  /\ Marked(d[1], IF Others(d) = {} THEN "delivered" ELSE "queued")
  /\ sent' = [sent EXCEPT ![d] = sent[d] + 1]
  /\ tries' = [tries EXCEPT ![d] = tries[d] + 1]

\* RETRY_DELAYS[attempts++]: past the last delay the delivery has failed for good.
HasDelay(n) == n < Delays
AttemptRefused(d) ==
  LET n == out[d].attempts
  IN /\ Attempt(d) /\ box[d[1]].status # "absent"
     /\ IF HasDelay(n)
          THEN OutWith(d, "queued", n + 1, FALSE) /\ Marked(d[1], box[d[1]].status)
          ELSE OutWith(d, "failed", n + 1, out[d].due) /\ Marked(d[1], "failed")
     /\ tries' = [tries EXCEPT ![d] = tries[d] + 1]
     /\ UNCHANGED sent

SlipInboxFirst == lockStep = "sending" /\ todo = {}
AfterDeliveries == lockStep = "writeInbox"
WriteDeliveries ==
  /\ lockStep = "sending" /\ todo = {}
  /\ deliveries' = out /\ lockStep' = "writeInbox"
  /\ UNCHANGED <<inbox, wanted, todo, box, out, made, retries, abandoned, histVars>>
WriteInbox ==
  /\ AfterDeliveries
  /\ inbox' = box /\ seen' = seen \union In(box) /\ Unlock
  /\ UNCHANGED <<deliveries, made, retries, abandoned, sent, tries>>

-----------------------------------------------------------------------------
(* markRead and retry read and write one file under the lock.              *)

SlipNoLock == TRUE
HoldsLock == lockStep = "free"
MarkRead(i) ==
  /\ HoldsLock /\ inbox[i].status # "absent"
  /\ inbox' = [inbox EXCEPT ![i] = [status |-> inbox[i].status, age |-> inbox[i].age,
                                    key |-> inbox[i].key, read |-> TRUE]]
  /\ UNCHANGED <<deliveries, memVars, made, retries, abandoned, histVars>>

\* The item's status is left as it is: only deliveries.json is written.
Retry(d) ==
  /\ lockStep = "free" /\ retries < MaxRetries /\ deliveries[d].status = "failed"
  /\ deliveries' = [deliveries EXCEPT ![d] = [status |-> "queued", attempts |-> 0, due |-> TRUE]]
  /\ retries' = retries + 1 /\ tries' = [tries EXCEPT ![d] = 0]
  /\ UNCHANGED <<inbox, memVars, made, abandoned, seen, sent>>

-----------------------------------------------------------------------------
(* The clock, and a handler that does not reach its end.                   *)

\* An item's age matters to the next contact only.
Aged(i) == /\ lockStep = "free" /\ made < MaxItems
           /\ inbox[i].status # "absent" /\ inbox[i].age # "expired"
           /\ inbox' = [inbox EXCEPT ![i] =
                [status |-> inbox[i].status, age |-> IF inbox[i].age = "fresh" THEN "old" ELSE "expired",
                 key |-> inbox[i].key, read |-> inbox[i].read]]
           /\ UNCHANGED <<deliveries, memVars, made, retries, abandoned, histVars>>

DelayOver(d) == /\ lockStep = "free" /\ deliveries[d].status = "queued" /\ ~deliveries[d].due
                /\ deliveries' = [deliveries EXCEPT ![d] =
                     [status |-> "queued", attempts |-> deliveries[d].attempts, due |-> TRUE]]
                /\ UNCHANGED <<inbox, memVars, made, retries, abandoned, histVars>>

Abandon == /\ lockStep # "free" /\ abandoned < MaxAbandons
           /\ Unlock /\ abandoned' = abandoned + 1
           /\ UNCHANGED <<inbox, deliveries, made, retries, histVars>>

DeliverStep == \/ DeliverBegin \/ WriteDeliveries \/ WriteInbox
               \/ \E d \in Pairs : AttemptMissing(d) \/ AttemptAccepted(d) \/ AttemptRefused(d)

DeliveryNext ==
  \/ \E k \in Keys \union {NoKey}, as \in SUBSET Adapters : Contact(k, as)
  \/ ContactInbox \/ ContactDeliveries
  \/ DeliverStep
  \/ \E i \in Items : MarkRead(i) \/ Aged(i)
  \/ \E d \in Pairs : Retry(d) \/ DelayOver(d)
  \/ Abandon

DeliverySpec == DeliveryInit /\ [][DeliveryNext]_deliveryVars

\* The daemon ticks every 30 seconds, writes return, adapters answer and clocks move on.
DeliveryFairness == /\ WF_deliveryVars(ContactInbox \/ ContactDeliveries \/ DeliverStep)
                    /\ WF_deliveryVars(\E d \in Pairs : DelayOver(d))
DeliveryFairSpec == DeliverySpec /\ DeliveryFairness

-----------------------------------------------------------------------------
(* Properties.                                                             *)

\* CONTACT writes the inbox first: deliveries.json names no item that was not in
\* inbox.json before it (recordContact's two awaits).
InboxFirst == \A d \in Pairs : deliveries[d].status # "absent" => d[1] \in seen

\* An item shown as delivered was accepted by every adapter it was queued for, whatever
\* handler was abandoned between the two files (deliverPendingNotifications writes
\* deliveries.json first).
DeliveredMeansAll ==
  \A i \in Items : inbox[i].status = "delivered" =>
    Of(deliveries, i) # {} /\ \A d \in Of(deliveries, i) : deliveries[d].status = "delivered"

\* Unless a handler was abandoned, an item all of whose deliveries were accepted is shown
\* as delivered once the lock is free (deliverOne computes it over the whole file).
AllMeansDelivered ==
  abandoned = 0 /\ lockStep = "free" =>
    \A i \in In(inbox) :
      (Of(deliveries, i) # {} /\ \A d \in Of(deliveries, i) : deliveries[d].status = "delivered")
        => inbox[i].status = "delivered"

\* An adapter accepts a notification once, and once more for every handler that was
\* abandoned before it wrote deliveries.json; the receiver tells them apart by the id.
AcceptedOnce == \A d \in Pairs : sent[d] <= 1 + abandoned

\* A delivery is attempted once and after each retry delay, and once more for every
\* abandoned handler, until somebody asks for a retry (RETRY_DELAYS[attempts++]).
TriesBounded == \A d \in Pairs : tries[d] <= Delays + 1 + abandoned

\* An item marked as read stays so while it is in the inbox: no handler writes a copy
\* of inbox.json that it read before the mark (the notifications lock).
ReadSticks == [][\A i \in Items : inbox[i].read /\ inbox'[i].status # "absent" => inbox'[i].read]_deliveryVars

\* When no more contacts and retries come (both are bounded here), every delivery is
\* settled in the end and stays so, that of a pruned item too (the tick and its delays).
DeliveriesSettle == <>[](\A d \in Pairs : deliveries[d].status # "queued")
=============================================================================
