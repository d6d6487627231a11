----------------------- MODULE GatewayDelivery_proofs -----------------------
(***************************************************************************)
(* Proofs about GatewayDelivery, for any number of items, adapters, keys,  *)
(* retries and abandoned handlers, any inbox limit and retry schedule.     *)
(***************************************************************************)
EXTENDS GatewayDelivery, TLAPS

Delivering == lockStep \in {"sending", "writeInbox"}

\* Every item of b shown as delivered has deliveries in f, all of them accepted.
AllAccepted(b, f) ==
  \A i \in Items : b[i].status = "delivered" =>
    /\ \E d \in Pairs : d[1] = i /\ f[d].status # "absent"
    /\ \A d \in Pairs : d[1] = i /\ f[d].status # "absent" => f[d].status = "delivered"

\* What g makes of the deliveries of f: none appears or disappears, an accepted one stays.
Advances(f, g) ==
  \A d \in Pairs : /\ f[d].status = "absent" <=> g[d].status = "absent"
                   /\ f[d].status = "delivered" => g[d].status = "delivered"

\* The item being recorded is new: no delivery names it, and it was not delivered.
NewItemInv ==
  /\ lockStep \in {"newInbox", "newDeliveries"} =>
       /\ made \in Items /\ \A d \in Pairs : d[1] = made => deliveries[d].status = "absent"
  /\ lockStep = "newInbox" => box[made].status \notin {"absent", "delivered"}
  /\ lockStep = "newDeliveries" => made \in seen /\ inbox[made].status # "delivered"
  /\ \A i \in Items : i > made => \A d \in Pairs : d[1] = i => deliveries[d].status = "absent"

\* inbox.json never promises more than deliveries.json, nor the copies, nor one of each.
StatusInv ==
  /\ AllAccepted(inbox, deliveries)
  /\ lockStep = "newInbox" => AllAccepted(box, deliveries)
  /\ Delivering => AllAccepted(box, out) /\ Advances(deliveries, out)
  /\ lockStep = "writeInbox" => deliveries = out

\* Attempts counted by a record, and the one that was accepted.
Budget(x) == x.attempts + (IF x.status = "delivered" THEN 1 ELSE 0)
Within(x) == /\ x.attempts <= Delays + 1
             /\ x.status \in {"queued", "delivered"} => x.attempts <= Delays
             /\ x.status = "absent" => x.attempts = 0

\* A handler attempts every delivery once, so its copy is one attempt ahead of the file.
TriesInv ==
  \A d \in Pairs :
    /\ Within(deliveries[d]) /\ (Delivering => Within(out[d]))
    /\ lockStep # "sending" => tries[d] <= Budget(deliveries[d]) + abandoned
    /\ Delivering => /\ tries[d] <= Budget(out[d]) + abandoned
                     /\ tries[d] <= Budget(deliveries[d]) + 1 + abandoned

\* Only an accepted delivery was sent more often than handlers were abandoned.
SentInv ==
  \A d \in Pairs :
    /\ sent[d] <= 1 + abandoned
    /\ lockStep # "sending" /\ deliveries[d].status # "delivered" => sent[d] <= abandoned
    /\ Delivering /\ out[d].status # "delivered" => sent[d] <= abandoned

TodoInv == \A d \in todo : lockStep = "sending" /\ out[d] = deliveries[d] /\ out[d].status = "queued"
                           /\ tries[d] <= Budget(deliveries[d]) + abandoned

IInv == DeliveryTypeOK /\ NewItemInv /\ StatusInv /\ InboxFirst /\ TodoInv /\ TriesInv /\ SentInv

-----------------------------------------------------------------------------
(* Type correctness.                                                       *)

LEMMA Blank == NoBox \in [Items -> Item] /\ NoOut \in [Pairs -> Delivery]
BY DEF NoBox, NoOut, NoItem, NoDelivery, Item, Delivery

LEMMA UnlockTypes == ASSUME Unlock
                     PROVE  /\ lockStep' = "free" /\ wanted' = {} /\ todo' = {}
                            /\ box' \in [Items -> Item] /\ out' \in [Pairs -> Delivery]
BY Blank DEF Unlock

LEMMA TypeInit == DeliveryInit => DeliveryTypeOK
BY Blank, DeliveryAssumption DEF DeliveryInit, DeliveryTypeOK

LEMMA TypeNext == DeliveryTypeOK /\ [DeliveryNext]_deliveryVars => DeliveryTypeOK'
<1>. SUFFICES ASSUME DeliveryTypeOK, [DeliveryNext]_deliveryVars PROVE DeliveryTypeOK'
  OBVIOUS
<1>. USE DeliveryAssumption DEF DeliveryTypeOK, histVars, memVars
<1>1. ASSUME NEW k \in Keys \union {NoKey}, NEW as \in SUBSET Adapters, Contact(k, as) PROVE DeliveryTypeOK'
  <2>1. /\ made < MaxItems /\ made' = made + 1 /\ wanted' = as /\ lockStep' = "newInbox"
        /\ UNCHANGED <<inbox, deliveries, todo, out, retries, abandoned, seen, sent, tries>>
    BY <1>1, Zenon DEF Contact
  <2>2. box' \in [Items -> Item]
    BY <1>1 DEF Contact, Item, NoItem
  <2>3. made' \in 0..MaxItems
    BY <2>1
  <2>. QED  BY <2>1, <2>2, <2>3, Zenon
<1>2. CASE ContactInbox
  <2>1. seen' \subseteq Items /\ inbox' \in [Items -> Item]
    BY <1>2 DEF ContactInbox, In
  <2>. QED  BY <1>2, <2>1, UnlockTypes DEF ContactInbox
<1>3. CASE ContactDeliveries
  <2>1. deliveries' \in [Pairs -> Delivery]
    BY <1>3 DEF ContactDeliveries, Delivery
  <2>. QED  BY <1>3, <2>1, UnlockTypes DEF ContactDeliveries
<1>4. CASE DeliverBegin
  BY <1>4 DEF DeliverBegin, Due
<1>5. CASE WriteDeliveries
  BY <1>5 DEF WriteDeliveries
<1>6. CASE WriteInbox
  <2>1. seen' \subseteq Items /\ inbox' \in [Items -> Item]
    BY <1>6 DEF WriteInbox, In
  <2>. QED  BY <1>6, <2>1, UnlockTypes DEF WriteInbox
<1>7. ASSUME NEW d \in Pairs, AttemptMissing(d) \/ AttemptAccepted(d) \/ AttemptRefused(d)
      PROVE DeliveryTypeOK'
  <2>1. d[1] \in Items /\ out[d] \in Delivery /\ out[d].attempts \in Nat /\ out[d].due \in BOOLEAN
    BY DEF Pairs, Delivery
  <2>2. box[d[1]] \in Item
    BY <2>1
  <2>3. \A st \in {"queued", "delivered", "failed"}, n \in Nat, due \in BOOLEAN :
          OutWith(d, st, n, due) => out' \in [Pairs -> Delivery]
    BY DEF OutWith, Delivery
  <2>4. \A st \in {"none", "queued", "delivered", "failed"} :
          Marked(d[1], st) => box' \in [Items -> Item]
    BY <2>1, <2>2 DEF Marked, Item
  <2>5. Attempt(d) => /\ todo' \subseteq Pairs /\ lockStep' = lockStep
                      /\ UNCHANGED <<inbox, deliveries, wanted, made, retries, abandoned, seen>>
    BY DEF Attempt
  <2>6. CASE AttemptMissing(d)
    BY <2>1, <2>3, <2>5, <2>6 DEF AttemptMissing, Removed
  <2>7. CASE AttemptAccepted(d)
    BY <2>1, <2>3, <2>4, <2>5, <2>7 DEF AttemptAccepted
  <2>8. CASE AttemptRefused(d)
    <3>1. box[d[1]].status \in {"none", "queued", "delivered", "failed"}
      BY <2>2, <2>8 DEF AttemptRefused, Item
    <3>2. out' \in [Pairs -> Delivery] /\ box' \in [Items -> Item]
      <4>. DEFINE n == out[d].attempts
      <4>1. CASE HasDelay(n)
        <5>1. OutWith(d, "queued", n + 1, FALSE) /\ Marked(d[1], box[d[1]].status)
          BY <2>8, <4>1 DEF AttemptRefused
        <5>2. n + 1 \in Nat
          BY <2>1
        <5>3. out' \in [Pairs -> Delivery]
          BY <2>3, <5>1, <5>2
        <5>4. box' \in [Items -> Item]
          BY <2>4, <3>1, <5>1
        <5>. QED  BY <5>3, <5>4
      <4>2. CASE ~HasDelay(n)
        <5>1. OutWith(d, "failed", n + 1, out[d].due) /\ Marked(d[1], "failed")
          BY <2>8, <4>2 DEF AttemptRefused
        <5>2. n + 1 \in Nat
          BY <2>1
        <5>3. out' \in [Pairs -> Delivery]
          BY <2>1, <2>3, <5>1, <5>2
        <5>4. box' \in [Items -> Item]
          BY <2>4, <5>1
        <5>. QED  BY <5>3, <5>4
      <4>. QED  BY <4>1, <4>2
    <3>3. sent' \in [Pairs -> Nat] /\ tries' \in [Pairs -> Nat]
      BY <2>8 DEF AttemptRefused
    <3>4. Attempt(d)
      BY <2>8 DEF AttemptRefused
    <3>. QED  BY <2>5, <3>2, <3>3, <3>4
  <2>. QED  BY <1>7, <2>6, <2>7, <2>8
<1>8. ASSUME NEW i \in Items, MarkRead(i) \/ Aged(i) PROVE DeliveryTypeOK'
  <2>1. inbox[i] \in Item
    OBVIOUS
  <2>2. \A age \in {"fresh", "old", "expired"}, b \in BOOLEAN :
          [status |-> inbox[i].status, age |-> age, key |-> inbox[i].key, read |-> b] \in Item
    BY <2>1 DEF Item
  <2>3. inbox[i].age \in {"fresh", "old", "expired"} /\ inbox[i].read \in BOOLEAN
    BY <2>1 DEF Item
  <2>4. inbox' \in [Items -> Item]
    BY <1>8, <2>2, <2>3 DEF MarkRead, Aged
  <2>5. UNCHANGED <<deliveries, lockStep, wanted, todo, box, out, made, retries, abandoned, seen, sent, tries>>
    BY <1>8 DEF MarkRead, Aged
  <2>. QED  BY <2>4, <2>5
<1>9. ASSUME NEW d \in Pairs, Retry(d) \/ DelayOver(d) PROVE DeliveryTypeOK'
  <2>1. deliveries[d] \in Delivery
    OBVIOUS
  <2>2. [status |-> "queued", attempts |-> 0, due |-> TRUE] \in Delivery
        /\ [status |-> "queued", attempts |-> deliveries[d].attempts, due |-> TRUE] \in Delivery
    BY <2>1 DEF Delivery
  <2>3. deliveries' \in [Pairs -> Delivery] /\ tries' \in [Pairs -> Nat]
    <3>1. CASE Retry(d)
      BY <2>2, <3>1 DEF Retry
    <3>2. CASE DelayOver(d)
      BY <2>2, <3>2 DEF DelayOver
    <3>. QED  BY <1>9, <3>1, <3>2
  <2>4. UNCHANGED <<inbox, lockStep, wanted, todo, box, out, made, abandoned, seen, sent>>
        /\ retries' \in 0..MaxRetries
    BY <1>9 DEF Retry, DelayOver
  <2>. QED  BY <2>3, <2>4
<1>10. CASE Abandon
  BY <1>10, UnlockTypes DEF Abandon
<1>11. CASE UNCHANGED deliveryVars
  BY <1>11 DEF deliveryVars
<1>. QED  BY <1>1, <1>2, <1>3, <1>4, <1>5, <1>6, <1>7, <1>8, <1>9, <1>10, <1>11 DEF DeliveryNext, DeliverStep

-----------------------------------------------------------------------------
(* The inductive invariant: one lemma per kind of step.                    *)

RestInv == NewItemInv /\ StatusInv /\ InboxFirst /\ TodoInv /\ TriesInv /\ SentInv

LEMMA PairTypes == /\ \A d \in Pairs : d[1] \in Items
                   /\ \A i \in Items, a \in Adapters : <<i, a>> \in Pairs /\ <<i, a>>[1] = i
BY DEF Pairs

LEMMA InvInit == DeliveryInit => IInv
<1>. SUFFICES ASSUME DeliveryInit PROVE IInv
  OBVIOUS
<1>1. DeliveryTypeOK
  BY TypeInit
<1>2. /\ \A d \in Pairs : deliveries[d] = NoDelivery /\ sent[d] = 0 /\ tries[d] = 0
      /\ \A i \in Items : inbox[i] = NoItem
      /\ lockStep = "free" /\ todo = {} /\ abandoned = 0 /\ made = 0
  BY DEF DeliveryInit, NoBox, NoOut
<1>. QED
  BY <1>1, <1>2, DeliveryAssumption DEF IInv, NewItemInv, StatusInv, AllAccepted, Advances, InboxFirst, TodoInv,
       TriesInv, SentInv, Within, Budget, Delivering, NoItem, NoDelivery

LEMMA InvContact ==
  ASSUME IInv, NEW k \in Keys \union {NoKey}, NEW as \in SUBSET Adapters, Contact(k, as)
  PROVE  RestInv'
<1>. USE DeliveryAssumption DEF IInv, DeliveryTypeOK
<1>1. /\ made < MaxItems /\ made' = made + 1 /\ lockStep' = "newInbox" /\ lockStep = "free"
      /\ UNCHANGED <<inbox, deliveries, todo, out, abandoned, seen, sent, tries>>
  BY Zenon DEF Contact, histVars
<1>2. \A i \in Items : i # made + 1 => box'[i] = inbox[i] \/ box'[i] = NoItem
  BY DEF Contact
<1>3. made + 1 \in Items
  BY <1>1 DEF Items
<1>4. box'[made + 1].status \in {"none", "queued"}
  BY <1>3 DEF Contact
<1>5. NewItemInv'
  <2>1. \A d \in Pairs : d[1] > made => deliveries[d].status = "absent"
    BY PairTypes DEF NewItemInv
  <2>2. made' \in Items /\ made' > made /\ \A i \in Items : i > made' => i > made
    BY <1>1, <1>3 DEF Items
  <2>3. \A i \in Items, d \in Pairs : (i = made' \/ i > made') /\ d[1] = i => deliveries'[d].status = "absent"
    BY <1>1, <2>1, <2>2
  <2>4. box'[made'].status \notin {"absent", "delivered"}
    BY <1>1, <1>4
  <2>. QED  BY <1>1, <2>2, <2>3, <2>4, Zenon DEF NewItemInv
<1>6. StatusInv'
  BY <1>1, <1>2, <1>4 DEF StatusInv, AllAccepted, Delivering, NoItem
<1>7. InboxFirst' /\ TodoInv' /\ TriesInv' /\ SentInv'
  BY <1>1 DEF InboxFirst, TodoInv, TriesInv, SentInv, Delivering
<1>. QED  BY <1>5, <1>6, <1>7 DEF RestInv

LEMMA InvContactInbox == ASSUME IInv, ContactInbox PROVE RestInv'
<1>. USE DeliveryAssumption DEF IInv, DeliveryTypeOK
<1>1. /\ lockStep = "newInbox" /\ inbox' = box /\ seen' = seen \union In(box)
      /\ lockStep' \in {"free", "newDeliveries"} /\ (todo' = todo \/ todo' = {})
      /\ UNCHANGED <<deliveries, made, abandoned, sent, tries>>
  BY DEF ContactInbox, Unlock
<1>2. /\ made \in Items /\ made \in In(box) /\ box[made].status # "delivered"
      /\ todo = {}
  BY <1>1 DEF NewItemInv, TodoInv, In
<1>3. NewItemInv'
  <2>1. made' \in Items /\ made' \in seen' /\ inbox'[made'].status # "delivered"
    BY <1>1, <1>2
  <2>2. \A i \in Items, d \in Pairs : (i = made' \/ i > made') /\ d[1] = i => deliveries'[d].status = "absent"
    BY <1>1 DEF NewItemInv
  <2>. QED  BY <1>1, <2>1, <2>2 DEF NewItemInv
<1>4. StatusInv'
  <2>1. AllAccepted(box, deliveries)
    BY <1>1 DEF StatusInv
  <2>2. AllAccepted(inbox', deliveries')
    BY <1>1, <2>1
  <2>. QED  BY <1>1, <2>2 DEF StatusInv, AllAccepted, Delivering
<1>5. InboxFirst'
  BY <1>1 DEF InboxFirst
<1>6. TodoInv'
  BY <1>1, <1>2 DEF TodoInv
<1>7. TriesInv'
  BY <1>1 DEF TriesInv, Delivering, Within, Budget
<1>8. SentInv'
  BY <1>1 DEF SentInv, Delivering
<1>. QED  BY <1>3, <1>4, <1>5, <1>6, <1>7, <1>8 DEF RestInv

LEMMA InvContactDeliveries == ASSUME IInv, ContactDeliveries PROVE RestInv'
<1>. USE DeliveryAssumption DEF IInv, DeliveryTypeOK
<1>1. /\ lockStep = "newDeliveries" /\ lockStep' = "free" /\ todo' = {}
      /\ UNCHANGED <<inbox, made, abandoned, seen, sent, tries>>
  BY DEF ContactDeliveries, Unlock, InboxWritten, histVars
<1>2. \A d \in Pairs : \/ deliveries'[d] = deliveries[d]
                       \/ /\ d[1] = made
                          /\ deliveries'[d] = [status |-> "queued", attempts |-> 0, due |-> TRUE]
  BY DEF ContactDeliveries
<1>3. /\ made \in Items /\ made \in seen /\ inbox[made].status # "delivered"
      /\ \A d \in Pairs : d[1] = made => deliveries[d].status = "absent"
  BY <1>1 DEF NewItemInv
<1>4. NewItemInv'
  <2>1. \A i \in Items, d \in Pairs : i > made /\ d[1] = i => deliveries'[d] = deliveries[d]
    BY <1>2 DEF Items
  <2>. QED  BY <1>1, <2>1 DEF NewItemInv
<1>5. StatusInv'
  <2>1. \A i \in Items : inbox[i].status = "delivered" => i # made
    BY <1>3
  <2>2. \A i \in Items, d \in Pairs : i # made /\ d[1] = i => deliveries'[d] = deliveries[d]
    BY <1>2
  <2>. QED  BY <1>1, <2>1, <2>2 DEF StatusInv, AllAccepted, Delivering
<1>6. InboxFirst'
  BY <1>1, <1>2, <1>3 DEF InboxFirst
<1>7. TriesInv'
  <2>. SUFFICES ASSUME NEW d \in Pairs
                PROVE  Within(deliveries'[d]) /\ tries[d] <= Budget(deliveries'[d]) + abandoned
    BY <1>1 DEF TriesInv, Delivering, Within, Budget
  <2>1. /\ Within(deliveries[d]) /\ tries[d] <= Budget(deliveries[d]) + abandoned
        /\ deliveries[d].attempts \in Nat
    BY <1>1 DEF TriesInv, Delivery
  <2>2. CASE deliveries'[d] = deliveries[d]
    BY <2>1, <2>2
  <2>3. CASE deliveries'[d] # deliveries[d]
    <3>1. /\ deliveries[d].status = "absent"
          /\ deliveries'[d] = [status |-> "queued", attempts |-> 0, due |-> TRUE]
      BY <1>2, <1>3, <2>3
    <3>2. deliveries[d].attempts = 0
      BY <2>1, <3>1 DEF Within
    <3>. QED  BY <2>1, <3>1, <3>2 DEF Within, Budget
  <2>. QED  BY <2>2, <2>3
<1>8. SentInv'
  BY <1>1, <1>2, <1>3 DEF SentInv, Delivering
<1>9. TodoInv'
  BY <1>1 DEF TodoInv
<1>. QED  BY <1>4, <1>5, <1>6, <1>7, <1>8, <1>9 DEF RestInv

LEMMA InvDeliverBegin == ASSUME IInv, DeliverBegin PROVE RestInv'
<1>. USE DeliveryAssumption DEF IInv, DeliveryTypeOK
<1>1. /\ lockStep = "free" /\ lockStep' = "sending" /\ todo' = Due /\ box' = inbox /\ out' = deliveries
      /\ UNCHANGED <<inbox, deliveries, made, abandoned, seen, sent, tries>>
  BY DEF DeliverBegin, histVars
<1>2. NewItemInv' /\ InboxFirst'
  BY <1>1 DEF NewItemInv, InboxFirst
<1>3. StatusInv'
  BY <1>1 DEF StatusInv, AllAccepted, Advances, Delivering
<1>4. TodoInv'
  BY <1>1 DEF TodoInv, TriesInv, Due
<1>5. TriesInv'
  <2>. SUFFICES ASSUME NEW d \in Pairs
                PROVE  /\ Within(deliveries[d]) /\ tries[d] <= Budget(deliveries[d]) + abandoned
                       /\ tries[d] <= Budget(deliveries[d]) + 1 + abandoned
    BY <1>1 DEF TriesInv, Delivering, Within, Budget
  <2>1. /\ Within(deliveries[d]) /\ tries[d] <= Budget(deliveries[d]) + abandoned
        /\ deliveries[d].attempts \in Nat
    BY <1>1 DEF TriesInv, Delivery
  <2>2. Budget(deliveries[d]) \in Nat
    BY <2>1 DEF Budget
  <2>. QED  BY <2>1, <2>2
<1>6. SentInv'
  BY <1>1 DEF SentInv, Delivering
<1>. QED  BY <1>2, <1>3, <1>4, <1>5, <1>6 DEF RestInv

LEMMA InvWriteDeliveries == ASSUME IInv, WriteDeliveries PROVE RestInv'
<1>. USE DeliveryAssumption DEF IInv, DeliveryTypeOK
<1>1. /\ lockStep = "sending" /\ todo = {} /\ lockStep' = "writeInbox" /\ deliveries' = out
      /\ UNCHANGED <<inbox, todo, box, out, made, abandoned, seen, sent, tries>>
  BY DEF WriteDeliveries, histVars
<1>2. AllAccepted(inbox, deliveries) /\ AllAccepted(box, out) /\ Advances(deliveries, out)
  BY <1>1 DEF StatusInv, Delivering
<1>3. NewItemInv'
  BY <1>1, <1>2 DEF NewItemInv, Advances
<1>4. StatusInv'
  <2>1. AllAccepted(inbox, out)
    <3>. SUFFICES ASSUME NEW i \in Items, inbox[i].status = "delivered"
                  PROVE  /\ \E d \in Pairs : d[1] = i /\ out[d].status # "absent"
                         /\ \A d \in Pairs : d[1] = i /\ out[d].status # "absent" => out[d].status = "delivered"
      BY DEF AllAccepted
    <3>. QED  BY <1>2 DEF AllAccepted, Advances
  <2>2. AllAccepted(inbox', deliveries') /\ AllAccepted(box', out')
    BY <1>1, <1>2, <2>1
  <2>3. Advances(deliveries', out')
    BY <1>1 DEF Advances
  <2>. QED  BY <1>1, <2>2, <2>3 DEF StatusInv, AllAccepted, Delivering
<1>5. InboxFirst'
  BY <1>1, <1>2 DEF InboxFirst, Advances
<1>6. TodoInv'
  BY <1>1 DEF TodoInv
<1>7. TriesInv'
  <2>. SUFFICES ASSUME NEW d \in Pairs
                PROVE  /\ Within(out[d]) /\ tries[d] <= Budget(out[d]) + abandoned
                       /\ tries[d] <= Budget(out[d]) + 1 + abandoned
    BY <1>1 DEF TriesInv, Delivering, Within, Budget
  <2>1. /\ Within(out[d]) /\ tries[d] <= Budget(out[d]) + abandoned /\ out[d].attempts \in Nat
    BY <1>1 DEF TriesInv, Delivery, Delivering
  <2>2. Budget(out[d]) \in Nat
    BY <2>1 DEF Budget
  <2>. QED  BY <2>1, <2>2
<1>8. SentInv'
  BY <1>1 DEF SentInv, Delivering
<1>. QED  BY <1>3, <1>4, <1>5, <1>6, <1>7, <1>8 DEF RestInv

LEMMA InvWriteInbox == ASSUME IInv, WriteInbox PROVE RestInv'
<1>. USE DeliveryAssumption DEF IInv, DeliveryTypeOK
<1>1. /\ lockStep = "writeInbox" /\ lockStep' = "free" /\ inbox' = box /\ todo' = {} /\ seen' = seen \union In(box)
      /\ UNCHANGED <<deliveries, made, abandoned, sent, tries>>
  BY DEF WriteInbox, AfterDeliveries, Unlock
<1>2. NewItemInv' /\ InboxFirst' /\ TodoInv'
  BY <1>1 DEF NewItemInv, InboxFirst, TodoInv
<1>3. StatusInv'
  <2>1. AllAccepted(box, deliveries)
    BY <1>1 DEF StatusInv, Delivering
  <2>2. AllAccepted(inbox', deliveries')
    BY <1>1, <2>1
  <2>. QED  BY <1>1, <2>2 DEF StatusInv, AllAccepted, Delivering
<1>4. TriesInv'
  BY <1>1 DEF TriesInv, Delivering, Within, Budget
<1>5. SentInv'
  BY <1>1 DEF SentInv, Delivering
<1>. QED  BY <1>2, <1>3, <1>4, <1>5 DEF RestInv

\* A handler that ends without a write, and steps that leave the items' status alone.
LEMMA InvAbandon == ASSUME IInv, Abandon PROVE RestInv'
<1>. USE DeliveryAssumption DEF IInv, DeliveryTypeOK
<1>1. /\ lockStep # "free" /\ lockStep' = "free" /\ todo' = {} /\ abandoned' = abandoned + 1
      /\ UNCHANGED <<inbox, deliveries, made, seen, sent, tries>>
  BY DEF Abandon, Unlock, histVars
<1>2. NewItemInv' /\ InboxFirst' /\ TodoInv'
  BY <1>1 DEF NewItemInv, InboxFirst, TodoInv
<1>3. StatusInv'
  BY <1>1 DEF StatusInv, AllAccepted, Delivering
<1>4. TriesInv'
  <2>. SUFFICES ASSUME NEW d \in Pairs
                PROVE  Within(deliveries[d]) /\ tries[d] <= Budget(deliveries[d]) + (abandoned + 1)
    BY <1>1 DEF TriesInv, Delivering, Within, Budget
  <2>1. /\ Within(deliveries[d]) /\ deliveries[d].attempts \in Nat /\ abandoned \in Nat /\ tries[d] \in Nat
        /\ lockStep # "sending" => tries[d] <= Budget(deliveries[d]) + abandoned
        /\ lockStep = "sending" => tries[d] <= Budget(deliveries[d]) + 1 + abandoned
    BY DEF TriesInv, Delivery, Delivering
  <2>2. Budget(deliveries[d]) \in Nat
    BY <2>1 DEF Budget
  <2>. QED  BY <2>1, <2>2
<1>5. SentInv'
  <2>. SUFFICES ASSUME NEW d \in Pairs
                PROVE  /\ sent[d] <= 1 + (abandoned + 1)
                       /\ deliveries[d].status # "delivered" => sent[d] <= abandoned + 1
    BY <1>1 DEF SentInv, Delivering
  <2>. QED  BY DEF SentInv
<1>. QED  BY <1>2, <1>3, <1>4, <1>5 DEF RestInv

LEMMA InvItemStep == ASSUME IInv, NEW i \in Items, MarkRead(i) \/ Aged(i) PROVE RestInv'
<1>. USE DeliveryAssumption DEF IInv, DeliveryTypeOK
<1>1. lockStep = "free" /\ UNCHANGED <<deliveries, lockStep, todo, box, out, made, abandoned, seen, sent, tries>>
  BY DEF MarkRead, Aged, HoldsLock, memVars, histVars
<1>2. \A j \in Items : inbox'[j].status = inbox[j].status
  BY DEF MarkRead, Aged
<1>3. NewItemInv' /\ InboxFirst' /\ TodoInv'
  BY <1>1 DEF NewItemInv, InboxFirst, TodoInv
<1>4. StatusInv'
  BY <1>1, <1>2 DEF StatusInv, AllAccepted, Delivering
<1>5. TriesInv'
  BY <1>1 DEF TriesInv, Delivering, Within, Budget
<1>6. SentInv'
  BY <1>1 DEF SentInv, Delivering
<1>. QED  BY <1>3, <1>4, <1>5, <1>6 DEF RestInv

LEMMA InvRetry == ASSUME IInv, NEW d \in Pairs, Retry(d) PROVE RestInv'
<1>. USE DeliveryAssumption DEF IInv, DeliveryTypeOK
<1>1. /\ lockStep = "free" /\ deliveries[d].status = "failed"
      /\ UNCHANGED <<inbox, lockStep, todo, box, out, made, abandoned, seen, sent>>
  BY DEF Retry, memVars
<1>2. /\ deliveries'[d] = [status |-> "queued", attempts |-> 0, due |-> TRUE] /\ tries'[d] = 0
      /\ \A e \in Pairs : e # d => deliveries'[e] = deliveries[e] /\ tries'[e] = tries[e]
  BY DEF Retry
<1>3. NewItemInv' /\ InboxFirst' /\ TodoInv'
  <2>1. \A e \in Pairs : deliveries'[e].status = "absent" <=> deliveries[e].status = "absent"
    BY <1>1, <1>2
  <2>. QED  BY <1>1, <2>1 DEF NewItemInv, InboxFirst, TodoInv
<1>4. StatusInv'
  BY <1>1, <1>2 DEF StatusInv, AllAccepted, Delivering
<1>5. TriesInv'
  <2>. SUFFICES ASSUME NEW e \in Pairs
                PROVE  Within(deliveries'[e]) /\ tries'[e] <= Budget(deliveries'[e]) + abandoned
    BY <1>1 DEF TriesInv, Delivering, Within, Budget
  <2>. QED  BY <1>1, <1>2 DEF TriesInv, Within, Budget
<1>6. SentInv'
  BY <1>1, <1>2 DEF SentInv, Delivering
<1>. QED  BY <1>3, <1>4, <1>5, <1>6 DEF RestInv

LEMMA InvDelayOver == ASSUME IInv, NEW d \in Pairs, DelayOver(d) PROVE RestInv'
<1>. USE DeliveryAssumption DEF IInv, DeliveryTypeOK
<1>1. /\ lockStep = "free" /\ deliveries[d].status = "queued"
      /\ UNCHANGED <<inbox, lockStep, todo, box, out, made, abandoned, seen, sent, tries>>
  BY DEF DelayOver, memVars, histVars
<1>2. \A e \in Pairs : /\ deliveries'[e].status = deliveries[e].status
                       /\ deliveries'[e].attempts = deliveries[e].attempts
  BY <1>1 DEF DelayOver
<1>3. NewItemInv' /\ InboxFirst' /\ TodoInv'
  BY <1>1, <1>2 DEF NewItemInv, InboxFirst, TodoInv
<1>4. StatusInv'
  BY <1>1, <1>2 DEF StatusInv, AllAccepted, Delivering
<1>5. TriesInv'
  <2>. SUFFICES ASSUME NEW e \in Pairs
                PROVE  Within(deliveries'[e]) /\ tries[e] <= Budget(deliveries'[e]) + abandoned
    BY <1>1 DEF TriesInv, Delivering, Within, Budget
  <2>. QED  BY <1>1, <1>2 DEF TriesInv, Within, Budget
<1>6. SentInv'
  BY <1>1, <1>2 DEF SentInv, Delivering
<1>. QED  BY <1>3, <1>4, <1>5, <1>6 DEF RestInv

\* What a delivery looks like when its attempt begins.
LEMMA AttemptBegins ==
  ASSUME IInv, NEW d \in Pairs, Attempt(d)
  PROVE  /\ lockStep = "sending" /\ d \in todo /\ todo' = todo \ {d} /\ d[1] \in Items
         /\ UNCHANGED <<inbox, deliveries, lockStep, made, abandoned, seen>>
         /\ out[d] = deliveries[d] /\ out[d].status = "queued" /\ out[d].attempts \in Nat
         /\ out[d].attempts <= Delays /\ box[d[1]].status # "delivered"
         /\ tries[d] <= out[d].attempts + abandoned /\ sent[d] <= abandoned
<1>. USE DeliveryAssumption DEF IInv, DeliveryTypeOK
<1>1. /\ lockStep = "sending" /\ d \in todo /\ todo' = todo \ {d} /\ d[1] \in Items
      /\ UNCHANGED <<inbox, deliveries, lockStep, made, abandoned, seen>>
  BY PairTypes DEF Attempt
<1>2. /\ out[d] = deliveries[d] /\ out[d].status = "queued" /\ out[d].attempts \in Nat
      /\ tries[d] <= Budget(deliveries[d]) + abandoned
  BY <1>1 DEF TodoInv, Delivery
<1>3. tries[d] <= out[d].attempts + abandoned
  BY <1>2 DEF Budget
<1>4. out[d].attempts <= Delays
  BY <1>2 DEF TriesInv, Within
<1>5. box[d[1]].status # "delivered"
  BY <1>1, <1>2 DEF StatusInv, AllAccepted, Delivering
<1>6. sent[d] <= abandoned
  BY <1>1, <1>2 DEF SentInv, Delivering
<1>. QED  BY <1>1, <1>2, <1>3, <1>4, <1>5, <1>6

\* Any outcome of an attempt that counts itself and reports no more than was accepted.
LEMMA AttemptEnds ==
  ASSUME IInv, NEW d \in Pairs, Attempt(d),
         \A e \in Pairs : e # d => out'[e] = out[e] /\ tries'[e] = tries[e] /\ sent'[e] = sent[e],
         out'[d].status # "absent", Within(out'[d]),
         tries'[d] <= Budget(out'[d]) + abandoned, tries'[d] <= out[d].attempts + 1 + abandoned,
         sent'[d] <= 1 + abandoned, out'[d].status # "delivered" => sent'[d] <= abandoned,
         AllAccepted(box', out')
  PROVE  RestInv'
<1>. USE DeliveryAssumption DEF IInv, DeliveryTypeOK
<1>1. /\ lockStep = "sending" /\ d \in todo /\ todo' = todo \ {d}
      /\ UNCHANGED <<inbox, deliveries, lockStep, made, abandoned, seen>>
      /\ out[d] = deliveries[d] /\ out[d].status = "queued"
  BY AttemptBegins
<1>2. NewItemInv' /\ InboxFirst'
  BY <1>1 DEF NewItemInv, InboxFirst
<1>3. StatusInv'
  <2>1. Advances(deliveries, out')
    BY <1>1 DEF StatusInv, Advances, Delivering
  <2>2. AllAccepted(inbox', deliveries') /\ Advances(deliveries', out')
    BY <1>1, <2>1 DEF StatusInv, AllAccepted, Advances
  <2>. QED  BY <1>1, <2>2 DEF StatusInv, Delivering
<1>4. TodoInv'
  <2>1. \A e \in todo' : e \in todo /\ e # d /\ e \in Pairs
    BY <1>1
  <2>2. \A e \in todo' : /\ lockStep = "sending" /\ out'[e] = deliveries[e] /\ out'[e].status = "queued"
                         /\ tries'[e] <= Budget(deliveries[e]) + abandoned
    BY <2>1 DEF TodoInv
  <2>3. \A e \in todo' : /\ lockStep' = "sending" /\ out'[e] = deliveries'[e] /\ out'[e].status = "queued"
                         /\ tries'[e] <= Budget(deliveries'[e]) + abandoned'
    BY <1>1, <2>2
  <2>. QED  BY <2>3 DEF TodoInv, Budget
<1>5. TriesInv'
  <2>. SUFFICES ASSUME NEW e \in Pairs
                PROVE  /\ Within(deliveries[e]) /\ Within(out'[e])
                       /\ tries'[e] <= Budget(out'[e]) + abandoned
                       /\ tries'[e] <= Budget(deliveries[e]) + 1 + abandoned
    BY <1>1 DEF TriesInv, Delivering, Within, Budget
  <2>1. CASE e = d
    <3>1. Budget(deliveries[d]) = out[d].attempts
      BY <1>1, AttemptBegins DEF Budget
    <3>2. Within(deliveries[e])
      BY DEF TriesInv
    <3>. QED  BY <2>1, <3>1, <3>2
  <2>2. CASE e # d
    BY <1>1, <2>2 DEF TriesInv, Delivering
  <2>. QED  BY <2>1, <2>2
<1>6. SentInv'
  BY <1>1 DEF SentInv, Delivering
<1>. QED  BY <1>2, <1>3, <1>4, <1>5, <1>6 DEF RestInv

LEMMA InvAttemptMissing == ASSUME IInv, NEW d \in Pairs, AttemptMissing(d) PROVE RestInv'
<1>. USE DeliveryAssumption DEF IInv, DeliveryTypeOK
<1>1. Attempt(d) /\ box[d[1]].status = "absent" /\ UNCHANGED <<box, sent, tries>>
  BY DEF AttemptMissing
<1>2. /\ out'[d] = [status |-> "failed", attempts |-> out[d].attempts, due |-> out[d].due]
      /\ \A e \in Pairs : e # d => out'[e] = out[e]
  BY DEF AttemptMissing, OutWith, Removed
<1>3. AllAccepted(box', out')
  <2>1. \A i \in Items : box'[i].status = "delivered" => i # d[1] /\ box[i].status = "delivered"
    BY <1>1
  <2>2. \A i \in Items, e \in Pairs : i # d[1] /\ e[1] = i => out'[e] = out[e]
    BY <1>2
  <2>3. AllAccepted(box, out)
    BY <1>1, AttemptBegins DEF StatusInv, Delivering
  <2>. QED  BY <2>1, <2>2, <2>3 DEF AllAccepted
<1>4. Within(out'[d]) /\ Budget(out'[d]) = out[d].attempts
  BY <1>1, <1>2, AttemptBegins DEF Within, Budget
<1>5. /\ tries'[d] <= out[d].attempts + abandoned /\ tries'[d] <= out[d].attempts + 1 + abandoned
      /\ sent'[d] <= abandoned /\ sent'[d] <= 1 + abandoned
  BY <1>1, AttemptBegins
<1>6. \A e \in Pairs : e # d => out'[e] = out[e] /\ tries'[e] = tries[e] /\ sent'[e] = sent[e]
  BY <1>1, <1>2
<1>. QED  BY <1>1, <1>2, <1>3, <1>4, <1>5, <1>6, AttemptEnds

LEMMA InvAttemptAccepted == ASSUME IInv, NEW d \in Pairs, AttemptAccepted(d) PROVE RestInv'
<1>. USE DeliveryAssumption DEF IInv, DeliveryTypeOK
<1>1. Attempt(d)
  BY DEF AttemptAccepted
<1>2. /\ out'[d] = [status |-> "delivered", attempts |-> out[d].attempts, due |-> out[d].due]
      /\ \A e \in Pairs : e # d => out'[e] = out[e]
  BY DEF AttemptAccepted, OutWith
<1>3. /\ tries'[d] = tries[d] + 1 /\ sent'[d] = sent[d] + 1
      /\ \A e \in Pairs : e # d => tries'[e] = tries[e] /\ sent'[e] = sent[e]
  BY DEF AttemptAccepted
<1>4. /\ \A i \in Items : i # d[1] => box'[i] = box[i]
      /\ box'[d[1]].status = "delivered" => Others(d) = {}
  BY <1>1, AttemptBegins DEF AttemptAccepted, Marked
<1>5. AllAccepted(box', out')
  <2>. SUFFICES ASSUME NEW i \in Items, box'[i].status = "delivered"
                PROVE  /\ \E e \in Pairs : e[1] = i /\ out'[e].status # "absent"
                       /\ \A e \in Pairs : e[1] = i /\ out'[e].status # "absent" => out'[e].status = "delivered"
    BY DEF AllAccepted
  <2>1. CASE i = d[1]
    <3>1. \A e \in Pairs : e[1] = i /\ e # d /\ out[e].status # "absent" => out[e].status = "delivered"
      BY <1>4, <2>1 DEF Others, Of
    <3>. QED  BY <1>2, <2>1, <3>1
  <2>2. CASE i # d[1]
    <3>1. AllAccepted(box, out) /\ box[i].status = "delivered"
      BY <1>1, <1>4, <2>2, AttemptBegins DEF StatusInv, Delivering
    <3>2. \A e \in Pairs : e[1] = i => out'[e] = out[e]
      BY <1>2, <2>2
    <3>. QED  BY <3>1, <3>2 DEF AllAccepted
  <2>. QED  BY <2>1, <2>2
<1>6. Within(out'[d]) /\ Budget(out'[d]) = out[d].attempts + 1
  BY <1>1, <1>2, AttemptBegins DEF Within, Budget
<1>7. /\ tries'[d] <= out[d].attempts + 1 + abandoned /\ sent'[d] <= 1 + abandoned
  BY <1>1, <1>3, AttemptBegins
<1>8. \A e \in Pairs : e # d => out'[e] = out[e] /\ tries'[e] = tries[e] /\ sent'[e] = sent[e]
  BY <1>2, <1>3
<1>. QED  BY <1>1, <1>2, <1>5, <1>6, <1>7, <1>8, AttemptEnds

LEMMA InvAttemptRefused == ASSUME IInv, NEW d \in Pairs, AttemptRefused(d) PROVE RestInv'
<1>. USE DeliveryAssumption DEF IInv, DeliveryTypeOK
<1>. DEFINE n == out[d].attempts
<1>1. Attempt(d) /\ UNCHANGED sent
  BY DEF AttemptRefused
<1>2. /\ out'[d].attempts = n + 1
      /\ \/ out'[d].status = "queued" /\ n < Delays
         \/ out'[d].status = "failed"
      /\ \A e \in Pairs : e # d => out'[e] = out[e]
  BY DEF AttemptRefused, OutWith, HasDelay
<1>3. tries'[d] = tries[d] + 1 /\ \A e \in Pairs : e # d => tries'[e] = tries[e]
  BY DEF AttemptRefused
<1>4. /\ \A i \in Items : i # d[1] => box'[i] = box[i]
      /\ box'[d[1]].status \in {box[d[1]].status, "failed"}
  <2>1. Marked(d[1], box[d[1]].status) \/ Marked(d[1], "failed")
    BY DEF AttemptRefused
  <2>2. d[1] \in Items
    BY PairTypes
  <2>3. CASE Marked(d[1], box[d[1]].status)
    BY <2>2, <2>3 DEF Marked
  <2>4. CASE Marked(d[1], "failed")
    BY <2>2, <2>4 DEF Marked
  <2>. QED  BY <2>1, <2>3, <2>4
<1>5. AllAccepted(box', out')
  <2>1. \A i \in Items : box'[i].status = "delivered" => i # d[1] /\ box[i].status = "delivered"
    BY <1>1, <1>4, AttemptBegins
  <2>2. \A i \in Items, e \in Pairs : i # d[1] /\ e[1] = i => out'[e] = out[e]
    BY <1>2
  <2>3. AllAccepted(box, out)
    BY <1>1, AttemptBegins DEF StatusInv, Delivering
  <2>. QED  BY <2>1, <2>2, <2>3 DEF AllAccepted
<1>6. Within(out'[d]) /\ Budget(out'[d]) = n + 1
  BY <1>1, <1>2, AttemptBegins DEF Within, Budget
<1>7. /\ tries'[d] <= n + 1 + abandoned /\ sent'[d] <= abandoned /\ sent'[d] <= 1 + abandoned
  BY <1>1, <1>3, AttemptBegins
<1>8. \A e \in Pairs : e # d => out'[e] = out[e] /\ tries'[e] = tries[e] /\ sent'[e] = sent[e]
  BY <1>1, <1>2, <1>3
<1>. QED  BY <1>1, <1>2, <1>5, <1>6, <1>7, <1>8, AttemptEnds

LEMMA InvNext == IInv /\ [DeliveryNext]_deliveryVars => IInv'
<1>. SUFFICES ASSUME IInv, [DeliveryNext]_deliveryVars PROVE IInv'
  OBVIOUS
<1>1. DeliveryTypeOK'
  BY TypeNext DEF IInv
<1>2. RestInv'
  <2>1. CASE UNCHANGED deliveryVars
    BY <2>1 DEF IInv, RestInv, deliveryVars, memVars, histVars, NewItemInv, StatusInv, AllAccepted, Advances, InboxFirst,
         TodoInv, TriesInv, SentInv, Within, Budget, Delivering
  <2>. QED  BY <2>1, InvContact, InvContactInbox, InvContactDeliveries, InvDeliverBegin, InvWriteDeliveries,
         InvWriteInbox, InvAttemptMissing, InvAttemptAccepted, InvAttemptRefused, InvItemStep, InvRetry,
         InvDelayOver, InvAbandon DEF DeliveryNext, DeliverStep
<1>. QED  BY <1>1, <1>2 DEF IInv, RestInv

LEMMA Invariance == DeliverySpec => []IInv
<1>1. DeliveryInit => IInv
  BY InvInit
<1>2. IInv /\ [DeliveryNext]_deliveryVars => IInv'
  BY InvNext
<1>. QED  BY <1>1, <1>2, PTL DEF DeliverySpec

\* The two files, the handler's copies and the counters keep their types.
THEOREM TypeCorrect == DeliverySpec => []DeliveryTypeOK
<1>1. IInv => DeliveryTypeOK
  BY DEF IInv
<1>. QED  BY <1>1, Invariance, PTL

\* deliveries.json never names an item that was not in inbox.json first, whatever
\* contact was abandoned between its two writes.
THEOREM InboxWrittenFirst == DeliverySpec => []InboxFirst
<1>1. IInv => InboxFirst
  BY DEF IInv
<1>. QED  BY <1>1, Invariance, PTL

\* An item shown as delivered was accepted by every adapter it was queued for,
\* although the two files are never written together and handlers may be abandoned.
THEOREM DeliveredItemsAccepted == DeliverySpec => []DeliveredMeansAll
<1>1. IInv => DeliveredMeansAll
  BY DEF IInv, StatusInv, AllAccepted, DeliveredMeansAll, Of
<1>. QED  BY <1>1, Invariance, PTL

\* An accepted delivery is sent again only by a handler that could not record the first.
THEOREM AcceptedOncePerFault == DeliverySpec => []AcceptedOnce
<1>1. IInv => AcceptedOnce
  BY DEF IInv, SentInv, AcceptedOnce
<1>. QED  BY <1>1, Invariance, PTL

\* The retry schedule bounds the attempts, with one more per abandoned handler.
THEOREM TriesWithinSchedule == DeliverySpec => []TriesBounded
<1>1. IInv => TriesBounded
  <2>. SUFFICES ASSUME IInv, NEW d \in Pairs PROVE tries[d] <= Delays + 1 + abandoned
    BY DEF TriesBounded
  <2>. USE DeliveryAssumption DEF IInv, DeliveryTypeOK
  <2>1. \A x \in Delivery : Within(x) => Budget(x) <= Delays + 1
    BY DEF Delivery, Within, Budget
  <2>2. deliveries[d] \in Delivery /\ out[d] \in Delivery
    OBVIOUS
  <2>3. CASE lockStep = "sending"
    <3>1. Within(out[d]) /\ tries[d] <= Budget(out[d]) + abandoned
      BY <2>3 DEF TriesInv, Delivering
    <3>2. Budget(out[d]) <= Delays + 1 /\ Budget(out[d]) \in Nat
      BY <2>1, <2>2, <3>1 DEF Delivery, Budget
    <3>. QED  BY <3>1, <3>2
  <2>4. CASE lockStep # "sending"
    <3>1. Within(deliveries[d]) /\ tries[d] <= Budget(deliveries[d]) + abandoned
      BY <2>4 DEF TriesInv
    <3>2. Budget(deliveries[d]) <= Delays + 1 /\ Budget(deliveries[d]) \in Nat
      BY <2>1, <2>2, <3>1 DEF Delivery, Budget
    <3>. QED  BY <3>1, <3>2
  <2>. QED  BY <2>3, <2>4
<1>. QED  BY <1>1, Invariance, PTL

-----------------------------------------------------------------------------
(* Marks of the user.                                                      *)

\* The handler's copy of inbox.json has every mark of the file.
ReadInv ==
  /\ lockStep \in {"newInbox", "sending", "writeInbox"} =>
       \A i \in Items : inbox[i].read /\ box[i].status # "absent" => box[i].read
  /\ \A i \in Items : /\ inbox[i].status = "absent" => ~inbox[i].read
                      /\ box[i].status = "absent" => ~box[i].read
                      /\ i > made => inbox[i].status = "absent" /\ box[i].status = "absent"

LEMMA ReadInit == DeliveryInit => ReadInv
BY DEF DeliveryInit, ReadInv, NoBox, NoItem

LEMMA UnlockBlank == ASSUME Unlock PROVE lockStep' = "free" /\ \A i \in Items : box'[i] = NoItem
BY DEF Unlock, NoBox

LEMMA ReadNext == DeliveryTypeOK /\ ReadInv /\ [DeliveryNext]_deliveryVars => ReadInv'
<1>. SUFFICES ASSUME DeliveryTypeOK, ReadInv, [DeliveryNext]_deliveryVars PROVE ReadInv'
  OBVIOUS
<1>. USE DeliveryAssumption DEF DeliveryTypeOK
<1>1. ASSUME NEW k \in Keys \union {NoKey}, NEW as \in SUBSET Adapters, Contact(k, as) PROVE ReadInv'
  <2>1. made' = made + 1 /\ inbox' = inbox /\ lockStep' = "newInbox"
    BY <1>1, Zenon DEF Contact
  <2>5. made \in Nat
    OBVIOUS
  <2>2. \A i \in Items : i # made + 1 => box'[i] = inbox[i] \/ box'[i] = NoItem
    BY <1>1 DEF Contact
  <2>3. \A i \in Items : i = made + 1 => box'[i].status # "absent" /\ ~inbox[i].read
    <3>1. \A i \in Items : i = made + 1 => box'[i].status \in {"none", "queued"}
      BY <1>1 DEF Contact
    <3>2. \A i \in Items : i = made + 1 => ~inbox[i].read
      <4>1. \A i \in Items : i = made + 1 => i > made
        BY <2>5
      <4>2. \A i \in Items : i > made => inbox[i].status = "absent"
        BY DEF ReadInv
      <4>3. \A i \in Items : inbox[i].status = "absent" => ~inbox[i].read
        BY Zenon DEF ReadInv
      <4>. QED  BY <4>1, <4>2, <4>3, Zenon
    <3>. QED  BY <3>1, <3>2
  <2>4. \A i \in Items : i > made' => i > made /\ i # made + 1
    BY <2>1, <2>5 DEF Items
  <2>. QED  BY <2>1, <2>2, <2>3, <2>4 DEF ReadInv, NoItem
<1>2. CASE ContactInbox
  <2>1. inbox' = box /\ made' = made /\ lockStep = "newInbox"
    BY <1>2 DEF ContactInbox
  <2>2. CASE Unlock
    BY <2>1, <2>2, UnlockBlank DEF ReadInv, NoItem
  <2>3. CASE lockStep' = "newDeliveries" /\ box' = box
    BY <2>1, <2>3 DEF ReadInv
  <2>. QED  BY <1>2, <2>2, <2>3 DEF ContactInbox
<1>3. CASE ContactDeliveries
  <2>1. Unlock /\ inbox' = inbox /\ made' = made
    BY <1>3 DEF ContactDeliveries
  <2>. QED  BY <2>1, UnlockBlank DEF ReadInv, NoItem
<1>4. CASE DeliverBegin
  BY <1>4 DEF DeliverBegin, ReadInv
<1>5. CASE WriteDeliveries
  BY <1>5 DEF WriteDeliveries, ReadInv
<1>6. CASE WriteInbox
  <2>1. Unlock /\ inbox' = box /\ made' = made
    BY <1>6 DEF WriteInbox
  <2>. QED  BY <2>1, UnlockBlank DEF ReadInv, NoItem
<1>7. ASSUME NEW d \in Pairs, AttemptMissing(d) \/ AttemptAccepted(d) \/ AttemptRefused(d)
      PROVE ReadInv'
  <2>1. inbox' = inbox /\ made' = made /\ lockStep' = lockStep /\ lockStep = "sending"
    BY <1>7 DEF AttemptMissing, AttemptAccepted, AttemptRefused, Attempt
  <2>2. d[1] \in Items
    BY PairTypes
  <2>3. \A st : Marked(d[1], st) =>
          /\ box'[d[1]].read = box[d[1]].read /\ box'[d[1]].status = st
          /\ \A i \in Items : i # d[1] => box'[i] = box[i]
    BY <2>2 DEF Marked
  <2>4. \/ box' = box
        \/ /\ box[d[1]].status # "absent" /\ box'[d[1]].status # "absent"
           /\ box'[d[1]].read = box[d[1]].read
           /\ \A i \in Items : i # d[1] => box'[i] = box[i]
    <3>1. CASE AttemptMissing(d)
      BY <3>1 DEF AttemptMissing
    <3>2. CASE AttemptAccepted(d)
      <4>1. box[d[1]].status # "absent" /\ (Marked(d[1], "delivered") \/ Marked(d[1], "queued"))
        BY <3>2 DEF AttemptAccepted
      <4>. QED  BY <2>3, <4>1
    <3>3. CASE AttemptRefused(d)
      <4>1. box[d[1]].status # "absent"
        BY <3>3 DEF AttemptRefused
      <4>2. Marked(d[1], box[d[1]].status) \/ Marked(d[1], "failed")
        BY <3>3 DEF AttemptRefused
      <4>. QED  BY <2>3, <4>1, <4>2
    <3>. QED  BY <1>7, <3>1, <3>2, <3>3
  <2>. QED  BY <2>1, <2>2, <2>4 DEF ReadInv
<1>8. ASSUME NEW i \in Items, MarkRead(i) \/ Aged(i) PROVE ReadInv'
  <2>1. lockStep = "free" /\ UNCHANGED <<lockStep, box, made>>
    BY <1>8 DEF MarkRead, Aged, HoldsLock, memVars
  <2>2. \A j \in Items : \/ inbox'[j] = inbox[j]
                         \/ inbox'[j].status # "absent" /\ inbox[j].status # "absent"
    BY <1>8 DEF MarkRead, Aged
  <2>. QED  BY <2>1, <2>2 DEF ReadInv
<1>9. ASSUME NEW d \in Pairs, Retry(d) \/ DelayOver(d) PROVE ReadInv'
  BY <1>9 DEF Retry, DelayOver, memVars, ReadInv
<1>10. CASE Abandon
  <2>1. Unlock /\ inbox' = inbox /\ made' = made
    BY <1>10 DEF Abandon
  <2>. QED  BY <2>1, UnlockBlank DEF ReadInv, NoItem
<1>11. CASE UNCHANGED deliveryVars
  BY <1>11 DEF deliveryVars, memVars, ReadInv
<1>. QED  BY <1>1, <1>2, <1>3, <1>4, <1>5, <1>6, <1>7, <1>8, <1>9, <1>10, <1>11 DEF DeliveryNext, DeliverStep

\* A mark survives every handler: what replaces inbox.json was read after the mark.
THEOREM MarksStay == DeliverySpec => ReadSticks
<1>. DEFINE Sticks == \A i \in Items : inbox[i].read /\ inbox'[i].status # "absent" => inbox'[i].read
<1>1. DeliveryTypeOK /\ ReadInv /\ [DeliveryNext]_deliveryVars => [Sticks]_deliveryVars
  <2>. SUFFICES ASSUME DeliveryTypeOK, ReadInv, DeliveryNext PROVE Sticks
    OBVIOUS
  <2>1. CASE inbox' = inbox
    BY <2>1
  <2>2. CASE inbox' = box /\ lockStep \in {"newInbox", "writeInbox"}
    BY <2>2 DEF ReadInv
  <2>3. ASSUME NEW i \in Items, MarkRead(i) \/ Aged(i) PROVE Sticks
    BY <2>3 DEF MarkRead, Aged, DeliveryTypeOK
  <2>4. inbox' = inbox \/ (inbox' = box /\ lockStep \in {"newInbox", "writeInbox"})
          \/ \E i \in Items : MarkRead(i) \/ Aged(i)
    BY Zenon DEF DeliveryNext, DeliverStep, Contact, ContactInbox, ContactDeliveries, DeliverBegin, WriteDeliveries, WriteInbox,
       AfterDeliveries, AttemptMissing, AttemptAccepted, AttemptRefused, Attempt, Retry, DelayOver, Abandon
  <2>. QED  BY <2>1, <2>2, <2>3, <2>4
<1>2. DeliverySpec => [](DeliveryTypeOK /\ ReadInv)
  <2>1. DeliveryInit => DeliveryTypeOK /\ ReadInv
    BY TypeInit, ReadInit
  <2>2. DeliveryTypeOK /\ ReadInv /\ [DeliveryNext]_deliveryVars => (DeliveryTypeOK /\ ReadInv)'
    BY TypeNext, ReadNext
  <2>. QED  BY <2>1, <2>2, PTL DEF DeliverySpec
<1>. QED  BY <1>1, <1>2, PTL DEF DeliverySpec, ReadSticks

-----------------------------------------------------------------------------
(* An item whose deliveries are all accepted is shown as delivered: as     *)
(* long as no handler was abandoned, by the file of the inbox when nobody  *)
(* sends, and by the copy of the handler that sends.                       *)

AllDone(f, i) ==
  /\ \E d \in Pairs : d[1] = i /\ f[d].status # "absent"
  /\ \A d \in Pairs : d[1] = i /\ f[d].status # "absent" => f[d].status = "delivered"
AllShown(b, f) == \A i \in Items : b[i].status # "absent" /\ AllDone(f, i) => b[i].status = "delivered"

ShownInv ==
  abandoned = 0 => /\ ~Delivering => AllShown(inbox, deliveries)
                   /\ lockStep = "newInbox" => AllShown(box, deliveries)
                   /\ Delivering => AllShown(box, out)

\* Nothing is done that was not done before, and no item is shown otherwise than before.
LEMMA StillShown ==
  ASSUME NEW b, NEW f, NEW c, NEW g, AllShown(b, f),
         \A i \in Items : c[i].status # "absent" /\ AllDone(g, i) =>
           \/ AllDone(f, i) /\ c[i].status = b[i].status
           \/ c[i].status = "delivered"
  PROVE  AllShown(c, g)
BY DEF AllShown

LEMMA DoneSame ==
  ASSUME NEW f, NEW g, NEW i, \A d \in Pairs : d[1] = i => g[d].status = f[d].status
  PROVE  AllDone(g, i) <=> AllDone(f, i)
BY DEF AllDone

LEMMA NotDone ==
  ASSUME NEW g, NEW d \in Pairs, g[d].status \notin {"absent", "delivered"} PROVE ~AllDone(g, d[1])
BY DEF AllDone

LEMMA ShownInit == DeliveryInit => ShownInv
BY DEF DeliveryInit, ShownInv, AllShown, NoBox, NoItem, Delivering

\* A step after which nobody sends, and that has not abandoned a handler.
LEMMA ShownFile ==
  ASSUME ShownInv, ~Delivering, ~Delivering', abandoned' = abandoned, lockStep' = "newInbox" => UNCHANGED <<lockStep, box>>,
         \A i \in Items : inbox'[i].status = inbox[i].status,
         \A i \in Items : AllDone(deliveries', i) => AllDone(deliveries, i),
         lockStep = "newInbox" => UNCHANGED deliveries
  PROVE  ShownInv'
<1>1. abandoned = 0 => AllShown(inbox', deliveries')
  BY StillShown DEF ShownInv
<1>. QED  BY <1>1 DEF ShownInv

LEMMA ShownContact ==
  ASSUME IInv, ShownInv, NEW k \in Keys \union {NoKey}, NEW as \in SUBSET Adapters, Contact(k, as)
  PROVE  ShownInv'
<1>. USE DEF IInv, DeliveryTypeOK
<1>1. /\ made < MaxItems /\ made' = made + 1 /\ lockStep' = "newInbox" /\ lockStep = "free"
      /\ UNCHANGED <<inbox, deliveries, abandoned>>
  BY Zenon DEF Contact, histVars
<1>2. \A i \in Items : i # made + 1 => box'[i] = inbox[i] \/ box'[i] = NoItem
  BY DEF Contact
<1>3. made + 1 \in Items /\ made + 1 > made
  BY <1>1, DeliveryAssumption DEF Items
<1>4. ~AllDone(deliveries, made + 1)
  BY <1>3 DEF NewItemInv, AllDone
<1>5. abandoned = 0 => AllShown(inbox, deliveries)
  BY <1>1 DEF ShownInv, Delivering
<1>6. abandoned = 0 => AllShown(box', deliveries)
  BY <1>2, <1>4, <1>5 DEF AllShown, NoItem
<1>. QED  BY <1>1, <1>5, <1>6 DEF ShownInv, Delivering

LEMMA ShownContactInbox == ASSUME IInv, ShownInv, ContactInbox PROVE ShownInv'
<1>1. /\ lockStep = "newInbox" /\ inbox' = box /\ lockStep' \in {"free", "newDeliveries"}
      /\ UNCHANGED <<deliveries, abandoned>>
  BY DEF ContactInbox, Unlock
<1>. QED  BY <1>1 DEF ShownInv, Delivering

LEMMA ShownContactDeliveries == ASSUME IInv, ShownInv, ContactDeliveries PROVE ShownInv'
<1>1. lockStep = "newDeliveries" /\ lockStep' = "free" /\ UNCHANGED <<inbox, abandoned>>
  BY DEF ContactDeliveries, Unlock, InboxWritten
<1>2. \A d \in Pairs : \/ deliveries'[d] = deliveries[d]
                       \/ d[1] = made /\ deliveries'[d].status = "queued"
  BY DEF ContactDeliveries
<1>3. \A i \in Items : AllDone(deliveries', i) => AllDone(deliveries, i)
  BY <1>2 DEF AllDone
<1>. QED  BY <1>1, <1>3, ShownFile DEF Delivering

LEMMA ShownAttempt ==
  ASSUME IInv, ShownInv, NEW d \in Pairs, AttemptMissing(d) \/ AttemptAccepted(d) \/ AttemptRefused(d)
  PROVE  ShownInv'
<1>. USE DEF IInv, DeliveryTypeOK
<1>1. Attempt(d) /\ lockStep = "sending" /\ lockStep' = lockStep /\ abandoned' = abandoned /\ d[1] \in Items
  BY AttemptBegins DEF AttemptMissing, AttemptAccepted, AttemptRefused
<1>2. \A e \in Pairs : e # d => out'[e] = out[e]
  BY DEF AttemptMissing, AttemptAccepted, AttemptRefused, OutWith
<1>3. \A i \in Items : i # d[1] => box'[i] = box[i]
  BY <1>1 DEF AttemptMissing, AttemptAccepted, AttemptRefused, Marked
<1>4. \A i \in Items : i # d[1] => (AllDone(out', i) <=> AllDone(out, i))
  BY <1>2, DoneSame
<1>5. box'[d[1]].status # "absent" /\ AllDone(out', d[1]) => box'[d[1]].status = "delivered"
  <2>1. CASE AttemptMissing(d)
    BY <2>1 DEF AttemptMissing
  <2>2. CASE AttemptAccepted(d)
    <3>1. Marked(d[1], IF Others(d) = {} THEN "delivered" ELSE "queued")
      BY <2>2 DEF AttemptAccepted
    <3>2. CASE Others(d) = {}
      BY <1>1, <3>1, <3>2 DEF Marked
    <3>3. CASE Others(d) # {}
      <4>1. PICK e \in Pairs : e[1] = d[1] /\ e # d /\ out[e].status \notin {"absent", "delivered"}
        BY <3>3 DEF Others, Of
      <4>. QED  BY <1>2, <4>1, NotDone
    <3>. QED  BY <3>2, <3>3
  <2>3. CASE AttemptRefused(d)
    <3>1. out'[d].status \in {"queued", "failed"}
      BY <2>3 DEF AttemptRefused, OutWith
    <3>. QED  BY <3>1, NotDone
  <2>. QED  BY <2>1, <2>2, <2>3
<1>6. abandoned = 0 => AllShown(box', out')
  BY <1>1, <1>3, <1>4, <1>5 DEF ShownInv, Delivering, AllShown
<1>. QED  BY <1>1, <1>6 DEF ShownInv, Delivering

LEMMA ShownNext == IInv /\ ShownInv /\ [DeliveryNext]_deliveryVars => ShownInv'
<1>. SUFFICES ASSUME IInv, ShownInv, [DeliveryNext]_deliveryVars PROVE ShownInv'
  OBVIOUS
<1>. USE DEF IInv, DeliveryTypeOK
<1>1. CASE DeliverBegin
  <2>1. lockStep = "free" /\ lockStep' = "sending" /\ box' = inbox /\ out' = deliveries /\ abandoned' = abandoned
    BY <1>1 DEF DeliverBegin
  <2>. QED  BY <2>1 DEF ShownInv, Delivering
<1>2. CASE WriteDeliveries
  BY <1>2 DEF WriteDeliveries, ShownInv, Delivering
<1>3. CASE WriteInbox
  <2>1. lockStep = "writeInbox" /\ lockStep' = "free" /\ inbox' = box /\ UNCHANGED <<deliveries, abandoned>>
    BY <1>3 DEF WriteInbox, AfterDeliveries, Unlock
  <2>. QED  BY <2>1 DEF ShownInv, Delivering, StatusInv
<1>4. ASSUME NEW i \in Items, MarkRead(i) \/ Aged(i) PROVE ShownInv'
  <2>1. /\ lockStep = "free" /\ UNCHANGED <<lockStep, box, deliveries, abandoned>>
        /\ \A j \in Items : inbox'[j].status = inbox[j].status
    BY <1>4 DEF MarkRead, Aged, HoldsLock, memVars
  <2>. QED  BY <2>1, ShownFile DEF Delivering
<1>5. ASSUME NEW d \in Pairs, Retry(d) \/ DelayOver(d) PROVE ShownInv'
  <2>1. /\ lockStep = "free" /\ UNCHANGED <<lockStep, box, inbox, abandoned>>
        /\ deliveries'[d].status = "queued" /\ \A e \in Pairs : e # d => deliveries'[e] = deliveries[e]
    BY <1>5 DEF Retry, DelayOver, memVars
  <2>2. \A i \in Items : AllDone(deliveries', i) => AllDone(deliveries, i)
    BY <2>1 DEF AllDone
  <2>. QED  BY <2>1, <2>2, ShownFile DEF Delivering
<1>6. CASE Abandon
  <2>1. abandoned' # 0
    BY <1>6 DEF Abandon
  <2>. QED  BY <2>1 DEF ShownInv
<1>7. CASE UNCHANGED deliveryVars
  BY <1>7 DEF deliveryVars, memVars, ShownInv, Delivering
<1>. QED  BY <1>1, <1>2, <1>3, <1>4, <1>5, <1>6, <1>7, ShownContact, ShownContactInbox, ShownContactDeliveries,
             ShownAttempt DEF DeliveryNext, DeliverStep

\* An item all of whose deliveries were accepted is shown as delivered once the lock is
\* free, for any number of items and adapters, unless a handler was abandoned.
THEOREM AcceptedItemsDelivered == DeliverySpec => []AllMeansDelivered
<1>1. IInv /\ ShownInv => AllMeansDelivered
  <2>. SUFFICES ASSUME IInv, ShownInv, abandoned = 0, lockStep = "free", NEW i \in In(inbox),
                       Of(deliveries, i) # {}, \A d \in Of(deliveries, i) : deliveries[d].status = "delivered"
                PROVE  inbox[i].status = "delivered"
    BY DEF AllMeansDelivered
  <2>1. AllDone(deliveries, i)
    BY DEF AllDone, Of
  <2>. QED  BY <2>1 DEF ShownInv, Delivering, AllShown, In
<1>. QED  BY <1>1, Invariance, ShownInit, ShownNext, PTL DEF DeliverySpec
=============================================================================
