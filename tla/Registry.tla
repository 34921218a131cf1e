------------------------------ MODULE Registry ------------------------------
(***************************************************************************)
(* Registry of include/tasks/base_task.h: an array of subscribers, each a  *)
(* task handle and an event mask, filled from the front and never emptied. *)
(* publish() walks the whole array and sends the event bits to every task  *)
(* whose mask meets them, by a FreeRTOS task notification (eSetBits).      *)
(*                                                                         *)
(* There is one Registry for all tasks and it takes no lock.  subscribe()  *)
(* runs in the subscribing task, publish() in any task, publish_isr() in   *)
(* an interrupt, which no task can interrupt.  A task switch may fall      *)
(* between any two accesses to the array and to count.                     *)
(*                                                                         *)
(* External: xTaskNotify(t, bits, eSetBits) ors bits into t's notification *)
(* value; xTaskNotifyWait(0, 0xFFFFFFFF, ...) blocks until there was one,  *)
(* hands out the value and clears it.  C++ zeroes the static instance, so  *)
(* an unused slot holds a null handle and an empty mask.                   *)
(***************************************************************************)
EXTENDS Integers

CONSTANTS Tasks,      \* the tasks that subscribe
          Publishers, \* the tasks that publish
          Events,     \* the event bits
          Mask,       \* the mask each task subscribes with
          Size,       \* subscribers.size(), 8 in the code
          NoTask,     \* nullptr
          Serial      \* does each subscribe() finish before the next begins?

ASSUME SizeAssumption == Size \in Nat \ {0}
ASSUME MaskAssumption == Mask \in [Tasks -> (SUBSET Events) \ {{}}]
ASSUME HandleAssumption == NoTask \notin Tasks
ASSUME SerialAssumption == Serial \in BOOLEAN

VARIABLES
    subscribers, \* the array; the code's index is one less than ours
    count,       \* subscribers in use
    sub,         \* per task: where its subscribe() is, the slot it took,
                 \* the fields of the slot it has still to store
    pub,         \* per publisher: the bits being published and the slot
                 \* publish() is at; Size + 1 when no call is in progress
    notified,    \* per task: its pending notification value
    aborted,     \* has the assertion in subscribe() failed?
    owed         \* history, per publisher: the tasks the current call has
                 \* still to notify

registryVars == <<subscribers, count, sub, pub, notified, aborted, owed>>

Slots == 1 .. Size
Entries == [handle : Tasks \cup {NoTask}, mask : SUBSET Events]
EmptySlot == [handle |-> NoTask, mask |-> {}]
Fields == {"handle", "mask"}
Progress == [pc : {"new", "store", "bump", "done"}, slot : Slots, todo : SUBSET Fields]

TypeOK ==
    /\ subscribers \in [Slots -> Entries]
    /\ count \in Nat
    /\ sub \in [Tasks -> Progress]
    /\ pub \in [Publishers -> [event : SUBSET Events, slot : 1 .. Size + 1]]
    /\ notified \in [Tasks -> SUBSET Events]
    /\ aborted \in BOOLEAN
    /\ owed \in [Publishers -> SUBSET Tasks]

Init ==
    /\ subscribers = [i \in Slots |-> EmptySlot] /\ count = 0
    /\ sub = [t \in Tasks |-> [pc |-> "new", slot |-> 1, todo |-> {}]]
    /\ pub = [p \in Publishers |-> [event |-> {}, slot |-> Size + 1]]
    /\ notified = [t \in Tasks |-> {}]
    /\ aborted = FALSE
    /\ owed = [p \in Publishers |-> {}]

-----------------------------------------------------------------------------
(* subscribe(handle, mask), called once by a task.                         *)

Subscribing(t) == sub[t].pc \in {"store", "bump"}

(* Mutation: one subscriber too many passes the assertion.                 *)
HasRoomTooMany == count <= Size

(* Mutation: the last slot is never given away.                            *)
HasRoomTooFew == count + 1 < Size

HasRoom == count < Size

StartSubscribe(t) ==
    /\ ~aborted /\ sub[t].pc = "new"
    /\ Serial => \A u \in Tasks : ~Subscribing(u)
    /\ IF HasRoom
       THEN /\ sub' = [sub EXCEPT ![t] = [pc |-> "store", slot |-> count + 1, todo |-> Fields]]
            /\ UNCHANGED aborted
       ELSE /\ aborted' = TRUE
            /\ UNCHANGED sub
    /\ UNCHANGED <<subscribers, count, pub, notified, owed>>

StoreField(t, f) ==
    /\ ~aborted /\ sub[t].pc = "store" /\ f \in sub[t].todo
    /\ subscribers' = IF f = "handle"
                      THEN [subscribers EXCEPT ![sub[t].slot].handle = t]
                      ELSE [subscribers EXCEPT ![sub[t].slot].mask = Mask[t]]
    /\ sub' = [sub EXCEPT ![t] = [pc |-> IF sub[t].todo = {f} THEN "bump" ELSE "store",
                                  slot |-> sub[t].slot, todo |-> sub[t].todo \ {f}]]
    /\ UNCHANGED <<count, pub, notified, aborted, owed>>

(* Mutation: the count is not incremented.                                 *)
BumpCountNot(t) ==
    /\ ~aborted /\ sub[t].pc = "bump"
    /\ sub' = [sub EXCEPT ![t].pc = "done"]
    /\ UNCHANGED <<subscribers, count, pub, notified, aborted, owed>>

(* ++count: the compiler may increment the value it loaded for the         *)
(* assertion, or load it again.                                            *)
BumpCount(t) ==
    /\ ~aborted /\ sub[t].pc = "bump"
    /\ count' \in {sub[t].slot, count + 1}
    /\ sub' = [sub EXCEPT ![t].pc = "done"]
    /\ UNCHANGED <<subscribers, pub, notified, aborted, owed>>

-----------------------------------------------------------------------------
(* publish(event) and publish_isr(event, ...).                             *)

Wants(t, event) == sub[t].pc = "done" /\ Mask[t] \cap event # {}

(* Mutation: the mask is not looked at.                                    *)
MatchesAny(i, event) == subscribers[i].handle # NoTask

Matches(i, event) == /\ subscribers[i].handle # NoTask
                     /\ subscribers[i].mask \cap event # {}
Publishing(p) == pub[p].slot <= Size

(* Mutation: the loop begins with the second subscriber.                   *)
StartPublishSecond(p, event) ==
    /\ ~aborted /\ ~Publishing(p)
    /\ pub' = [pub EXCEPT ![p] = [event |-> event, slot |-> 2]]
    /\ owed' = [owed EXCEPT ![p] = {t \in Tasks : Wants(t, event)}]
    /\ UNCHANGED <<subscribers, count, sub, notified, aborted>>

StartPublish(p, event) ==
    /\ ~aborted /\ ~Publishing(p)
    /\ pub' = [pub EXCEPT ![p] = [event |-> event, slot |-> 1]]
    /\ owed' = [owed EXCEPT ![p] = {t \in Tasks : Wants(t, event)}]
    /\ UNCHANGED <<subscribers, count, sub, notified, aborted>>

(* One turn of the loop.  The whole event goes out, not only the bits the  *)
(* mask asks for.                                                          *)
PublishSlot(p) ==
    /\ ~aborted /\ Publishing(p)
    /\ LET i == pub[p].slot
           t == subscribers[i].handle
       IN IF Matches(i, pub[p].event)
          THEN /\ notified' = [notified EXCEPT ![t] = @ \cup pub[p].event]
               /\ owed' = [owed EXCEPT ![p] = @ \ {t}]
          ELSE UNCHANGED <<notified, owed>>
    /\ pub' = [pub EXCEPT ![p].slot = @ + 1]
    /\ UNCHANGED <<subscribers, count, sub, aborted>>

PublishIsr(event) ==
    /\ ~aborted
    /\ notified' = [t \in Tasks |->
                      IF \E i \in Slots : Matches(i, event) /\ subscribers[i].handle = t
                      THEN notified[t] \cup event ELSE notified[t]]
    /\ UNCHANGED <<subscribers, count, sub, pub, aborted, owed>>

(* xTaskNotifyWait returns in a task that has subscribed.                  *)
TakeNotification(t) ==
    /\ ~aborted /\ sub[t].pc = "done" /\ notified[t] # {}
    /\ notified' = [notified EXCEPT ![t] = {}]
    /\ UNCHANGED <<subscribers, count, sub, pub, aborted, owed>>

-----------------------------------------------------------------------------

SomeBits == (SUBSET Events) \ {{}}

Next ==
    \/ \E t \in Tasks : \/ StartSubscribe(t)
                        \/ \E f \in Fields : StoreField(t, f)
                        \/ BumpCount(t)
                        \/ TakeNotification(t)
    \/ \E p \in Publishers : \/ \E e \in SomeBits : StartPublish(p, e)
                             \/ PublishSlot(p)
    \/ \E e \in SomeBits : PublishIsr(e)

Spec == Init /\ [][Next]_registryVars

-----------------------------------------------------------------------------
(* Properties.                                                             *)

Holds(i, t) == subscribers[i] = [handle |-> t, mask |-> Mask[t]]

(* A task whose subscribe() returned stays in the registry, with its own   *)
(* mask, whatever other tasks subscribe (base_task.h:107-113).             *)
SubscriptionKept ==
    \A t \in Tasks : sub[t].pc = "done" => \E i \in Slots : Holds(i, t)

(* When publish() returns, every task that had subscribed to one of its    *)
(* bits before the call has been notified, although subscribers arrive and *)
(* other calls run meanwhile (base_task.h:115-123).                        *)
NoSubscriberSkipped ==
    \A p \in Publishers : ~Publishing(p) => owed[p] = {}

(* A half stored slot never notifies anyone by somebody else's mask: what  *)
(* is pending for a task always contains a bit the task asked for          *)
(* (base_task.h:111, 119).                                                 *)
NeverMisdirected ==
    \A t \in Tasks : notified[t] # {} => notified[t] \cap Mask[t] # {}

(* The assertion in subscribe() only fails when more tasks subscribe than  *)
(* there are slots: no slot is wasted (base_task.h:110).                   *)
AbortOnlyWhenFull ==
    aborted => \A i \in Slots : \E t \in Tasks : sub[t].pc = "done" /\ Holds(i, t)
=============================================================================
