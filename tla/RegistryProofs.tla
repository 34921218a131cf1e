--------------------------- MODULE RegistryProofs ---------------------------
(***************************************************************************)
(* What holds of the Registry for any tasks, masks, publishers and number  *)
(* of slots.  Types hold however the tasks interleave; the rest needs      *)
(* subscriptions one after the other, without which it is false            *)
(* (Registry_race.cfg).                                                    *)
(***************************************************************************)
EXTENDS Registry, TLAPS

(* One task at a time subscribes, at the first slot not yet counted.       *)
OneAtATime ==
    /\ count <= Size
    /\ \A t \in Tasks : Subscribing(t) => sub[t].slot = count + 1
    /\ \A t, u \in Tasks : Subscribing(t) /\ Subscribing(u) => t = u

(* The slots counted are those of the tasks that have subscribed.          *)
Filled ==
    /\ \A t \in Tasks : sub[t].pc = "done" =>
           sub[t].slot \in 1 .. count /\ Holds(sub[t].slot, t)
    /\ \A i \in 1 .. count : \E t \in Tasks : sub[t].pc = "done" /\ Holds(i, t)

(* A slot that is being stored holds nothing but what its task has stored. *)
Half ==
    \A t \in Tasks : Subscribing(t) =>
        /\ sub[t].pc = "bump" => sub[t].todo = {}
        /\ subscribers[sub[t].slot] =
               [handle |-> IF "handle" \in sub[t].todo THEN NoTask ELSE t,
                mask |-> IF "mask" \in sub[t].todo THEN {} ELSE Mask[t]]

(* The other slots are empty.                                              *)
Unused ==
    \A i \in Slots : i > count =>
        \/ subscribers[i] = EmptySlot
        \/ \E t \in Tasks : Subscribing(t) /\ sub[t].slot = i

(* A task that a call still owes a notification is in a slot ahead.        *)
OwedAhead ==
    \A p \in Publishers : \A t \in owed[p] :
        /\ sub[t].pc = "done" /\ sub[t].slot >= pub[p].slot
        /\ Mask[t] \cap pub[p].event # {}

Full == aborted => count = Size

IInv == TypeOK /\ OneAtATime /\ Filled /\ Half /\ Unused /\ OwedAhead
            /\ NeverMisdirected /\ Full

-----------------------------------------------------------------------------

LEMMA NextSlot ==
    ASSUME NEW E, NEW S, NEW call \in [event : E, slot : S], NEW i \in S
    PROVE  [call EXCEPT !.slot = i] \in [event : E, slot : S]
OBVIOUS

LEMMA InitTypeOK == Init => TypeOK
<1> SUFFICES ASSUME Init PROVE TypeOK
  OBVIOUS
<1>1. subscribers \in [Slots -> Entries]
  BY DEF Init, EmptySlot, Entries
<1>2. sub \in [Tasks -> Progress]
  BY SizeAssumption DEF Init, Progress, Slots
<1>3. pub \in [Publishers -> [event : SUBSET Events, slot : 1 .. Size + 1]]
  BY SizeAssumption DEF Init
<1> QED
  BY <1>1, <1>2, <1>3 DEF Init, TypeOK

LEMMA NextTypeOK ==
    ASSUME TypeOK, [Next]_registryVars
    PROVE  TypeOK'
<1> USE SizeAssumption, MaskAssumption, HandleAssumption DEF TypeOK, Slots
<1>1. ASSUME NEW t \in Tasks, StartSubscribe(t) PROVE TypeOK'
  <2>1. HasRoom => [pc |-> "store", slot |-> count + 1, todo |-> Fields] \in Progress
    BY DEF HasRoom, Progress
  <2>2. sub' \in [Tasks -> Progress]
    BY <1>1, <2>1 DEF StartSubscribe
  <2> QED
    BY <1>1, <2>2 DEF StartSubscribe
<1>2. ASSUME NEW t \in Tasks, NEW f \in Fields, StoreField(t, f) PROVE TypeOK'
  <2>1. subscribers' \in [Slots -> Entries]
    <3> DEFINE e == subscribers[sub[t].slot]
    <3>1. sub[t].slot \in Slots /\ e \in Entries
      BY DEF Progress
    <3>2. [e EXCEPT !.handle = t] \in Entries /\ [e EXCEPT !.mask = Mask[t]] \in Entries
      BY <3>1 DEF Entries
    <3> QED
      BY <1>2, <3>1, <3>2 DEF StoreField
  <2>2. sub' \in [Tasks -> Progress]
    BY <1>2 DEF StoreField, Progress
  <2> QED
    BY <1>2, <2>1, <2>2 DEF StoreField
<1>3. ASSUME NEW t \in Tasks, BumpCount(t) PROVE TypeOK'
  <2>1. sub[t] \in Progress /\ sub[t].slot \in Nat
    BY DEF Progress
  <2>2. [sub[t] EXCEPT !.pc = "done"] \in Progress
    BY <2>1 DEF Progress
  <2>3. sub' \in [Tasks -> Progress]
    BY <1>3, <2>2 DEF BumpCount
  <2> QED
    BY <1>3, <2>1, <2>3 DEF BumpCount
<1>4. ASSUME NEW t \in Tasks, TakeNotification(t) PROVE TypeOK'
  BY <1>4 DEF TakeNotification
<1>5. ASSUME NEW p \in Publishers, NEW e \in SomeBits, StartPublish(p, e) PROVE TypeOK'
  BY <1>5 DEF StartPublish, SomeBits
<1>6. ASSUME NEW p \in Publishers, PublishSlot(p) PROVE TypeOK'
  <2> DEFINE i == pub[p].slot
             t == subscribers[i].handle
  <2>1. i \in Slots /\ i + 1 \in 1 .. Size + 1
    BY <1>6 DEF PublishSlot, Publishing
  <2>2. pub' \in [Publishers -> [event : SUBSET Events, slot : 1 .. Size + 1]]
    <3>1. pub' = [pub EXCEPT ![p] = [pub[p] EXCEPT !.slot = i + 1]]
      BY <1>6 DEF PublishSlot
    <3>2. pub[p] \in [event : SUBSET Events, slot : 1 .. Size + 1]
      OBVIOUS
    <3>3. [pub[p] EXCEPT !.slot = i + 1] \in [event : SUBSET Events, slot : 1 .. Size + 1]
      BY <2>1, <3>2, NextSlot
    <3> QED
      BY <3>1, <3>3
  <2>3. CASE Matches(i, pub[p].event)
    <3>1. t \in Tasks /\ pub[p].event \in SUBSET Events
      BY <2>1, <2>3 DEF Matches, Entries
    <3>2. /\ notified' = [notified EXCEPT ![t] = @ \cup pub[p].event]
          /\ owed' = [owed EXCEPT ![p] = @ \ {t}]
      BY <1>6, <2>3 DEF PublishSlot
    <3>3. notified' \in [Tasks -> SUBSET Events] /\ owed' \in [Publishers -> SUBSET Tasks]
      BY <3>1, <3>2
    <3> QED
      BY <1>6, <2>2, <3>2, <3>3 DEF PublishSlot
  <2>4. CASE ~Matches(i, pub[p].event)
    BY <1>6, <2>2, <2>4 DEF PublishSlot
  <2> QED
    BY <2>3, <2>4
<1>7. ASSUME NEW e \in SomeBits, PublishIsr(e) PROVE TypeOK'
  BY <1>7 DEF PublishIsr, SomeBits
<1>8. CASE UNCHANGED registryVars
  BY <1>8 DEF registryVars
<1> QED
  BY <1>1, <1>2, <1>3, <1>4, <1>5, <1>6, <1>7, <1>8 DEF Next

(* The state is well typed, also when subscriptions race.                  *)
THEOREM TypeCorrect == Spec => []TypeOK
<1> QED
  BY InitTypeOK, NextTypeOK, PTL DEF Spec

-----------------------------------------------------------------------------
(* Subscriptions one after the other.                                      *)

LEMMA InitIInv == Init => IInv
<1> SUFFICES ASSUME Init PROVE IInv
  OBVIOUS
<1>1. OneAtATime /\ Half /\ Full
  BY SizeAssumption DEF Init, OneAtATime, Half, Full, Subscribing
<1>2. Filled /\ Unused
  BY DEF Init, Filled, Unused, Slots
<1>3. OwedAhead /\ NeverMisdirected
  BY DEF Init, OwedAhead, NeverMisdirected
<1> QED
  BY <1>1, <1>2, <1>3, InitTypeOK DEF IInv

(* What stands in a slot, if anything: a task, asking for bits of its own  *)
(* mask.                                                                   *)
LEMMA SlotOfTask ==
    ASSUME IInv, NEW i \in Slots, subscribers[i].handle # NoTask
    PROVE  /\ subscribers[i].handle \in Tasks
           /\ subscribers[i].mask \subseteq Mask[subscribers[i].handle]
<1>1. subscribers[i].handle \in Tasks
  BY DEF IInv, TypeOK, Entries
<1>2. CASE i <= count
  <2>1. i \in 1 .. count
    BY <1>2 DEF Slots
  <2>2. PICK t \in Tasks : Holds(i, t)
    BY <2>1 DEF IInv, Filled
  <2> QED
    BY <1>1, <2>2 DEF Holds
<1>3. CASE i > count
  <2>1. subscribers[i] # EmptySlot
    BY DEF EmptySlot
  <2>2. PICK t \in Tasks : Subscribing(t) /\ sub[t].slot = i
    BY <1>3, <2>1 DEF IInv, Unused
  <2>3. subscribers[i] = [handle |-> IF "handle" \in sub[t].todo THEN NoTask ELSE t,
                          mask |-> IF "mask" \in sub[t].todo THEN {} ELSE Mask[t]]
    BY <2>2 DEF IInv, Half
  <2> QED
    BY <1>1, <2>3
<1> QED
  BY <1>1, <1>2, <1>3 DEF IInv, TypeOK, Slots

LEMMA StartSubscribeIInv ==
    ASSUME Serial, IInv, TypeOK', NEW t \in Tasks, StartSubscribe(t)
    PROVE  IInv'
<1> USE DEF IInv, TypeOK
<1>1. \A u \in Tasks : ~Subscribing(u)
  BY DEF StartSubscribe
<1>2. CASE HasRoom
  <2>1. /\ sub' = [sub EXCEPT ![t] = [pc |-> "store", slot |-> count + 1, todo |-> Fields]]
        /\ sub[t].pc = "new"
        /\ UNCHANGED <<subscribers, count, pub, notified, aborted, owed>>
    BY <1>2 DEF StartSubscribe
  <2>2. OneAtATime'
    BY <1>1, <2>1 DEF OneAtATime, Subscribing
  <2>3. Filled'
    BY <2>1 DEF Filled, Holds
  <2>4. count + 1 \in Slots /\ count + 1 > count
    BY <1>2, SizeAssumption DEF HasRoom, Slots
  <2>5. Half'
    <3>1. subscribers[count + 1] = EmptySlot
      BY <1>1, <2>4 DEF Unused
    <3> QED
      BY <1>1, <2>1, <3>1 DEF Half, Subscribing, EmptySlot, Fields
  <2>6. Unused'
    BY <1>1, <2>1 DEF Unused
  <2>7. OwedAhead' /\ NeverMisdirected' /\ Full'
    BY <2>1 DEF OwedAhead, NeverMisdirected, Full
  <2> QED
    BY <2>2, <2>3, <2>5, <2>6, <2>7
<1>3. CASE ~HasRoom
  <2>1. aborted' /\ UNCHANGED <<subscribers, count, sub, pub, notified, owed>>
    BY <1>3 DEF StartSubscribe
  <2>2. Full'
    BY <1>3, <2>1, SizeAssumption DEF Full, HasRoom, OneAtATime
  <2>3. OneAtATime' /\ Half'
    BY <2>1 DEF OneAtATime, Half, Subscribing
  <2>5. Filled'
    BY <2>1 DEF Filled, Holds
  <2>6. Unused'
    BY <2>1 DEF Unused, Subscribing
  <2>4. OwedAhead' /\ NeverMisdirected'
    BY <2>1 DEF OwedAhead, NeverMisdirected
  <2> QED
    BY <2>2, <2>3, <2>4, <2>5, <2>6
<1> QED
  BY <1>2, <1>3

(* The task that subscribes is alone, and its slot is the next one.        *)
LEMMA Subscriber ==
    ASSUME IInv, NEW t \in Tasks, Subscribing(t)
    PROVE  /\ sub[t].slot = count + 1 /\ count + 1 \in Slots
           /\ \A u \in Tasks : Subscribing(u) => u = t
<1>1. sub[t].slot = count + 1 /\ \A u \in Tasks : Subscribing(u) => u = t
  BY DEF IInv, OneAtATime
<1>2. sub[t].slot \in Slots
  BY DEF IInv, TypeOK, Progress
<1> QED
  BY <1>1, <1>2

LEMMA StoreFieldIInv ==
    ASSUME IInv, TypeOK', NEW t \in Tasks, NEW f \in Fields, StoreField(t, f)
    PROVE  IInv'
<1> DEFINE s == sub[t].slot
<1>1. /\ sub[t].pc = "store" /\ f \in sub[t].todo /\ ~aborted
      /\ UNCHANGED <<count, pub, notified, aborted, owed>>
      /\ sub' = [sub EXCEPT ![t] = [pc |-> IF sub[t].todo = {f} THEN "bump" ELSE "store",
                                    slot |-> s, todo |-> sub[t].todo \ {f}]]
  BY DEF StoreField
<1>2. s = count + 1 /\ s \in Slots /\ \A u \in Tasks : Subscribing(u) => u = t
  BY <1>1, Subscriber DEF Subscribing
<1>3. sub \in [Tasks -> Progress] /\ subscribers \in [Slots -> Entries] /\ count \in Nat
  BY DEF IInv, TypeOK
<1>4. /\ \A i \in Slots : i # s => subscribers'[i] = subscribers[i]
      /\ subscribers'[s] = IF f = "handle" THEN [subscribers[s] EXCEPT !.handle = t]
                                           ELSE [subscribers[s] EXCEPT !.mask = Mask[t]]
  BY <1>2, <1>3 DEF StoreField
<1>5. \A u \in Tasks : u # t => sub'[u] = sub[u]
  BY <1>1, <1>3
<1>6. /\ sub'[t].pc \in {"store", "bump"} /\ sub'[t].slot = s
      /\ sub'[t].todo = sub[t].todo \ {f} /\ (sub'[t].pc = "bump" => sub[t].todo = {f})
  BY <1>1, <1>3
<1> HIDE DEF s
<1>7. \A u \in Tasks : Subscribing(u)' <=> u = t
  BY <1>2, <1>5, <1>6 DEF Subscribing
<1>8. OneAtATime'
  BY <1>1, <1>2, <1>6, <1>7 DEF IInv, OneAtATime
<1>9. Filled'
  <2>1. \A i \in 1 .. count : i \in Slots /\ subscribers'[i] = subscribers[i]
    BY <1>2, <1>3, <1>4, SizeAssumption DEF Slots
  <2>2. \A u \in Tasks : sub'[u].pc = "done" <=> sub[u].pc = "done"
    BY <1>1, <1>5, <1>6
  <2>3. ASSUME NEW u \in Tasks, sub'[u].pc = "done"
        PROVE  sub'[u].slot \in 1 .. count' /\ Holds(sub[u].slot, u)'
    <3>1. sub[u].pc = "done" /\ sub'[u].slot = sub[u].slot
      BY <1>1, <1>5, <2>2, <2>3
    <3> QED
      BY <1>1, <2>1, <3>1 DEF IInv, Filled, Holds
  <2>4. ASSUME NEW i \in 1 .. count
        PROVE  \E u \in Tasks : sub'[u].pc = "done" /\ Holds(i, u)'
    <3>1. PICK u \in Tasks : sub[u].pc = "done" /\ Holds(i, u)
      BY DEF IInv, Filled
    <3> QED
      BY <2>1, <2>2, <3>1 DEF Holds
  <2> QED
    BY <1>1, <2>3, <2>4 DEF Filled
<1>10. Half'
  <2>1. subscribers[s] = [handle |-> IF "handle" \in sub[t].todo THEN NoTask ELSE t,
                          mask |-> IF "mask" \in sub[t].todo THEN {} ELSE Mask[t]]
    BY <1>1 DEF IInv, Half, Subscribing, s
  <2>2. CASE f = "handle"
    BY SMTT(30), <1>4, <1>6, <1>7, <2>1, <2>2 DEF Half
  <2>3. CASE f = "mask"
    BY <1>4, <1>6, <1>7, <2>1, <2>3 DEF Half
  <2> QED
    BY <2>2, <2>3 DEF Fields
<1>11. Unused'
  <2>1. ASSUME NEW i \in Slots, i > count, i # s
        PROVE  subscribers'[i] = EmptySlot
    BY <1>2, <1>4, <2>1 DEF IInv, Unused, s
  <2> QED
    BY <1>1, <1>6, <1>7, <2>1 DEF Unused, EmptySlot
<1>12. OwedAhead'
  BY <1>1, <1>5 DEF IInv, OwedAhead, TypeOK
<1>13. NeverMisdirected' /\ Full'
  BY <1>1 DEF IInv, NeverMisdirected, Full
<1> QED
  BY <1>8, <1>9, <1>10, <1>11, <1>12, <1>13 DEF IInv

LEMMA BumpCountIInv ==
    ASSUME IInv, TypeOK', NEW t \in Tasks, BumpCount(t)
    PROVE  IInv'
<1>1. /\ sub[t].pc = "bump" /\ ~aborted
      /\ UNCHANGED <<subscribers, pub, notified, aborted, owed>>
      /\ sub' = [sub EXCEPT ![t].pc = "done"]
  BY DEF BumpCount
<1>2. /\ sub[t].slot = count + 1 /\ count + 1 \in Slots
      /\ \A u \in Tasks : Subscribing(u) => u = t
  BY <1>1, Subscriber DEF Subscribing
<1>3. count' = count + 1 /\ count \in Nat
  BY <1>2 DEF BumpCount, IInv, TypeOK
<1>4. /\ \A u \in Tasks : u # t => sub'[u] = sub[u]
      /\ sub'[t].pc = "done" /\ sub'[t].slot = count + 1
  BY <1>1, <1>2 DEF IInv, TypeOK, Progress
<1>5. \A u \in Tasks : ~Subscribing(u)'
  BY <1>2, <1>4 DEF Subscribing
<1>6. OneAtATime' /\ Half'
  BY <1>2, <1>3, <1>5, SizeAssumption DEF OneAtATime, Half, Slots
<1>7. Filled'
  <2>1. Holds(count + 1, t)
    BY <1>1, <1>2 DEF IInv, Half, Holds, Subscribing
  <2>2. ASSUME NEW u \in Tasks, sub'[u].pc = "done"
        PROVE  sub'[u].slot \in 1 .. count' /\ Holds(sub'[u].slot, u)
    BY <1>3, <1>4, <2>1, <2>2 DEF IInv, Filled
  <2>3. ASSUME NEW i \in 1 .. count'
        PROVE  \E u \in Tasks : sub'[u].pc = "done" /\ Holds(i, u)
    <3>1. CASE i = count + 1
      BY <1>4, <2>1, <3>1
    <3>2. CASE i # count + 1
      <4>1. PICK u \in Tasks : sub[u].pc = "done" /\ Holds(i, u)
        BY <1>3, <3>2 DEF IInv, Filled
      <4> QED
        BY <1>4, <4>1
    <3> QED
      BY <3>1, <3>2
  <2> QED
    BY <1>1, <2>2, <2>3 DEF Filled, Holds
<1>8. Unused'
  BY <1>1, <1>2, <1>3 DEF IInv, Unused, Slots
<1>9. OwedAhead'
  BY <1>1, <1>4 DEF IInv, OwedAhead, TypeOK
<1>10. NeverMisdirected' /\ Full'
  BY <1>1 DEF IInv, NeverMisdirected, Full
<1> QED
  BY <1>6, <1>7, <1>8, <1>9, <1>10 DEF IInv

LEMMA TakeNotificationIInv ==
    ASSUME IInv, TypeOK', NEW t \in Tasks, TakeNotification(t)
    PROVE  IInv'
<1>1. UNCHANGED <<subscribers, count, sub, pub, aborted, owed>>
  BY DEF TakeNotification
<1>2. OneAtATime' /\ Half' /\ Full'
  BY <1>1 DEF IInv, OneAtATime, Half, Full, Subscribing
<1>3. Filled'
  BY <1>1 DEF IInv, Filled, Holds
<1>4. Unused'
  BY <1>1 DEF IInv, Unused, Subscribing
<1>5. OwedAhead'
  BY <1>1 DEF IInv, OwedAhead
<1>6. NeverMisdirected'
  BY DEF IInv, TypeOK, TakeNotification, NeverMisdirected
<1> QED
  BY <1>2, <1>3, <1>4, <1>5, <1>6 DEF IInv

(* A step that leaves the array and its subscribers alone.                 *)
LEMMA ArrayStable ==
    ASSUME IInv, UNCHANGED <<subscribers, count, sub, aborted>>
    PROVE  OneAtATime' /\ Filled' /\ Half' /\ Unused' /\ Full'
<1>1. OneAtATime' /\ Half' /\ Full'
  BY DEF IInv, OneAtATime, Half, Full, Subscribing
<1>2. Filled'
  BY DEF IInv, Filled, Holds
<1>3. Unused'
  BY DEF IInv, Unused, Subscribing
<1> QED
  BY <1>1, <1>2, <1>3

LEMMA StartPublishIInv ==
    ASSUME IInv, TypeOK', NEW p \in Publishers, NEW e \in SomeBits, StartPublish(p, e)
    PROVE  IInv'
<1>1. /\ UNCHANGED <<subscribers, count, sub, notified, aborted>>
      /\ pub' = [pub EXCEPT ![p] = [event |-> e, slot |-> 1]]
      /\ owed' = [owed EXCEPT ![p] = {t \in Tasks : Wants(t, e)}]
  BY DEF StartPublish
<1>2. ASSUME NEW q \in Publishers, NEW t \in owed'[q]
      PROVE  /\ sub[t].pc = "done" /\ sub[t].slot >= pub'[q].slot
             /\ Mask[t] \cap pub'[q].event # {}
  <2>1. CASE q = p
    <3>1. t \in Tasks /\ sub[t].pc = "done" /\ Mask[t] \cap e # {}
      BY <1>1, <2>1 DEF Wants, IInv, TypeOK
    <3>2. sub[t].slot >= 1
      BY <3>1 DEF IInv, TypeOK, Progress, Slots
    <3> QED
      BY <1>1, <2>1, <3>1, <3>2 DEF IInv, TypeOK
  <2>2. CASE q # p
    BY <1>1, <2>2 DEF IInv, TypeOK, OwedAhead
  <2> QED
    BY <2>1, <2>2
<1>3. OwedAhead'
  BY <1>1, <1>2 DEF OwedAhead
<1>4. NeverMisdirected'
  BY <1>1 DEF IInv, NeverMisdirected
<1> QED
  BY <1>1, <1>3, <1>4, ArrayStable DEF IInv

LEMMA PublishSlotIInv ==
    ASSUME IInv, TypeOK', NEW p \in Publishers, PublishSlot(p)
    PROVE  IInv'
<1> DEFINE i == pub[p].slot
           e == pub[p].event
           t == subscribers[i].handle
<1>1. /\ UNCHANGED <<subscribers, count, sub, aborted>>
      /\ pub' = [pub EXCEPT ![p].slot = i + 1]
      /\ IF Matches(i, e)
         THEN notified' = [notified EXCEPT ![t] = @ \cup e] /\ owed' = [owed EXCEPT ![p] = @ \ {t}]
         ELSE UNCHANGED <<notified, owed>>
  BY DEF PublishSlot
<1>2. i \in Slots
  BY DEF IInv, TypeOK, PublishSlot, Publishing, Slots
<1>3. pub'[p].slot = i + 1 /\ pub'[p].event = e /\ \A q \in Publishers : q # p => pub'[q] = pub[q]
  BY <1>1 DEF IInv, TypeOK
<1>4. owed \in [Publishers -> SUBSET Tasks] /\ notified \in [Tasks -> SUBSET Events]
  BY DEF IInv, TypeOK
<1> HIDE DEF i, e, t
<1>5. OwedAhead'
  <2>1. ASSUME NEW q \in Publishers, NEW u \in owed'[q]
        PROVE  /\ sub[u].pc = "done" /\ sub[u].slot >= pub'[q].slot
               /\ Mask[u] \cap pub'[q].event # {}
    <3>1. u \in owed[q] /\ u \in Tasks
      BY <1>1, <1>4
    <3>2. /\ sub[u].pc = "done" /\ sub[u].slot >= pub[q].slot
          /\ Mask[u] \cap pub[q].event # {} /\ sub[u].slot \in Slots
      BY <3>1 DEF IInv, OwedAhead, TypeOK, Progress
    <3>3. CASE q = p
      <4>1. ASSUME sub[u].slot = i PROVE FALSE
        <5>1. Holds(i, u)
          BY <3>1, <3>2, <4>1 DEF IInv, Filled
        <5>2. Matches(i, e) /\ t = u
          BY <3>1, <3>2, <3>3, <5>1, HandleAssumption DEF Matches, Holds, e, t
        <5> QED
          BY <1>1, <1>4, <3>3, <5>2
      <4> QED
        BY <1>2, <1>3, <3>2, <3>3, <4>1 DEF i, e, Slots
    <3>4. CASE q # p
      BY <1>3, <3>2, <3>4
    <3> QED
      BY <3>3, <3>4
  <2> QED
    BY <1>1, <2>1 DEF OwedAhead
<1>6. NeverMisdirected'
  <2>1. CASE Matches(i, e)
    <3>1. t \in Tasks /\ subscribers[i].mask \subseteq Mask[t] /\ subscribers[i].mask \cap e # {}
      BY <1>2, <2>1, SlotOfTask DEF Matches, t
    <3>2. notified'[t] = notified[t] \cup e /\ \A u \in Tasks : u # t => notified'[u] = notified[u]
      BY <1>1, <1>4, <2>1, <3>1
    <3> QED
      BY <3>1, <3>2 DEF IInv, NeverMisdirected
  <2>2. CASE ~Matches(i, e)
    BY <1>1, <2>2 DEF IInv, NeverMisdirected
  <2> QED
    BY <2>1, <2>2
<1> QED
  BY <1>1, <1>5, <1>6, ArrayStable DEF IInv

LEMMA PublishIsrIInv ==
    ASSUME IInv, TypeOK', NEW e \in SomeBits, PublishIsr(e)
    PROVE  IInv'
<1>1. UNCHANGED <<subscribers, count, sub, pub, aborted, owed>>
  BY DEF PublishIsr
<1>2. OwedAhead'
  BY <1>1 DEF IInv, OwedAhead
<1>3. ASSUME NEW t \in Tasks, notified'[t] # {}
      PROVE  notified'[t] \cap Mask[t] # {}
  <2>1. CASE \E i \in Slots : Matches(i, e) /\ subscribers[i].handle = t
    <3>1. PICK i \in Slots : Matches(i, e) /\ subscribers[i].handle = t
      BY <2>1
    <3>2. subscribers[i].mask \subseteq Mask[t] /\ subscribers[i].mask \cap e # {}
      BY <3>1, SlotOfTask DEF Matches
    <3>3. notified'[t] = notified[t] \cup e
      BY <2>1 DEF PublishIsr
    <3> QED
      BY <3>2, <3>3
  <2>2. CASE ~ \E i \in Slots : Matches(i, e) /\ subscribers[i].handle = t
    <3>1. notified'[t] = notified[t]
      BY <2>2 DEF PublishIsr
    <3> QED
      BY <1>3, <3>1 DEF IInv, NeverMisdirected
  <2> QED
    BY <2>1, <2>2
<1> QED
  BY <1>1, <1>2, <1>3, ArrayStable DEF IInv, NeverMisdirected

LEMMA NextIInv ==
    ASSUME Serial, IInv, TypeOK', [Next]_registryVars
    PROVE  IInv'
<1>1. CASE UNCHANGED registryVars
  <2>1. OwedAhead' /\ NeverMisdirected'
    BY <1>1 DEF registryVars, IInv, OwedAhead, NeverMisdirected
  <2> QED
    BY <1>1, <2>1, ArrayStable DEF registryVars, IInv
<1> QED
  BY <1>1, StartSubscribeIInv, StoreFieldIInv, BumpCountIInv, TakeNotificationIInv,
     StartPublishIInv, PublishSlotIInv, PublishIsrIInv DEF Next

LEMMA Inductive == ASSUME Serial PROVE Spec => []IInv
<1>1. Init => IInv
  BY InitIInv
<1>2. IInv /\ TypeOK' /\ [Next]_registryVars => IInv'
  BY NextIInv
<1> QED
  BY <1>1, <1>2, TypeCorrect, PTL DEF Spec

-----------------------------------------------------------------------------

(* Whoever has subscribed stays in the registry, with its own mask, as     *)
(* long as no two subscribe() run at the same time (base_task.h:107-113).  *)
THEOREM SubscriptionsKept == ASSUME Serial PROVE Spec => []SubscriptionKept
<1>1. IInv => SubscriptionKept
  <2> SUFFICES ASSUME IInv, NEW t \in Tasks, sub[t].pc = "done"
               PROVE  \E i \in Slots : Holds(i, t)
    BY DEF SubscriptionKept
  <2>1. Holds(sub[t].slot, t) /\ sub[t].slot \in Slots
    BY DEF IInv, Filled, TypeOK, Progress
  <2> QED
    BY <2>1
<1> QED
  BY <1>1, Inductive, PTL

(* Every publish() notifies all who had subscribed before it, while other  *)
(* tasks subscribe and publish (base_task.h:115-123).                      *)
THEOREM NobodySkipped == ASSUME Serial PROVE Spec => []NoSubscriberSkipped
<1>1. IInv => NoSubscriberSkipped
  <2> SUFFICES ASSUME IInv, NEW p \in Publishers, ~Publishing(p), NEW t \in owed[p]
               PROVE  FALSE
    BY DEF NoSubscriberSkipped
  <2>1. t \in Tasks /\ pub[p].slot \in 1 .. Size + 1
    BY DEF IInv, TypeOK
  <2>2. sub[t].slot \in Slots /\ sub[t].slot >= pub[p].slot
    BY <2>1 DEF IInv, OwedAhead, TypeOK, Progress
  <2> QED
    BY <2>1, <2>2, SizeAssumption DEF Publishing, Slots
<1> QED
  BY <1>1, Inductive, PTL

(* No notification goes to a task that asked for none of its bits, also    *)
(* not while a slot is half stored (base_task.h:111, 119).                 *)
THEOREM NothingMisdirected == ASSUME Serial PROVE Spec => []NeverMisdirected
<1>1. IInv => NeverMisdirected
  BY DEF IInv
<1> QED
  BY <1>1, Inductive, PTL

(* The assertion of subscribe() means that each slot is taken by a task    *)
(* that has subscribed (base_task.h:110).                                  *)
THEOREM AbortsWhenFull == ASSUME Serial PROVE Spec => []AbortOnlyWhenFull
<1>1. IInv => AbortOnlyWhenFull
  BY DEF IInv, Full, Filled, AbortOnlyWhenFull, Slots
<1> QED
  BY <1>1, Inductive, PTL
=============================================================================
