--------------------------- MODULE TelemetryProofs ---------------------------
(***************************************************************************)
(* What holds of SensorTask and FlashTask for every pair of priorities,    *)
(* every size of the registry and any number of naps; and what it takes a  *)
(* FlashTask of the higher priority for.                                   *)
(***************************************************************************)
EXTENDS Telemetry, TLAPS

Ending == {"close", "unmount", "delete", "deleted"}
Pending == notified["flash"]
Announcing == pub["sensor"]
Front == buffer[idx]
Valid(packet) == packet["checksum"] = CRC(packet["data"])

-----------------------------------------------------------------------------
(* The invariant, for any priorities.                                      *)

(* FlashTask sleeps and reads nowhere but where the code does.             *)
Places ==
    /\ asleep = TRUE => fpc \in {"append", "close"}
    /\ rpc = "copy" => fpc = "read" /\ asleep = FALSE
    /\ fpc # "subscribe" => sub["flash"].pc = "done"

(* Words of readings, which have a checksum.                               *)
DataWords == \A b \in {0, 1} : buffer[b]["data"] \in Readings

(* FlashTask is the only subscriber: it is in the first slot, asking for   *)
(* what it asked for or, until subscribe() has stored it, for nothing.     *)
OneSubscriber ==
    /\ aborted = FALSE /\ sub["flash"].slot = 1
    /\ sub["flash"].pc # "done" => count = 0
    /\ \A i \in Reg!Slots : i # 1 => subscribers[i] = Reg!EmptySlot
    /\ subscribers[1].mask \in {{}, FlashMask}

(* Nothing but the events it asked for is sent to FlashTask.               *)
Sent ==
    /\ spc = "telemetry" => Announcing.event = {"Telemetry"}
    /\ spc = "staging" => Announcing.event = {"Staging"}
    /\ spc \notin {"telemetry", "staging"} => Announcing.slot = Size + 1
    /\ "Staging" \notin Pending /\ "Staging" \notin got

(* Telemetry that FlashTask was sent is pending until it begins to read,   *)
(* and when it was due it is not passed over on the way to the end.        *)
Owing ==
    /\ unread = TRUE /\ fpc # "deleted" =>
           "Telemetry" \in Pending \/ (fpc = "read" /\ rpc # "copy")
    /\ due = TRUE => unread = TRUE
    /\ fpc \in Ending => "FlashDisabled" \in got /\ due = FALSE
    /\ fpc \in {"subscribe", "wait"} => "FlashDisabled" \notin got
    /\ (fpc = "append" \/ rpc = "copy") /\ "FlashDisabled" \in got => due = FALSE

IInv == TypeOK /\ Places /\ DataWords /\ OneSubscriber /\ Sent /\ Owing

-----------------------------------------------------------------------------
(* What is added where FlashTask has the higher priority.                  *)

(* The front packet is valid from the first commit on, and FlashTask is    *)
(* not told of it before; a packet being read stays in front.              *)
Stamped ==
    /\ spc = "commit" => Valid(buffer[Buf!Back])
    /\ spc \in {"count", "telemetry", "staging"} \/ "Telemetry" \in Pending \/ fpc = "read"
           => Valid(Front)
    /\ rpc = "copy" => ridx = idx /\ \A w \in Words : w \in rleft \/ out[w] = Front[w]
    /\ fpc = "append" => Valid(out)

(* The reads of the front packet that may still come before the next       *)
(* commit: one that FlashTask was notified of, one it is about to begin,   *)
(* one SensorTask has yet to announce.                                     *)
Notified == IF "Telemetry" \in Pending THEN 1 ELSE 0
Beginning == IF fpc = "read" /\ rpc # "copy" THEN 1 ELSE 0
Coming == IF \/ spc = "count" /\ counter = 1
             \/ spc = "telemetry" /\ Announcing.slot = 1
          THEN 1 ELSE 0
Reads == copies + Notified + Beginning + Coming <= 2

HInv == IInv /\ Stamped /\ Reads

-----------------------------------------------------------------------------
(* What the steps do to the buffer.                                        *)

Writes ==
    \/ Buf!StartWrite \/ Buf!Commit
    \/ \E w \in Words : Buf!CopyWord(w)
    \/ \E v \in Readings : Buf!Fill("data", v)
    \/ Buf!Fill("checksum", CRC(buffer[Buf!Back]["data"]))

Reading == Buf!StartRead \/ \E w \in Words : Buf!ReadWord(w)

LEMMA StepsOfBuffer ==
    ASSUME [Next]_vars
    PROVE  \/ UNCHANGED bufferVars
           \/ Writes /\ SensorRuns /\ UNCHANGED <<registryVars, flashVars>>
           \/ Reading /\ FlashRuns /\ fpc = "read" /\ UNCHANGED <<registryVars, sensorVars, asleep>>
<1>1. CASE Sensor
  BY <1>1 DEF Sensor, BuildPacket, ReadSensors, Stamp, CommitPacket, CountPacket, PublishStep,
     Published, Writes
<1>2. CASE Flash
  BY <1>2 DEF Flash, Subscribe, WaitNotified, StartRead, ReadWord, Append, Nap, Close, Unmount,
     DeleteSelf, Reading, flashVars
<1>3. CASE Wake \/ Disable
  BY <1>3 DEF Wake, Disable
<1>4. CASE UNCHANGED vars
  BY <1>4 DEF vars
<1> QED
  BY <1>1, <1>2, <1>3, <1>4 DEF Next

LEMMA PacketTypes ==
    ASSUME NEW p \in Buf!Packets, NEW w \in Words, NEW v \in Values
    PROVE  /\ p[w] \in Values /\ [p EXCEPT ![w] = v] \in Buf!Packets
           /\ [p EXCEPT ![w] = v][w] = v
           /\ \A u \in Words : u # w => [p EXCEPT ![w] = v][u] = p[u]
BY DEF Buf!Packets

(* What a step of the writer leaves of the two packets.                    *)
LEMMA WriterChanges ==
    ASSUME Buf!TypeOK, DataWords, Writes
    PROVE  /\ buffer' \in [{0, 1} -> Buf!Packets] /\ buffer'[idx] = Front
           /\ DataWords' /\ idx' \in {0, 1}
           /\ Buf!Commit \/ (idx' = idx /\ ~Buf!Commit)
           /\ UNCHANGED <<rpc, ridx, rleft, out, front>>
<1> DEFINE back == buffer[Buf!Back]
<1>1. /\ buffer \in [{0, 1} -> Buf!Packets] /\ idx \in {0, 1} /\ Buf!Back \in {0, 1}
      /\ Buf!Back # idx /\ back \in Buf!Packets /\ Front \in Buf!Packets
  BY DEF Buf!TypeOK, Buf!Back, Front
<1>2. "data" \in Words /\ "checksum" \in Words /\ back["data"] \in Readings /\ Front["data"] \in Readings
  BY <1>1 DEF Words, DataWords, Front
<1>3. Readings \subseteq Values /\ CRC(back["data"]) \in Values
  BY <1>2 DEF Readings, Values, CRC
<1>4. CASE Buf!StartWrite \/ Buf!Commit
  BY <1>1, <1>4 DEF Buf!StartWrite, Buf!Commit, Buf!readerVars, DataWords, Front
<1>5. ASSUME NEW w \in Words, NEW v \in Values, w = "data" => v \in Readings,
             buffer' = [buffer EXCEPT ![Buf!Back][w] = v], idx' = idx
      PROVE  buffer' \in [{0, 1} -> Buf!Packets] /\ buffer'[idx] = Front /\ DataWords'
  <2>1. buffer' = [buffer EXCEPT ![Buf!Back] = [back EXCEPT ![w] = v]]
    BY <1>5
  <2>2. buffer'[Buf!Back] = [back EXCEPT ![w] = v] /\ buffer'[idx] = Front
    BY <1>1, <2>1 DEF Front
  <2>3. buffer'[Buf!Back]["data"] \in Readings
    BY <1>1, <1>2, <1>5, <2>2, PacketTypes
  <2> QED
    BY <1>1, <1>2, <1>5, <2>1, <2>2, <2>3, PacketTypes DEF DataWords, Front
<1>6. ASSUME NEW w \in Words, Buf!CopyWord(w)
      PROVE  /\ Front[w] \in Values /\ (w = "data" => Front[w] \in Readings)
             /\ buffer' = [buffer EXCEPT ![Buf!Back][w] = Front[w]]
             /\ UNCHANGED <<idx, rpc, ridx, rleft, out, front>>
  <2>1. Front[w] \in Values /\ (w = "data" => Front[w] \in Readings)
    BY <1>1, <1>2 DEF Buf!Packets
  <2>2. buffer' = [buffer EXCEPT ![Buf!Back][w] = Front[w]]
    BY <1>6 DEF Buf!CopyWord, Front
  <2>3. UNCHANGED <<idx, rpc, ridx, rleft, out, front>>
    BY <1>6 DEF Buf!CopyWord, Buf!readerVars
  <2> QED
    BY <2>1, <2>2, <2>3
<1>7. ASSUME NEW w \in Words, NEW v, Buf!Fill(w, v)
      PROVE  /\ buffer' = [buffer EXCEPT ![Buf!Back][w] = v]
             /\ UNCHANGED <<idx, rpc, ridx, rleft, out, front>>
  BY <1>7 DEF Buf!Fill, Buf!readerVars
<1>8. ~Buf!Commit \/ ~(idx' = idx)
  BY <1>1 DEF Buf!Commit
<1> QED
  BY <1>1, <1>2, <1>3, <1>4, <1>5, <1>6, <1>7, <1>8 DEF Writes

(* What a step of the reader does.                                         *)
LEMMA ReaderChanges ==
    ASSUME Buf!TypeOK, Reading
    PROVE  /\ UNCHANGED <<buffer, idx>>
           /\ \/ Buf!StartRead /\ rpc # "copy"
              \/ \E w \in Words :
                     /\ Buf!ReadWord(w) /\ rpc = "copy" /\ w \in rleft
                     /\ out' = [out EXCEPT ![w] = buffer[ridx][w]]
                     /\ rleft' = rleft \ {w} /\ UNCHANGED <<ridx, front>>
                     /\ rpc' = IF rleft' = {} THEN "done" ELSE "copy"
BY DEF Reading, Buf!StartRead, Buf!ReadWord, Buf!writerVars

LEMMA BufferTyped ==
    ASSUME Buf!TypeOK, DataWords, Writes \/ Reading \/ UNCHANGED bufferVars
    PROVE  Buf!TypeOK' /\ DataWords'
<1>1. CASE Writes
  <2>1. /\ buffer' \in [{0, 1} -> Buf!Packets] /\ DataWords' /\ idx' \in {0, 1}
        /\ UNCHANGED <<rpc, ridx, rleft, out, front>>
    BY <1>1, WriterChanges
  <2>2. wpc' \in {"idle", "copy", "fill"} /\ wleft' \subseteq Words /\ touched' \subseteq Words
    BY <1>1 DEF Writes, Buf!TypeOK, Buf!StartWrite, Buf!CopyWord, Buf!Fill, Buf!Commit, Words
  <2>3. overlap' \in 0 .. 2
    BY <1>1 DEF Writes, Buf!TypeOK, Buf!StartWrite, Buf!CopyWord, Buf!Fill, Buf!Commit
  <2>4. seen' \subseteq Buf!Packets
    <3>1. buffer[Buf!Back] \in Buf!Packets
      BY DEF Buf!TypeOK, Buf!Back
    <3> QED
      BY <1>1, <3>1 DEF Writes, Buf!TypeOK, Buf!StartWrite, Buf!CopyWord, Buf!Fill, Buf!Commit
  <2> QED
    BY <2>1, <2>2, <2>3, <2>4 DEF Buf!TypeOK
<1>2. CASE Buf!StartRead
  BY <1>2 DEF Buf!StartRead, Buf!TypeOK, Buf!writerVars, DataWords
<1>3. ASSUME NEW w \in Words, Buf!ReadWord(w) PROVE Buf!TypeOK' /\ DataWords'
  <2>1. buffer[ridx] \in Buf!Packets
    BY DEF Buf!TypeOK
  <2>2. buffer[ridx][w] \in Values
    BY <2>1 DEF Buf!Packets
  <2>3. out' \in Buf!Packets
    BY <1>3, <2>2, PacketTypes DEF Buf!ReadWord, Buf!TypeOK
  <2> QED
    BY <1>3, <2>3 DEF Buf!ReadWord, Buf!TypeOK, Buf!writerVars, DataWords
<1>4. CASE UNCHANGED bufferVars
  BY <1>4 DEF bufferVars, Buf!TypeOK, DataWords
<1> QED
  BY <1>1, <1>2, <1>3, <1>4 DEF Reading

-----------------------------------------------------------------------------
(* What the steps do to the registry.                                      *)

Publishes ==
    \/ Reg!StartPublish("sensor", {"Telemetry"}) \/ Reg!StartPublish("sensor", {"Staging"})
    \/ Reg!PublishSlot("sensor")

Subscribes ==
    \/ Reg!StartSubscribe("flash") \/ Reg!BumpCount("flash")
    \/ \E f \in Reg!Fields : Reg!StoreField("flash", f)

Clears ==
    /\ notified' = [notified EXCEPT !["flash"] = {}]
    /\ UNCHANGED <<subscribers, count, sub, pub, aborted, owed>>

LEMMA StepsOfRegistry ==
    ASSUME [Next]_vars
    PROVE  \/ UNCHANGED registryVars
           \/ Publishes /\ UNCHANGED <<bufferVars, flashVars>>
           \/ Subscribes /\ UNCHANGED bufferVars
           \/ Clears /\ UNCHANGED bufferVars
           \/ Reg!PublishIsr({"FlashDisabled"}) /\ UNCHANGED <<bufferVars, sensorVars, flashVars>>
<1>1. CASE Sensor
  BY <1>1 DEF Sensor, BuildPacket, ReadSensors, Stamp, CommitPacket, CountPacket, PublishStep,
     Published, Publishes
<1>2. CASE Flash
  BY <1>2 DEF Flash, Subscribe, WaitNotified, StartRead, ReadWord, Append, Nap, Close, Unmount,
     DeleteSelf, Subscribes, Clears, Reg!TakeNotification
<1>3. CASE Wake \/ Disable
  BY <1>3 DEF Wake, Disable
<1>4. CASE UNCHANGED vars
  BY <1>4 DEF vars
<1> QED
  BY <1>1, <1>2, <1>3, <1>4 DEF Next

LEMMA RegistrySlots == 1 \in Reg!Slots /\ Size \in Nat /\ Size > 0
BY BoundAssumption DEF Reg!Slots

(* Nobody but FlashTask is ever notified, and only of what it asked for.   *)
LEMMA WhoMatches ==
    ASSUME Reg!TypeOK, OneSubscriber, NEW i \in Reg!Slots, NEW e, Reg!Matches(i, e)
    PROVE  i = 1 /\ subscribers[i].handle = "flash" /\ FlashMask \cap e # {}
BY RegistrySlots DEF Reg!TypeOK, OneSubscriber, Reg!Matches, Reg!EmptySlot, Reg!Entries

(* A turn of the loop of publish().                                        *)
LEMMA SlotPublished ==
    ASSUME Reg!TypeOK, OneSubscriber, Reg!PublishSlot("sensor")
    PROVE  /\ Announcing.slot \in Reg!Slots
           /\ pub' = [pub EXCEPT !["sensor"].slot = @ + 1]
           /\ UNCHANGED <<subscribers, count, sub, aborted>>
           /\ \/ /\ Reg!Matches(Announcing.slot, Announcing.event)
                 /\ Announcing.slot = 1 /\ FlashMask \cap Announcing.event # {}
                 /\ notified' = [notified EXCEPT !["flash"] = @ \cup Announcing.event]
                 /\ owed' = [owed EXCEPT !["sensor"] = @ \ {"flash"}]
              \/ /\ ~Reg!Matches(Announcing.slot, Announcing.event)
                 /\ UNCHANGED <<notified, owed>>
<1>1. Announcing.slot \in Reg!Slots
  BY RegistrySlots DEF Reg!TypeOK, Reg!PublishSlot, Reg!Publishing, Announcing, Reg!Slots
<1>2. CASE Reg!Matches(Announcing.slot, Announcing.event)
  <2>1. Announcing.slot = 1 /\ subscribers[Announcing.slot].handle = "flash"
        /\ FlashMask \cap Announcing.event # {}
    BY <1>1, <1>2, WhoMatches
  <2> QED
    BY <1>1, <1>2, <2>1 DEF Reg!PublishSlot, Announcing
<1>3. CASE ~Reg!Matches(Announcing.slot, Announcing.event)
  BY <1>1, <1>3 DEF Reg!PublishSlot, Announcing
<1> QED
  BY <1>2, <1>3

(* What an interrupt adds to the notification.                             *)
LEMMA IsrPublished ==
    ASSUME Reg!TypeOK, Reg!PublishIsr({"FlashDisabled"})
    PROVE  /\ notified' \in [{"flash"} -> {Pending, Pending \cup {"FlashDisabled"}}]
           /\ UNCHANGED <<subscribers, count, sub, pub, aborted, owed>>
BY DEF Reg!PublishIsr, Pending, Reg!TypeOK

LEMMA RegistryTyped ==
    ASSUME Reg!TypeOK, OneSubscriber,
           \/ Publishes \/ Subscribes \/ Clears \/ Reg!PublishIsr({"FlashDisabled"})
           \/ UNCHANGED registryVars
    PROVE  Reg!TypeOK' /\ OneSubscriber'
<1> USE RegistrySlots
<1>1. CASE Reg!PublishSlot("sensor")
  <2>1. UNCHANGED <<subscribers, count, sub, aborted>>
    BY <1>1, SlotPublished
  <2>2. pub' \in [{"sensor"} -> [event : SUBSET {"Telemetry", "Staging", "FlashDisabled"}, slot : 1 .. Size + 1]]
    BY <1>1, SlotPublished DEF Reg!TypeOK, Announcing, Reg!Slots
  <2>3. Announcing.event \in SUBSET {"Telemetry", "Staging", "FlashDisabled"}
    BY DEF Reg!TypeOK, Announcing
  <2>4. notified' \in [{"flash"} -> SUBSET {"Telemetry", "Staging", "FlashDisabled"}]
    BY <1>1, <2>3, SlotPublished DEF Reg!TypeOK
  <2>5. owed' \in [{"sensor"} -> SUBSET {"flash"}]
    BY <1>1, SlotPublished DEF Reg!TypeOK
  <2> QED
    BY <2>1, <2>2, <2>4, <2>5 DEF Reg!TypeOK, OneSubscriber
<1>2. ASSUME NEW e \in SUBSET {"Telemetry", "Staging", "FlashDisabled"}, Reg!StartPublish("sensor", e)
      PROVE  Reg!TypeOK' /\ OneSubscriber'
  BY <1>2 DEF Reg!StartPublish, Reg!TypeOK, OneSubscriber
<1>3. CASE Reg!StartSubscribe("flash")
  <2>1. count = 0 /\ sub["flash"].pc = "new" /\ Reg!HasRoom
    BY <1>3 DEF Reg!StartSubscribe, OneSubscriber, Reg!HasRoom
  <2>2. /\ sub' = [sub EXCEPT !["flash"] = [pc |-> "store", slot |-> 1, todo |-> Reg!Fields]]
        /\ UNCHANGED <<subscribers, count, pub, notified, aborted, owed>>
    BY <1>3, <2>1 DEF Reg!StartSubscribe
  <2>3. [pc |-> "store", slot |-> 1, todo |-> Reg!Fields] \in Reg!Progress
    BY DEF Reg!Progress
  <2>4. sub' \in [{"flash"} -> Reg!Progress] /\ sub'["flash"].slot = 1 /\ sub'["flash"].pc = "store"
    BY <2>2, <2>3 DEF Reg!TypeOK
  <2> QED
    BY <2>1, <2>2, <2>4 DEF Reg!TypeOK, OneSubscriber
<1>4. ASSUME NEW f \in Reg!Fields, Reg!StoreField("flash", f)
      PROVE  Reg!TypeOK' /\ OneSubscriber'
  <2> DEFINE next == [pc |-> IF sub["flash"].todo = {f} THEN "bump" ELSE "store",
                      slot |-> sub["flash"].slot, todo |-> sub["flash"].todo \ {f}]
  <2>1. /\ UNCHANGED <<count, pub, notified, aborted, owed>>
        /\ sub' = [sub EXCEPT !["flash"] = next] /\ sub["flash"].pc = "store"
        /\ subscribers' = IF f = "handle" THEN [subscribers EXCEPT ![1].handle = "flash"]
                          ELSE [subscribers EXCEPT ![1].mask = FlashMask]
    BY <1>4 DEF Reg!StoreField, OneSubscriber
  <2>2. next \in Reg!Progress /\ next.slot = 1 /\ next.pc # "done"
    BY DEF Reg!TypeOK, Reg!Progress, OneSubscriber
  <2>3. sub' \in [{"flash"} -> Reg!Progress] /\ sub'["flash"] = next
    BY <2>1, <2>2 DEF Reg!TypeOK
  <2>4. subscribers[1] \in Reg!Entries
    BY DEF Reg!TypeOK
  <2>5. /\ [subscribers[1] EXCEPT !.handle = "flash"] \in Reg!Entries
        /\ [subscribers[1] EXCEPT !.handle = "flash"].mask = subscribers[1].mask
        /\ [subscribers[1] EXCEPT !.mask = FlashMask] \in Reg!Entries
        /\ [subscribers[1] EXCEPT !.mask = FlashMask].mask = FlashMask
    BY <2>4 DEF Reg!Entries, FlashMask
  <2>6. /\ subscribers' \in [Reg!Slots -> Reg!Entries]
        /\ \A i \in Reg!Slots : i # 1 => subscribers'[i] = subscribers[i]
        /\ subscribers'[1].mask \in {subscribers[1].mask, FlashMask}
    BY <2>1, <2>4, <2>5 DEF Reg!TypeOK
  <2> HIDE DEF next
  <2> QED
    BY <2>1, <2>2, <2>3, <2>6 DEF Reg!TypeOK, OneSubscriber
<1>5. CASE Reg!BumpCount("flash")
  <2>1. /\ sub' = [sub EXCEPT !["flash"].pc = "done"] /\ count' \in {sub["flash"].slot, count + 1}
        /\ UNCHANGED <<subscribers, pub, notified, aborted, owed>>
    BY <1>5 DEF Reg!BumpCount
  <2>2. sub["flash"] \in Reg!Progress /\ count \in Nat /\ sub["flash"].slot = 1
    BY DEF Reg!TypeOK, OneSubscriber
  <2>3. [sub["flash"] EXCEPT !.pc = "done"] \in Reg!Progress
    BY <2>2 DEF Reg!Progress
  <2>4. sub' \in [{"flash"} -> Reg!Progress] /\ sub'["flash"].slot = 1 /\ sub'["flash"].pc = "done"
    BY <2>1, <2>2, <2>3 DEF Reg!TypeOK, Reg!Progress
  <2>5. count' \in Nat
    BY <2>1, <2>2
  <2> QED
    BY <2>1, <2>4, <2>5 DEF Reg!TypeOK, OneSubscriber
<1>6. CASE Clears
  BY <1>6 DEF Clears, Reg!TypeOK, OneSubscriber
<1>7. CASE Reg!PublishIsr({"FlashDisabled"})
  <2>1. Pending \cup {"FlashDisabled"} \in SUBSET {"Telemetry", "Staging", "FlashDisabled"}
        /\ Pending \in SUBSET {"Telemetry", "Staging", "FlashDisabled"}
    BY DEF Reg!TypeOK, Pending
  <2>2. notified' \in [{"flash"} -> SUBSET {"Telemetry", "Staging", "FlashDisabled"}]
    BY <1>7, <2>1, IsrPublished
  <2> QED
    BY <1>7, <2>2, IsrPublished DEF Reg!TypeOK, OneSubscriber
<1>8. CASE UNCHANGED registryVars
  BY <1>8 DEF registryVars, Reg!TypeOK, OneSubscriber
<1> QED
  BY <1>1, <1>2, <1>3, <1>4, <1>5, <1>6, <1>7, <1>8 DEF Publishes, Subscribes

-----------------------------------------------------------------------------
(* The invariant for any priorities is kept.                               *)

LEMMA Typed ==
    ASSUME TypeOK, DataWords, OneSubscriber, [Next]_vars
    PROVE  TypeOK' /\ DataWords' /\ OneSubscriber'
<1>1. Buf!TypeOK' /\ DataWords'
  BY StepsOfBuffer, BufferTyped DEF TypeOK
<1>2. Reg!TypeOK' /\ OneSubscriber'
  BY StepsOfRegistry, RegistryTyped DEF TypeOK
<1>3. CASE Sensor
  <2>1. UNCHANGED flashVars
    BY <1>3 DEF Sensor, BuildPacket, ReadSensors, Stamp, CommitPacket, CountPacket, PublishStep,
       Published
  <2>2. /\ spc' \in {"write", "sense", "stamp", "commit", "count", "telemetry", "staging"}
        /\ counter' \in 0 .. 1 /\ copies' \in 0 .. 3
    BY <1>3 DEF TypeOK, Sensor, BuildPacket, ReadSensors, Stamp, CommitPacket, CountPacket,
       PublishStep, Published, history, sensorVars
  <2>3. unread' \in BOOLEAN /\ due' \in BOOLEAN
    BY <1>3 DEF TypeOK, Sensor, BuildPacket, ReadSensors, Stamp, CommitPacket, CountPacket,
       PublishStep, Published, history
  <2> QED
    BY <1>1, <1>2, <2>1, <2>2, <2>3 DEF TypeOK, flashVars
<1>4. CASE Flash
  <2>1. UNCHANGED sensorVars
    BY <1>4 DEF Flash, Subscribe, WaitNotified, StartRead, ReadWord, Append, Nap, Close, Unmount,
       DeleteSelf
  <2>2. /\ fpc' \in {"subscribe", "wait", "read", "append", "close", "unmount", "delete", "deleted"}
        /\ naps' \in 0 .. MaxNaps /\ file' \in {"open", "closed"} /\ copies' \in 0 .. 3
    BY <1>4, BoundAssumption DEF TypeOK, Flash, Subscribe, WaitNotified, StartRead, ReadWord,
       Append, Nap, Close, Unmount, DeleteSelf, history, flashVars
  <2>3. asleep' \in BOOLEAN /\ mounted' \in BOOLEAN /\ unread' \in BOOLEAN /\ due' \in BOOLEAN
    BY <1>4 DEF TypeOK, Flash, Subscribe, WaitNotified, StartRead, ReadWord, Append, Nap, Close,
       Unmount, DeleteSelf, history, flashVars
  <2>4. got' \subseteq {"Telemetry", "Staging", "FlashDisabled"}
    <3>1. Pending \subseteq {"Telemetry", "Staging", "FlashDisabled"}
      BY DEF TypeOK, Reg!TypeOK, Pending
    <3>2. got' = got \/ got' = Pending
      BY <1>4 DEF Flash, Subscribe, WaitNotified, StartRead, ReadWord, Append, Nap, Close, Unmount,
         DeleteSelf, flashVars, Pending
    <3> QED
      BY <3>1, <3>2 DEF TypeOK
  <2> QED
    BY <1>1, <1>2, <2>1, <2>2, <2>3, <2>4 DEF TypeOK, sensorVars
<1>5. CASE Wake \/ Disable
  <2>1. UNCHANGED <<sensorVars, fpc, got, naps, file, mounted, copies, unread>>
    BY <1>5 DEF Wake, Disable, flashVars, history
  <2>2. asleep' \in BOOLEAN /\ due' \in BOOLEAN
    BY <1>5 DEF Wake, Disable, flashVars, history, TypeOK
  <2> QED
    BY <1>1, <1>2, <2>1, <2>2 DEF TypeOK, sensorVars
<1>6. CASE UNCHANGED vars
  BY <1>1, <1>2, <1>6 DEF TypeOK, vars, sensorVars, flashVars, history
<1> QED
  BY <1>1, <1>2, <1>3, <1>4, <1>5, <1>6 DEF Next

LEMMA PlacesKept ==
    ASSUME TypeOK, Places, [Next]_vars
    PROVE  Places'
<1>1. CASE Sensor
  <2>1. UNCHANGED <<rpc, fpc, asleep>>
    BY <1>1 DEF Sensor, BuildPacket, ReadSensors, Stamp, CommitPacket, CountPacket, PublishStep,
       Published, flashVars, bufferVars, Buf!StartWrite, Buf!CopyWord, Buf!Fill, Buf!Commit,
       Buf!readerVars
  <2>2. UNCHANGED sub
    BY <1>1 DEF Sensor, BuildPacket, ReadSensors, Stamp, CommitPacket, CountPacket, PublishStep,
       Published, registryVars, Reg!StartPublish, Reg!PublishSlot
  <2> QED
    BY <2>1, <2>2 DEF Places
<1>2. CASE Subscribe
  BY <1>2 DEF Subscribe, Places, bufferVars
<1>3. CASE WaitNotified \/ StartRead \/ ReadWord
  BY <1>3 DEF WaitNotified, StartRead, ReadWord, Places, FlashRuns, FlashReady, Buf!StartRead,
     Buf!ReadWord, Reg!TakeNotification, flashVars, registryVars, bufferVars
<1>4. CASE Append \/ Nap \/ Close \/ Unmount \/ DeleteSelf
  <2>1. rpc' = rpc /\ sub' = sub /\ fpc # "subscribe" /\ fpc # "read" /\ asleep # TRUE
    BY <1>4 DEF Append, Nap, Close, Unmount, DeleteSelf, FlashRuns, FlashReady, registryVars,
       bufferVars
  <2>2. asleep' = TRUE => fpc' \in {"append", "close"}
    BY <1>4, <2>1 DEF Append, Nap, Close, Unmount, DeleteSelf
  <2> QED
    BY <2>1, <2>2 DEF Places
<1>5. CASE Wake \/ Disable
  BY <1>5 DEF Wake, Disable, Places, Reg!PublishIsr, flashVars, registryVars, bufferVars
<1>6. CASE UNCHANGED vars
  BY <1>6 DEF vars, Places, flashVars, registryVars, bufferVars
<1> QED
  BY <1>1, <1>2, <1>3, <1>4, <1>5, <1>6 DEF Next, Flash

(* The call of publish() that SensorTask begins.                           *)
LEMMA Announced ==
    ASSUME Reg!TypeOK, NEW e, Reg!StartPublish("sensor", e)
    PROVE  Announcing' = [event |-> e, slot |-> 1] /\ UNCHANGED <<notified, sub>>
BY DEF Reg!StartPublish, Announcing, Reg!TypeOK

(* A turn of its loop: FlashTask is sent Telemetry or nothing.             *)
LEMMA AnnouncedSlot ==
    ASSUME TypeOK, OneSubscriber, Sent, PublishStep
    PROVE  /\ Announcing.slot \in Reg!Slots /\ Announcing'.slot = Announcing.slot + 1
           /\ Announcing'.event = Announcing.event
           /\ UNCHANGED <<spc, counter, flashVars, bufferVars, copies, due, sub>>
           /\ \/ Pending' = Pending /\ unread' = unread
              \/ /\ spc = "telemetry" /\ Announcing.slot = 1 /\ unread' = TRUE
                 /\ Pending' = Pending \cup {"Telemetry"}
<1>1. Reg!PublishSlot("sensor") /\ Reg!TypeOK /\ spc \in {"telemetry", "staging"}
  BY DEF PublishStep, TypeOK
<1>2. Announcing.slot \in Reg!Slots /\ pub' = [pub EXCEPT !["sensor"].slot = @ + 1] /\ sub' = sub
  BY <1>1, SlotPublished
<1>3. Announcing'.slot = Announcing.slot + 1 /\ Announcing'.event = Announcing.event
  BY <1>1, <1>2 DEF Announcing, Reg!TypeOK
<1>4. UNCHANGED <<spc, counter, flashVars, bufferVars, copies, due>>
  BY DEF PublishStep, sensorVars
<1>5. Announcing.event = IF spc = "telemetry" THEN {"Telemetry"} ELSE {"Staging"}
  BY <1>1 DEF Sent
<1>6. unread' = (unread \/ (spc = "telemetry" /\ Reg!Matches(Announcing.slot, {"Telemetry"})))
  BY DEF PublishStep, Announcing
<1>7. CASE Reg!Matches(Announcing.slot, Announcing.event)
  <2>1. Announcing.slot = 1 /\ FlashMask \cap Announcing.event # {}
        /\ notified' = [notified EXCEPT !["flash"] = @ \cup Announcing.event]
    BY <1>1, <1>7, SlotPublished
  <2>2. spc = "telemetry" /\ Announcing.event = {"Telemetry"}
    BY <1>1, <1>5, <2>1 DEF FlashMask
  <2>3. unread' = TRUE
    BY <1>6, <1>7, <2>2
  <2>4. Pending' = Pending \cup {"Telemetry"}
    BY <1>1, <2>1, <2>2 DEF Pending, Reg!TypeOK
  <2> QED
    BY <1>2, <1>3, <1>4, <2>1, <2>2, <2>3, <2>4
<1>8. CASE ~Reg!Matches(Announcing.slot, Announcing.event)
  <2>1. Pending' = Pending
    BY <1>1, <1>8, SlotPublished DEF Pending
  <2>2. ~(spc = "telemetry" /\ Reg!Matches(Announcing.slot, {"Telemetry"}))
    BY <1>5, <1>8
  <2>3. unread' = unread
    BY <1>6, <2>2 DEF TypeOK
  <2> QED
    BY <1>2, <1>3, <1>4, <2>1, <2>3
<1> QED
  BY <1>7, <1>8

LEMMA SentKept ==
    ASSUME TypeOK, OneSubscriber, Sent, [Next]_vars
    PROVE  Sent'
<1> USE DEF Sent
<1>1. CASE BuildPacket \/ ReadSensors \/ Stamp \/ CommitPacket
  <2>1. /\ spc \notin {"telemetry", "staging"} /\ spc' \notin {"telemetry", "staging"}
        /\ UNCHANGED <<pub, notified, got>>
    BY <1>1 DEF BuildPacket, ReadSensors, Stamp, CommitPacket, registryVars, flashVars
  <2> QED
    BY <2>1 DEF Announcing, Pending
<1>2. CASE CountPacket
  <2>1. /\ got' = got
        /\ \/ spc' = "telemetry" /\ Reg!StartPublish("sensor", {"Telemetry"})
           \/ spc' = "staging" /\ Reg!StartPublish("sensor", {"Staging"})
    BY <1>2 DEF CountPacket, flashVars
  <2> QED
    BY <2>1, Announced DEF TypeOK, Pending
<1>3. CASE PublishStep
  <2>1. spc \in {"telemetry", "staging"} /\ spc' = spc /\ got' = got
    BY <1>3 DEF PublishStep, flashVars, sensorVars
  <2>2. Announcing'.event = Announcing.event /\ "Staging" \notin Pending'
    BY <1>3, AnnouncedSlot
  <2> QED
    BY <2>1, <2>2
<1>4. CASE Published
  <2>1. got' = got /\ ~(Announcing.slot <= Size)
    BY <1>4 DEF Published, flashVars, Reg!Publishing, Announcing
  <2>2. CASE spc' = "staging" /\ Reg!StartPublish("sensor", {"Staging"})
    BY <2>1, <2>2, Announced DEF TypeOK, Pending
  <2>3. CASE spc' = "write" /\ UNCHANGED registryVars
    <3>1. Announcing' = Announcing /\ Pending' = Pending
      BY <2>3 DEF registryVars, Announcing, Pending
    <3>2. Announcing.slot = Size + 1
      BY <2>1, RegistrySlots DEF TypeOK, Reg!TypeOK, Announcing
    <3> QED
      BY <2>1, <2>3, <3>1, <3>2
  <2> QED
    BY <1>4, <2>2, <2>3 DEF Published
<1>5. CASE Flash
  <2>1. UNCHANGED <<spc, pub>>
    BY <1>5 DEF Flash, Subscribe, WaitNotified, StartRead, ReadWord, Append, Nap, Close, Unmount,
       DeleteSelf, registryVars, sensorVars, Reg!StartSubscribe, Reg!StoreField, Reg!BumpCount,
       Reg!TakeNotification
  <2>2. (Pending' = Pending \/ Pending' = {}) /\ (got' = got \/ got' = Pending)
    BY <1>5 DEF Flash, Subscribe, WaitNotified, StartRead, ReadWord, Append, Nap, Close, Unmount,
       DeleteSelf, registryVars, flashVars, Reg!StartSubscribe, Reg!StoreField, Reg!BumpCount,
       Reg!TakeNotification, Pending, TypeOK, Reg!TypeOK
  <2> QED
    BY <2>1, <2>2 DEF Announcing
<1>6. CASE Wake \/ Disable
  <2>1. UNCHANGED <<spc, pub, got>>
    BY <1>6 DEF Wake, Disable, registryVars, sensorVars, flashVars, Reg!PublishIsr
  <2>2. "Staging" \notin Pending'
    BY <1>6, IsrPublished DEF Wake, Disable, registryVars, Pending, TypeOK
  <2> QED
    BY <2>1, <2>2 DEF Announcing
<1>7. CASE UNCHANGED vars
  BY <1>7 DEF vars, registryVars, sensorVars, flashVars, Announcing, Pending
<1> QED
  BY <1>1, <1>2, <1>3, <1>4, <1>5, <1>6, <1>7 DEF Next, Sensor

LEMMA OwingKept ==
    ASSUME TypeOK, Places, OneSubscriber, Sent, Owing, [Next]_vars
    PROVE  Owing'
<1> USE DEF Owing, Ending
<1>1. CASE BuildPacket \/ ReadSensors \/ Stamp \/ CommitPacket \/ CountPacket \/ Published
  <2>1. UNCHANGED <<fpc, got, notified, unread, due>>
    BY <1>1, Announced DEF BuildPacket, ReadSensors, Stamp, CommitPacket, CountPacket, Published,
       registryVars, flashVars, history, Reg!StartPublish
  <2>2. rpc' = rpc
    BY <1>1 DEF BuildPacket, ReadSensors, Stamp, CommitPacket, CountPacket, Published, bufferVars,
       Buf!StartWrite, Buf!CopyWord, Buf!Fill, Buf!Commit, Buf!readerVars
  <2> QED
    BY <2>1, <2>2 DEF Pending
<1>2. CASE PublishStep
  <2>1. /\ UNCHANGED <<fpc, got, rpc, due>>
        /\ \/ Pending' = Pending /\ unread' = unread
           \/ "Telemetry" \in Pending' /\ unread' = TRUE
    <3>1. UNCHANGED <<flashVars, bufferVars, due>>
      BY <1>2, AnnouncedSlot
    <3>2. \/ Pending' = Pending /\ unread' = unread
          \/ "Telemetry" \in Pending' /\ unread' = TRUE
      BY <1>2, AnnouncedSlot
    <3> QED
      BY <3>1, <3>2 DEF flashVars, bufferVars
  <2> QED
    BY <2>1
<1>3. CASE Subscribe
  <2>1. UNCHANGED <<rpc, got, unread, due>> /\ fpc = "subscribe" /\ fpc' \in {"subscribe", "wait"}
    BY <1>3 DEF Subscribe, bufferVars, history
  <2>2. Pending' = Pending
    BY <1>3 DEF Subscribe, Pending, Reg!StartSubscribe, Reg!StoreField, Reg!BumpCount
  <2> QED
    BY <2>1, <2>2
<1>4. CASE WaitNotified
  <2>1. /\ fpc = "wait" /\ got' = Pending /\ Pending # {} /\ Pending' = {}
        /\ fpc' = (IF "Telemetry" \in Pending THEN "read" ELSE "close")
        /\ UNCHANGED <<rpc, unread, due>>
    BY <1>4 DEF WaitNotified, Reg!TakeNotification, Pending, TypeOK, Reg!TypeOK, bufferVars, history
  <2>2. Pending \subseteq {"Telemetry", "FlashDisabled"} /\ rpc # "copy"
    BY <2>1 DEF Sent, TypeOK, Reg!TypeOK, Pending, Places
  <2>3. unread = TRUE => "Telemetry" \in Pending
    BY <2>1
  <2> QED
    BY <2>1, <2>2, <2>3 DEF TypeOK
<1>5. CASE StartRead
  <2>1. fpc' = "read" /\ rpc' = "copy" /\ unread' = FALSE /\ due' = FALSE
    BY <1>5 DEF StartRead, Buf!StartRead, flashVars
  <2> QED
    BY <2>1
<1>6. CASE ReadWord
  <2>1. fpc = "read" /\ rpc = "copy" /\ fpc' \in {"append", "read"}
        /\ UNCHANGED <<notified, got, unread, due>> /\ (fpc' = "read" => rpc' = "copy")
    BY <1>6 DEF ReadWord, Buf!ReadWord, registryVars, history, TypeOK
  <2> QED
    BY <2>1 DEF Pending
<1>7. CASE Append
  <2>1. fpc = "append" /\ UNCHANGED <<rpc, notified, got, unread, due>>
        /\ fpc' = (IF "FlashDisabled" \in got THEN "close" ELSE "wait")
    BY <1>7 DEF Append, bufferVars, registryVars, history
  <2> QED
    BY <2>1 DEF Pending, Places
<1>8. CASE Close \/ Unmount \/ Nap \/ Wake
  <2>1. UNCHANGED <<rpc, notified, got, unread, due>>
        /\ (fpc' = fpc \/ (fpc \in Ending /\ fpc' \in Ending))
    BY <1>8 DEF Close, Unmount, Nap, Wake, bufferVars, registryVars, history, Ending
  <2>2. fpc' # fpc => fpc' # "append" /\ fpc' # "deleted" /\ fpc' # "read" /\ fpc # "deleted"
                      /\ fpc # "read"
    BY <1>8 DEF Close, Unmount, Nap, Wake
  <2> QED
    BY <2>1, <2>2 DEF Pending, Ending, Places
<1>9. CASE DeleteSelf
  <2>1. fpc = "delete" /\ fpc' = "deleted" /\ UNCHANGED <<rpc, got, unread, due>>
    BY <1>9 DEF DeleteSelf, bufferVars, history
  <2> QED
    BY <2>1 DEF Ending, Places
<1>10. CASE Disable
  <2>1. UNCHANGED <<fpc, rpc, got, unread>>
        /\ (due' = due \/ (due' = TRUE /\ unread = TRUE /\ "FlashDisabled" \notin got))
    BY <1>10 DEF Disable, flashVars, bufferVars, Stopping, TypeOK
  <2>2. "Telemetry" \in Pending => "Telemetry" \in Pending'
    BY <1>10, IsrPublished DEF Disable, TypeOK, Pending
  <2> QED
    BY <2>1, <2>2 DEF Ending
<1>11. CASE UNCHANGED vars
  BY <1>11 DEF vars, registryVars, flashVars, bufferVars, history, Pending
<1> QED
  BY <1>1, <1>2, <1>3, <1>4, <1>5, <1>6, <1>7, <1>8, <1>9, <1>10, <1>11 DEF Next, Sensor, Flash

LEMMA InitIInv == Init => IInv
<1> SUFFICES ASSUME Init PROVE IInv
  OBVIOUS
<1>1. Buf!TypeOK
  <2>1. Buf!Blank \in Buf!Packets
    BY DEF Buf!Blank, Buf!Packets, Values
  <2> QED
    BY <2>1 DEF Init, Buf!Init, Buf!TypeOK
<1>2. Reg!TypeOK
  <2>1. subscribers \in [Reg!Slots -> Reg!Entries]
    BY DEF Init, Reg!Init, Reg!EmptySlot, Reg!Entries
  <2>2. sub \in [{"flash"} -> Reg!Progress]
    BY RegistrySlots DEF Init, Reg!Init, Reg!Progress
  <2>3. pub \in [{"sensor"} -> [event : SUBSET {"Telemetry", "Staging", "FlashDisabled"},
                                slot : 1 .. Size + 1]]
    BY RegistrySlots DEF Init, Reg!Init
  <2>4. notified \in [{"flash"} -> SUBSET {"Telemetry", "Staging", "FlashDisabled"}]
        /\ owed \in [{"sensor"} -> SUBSET {"flash"}]
    BY DEF Init, Reg!Init
  <2> QED
    BY <2>1, <2>2, <2>3, <2>4 DEF Init, Reg!Init, Reg!TypeOK
<1>3. TypeOK
  <2>1. counter \in 0 .. 1 /\ naps \in 0 .. MaxNaps /\ copies \in 0 .. 3
    BY BoundAssumption DEF Init
  <2>2. asleep \in BOOLEAN /\ mounted \in BOOLEAN /\ unread \in BOOLEAN /\ due \in BOOLEAN
    BY DEF Init
  <2> QED
    BY <1>1, <1>2, <2>1, <2>2 DEF Init, TypeOK
<1>4. DataWords
  BY DEF Init, Buf!Init, Buf!Blank, DataWords, Words, Readings
<1>5. OneSubscriber
  BY RegistrySlots DEF Init, Reg!Init, OneSubscriber, Reg!EmptySlot
<1>6. Places /\ Sent /\ Owing
  BY DEF Init, Reg!Init, Buf!Init, Places, Sent, Owing, Announcing, Pending, Ending
<1> QED
  BY <1>3, <1>4, <1>5, <1>6 DEF IInv

LEMMA Inductive == Spec => []IInv
<1>1. IInv /\ [Next]_vars => IInv'
  BY Typed, PlacesKept, SentKept, OwingKept DEF IInv
<1> QED
  BY <1>1, InitIInv, PTL DEF Spec

-----------------------------------------------------------------------------
(* Any priorities.                                                         *)

(* The state is well typed, whichever task has the higher priority.        *)
THEOREM TypeCorrect == Spec => []TypeOK
<1>1. IInv => TypeOK
  BY DEF IInv
<1> QED
  BY <1>1, Inductive, PTL

(* No Telemetry that came before FlashDisabled is passed over, whichever   *)
(* of the tasks is in front and wherever the interrupt comes               *)
(* (flash_task.h:28-42).                                                   *)
THEOREM TelemetryIsSaved == Spec => []SavedBeforeClose
<1>1. IInv => SavedBeforeClose
  BY DEF IInv, Owing, Ending, SavedBeforeClose
<1> QED
  BY <1>1, Inductive, PTL

LEMMA StampIsValue ==
    ASSUME Buf!TypeOK, DataWords
    PROVE  CRC(buffer[Buf!Back]["data"]) \in Values /\ Readings \subseteq Values
BY DEF Buf!TypeOK, Buf!Back, DataWords, CRC, Readings, Values

(* While FlashTask reads, SensorTask runs only if its priority is not the  *)
(* lower one.                                                              *)
LEMMA WhoWrites ==
    ASSUME Places, SensorRuns, rpc = "copy"
    PROVE  SensorPriority >= FlashPriority
BY DEF Places, SensorRuns, FlashReady

(* The tasks use the buffer as the priorities allow, and DoubleBuffer with *)
(* these is what they implement (base_task.h:25-84).                       *)
THEOREM TasksUseBufferAsScheduled == Spec => BufferAsScheduled
<1>1. Init => Scheduled!Init
  BY DEF Init, Buf!Init, Scheduled!Init, Buf!Blank, Scheduled!Blank
<1>2. IInv /\ [Next]_vars => [Scheduled!Next]_(Scheduled!vars)
  <2> SUFFICES ASSUME IInv, [Next]_vars PROVE Scheduled!Next \/ UNCHANGED Scheduled!vars
    OBVIOUS
  <2>1. CASE UNCHANGED bufferVars
    BY <2>1 DEF bufferVars, Scheduled!vars, Scheduled!writerVars, Scheduled!readerVars
  <2>2. CASE Writes /\ SensorRuns
    <3> USE DEF Buf!Back, Scheduled!Back, Buf!readerVars, Scheduled!readerVars
    <3>1. Scheduled!WriterMayRun
      BY <2>2, WhoWrites DEF IInv, Scheduled!WriterMayRun
    <3>2. Buf!StartWrite => Scheduled!StartWrite
      BY <3>1 DEF Buf!StartWrite, Scheduled!StartWrite
    <3>3. Buf!Commit => Scheduled!Commit
      BY <3>1 DEF Buf!Commit, Scheduled!Commit
    <3>4. ASSUME NEW w \in Words, Buf!CopyWord(w) PROVE Scheduled!CopyWord(w)
      BY <3>1, <3>4 DEF Buf!CopyWord, Scheduled!CopyWord
    <3>5. ASSUME NEW w \in Words, NEW v \in Values, Buf!Fill(w, v) PROVE Scheduled!Fill(w, v)
      BY <3>1, <3>5 DEF Buf!Fill, Scheduled!Fill
    <3>6. /\ CRC(buffer[Buf!Back]["data"]) \in Values /\ Readings \subseteq Values
          /\ "data" \in Words /\ "checksum" \in Words
      BY StampIsValue DEF IInv, TypeOK, Words
    <3> QED
      BY <2>2, <3>2, <3>3, <3>4, <3>5, <3>6 DEF Writes, Scheduled!Next, Scheduled!Write
  <2>3. CASE Reading /\ FlashRuns
    <3> USE DEF Buf!writerVars, Scheduled!writerVars
    <3>1. Scheduled!ReaderMayRun
      BY <2>3 DEF FlashRuns, Scheduled!ReaderMayRun
    <3>2. Buf!StartRead => Scheduled!StartRead
      BY <3>1 DEF Buf!StartRead, Scheduled!StartRead
    <3>3. ASSUME NEW w \in Words, Buf!ReadWord(w) PROVE Scheduled!ReadWord(w)
      BY <3>1, <3>3 DEF Buf!ReadWord, Scheduled!ReadWord
    <3> QED
      BY <2>3, <3>2, <3>3 DEF Reading, Scheduled!Next, Scheduled!Read
  <2> QED
    BY <2>1, <2>2, <2>3, StepsOfBuffer
<1> QED
  BY <1>1, <1>2, Inductive, PTL DEF Spec, BufferAsScheduled, Scheduled!Spec

-----------------------------------------------------------------------------
(* FlashTask has the higher priority.                                      *)

FlashFirst == FlashPriority > SensorPriority

(* While it is ready SensorTask does not run.                              *)
LEMMA SensorRunsAlone ==
    ASSUME FlashFirst, IInv, SensorRuns
    PROVE  /\ rpc # "copy" /\ fpc # "read"
           /\ fpc = "wait" => Pending = {}
<1>1. ~FlashReady
  BY PriorityAssumption DEF FlashFirst, SensorRuns
<1>2. asleep \in BOOLEAN /\ (asleep = TRUE => fpc # "read" /\ fpc # "wait")
  BY DEF IInv, TypeOK, Places
<1> QED
  BY <1>1, <1>2 DEF FlashReady, IInv, Places, Pending

LEMMA SumBound ==
    ASSUME NEW sum \in Int, NEW total \in Int, NEW c \in Int, sum <= total, total + c <= 2
    PROVE  sum + c <= 2
OBVIOUS

LEMMA ReadsKept ==
    ASSUME FlashFirst, IInv, Reads, [Next]_vars
    PROVE  Reads'
<1> USE DEF Reads
<1>0. copies \in 0 .. 3 /\ Notified \in 0 .. 1 /\ Beginning \in 0 .. 1 /\ Coming \in 0 .. 1
  BY DEF IInv, TypeOK, Notified, Beginning, Coming
<1>1. CASE BuildPacket \/ ReadSensors \/ Stamp
  <2>1. UNCHANGED <<rpc, fpc, notified, copies>>
    BY <1>1 DEF BuildPacket, ReadSensors, Stamp, Buf!StartWrite, Buf!CopyWord, Buf!Fill,
       Buf!readerVars, bufferVars, registryVars, flashVars, history
  <2>2. Coming' = 0
    BY <1>1 DEF BuildPacket, ReadSensors, Stamp, Coming
  <2> QED
    BY <1>0, <2>1, <2>2 DEF Notified, Beginning, Pending
<1>2. CASE CommitPacket
  <2>1. copies' = 0 /\ UNCHANGED <<rpc, fpc, notified>> /\ fpc # "read"
    BY <1>2, SensorRunsAlone DEF CommitPacket, Buf!Commit, Buf!readerVars, registryVars, flashVars
  <2>2. Beginning' = 0 /\ Notified' = Notified /\ Coming' \in 0 .. 1
    BY <2>1 DEF Beginning, Notified, Pending, Coming
  <2> QED
    BY <1>0, <2>1, <2>2 DEF Notified, Beginning, Coming
<1>3. CASE CountPacket
  <2>1. UNCHANGED <<rpc, fpc, notified, copies>> /\ spc = "count" /\ counter \in 0 .. 1
    BY <1>3, Announced DEF CountPacket, bufferVars, flashVars, history, IInv, TypeOK,
       Reg!StartPublish
  <2>2. spc' = "telemetry" => counter = 1
    BY <1>3, <2>1 DEF CountPacket
  <2>3. spc' \in {"telemetry", "staging"}
    BY <1>3 DEF CountPacket
  <2>4. Coming' = 1 => Coming = 1
    BY <2>1, <2>2, <2>3 DEF Coming
  <2>5. Coming' \in 0 .. 1
    BY DEF Coming
  <2> QED
    BY <1>0, <2>1, <2>4, <2>5 DEF Notified, Beginning, Coming, Pending
<1>4. CASE PublishStep
  <2>1. /\ Announcing.slot \in Reg!Slots /\ Announcing'.slot = Announcing.slot + 1
        /\ UNCHANGED <<spc, copies>> /\ UNCHANGED <<flashVars, bufferVars>>
        /\ \/ Pending' = Pending
           \/ spc = "telemetry" /\ Announcing.slot = 1
    BY <1>4, AnnouncedSlot DEF IInv
  <2>2. Beginning' = Beginning
    BY <2>1 DEF Beginning, flashVars, bufferVars
  <2>3. Coming' = 0
    BY <1>4, <2>1, RegistrySlots DEF Coming, Reg!Slots, PublishStep
  <2>4. Notified' = Notified \/ (Coming = 1 /\ Notified' \in 0 .. 1)
    BY <2>1 DEF Notified, Coming
  <2> QED
    BY <1>0, <2>1, <2>2, <2>3, <2>4
<1>5. CASE Published
  <2>1. UNCHANGED <<rpc, fpc, notified, copies>> /\ spc' \in {"staging", "write"}
    BY <1>5, Announced DEF Published, bufferVars, flashVars, registryVars, history, IInv, TypeOK,
       Reg!StartPublish
  <2>2. Coming' = 0
    BY <2>1 DEF Coming
  <2> QED
    BY <1>0, <2>1, <2>2 DEF Notified, Beginning, Pending
<1>6. CASE Flash
  <2>1. UNCHANGED <<spc, counter, pub>>
    BY <1>6 DEF Flash, Subscribe, WaitNotified, StartRead, ReadWord, Append, Nap, Close, Unmount,
       DeleteSelf, registryVars, sensorVars, Reg!StartSubscribe, Reg!StoreField, Reg!BumpCount,
       Reg!TakeNotification
  <2>2. Coming' = Coming
    BY <2>1 DEF Coming, Announcing
  <2>3. copies' + Notified' + Beginning' <= copies + Notified + Beginning
    <3>1. CASE Subscribe
      <4>1. UNCHANGED <<rpc, notified, copies>> /\ fpc' \in {"subscribe", "wait"}
        BY <3>1 DEF Subscribe, bufferVars, history, Reg!StartSubscribe, Reg!StoreField,
           Reg!BumpCount
      <4>2. Notified' = Notified /\ Beginning' = 0
        BY <4>1 DEF Notified, Pending, Beginning
      <4> QED
        BY <1>0, <4>1, <4>2
    <3>2. CASE WaitNotified
      <4>1. /\ fpc = "wait" /\ Pending' = {} /\ UNCHANGED <<rpc, copies>>
            /\ fpc' = (IF "Telemetry" \in Pending THEN "read" ELSE "close")
        BY <3>2 DEF WaitNotified, Reg!TakeNotification, Pending, IInv, TypeOK, Reg!TypeOK,
           bufferVars, history
      <4>2. Notified' = 0 /\ Beginning' <= Notified /\ Beginning' \in 0 .. 1
        BY <4>1 DEF Notified, Beginning
      <4> QED
        BY <1>0, <4>1, <4>2 DEF Notified, Beginning, Coming
    <3>3. CASE StartRead
      <4>1. /\ fpc = "read" /\ fpc' = "read" /\ rpc # "copy" /\ rpc' = "copy"
            /\ notified' = notified /\ (copies' = copies \/ copies' = copies + 1)
        BY <3>3 DEF StartRead, Buf!StartRead, registryVars, flashVars
      <4>2. Notified' = Notified /\ Beginning = 1 /\ Beginning' = 0
        BY <4>1 DEF Notified, Pending, Beginning
      <4> QED
        BY <1>0, <4>1, <4>2 DEF Notified, Beginning, Coming
    <3>4. CASE ReadWord
      <4>1. UNCHANGED <<notified, copies>> /\ (fpc' = "read" => rpc' = "copy")
        BY <3>4 DEF ReadWord, Buf!ReadWord, registryVars, history
      <4>2. Notified' = Notified /\ Beginning' = 0
        BY <4>1 DEF Notified, Pending, Beginning
      <4> QED
        BY <1>0, <4>1, <4>2
    <3>5. CASE Append \/ Nap \/ Close \/ Unmount \/ DeleteSelf
      <4>1. /\ copies' = copies /\ fpc' # "read" /\ (Pending' = Pending \/ Pending' = {})
        BY <3>5 DEF Append, Nap, Close, Unmount, DeleteSelf, history, registryVars, Pending, IInv,
           TypeOK, Reg!TypeOK
      <4>2. Beginning' = 0 /\ Notified' <= Notified /\ Notified' \in 0 .. 1
        BY <4>1 DEF Notified, Beginning
      <4> QED
        BY <1>0, <4>1, <4>2 DEF Notified, Beginning, Coming
    <3> QED
      BY <1>6, <3>1, <3>2, <3>3, <3>4, <3>5 DEF Flash
  <2>4. copies' \in Int /\ Notified' \in 0 .. 1 /\ Beginning' \in 0 .. 1
    <3>1. copies' = copies \/ copies' = copies + 1
      BY <1>6, <1>0 DEF Flash, Subscribe, WaitNotified, StartRead, ReadWord, Append, Nap, Close,
         Unmount, DeleteSelf, history
    <3> QED
      BY <1>0, <3>1 DEF Notified, Beginning
  <2>5. /\ copies' + Notified' + Beginning' \in Int /\ copies + Notified + Beginning \in Int
        /\ Coming \in 0 .. 1
    BY <1>0, <2>4 DEF Notified, Beginning
  <2>6. copies' + Notified' + Beginning' + Coming <= 2
    BY <2>3, <2>5, SumBound
  <2> QED
    BY <2>2, <2>6
<1>7. CASE Wake \/ Disable
  <2>1. UNCHANGED <<spc, counter, pub, rpc, fpc, copies>>
    BY <1>7 DEF Wake, Disable, bufferVars, registryVars, sensorVars, flashVars, history,
       Reg!PublishIsr
  <2>2. "Telemetry" \in Pending <=> "Telemetry" \in Pending'
    BY <1>7, IsrPublished DEF Wake, Disable, registryVars, Pending, IInv, TypeOK
  <2> QED
    BY <1>0, <2>1, <2>2 DEF Notified, Beginning, Coming, Announcing
<1>8. CASE UNCHANGED vars
  BY <1>8 DEF vars, bufferVars, registryVars, sensorVars, flashVars, history, Notified, Beginning,
     Coming, Announcing, Pending
<1> QED
  BY <1>1, <1>2, <1>3, <1>4, <1>5, <1>6, <1>7, <1>8 DEF Next, Sensor

(* What a step of SensorTask does to the buffer that FlashTask would read. *)
LEMMA SensorKeepsFront ==
    ASSUME FlashFirst, IInv, SensorRuns, Writes
    PROVE  /\ buffer'[idx] = Front /\ rpc # "copy" /\ fpc # "read"
           /\ UNCHANGED <<rpc, ridx, rleft, out, front>>
           /\ ~Buf!Commit => idx' = idx /\ Front' = Front
BY WriterChanges, SensorRunsAlone DEF IInv, TypeOK, Front

LEMMA StampedBack ==
    ASSUME Buf!TypeOK, Buf!Fill("checksum", CRC(buffer[Buf!Back]["data"]))
    PROVE  Valid(buffer'[Buf!Back'])
<1> DEFINE back == buffer[Buf!Back]
           stamped == [back EXCEPT !["checksum"] = CRC(back["data"])]
<1>1. /\ Buf!Back \in {0, 1} /\ buffer \in [{0, 1} -> Buf!Packets] /\ back \in Buf!Packets
      /\ Buf!Back' = Buf!Back
  BY DEF Buf!TypeOK, Buf!Back, Buf!Fill
<1>2. buffer' = [buffer EXCEPT ![Buf!Back] = stamped]
  BY DEF Buf!Fill
<1>3. buffer'[Buf!Back'] = stamped
  BY <1>1, <1>2
<1>4. stamped["checksum"] = CRC(back["data"]) /\ stamped["data"] = back["data"]
  BY <1>1 DEF Buf!Packets, Words
<1> HIDE DEF stamped, back
<1> QED
  BY <1>3, <1>4 DEF Valid

LEMMA StampedKept ==
    ASSUME FlashFirst, IInv, Stamped, [Next]_vars
    PROVE  Stamped'
<1> USE DEF Stamped
<1>1. CASE BuildPacket \/ ReadSensors
  <2>1. /\ spc' \in {"write", "sense", "stamp"} /\ UNCHANGED <<registryVars, flashVars>>
        /\ SensorRuns /\ ((Writes /\ ~Buf!Commit) \/ UNCHANGED bufferVars)
    <3>1. /\ spc' \in {"write", "sense", "stamp"} /\ UNCHANGED <<registryVars, flashVars>>
          /\ SensorRuns
      BY <1>1 DEF BuildPacket, ReadSensors
    <3>2. Writes \/ UNCHANGED bufferVars
      BY <1>1 DEF BuildPacket, ReadSensors, Writes
    <3>3. idx' = idx
      BY <1>1 DEF BuildPacket, ReadSensors, Buf!StartWrite, Buf!CopyWord, Buf!Fill, bufferVars
    <3>4. ~Buf!Commit
      BY <3>3 DEF Buf!Commit, Buf!Back, IInv, TypeOK, Buf!TypeOK
    <3> QED
      BY <3>1, <3>2, <3>4
  <2>2. UNCHANGED <<rpc, ridx, rleft, out>> /\ Front' = Front /\ idx' = idx
    BY <2>1, SensorKeepsFront DEF bufferVars, Front
  <2> QED
    BY <2>1, <2>2 DEF Pending, flashVars, registryVars
<1>2. CASE Stamp
  <2>1. /\ spc' = "commit" /\ UNCHANGED <<registryVars, flashVars>> /\ SensorRuns /\ Writes
        /\ Buf!Fill("checksum", CRC(buffer[Buf!Back]["data"]))
    BY <1>2 DEF Stamp, Writes
  <2>2. ~Buf!Commit
    BY <2>1 DEF Buf!Commit, Buf!Back, IInv, TypeOK, Buf!TypeOK, Buf!Fill
  <2>3. UNCHANGED <<rpc, ridx, rleft, out>> /\ Front' = Front /\ idx' = idx
    BY <2>1, <2>2, SensorKeepsFront
  <2>4. Valid(buffer'[Buf!Back'])
    BY <2>1, StampedBack DEF IInv, TypeOK
  <2> QED
    BY <2>1, <2>3, <2>4 DEF Pending, flashVars, registryVars, Valid
<1>3. CASE CommitPacket
  <2>1. /\ spc = "commit" /\ spc' = "count" /\ UNCHANGED <<registryVars, flashVars>>
        /\ SensorRuns /\ Buf!Commit /\ Writes
    BY <1>3 DEF CommitPacket, Writes
  <2>2. UNCHANGED <<rpc, out>> /\ rpc # "copy"
    BY <2>1, SensorKeepsFront
  <2>3. Front' = buffer[Buf!Back]
    BY <2>1 DEF Buf!Commit, Front
  <2> QED
    BY <2>1, <2>2, <2>3 DEF Pending, flashVars, registryVars, Valid
<1>4. CASE CountPacket \/ Published
  <2>1. /\ spc \in {"count", "telemetry", "staging"} /\ spc' \in {"telemetry", "staging", "write"}
        /\ UNCHANGED <<bufferVars, flashVars>>
    BY <1>4 DEF CountPacket, Published
  <2> QED
    BY <2>1 DEF bufferVars, flashVars, Front, Valid
<1>5. CASE PublishStep
  <2>1. spc \in {"telemetry", "staging"} /\ spc' = spc /\ UNCHANGED <<bufferVars, flashVars>>
    BY <1>5 DEF PublishStep, sensorVars
  <2> QED
    BY <2>1 DEF bufferVars, flashVars, Front, Valid
<1>6. CASE StartRead
  <2>1. /\ UNCHANGED <<registryVars, sensorVars, flashVars, buffer, idx, out>> /\ fpc = "read"
        /\ ridx' = idx /\ rleft' = Words
    BY <1>6 DEF StartRead, Buf!StartRead, Buf!writerVars
  <2> QED
    BY <2>1 DEF Pending, flashVars, registryVars, sensorVars, Front, Valid, Buf!Back
<1>7. CASE ReadWord
  <2>1. /\ UNCHANGED <<registryVars, sensorVars>> /\ fpc = "read"
        /\ fpc' = (IF rpc' = "done" THEN "append" ELSE "read") /\ Reading
    BY <1>7 DEF ReadWord, Reading
  <2>2. PICK w \in Words : Buf!ReadWord(w)
    BY <1>7 DEF ReadWord
  <2>3. /\ UNCHANGED <<buffer, idx, ridx>> /\ rpc = "copy" /\ out \in [Words -> Values]
        /\ out' = [out EXCEPT ![w] = Front[w]] /\ rleft' = rleft \ {w}
        /\ rpc' = IF rleft' = {} THEN "done" ELSE "copy"
    BY <2>2 DEF Buf!ReadWord, Buf!writerVars, Front, IInv, TypeOK, Buf!TypeOK, Buf!Packets
  <2>4. \A u \in Words : u \in rleft' \/ out'[u] = Front[u]
    BY <2>3
  <2>5. rpc' = "done" => Valid(out')
    BY <2>1, <2>3, <2>4 DEF Valid, Words
  <2>6. Front' = Front /\ Buf!Back' = Buf!Back
    BY <2>3 DEF Front, Buf!Back
  <2> QED
    BY <2>1, <2>3, <2>4, <2>5, <2>6 DEF Pending, registryVars, sensorVars, Valid
<1>8. CASE Subscribe \/ WaitNotified \/ Append \/ Nap \/ Close \/ Unmount \/ DeleteSelf
  <2>1. UNCHANGED <<bufferVars, sensorVars>> /\ (Pending' = Pending \/ Pending' = {})
    BY <1>8 DEF Subscribe, WaitNotified, Append, Nap, Close, Unmount, DeleteSelf, Pending,
       registryVars, Reg!StartSubscribe, Reg!StoreField, Reg!BumpCount, Reg!TakeNotification,
       IInv, TypeOK, Reg!TypeOK
  <2>2. /\ fpc' = "append" => fpc = "append"
        /\ fpc' = "read" => "Telemetry" \in Pending
    BY <1>8 DEF Subscribe, WaitNotified, Append, Nap, Close, Unmount, DeleteSelf, Pending
  <2> QED
    BY <2>1, <2>2 DEF bufferVars, sensorVars, Front, Valid, Buf!Back
<1>9. CASE Wake \/ Disable
  <2>1. UNCHANGED <<bufferVars, sensorVars, fpc>>
    BY <1>9 DEF Wake, Disable, flashVars
  <2>2. "Telemetry" \in Pending' => "Telemetry" \in Pending
    BY <1>9, IsrPublished DEF Wake, Disable, registryVars, Pending, IInv, TypeOK
  <2> QED
    BY <2>1, <2>2 DEF bufferVars, sensorVars, Front, Valid, Buf!Back
<1>10. CASE UNCHANGED vars
  BY <1>10 DEF vars, bufferVars, registryVars, sensorVars, flashVars, Front, Valid, Buf!Back,
     Pending
<1> QED
  BY <1>1, <1>2, <1>3, <1>4, <1>5, <1>6, <1>7, <1>8, <1>9, <1>10 DEF Next, Sensor, Flash

LEMMA InitHInv == Init => HInv
<1> SUFFICES ASSUME Init PROVE HInv
  OBVIOUS
<1>1. Stamped
  BY DEF Init, Reg!Init, Buf!Init, Stamped, Pending
<1>2. Reads
  BY DEF Init, Reg!Init, Buf!Init, Reads, Notified, Beginning, Coming, Pending
<1> QED
  BY <1>1, <1>2, InitIInv DEF HInv

LEMMA FlashFirstInductive == ASSUME FlashFirst PROVE Spec => []HInv
<1>1. HInv /\ [Next]_vars => HInv'
  BY Typed, PlacesKept, SentKept, OwingKept, StampedKept, ReadsKept DEF HInv, IInv
<1> QED
  BY <1>1, InitHInv, PTL DEF Spec

(* Every packet that is saved carries the checksum of its own data, and is *)
(* not the packet the buffers start with (sensor_task.h:38-41,             *)
(* flash_task.h:30-32).                                                    *)
THEOREM RecordsAreValid == ASSUME FlashFirst PROVE Spec => []RecordValid
<1>1. HInv => RecordValid
  BY DEF HInv, Stamped, Valid, RecordValid
<1> QED
  BY <1>1, FlashFirstInductive, PTL

(* No packet is saved three times (sensor_task.h:41-46,                    *)
(* flash_task.h:26-32).                                                    *)
THEOREM SavedTwiceAtMost == ASSUME FlashFirst PROVE Spec => []SavedAtMostTwice
<1>1. HInv => SavedAtMostTwice
  BY DEF HInv, IInv, TypeOK, Reads, Notified, Beginning, Coming, SavedAtMostTwice
<1> QED
  BY <1>1, FlashFirstInductive, PTL

-----------------------------------------------------------------------------
(* The buffer as a register.                                               *)

(* A step that leaves the read() in progress and its buffer alone leaves   *)
(* what it will return alone.                                              *)
LEMMA OutcomeStable ==
    ASSUME UNCHANGED <<rpc, ridx, rleft, out>>, rpc = "copy" => buffer'[ridx] = buffer[ridx]
    PROVE  Buf!Outcome' = Buf!Outcome
BY DEF Buf!Outcome

LEMMA OutcomeOfReadWord ==
    ASSUME Buf!TypeOK, NEW w \in Words, Buf!ReadWord(w)
    PROVE  Buf!Outcome' = Buf!Outcome
<1>1. /\ rpc = "copy" /\ w \in rleft /\ out \in [Words -> Values]
      /\ out' = [out EXCEPT ![w] = buffer[ridx][w]]
      /\ rleft' = rleft \ {w} /\ buffer' = buffer /\ ridx' = ridx
      /\ rpc' = IF rleft' = {} THEN "done" ELSE "copy"
  BY DEF Buf!ReadWord, Buf!TypeOK, Buf!Packets, Buf!writerVars
<1>2. ASSUME NEW x \in Words
      PROVE  (IF rpc' = "copy" /\ x \in rleft' THEN buffer'[ridx'][x] ELSE out'[x])
                = (IF rpc = "copy" /\ x \in rleft THEN buffer[ridx][x] ELSE out[x])
  <2>1. CASE x = w
    BY <1>1, <2>1
  <2>2. CASE x # w
    BY <1>1, <2>2
  <2> QED
    BY <2>1, <2>2
<1> QED
  BY <1>2 DEF Buf!Outcome

LEMMA OutcomeOfStartRead ==
    ASSUME Buf!TypeOK, Buf!StartRead
    PROVE  Buf!Outcome' = Front /\ Front' = Front
<1>1. Front \in [Words -> Values]
  BY DEF Buf!TypeOK, Buf!Packets, Front
<1>2. Buf!Outcome' = [w \in Words |-> Front[w]] /\ Front' = Front
  BY DEF Buf!Outcome, Buf!StartRead, Buf!writerVars, Front
<1> QED
  BY <1>1, <1>2

(* The tasks share an atomic register: commit() publishes a packet and     *)
(* the first load of read() takes one, whatever comes between its words    *)
(* (base_task.h:25-84).                                                    *)
THEOREM TasksShareRegister == ASSUME FlashFirst PROVE Spec => ImplementsRegister
<1>1. Init => Buf!Register!Init
  BY DEF Init, Buf!Init, Buf!Register!Init, Buf!Outcome, Buf!Blank, Words
<1>2. IInv /\ IInv' /\ [Next]_vars => [Buf!Register!Next]_(Buf!Register!vars)
  <2> SUFFICES ASSUME IInv, IInv', [Next]_vars
               PROVE  Buf!Register!Next \/ UNCHANGED Buf!Register!vars
    OBVIOUS
  <2> USE DEF Buf!Register!vars
  <2>1. CASE UNCHANGED bufferVars
    BY <2>1, OutcomeStable DEF bufferVars
  <2>2. CASE Writes /\ SensorRuns
    <3>1. Buf!Outcome' = Buf!Outcome
      BY <2>2, SensorKeepsFront, OutcomeStable
    <3>2. CASE Buf!Commit
      <4>1. buffer'[idx'] \in Buf!Packets
        BY DEF IInv, TypeOK, Buf!TypeOK
      <4> QED
        BY <3>1, <4>1 DEF Buf!Register!Next, Buf!Register!Publish
    <3>3. CASE ~Buf!Commit
      BY <2>2, <3>1, <3>3, SensorKeepsFront DEF Front
    <3> QED
      BY <3>2, <3>3
  <2>3. CASE Reading
    <3>1. CASE Buf!StartRead
      BY <3>1, OutcomeOfStartRead DEF IInv, TypeOK, Front, Buf!Register!Next, Buf!Register!Take
    <3>2. ASSUME NEW w \in Words, Buf!ReadWord(w) PROVE UNCHANGED Buf!Register!vars
      BY <3>2, OutcomeOfReadWord DEF IInv, TypeOK, Buf!ReadWord, Buf!writerVars
    <3> QED
      BY <2>3, <3>1, <3>2 DEF Reading
  <2> QED
    BY <2>1, <2>2, <2>3, StepsOfBuffer
<1> QED
  BY <1>1, <1>2, Inductive, PTL DEF Spec, ImplementsRegister, Buf!ImplementsRegister, Buf!Register!Spec
=============================================================================
