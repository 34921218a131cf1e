----------------------------- MODULE Telemetry -----------------------------
(***************************************************************************)
(* SensorTask and FlashTask at work: they share one DoubleBuffer and the   *)
(* Registry (include/tasks/sensor_task.h, flash_task.h, base_task.h).      *)
(* SensorTask builds a packet, commits it, and publishes Telemetry with    *)
(* every second one; FlashTask waits for the notification, reads the front *)
(* packet and appends it to a file.  Somebody outside the repository       *)
(* publishes FlashDisabled, here from an interrupt; FlashTask then closes  *)
(* the file, unmounts the flash and deletes itself.                        *)
(*                                                                         *)
(* The tasks run under FreeRTOS on one core: the ready task of the highest *)
(* priority runs, tasks of equal priority share the core, and any step of  *)
(* a task may be the last before another one preempts it.  SensorTask is   *)
(* always ready: the vTaskDelayUntil of its loop stands behind a for (;;)  *)
(* that nothing leaves.  FlashTask is not ready while it waits for a       *)
(* notification, and while the chip's driver sleeps in vTaskDelay for a    *)
(* page program or a block erase (src/flash/gd5f1gq5xe.cpp).               *)
(*                                                                         *)
(* A packet has two words here: one that the sensors fill, and the CRC     *)
(* that is stamped last.                                                   *)
(***************************************************************************)
EXTENDS Integers

CONSTANTS SensorPriority, FlashPriority, \* the arguments of the two Task::init
          Size,                          \* slots of the registry
          MaxNaps                        \* bound: vTaskDelay calls in one append or close

ASSUME PriorityAssumption == SensorPriority \in Nat /\ FlashPriority \in Nat
ASSUME BoundAssumption == Size \in Nat \ {0} /\ MaxNaps \in Nat

VARIABLES
    buffer, idx, wpc, wleft, touched, rpc, ridx, rleft, out, front, seen, overlap,
    subscribers, count, sub, pub, notified, aborted, owed,
    spc,      \* where SensorTask::loop is
    counter,  \* its packet counter
    fpc,      \* where FlashTask::loop is
    got,      \* the event value xTaskNotifyWait returned
    asleep,   \* is FlashTask inside vTaskDelay?
    naps,     \* how often it slept in the current append or close
    file,     \* packet_file
    mounted,  \* lfs
    copies,   \* history: how often the front packet was read, up to 3
    unread,   \* history: FlashTask was sent Telemetry and has not read since
    due       \* history: unread, when FlashDisabled was first published

bufferVars == <<buffer, idx, wpc, wleft, touched, rpc, ridx, rleft, out, front, seen, overlap>>
registryVars == <<subscribers, count, sub, pub, notified, aborted, owed>>
sensorVars == <<spc, counter>>
flashVars == <<fpc, got, asleep, naps, file, mounted>>
history == <<copies, unread, due>>
vars == <<bufferVars, registryVars, sensorVars, flashVars, history>>

Words == {"data", "checksum"}
Values == 0 .. 2
Readings == {0, 1}
CRC(data) == data + 1    \* tells the readings apart; no reading has the
                         \* checksum 0 of a default constructed Packet

Buf == INSTANCE DoubleBuffer
           WITH Zero <- 0, WriterPreempts <- TRUE, ReaderPreempts <- TRUE

(* Mutation: FlashTask subscribes to FlashDisabled only.                   *)
FlashMaskStopOnly == {"FlashDisabled"}

FlashMask == {"FlashDisabled", "Telemetry"}
Reg == INSTANCE Registry
           WITH Tasks <- {"flash"}, Publishers <- {"sensor"},
                Events <- {"Telemetry", "Staging", "FlashDisabled"},
                Mask <- [t \in {"flash"} |-> FlashMask],
                NoTask <- "none", Serial <- TRUE

TypeOK ==
    /\ Buf!TypeOK /\ Reg!TypeOK
    /\ spc \in {"write", "sense", "stamp", "commit", "count", "telemetry", "staging"}
    /\ counter \in 0 .. 1
    /\ fpc \in {"subscribe", "wait", "read", "append", "close", "unmount", "delete", "deleted"}
    /\ got \subseteq {"Telemetry", "Staging", "FlashDisabled"}
    /\ asleep \in BOOLEAN /\ naps \in 0 .. MaxNaps
    /\ file \in {"open", "closed"} /\ mounted \in BOOLEAN
    /\ copies \in 0 .. 3 /\ unread \in BOOLEAN /\ due \in BOOLEAN

(* The application mounts the flash, opens the file and starts both tasks. *)
Init ==
    /\ Buf!Init /\ Reg!Init
    /\ spc = "write" /\ counter = 0
    /\ fpc = "subscribe" /\ got = {} /\ asleep = FALSE /\ naps = 0
    /\ file = "open" /\ mounted = TRUE
    /\ copies = 0 /\ unread = FALSE /\ due = FALSE

-----------------------------------------------------------------------------
(* The scheduler.                                                          *)

FlashReady == /\ fpc # "deleted" /\ ~asleep
              /\ fpc = "wait" => notified["flash"] # {}
SensorRuns == FlashReady => SensorPriority >= FlashPriority
FlashRuns == FlashReady /\ FlashPriority >= SensorPriority

-----------------------------------------------------------------------------
(* SensorTask::loop.                                                       *)

BuildPacket ==
    /\ SensorRuns /\ spc = "write"
    /\ Buf!StartWrite \/ \E w \in Words : Buf!CopyWord(w)
    /\ spc' = IF wpc' = "fill" THEN "sense" ELSE "write"
    /\ UNCHANGED <<registryVars, counter, flashVars, history>>

(* sensor->read(ptr).  A sensor that fails leaves the packet as it was,    *)
(* and the loop ignores the result.                                        *)
ReadSensors ==
    /\ SensorRuns /\ spc = "sense"
    /\ (\E v \in Readings : Buf!Fill("data", v)) \/ UNCHANGED bufferVars
    /\ spc' = "stamp"
    /\ UNCHANGED <<registryVars, counter, flashVars, history>>

(* Mutation: the checksum is taken over the front buffer.                  *)
StampFront ==
    /\ SensorRuns /\ spc = "stamp"
    /\ Buf!Fill("checksum", CRC(buffer[idx]["data"]))
    /\ spc' = "commit"
    /\ UNCHANGED <<registryVars, counter, flashVars, history>>

Stamp ==
    /\ SensorRuns /\ spc = "stamp"
    /\ Buf!Fill("checksum", CRC(buffer[Buf!Back]["data"]))
    /\ spc' = "commit"
    /\ UNCHANGED <<registryVars, counter, flashVars, history>>

CommitPacket ==
    /\ SensorRuns /\ spc = "commit"
    /\ Buf!Commit
    /\ spc' = "count" /\ copies' = 0
    /\ UNCHANGED <<registryVars, counter, flashVars, unread, due>>

(* Mutation: the counter is never reset.                                   *)
CountPacketNoReset ==
    /\ SensorRuns /\ spc = "count"
    /\ counter' = counter + 1
    /\ IF counter' >= 2
       THEN spc' = "telemetry" /\ Reg!StartPublish("sensor", {"Telemetry"})
       ELSE spc' = "staging" /\ Reg!StartPublish("sensor", {"Staging"})
    /\ UNCHANGED <<bufferVars, flashVars, history>>

(* if ((++counter) >= 2) ... and the call of the publish that comes next.  *)
CountPacket ==
    /\ SensorRuns /\ spc = "count"
    /\ IF counter + 1 >= 2
       THEN counter' = 0 /\ spc' = "telemetry" /\ Reg!StartPublish("sensor", {"Telemetry"})
       ELSE counter' = counter + 1 /\ spc' = "staging" /\ Reg!StartPublish("sensor", {"Staging"})
    /\ UNCHANGED <<bufferVars, flashVars, history>>

PublishStep ==
    /\ SensorRuns /\ spc \in {"telemetry", "staging"}
    /\ Reg!PublishSlot("sensor")
    /\ unread' = (unread \/ (spc = "telemetry" /\ Reg!Matches(pub["sensor"].slot, {"Telemetry"})))
    /\ UNCHANGED <<bufferVars, sensorVars, flashVars, copies, due>>

Published ==
    /\ SensorRuns /\ spc \in {"telemetry", "staging"} /\ ~Reg!Publishing("sensor")
    /\ IF spc = "telemetry"
       THEN spc' = "staging" /\ Reg!StartPublish("sensor", {"Staging"})
       ELSE spc' = "write" /\ UNCHANGED registryVars
    /\ UNCHANGED <<bufferVars, counter, flashVars, history>>

Sensor == BuildPacket \/ ReadSensors \/ Stamp \/ CommitPacket
              \/ CountPacket \/ PublishStep \/ Published

-----------------------------------------------------------------------------
(* FlashTask::loop.                                                        *)

Subscribe ==
    /\ FlashRuns /\ fpc = "subscribe"
    /\ \/ Reg!StartSubscribe("flash")
       \/ \E f \in Reg!Fields : Reg!StoreField("flash", f)
       \/ Reg!BumpCount("flash")
    /\ fpc' = IF sub'["flash"].pc = "done" THEN "wait" ELSE "subscribe"
    /\ UNCHANGED <<bufferVars, sensorVars, got, asleep, naps, file, mounted, history>>

(* Mutation: FlashDisabled is served first.                                *)
WaitNotifiedStopFirst ==
    /\ FlashRuns /\ fpc = "wait"
    /\ Reg!TakeNotification("flash")
    /\ got' = notified["flash"]
    /\ fpc' = IF "FlashDisabled" \in got' THEN "close" ELSE "read"
    /\ naps' = 0
    /\ UNCHANGED <<bufferVars, sensorVars, asleep, file, mounted, history>>

(* Telemetry is served before FlashDisabled when both are pending.         *)
WaitNotified ==
    /\ FlashRuns /\ fpc = "wait"
    /\ Reg!TakeNotification("flash")
    /\ got' = notified["flash"]
    /\ fpc' = IF "Telemetry" \in got' THEN "read" ELSE "close"
    /\ naps' = 0
    /\ UNCHANGED <<bufferVars, sensorVars, asleep, file, mounted, history>>

StartRead ==
    /\ FlashRuns /\ fpc = "read"
    /\ Buf!StartRead
    /\ copies' = IF copies < 3 THEN copies + 1 ELSE copies
    /\ unread' = FALSE /\ due' = FALSE
    /\ UNCHANGED <<registryVars, sensorVars, flashVars>>

ReadWord ==
    /\ FlashRuns /\ fpc = "read"
    /\ \E w \in Words : Buf!ReadWord(w)
    /\ fpc' = IF rpc' = "done" THEN "append" ELSE "read"
    /\ UNCHANGED <<registryVars, sensorVars, got, asleep, naps, file, mounted, history>>

(* Mutation: a failed append is tried again from the read on.              *)
AppendRetried ==
    /\ FlashRuns /\ fpc = "append"
    /\ fpc' \in {"read", IF "FlashDisabled" \in got THEN "close" ELSE "wait"}
    /\ naps' = 0
    /\ UNCHANGED <<bufferVars, registryVars, sensorVars, got, asleep, file, mounted, history>>

(* Mutation: the loop goes on after an append, whatever else was notified. *)
AppendThenWait ==
    /\ FlashRuns /\ fpc = "append"
    /\ fpc' = "wait" /\ naps' = 0
    /\ UNCHANGED <<bufferVars, registryVars, sensorVars, got, asleep, file, mounted, history>>

(* The result of append is ignored: a failed append looks like a good one. *)
Append ==
    /\ FlashRuns /\ fpc = "append"
    /\ fpc' = IF "FlashDisabled" \in got THEN "close" ELSE "wait"
    /\ naps' = 0
    /\ UNCHANGED <<bufferVars, registryVars, sensorVars, got, asleep, file, mounted, history>>

(* Mutation: the packet is read under a call that may sleep.               *)
NapInRead ==
    /\ FlashRuns /\ fpc \in {"read", "append", "close"} /\ naps < MaxNaps
    /\ asleep' = TRUE /\ naps' = naps + 1
    /\ UNCHANGED <<bufferVars, registryVars, sensorVars, fpc, got, file, mounted, history>>

(* lfs_file_write or lfs_file_close programs a page or erases a block.     *)
Nap ==
    /\ FlashRuns /\ fpc \in {"append", "close"} /\ naps < MaxNaps
    /\ asleep' = TRUE /\ naps' = naps + 1
    /\ UNCHANGED <<bufferVars, registryVars, sensorVars, fpc, got, file, mounted, history>>

Close ==
    /\ FlashRuns /\ fpc = "close"
    /\ file' = "closed" /\ fpc' = "unmount"
    /\ UNCHANGED <<bufferVars, registryVars, sensorVars, got, asleep, naps, mounted, history>>

Unmount ==
    /\ FlashRuns /\ fpc = "unmount"
    /\ mounted' = FALSE /\ fpc' = "delete"
    /\ UNCHANGED <<bufferVars, registryVars, sensorVars, got, asleep, naps, file, history>>

(* vTaskDelete(NULL): the task and what was pending for it are gone; the   *)
(* registry still holds the handle.                                        *)
DeleteSelf ==
    /\ FlashRuns /\ fpc = "delete"
    /\ fpc' = "deleted" /\ notified' = [notified EXCEPT !["flash"] = {}]
    /\ UNCHANGED <<bufferVars, subscribers, count, sub, pub, aborted, owed,
                   sensorVars, got, asleep, naps, file, mounted, history>>

Flash == Subscribe \/ WaitNotified \/ StartRead \/ ReadWord \/ Append
             \/ Nap \/ Close \/ Unmount \/ DeleteSelf

-----------------------------------------------------------------------------
(* Interrupts: the tick that ends a vTaskDelay, and the request to stop.   *)

Wake ==
    /\ asleep /\ asleep' = FALSE
    /\ UNCHANGED <<bufferVars, registryVars, sensorVars, fpc, got, naps, file, mounted, history>>

Stopping == "FlashDisabled" \in notified["flash"] \cup got

Disable ==
    /\ Reg!PublishIsr({"FlashDisabled"})
    /\ due' = (due \/ (unread /\ ~Stopping))
    /\ UNCHANGED <<bufferVars, sensorVars, flashVars, copies, unread>>

Next == Sensor \/ Flash \/ Wake \/ Disable

Spec == Init /\ [][Next]_vars

(* A ready task of the highest priority is eventually given the core, and  *)
(* the tick interrupt comes.                                               *)
Fairness == WF_vars(Sensor) /\ WF_vars(Flash) /\ WF_vars(Wake)

FairSpec == Spec /\ Fairness

-----------------------------------------------------------------------------
(* Properties.                                                             *)

(* A packet on its way to the file was stamped with the CRC of its own     *)
(* data: it is not a mixture, and not the packet both buffers start with   *)
(* (sensor_task.h:38-41, flash_task.h:30-32).                              *)
RecordValid == fpc = "append" => out["checksum"] = CRC(out["data"])

(* A packet is saved at most twice, and not once as "every other packet"   *)
(* (sensor_task.h:43) suggests: FlashTask can wake up with a notification  *)
(* pending after the next packet was committed and before it is announced  *)
(* (sensor_task.h:41-46, flash_task.h:26-32).                              *)
SavedAtMostTwice == copies <= 2

(* Telemetry that was published before FlashDisabled is followed by a read *)
(* before the file is closed (flash_task.h:28-42).                         *)
SavedBeforeClose == fpc \in {"close", "unmount", "delete", "deleted"} => ~due

(* The tasks use the buffer as their priorities allow: a lower priority    *)
(* writer never runs inside a read, a lower priority reader never while a  *)
(* packet is being built.                                                  *)
Scheduled == INSTANCE DoubleBuffer
                 WITH Zero <- 0, WriterPreempts <- SensorPriority >= FlashPriority,
                      ReaderPreempts <- FlashPriority >= SensorPriority
BufferAsScheduled == Scheduled!Spec

(* With FlashTask of the higher priority the tasks share an atomic         *)
(* register of packets: each packet that is saved was in front as a whole, *)
(* at one moment, between two commits (base_task.h:25-84).                 *)
ImplementsRegister == Buf!ImplementsRegister

(* Telemetry is not published for nothing: sooner or later FlashTask reads *)
(* a packet, unless it was told to stop (sensor_task.h:43-47).             *)
KeepsSaving == (spc = "telemetry") ~> (rpc = "copy" \/ Stopping \/ fpc = "deleted")

(* Once FlashTask was told to stop, the file is closed, the flash is       *)
(* unmounted and the task is deleted (flash_task.h:37-42).                 *)
ShutdownHonoured ==
    Stopping ~> (fpc = "deleted" /\ file = "closed" /\ ~mounted)
=============================================================================
