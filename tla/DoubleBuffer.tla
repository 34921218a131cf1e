---------------------------- MODULE DoubleBuffer ----------------------------
(***************************************************************************)
(* DoubleBuffer<T> of include/tasks/base_task.h: two copies of a packet    *)
(* and an atomic index that names the front one.  The writer copies the    *)
(* front to the back, changes the back in place through the reference      *)
(* write() returned, and commit() makes it the front.  The reader loads    *)
(* the index and copies the buffer it names.                               *)
(*                                                                         *)
(* A packet copy is not atomic: it moves one word at a time, in whatever   *)
(* order the compiler chose, and a task switch may fall between two words. *)
(* The index is only ever stored by the writer, so the writer's two        *)
(* relaxed loads of it return what it stored last; a load and the store    *)
(* that follows it in commit() are one step here.                          *)
(*                                                                         *)
(* Both tasks run on one core.  Which of them may interrupt the other in   *)
(* the middle of an operation is a matter of their priorities, so it is a  *)
(* parameter: the code itself excludes nothing.                            *)
(***************************************************************************)
EXTENDS Integers

CONSTANTS Words,          \* the words a packet is copied by
          Values,         \* the values a word can have
          Zero,           \* what a default constructed Packet holds in a word
          WriterPreempts, \* may the writer run while a read() is in progress?
          ReaderPreempts  \* may the reader run while a packet is being built?

ASSUME WordsAssumption == Words # {} /\ Zero \in Values
ASSUME PreemptAssumption == WriterPreempts \in BOOLEAN /\ ReaderPreempts \in BOOLEAN

VARIABLES
    buffer,  \* the two packets
    idx,     \* the front buffer
    wpc,     \* "idle"; "copy" inside write(); "fill" until commit()
    wleft,   \* the words write() has still to copy
    touched, \* the words changed through the reference since write()
    rpc,     \* "idle"; "copy" inside read(); "done" once read() returned
    ridx,    \* the index read() loaded
    rleft,   \* the words read() has still to copy
    out,     \* the reader's own packet
    front,   \* history: the packet that was in front when read() loaded idx
    seen,    \* history: that packet and those committed since
    overlap  \* history: 1 once a commit() fell into the current read(),
             \* 2 once a further write() began before that read() ended

writerVars == <<buffer, idx, wpc, wleft, touched>>
readerVars == <<rpc, ridx, rleft, out, front>>
vars == <<writerVars, readerVars, seen, overlap>>

Packets == [Words -> Values]
Blank == [w \in Words |-> Zero]
Back == 1 - idx

TypeOK ==
    /\ buffer \in [{0, 1} -> Packets] /\ idx \in {0, 1}
    /\ wpc \in {"idle", "copy", "fill"}
    /\ wleft \subseteq Words /\ touched \subseteq Words
    /\ rpc \in {"idle", "copy", "done"} /\ ridx \in {0, 1}
    /\ rleft \subseteq Words /\ out \in Packets /\ front \in Packets
    /\ seen \subseteq Packets /\ overlap \in 0 .. 2

Init ==
    /\ buffer = [b \in {0, 1} |-> Blank] /\ idx = 0
    /\ wpc = "idle" /\ wleft = {} /\ touched = {}
    /\ rpc = "idle" /\ ridx = 0 /\ rleft = {}
    /\ out = Blank /\ front = Blank /\ seen = {} /\ overlap = 0

-----------------------------------------------------------------------------
(* The writer.                                                             *)

WriterMayRun == rpc = "copy" => WriterPreempts

(* Mutation: write() does not copy the front packet.                       *)
StartWriteNoCopy ==
    /\ WriterMayRun /\ wpc = "idle"
    /\ wpc' = "fill" /\ wleft' = {} /\ touched' = {}
    /\ overlap' = IF rpc = "copy" /\ overlap = 1 THEN 2 ELSE overlap
    /\ UNCHANGED <<buffer, idx, readerVars, seen>>

StartWrite ==
    /\ WriterMayRun /\ wpc = "idle"
    /\ wpc' = "copy" /\ wleft' = Words /\ touched' = {}
    /\ overlap' = IF rpc = "copy" /\ overlap = 1 THEN 2 ELSE overlap
    /\ UNCHANGED <<buffer, idx, readerVars, seen>>

CopyWord(w) ==
    /\ WriterMayRun /\ wpc = "copy" /\ w \in wleft
    /\ buffer' = [buffer EXCEPT ![Back][w] = buffer[idx][w]]
    /\ wleft' = wleft \ {w}
    /\ wpc' = IF wleft' = {} THEN "fill" ELSE "copy"
    /\ UNCHANGED <<idx, touched, readerVars, seen, overlap>>

(* Mutation: write() returns the front buffer.                             *)
FillFront(w, v) ==
    /\ WriterMayRun /\ wpc = "fill" /\ w \notin touched
    /\ buffer' = [buffer EXCEPT ![idx][w] = v]
    /\ touched' = touched \cup {w}
    /\ UNCHANGED <<idx, wpc, wleft, readerVars, seen, overlap>>

(* The owner of the reference changes a word; a sensor whose read failed   *)
(* leaves its words as write() copied them.                                *)
Fill(w, v) ==
    /\ WriterMayRun /\ wpc = "fill" /\ w \notin touched
    /\ buffer' = [buffer EXCEPT ![Back][w] = v]
    /\ touched' = touched \cup {w}
    /\ UNCHANGED <<idx, wpc, wleft, readerVars, seen, overlap>>

(* Mutation: the index is incremented instead of flipped.                  *)
CommitNext ==
    /\ WriterMayRun /\ wpc = "fill"
    /\ idx' = idx + 1 /\ wpc' = "idle"
    /\ overlap' = IF rpc = "copy" /\ overlap = 0 THEN 1 ELSE overlap
    /\ seen' = IF rpc = "copy" THEN seen \cup {buffer[Back]} ELSE seen
    /\ UNCHANGED <<buffer, wleft, touched, readerVars>>

Commit ==
    /\ WriterMayRun /\ wpc = "fill"
    /\ idx' = Back /\ wpc' = "idle"
    /\ overlap' = IF rpc = "copy" /\ overlap = 0 THEN 1 ELSE overlap
    /\ seen' = IF rpc = "copy" THEN seen \cup {buffer[Back]} ELSE seen
    /\ UNCHANGED <<buffer, wleft, touched, readerVars>>

-----------------------------------------------------------------------------
(* The reader.                                                             *)

ReaderMayRun == wpc # "idle" => ReaderPreempts

(* Mutation: read() takes the buffer the index does not name.              *)
StartReadBack ==
    /\ ReaderMayRun /\ rpc # "copy"
    /\ rpc' = "copy" /\ ridx' = Back /\ rleft' = Words
    /\ front' = buffer[idx] /\ seen' = {buffer[idx]} /\ overlap' = 0
    /\ UNCHANGED <<writerVars, out>>

StartRead ==
    /\ ReaderMayRun /\ rpc # "copy"
    /\ rpc' = "copy" /\ ridx' = idx /\ rleft' = Words
    /\ front' = buffer[idx] /\ seen' = {buffer[idx]} /\ overlap' = 0
    /\ UNCHANGED <<writerVars, out>>

ReadWord(w) ==
    /\ ReaderMayRun /\ rpc = "copy" /\ w \in rleft
    /\ out' = [out EXCEPT ![w] = buffer[ridx][w]]
    /\ rleft' = rleft \ {w}
    /\ rpc' = IF rleft' = {} THEN "done" ELSE "copy"
    /\ UNCHANGED <<writerVars, ridx, front, seen, overlap>>

Write == StartWrite \/ (\E w \in Words : CopyWord(w))
               \/ (\E w \in Words, v \in Values : Fill(w, v)) \/ Commit
Read == StartRead \/ (\E w \in Words : ReadWord(w))

Next == Write \/ Read

Spec == Init /\ [][Next]_vars

-----------------------------------------------------------------------------
(* Properties.                                                             *)

(* What read() is about to return if nothing disturbs the rest of it.      *)
Outcome == [w \in Words |-> IF rpc = "copy" /\ w \in rleft
                            THEN buffer[ridx][w] ELSE out[w]]

(* A read() can only go wrong if, before it ends, the writer both commits  *)
(* a packet and begins the next one: until then the buffer being read is   *)
(* not the one being written (base_task.h:66-83).                          *)
IntactUnlessLapped == rpc # "idle" /\ overlap < 2 => Outcome = front

(* read() returns a packet that was in front at some moment of the call,   *)
(* never a mixture, whatever the writer does meanwhile                     *)
(* (base_task.h:45-47).                                                    *)
NoTornRead == rpc = "done" => out \in seen

(* write() hands out a copy of the front packet, so a word that no sensor  *)
(* refreshed keeps the value of the packet before it: committing never     *)
(* brings back a word of two packets ago (base_task.h:66-76).              *)
CarriedForward ==
    [][idx' # idx => \A w \in Words \ touched :
                        buffer'[idx'][w] = buffer[idx][w]]_vars

(* The buffer implements an atomic register of packets.                    *)
Register == INSTANCE AtomicRegister
                WITH published <- buffer[idx], taken <- Outcome
ImplementsRegister == Register!Spec
=============================================================================
