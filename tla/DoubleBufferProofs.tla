------------------------- MODULE DoubleBufferProofs -------------------------
(***************************************************************************)
(* For every packet layout and every set of word values: a read() is       *)
(* disturbed only when it is lapped; write() carries the front packet      *)
(* forward; and, where the writer cannot interrupt a read(), the buffer is *)
(* an atomic register.                                                     *)
(***************************************************************************)
EXTENDS DoubleBuffer, TLAPS

(* While a read() is in progress the writer is kept away from the buffer   *)
(* being read by the index alone: before the first commit it writes to the *)
(* other one, after it it is idle.                                         *)
BuffersApart ==
    rpc = "copy" => /\ overlap = 0 => ridx = idx
                    /\ overlap = 1 => ridx # idx /\ wpc = "idle"

(* Outside the words still to copy, and outside those a sensor changed,    *)
(* the back buffer equals the front one.                                   *)
BackFollowsFront ==
    /\ wpc = "copy" => touched = {}
    /\ wpc = "copy" => \A w \in Words \ wleft : buffer[Back][w] = buffer[idx][w]
    /\ wpc = "fill" => \A w \in Words \ touched : buffer[Back][w] = buffer[idx][w]

(* Without preemption by the writer a read() never sees a commit.          *)
NeverLapped == rpc # "idle" => /\ front \in seen
                               /\ ~WriterPreempts => overlap = 0

IInv == TypeOK /\ BuffersApart /\ IntactUnlessLapped /\ BackFollowsFront /\ NeverLapped

-----------------------------------------------------------------------------

LEMMA BlankIsPacket == Blank \in Packets
  BY WordsAssumption DEF Blank, Packets

(* The state is well typed: in particular idx stays a buffer index.        *)
THEOREM TypeCorrect == Spec => []TypeOK
  <1>1. Init => TypeOK
    BY BlankIsPacket DEF Init, TypeOK
  <1>2. TypeOK /\ [Next]_vars => TypeOK'
    <2> SUFFICES ASSUME TypeOK, [Next]_vars PROVE TypeOK'
      OBVIOUS
    <2> USE DEF TypeOK, writerVars, readerVars
    <2>1. CASE StartWrite
      BY <2>1 DEF StartWrite
    <2>2. ASSUME NEW w \in Words, CopyWord(w) PROVE TypeOK'
      BY <2>2 DEF CopyWord, Back, Packets
    <2>3. ASSUME NEW w \in Words, NEW v \in Values, Fill(w, v) PROVE TypeOK'
      BY <2>3 DEF Fill, Back, Packets
    <2>4. CASE Commit
      BY <2>4 DEF Commit, Back
    <2>5. CASE StartRead
      BY <2>5 DEF StartRead
    <2>6. ASSUME NEW w \in Words, ReadWord(w) PROVE TypeOK'
      BY <2>6 DEF ReadWord, Packets
    <2>7. CASE UNCHANGED vars
      BY <2>7 DEF vars
    <2>8. QED
      BY <2>1, <2>2, <2>3, <2>4, <2>5, <2>6, <2>7 DEF Next, Write, Read
  <1>3. QED
    BY <1>1, <1>2, PTL DEF Spec

-----------------------------------------------------------------------------

LEMMA InitIInv == Init => IInv
  <1> SUFFICES ASSUME Init PROVE IInv
    OBVIOUS
  <1>1. TypeOK
    BY BlankIsPacket DEF Init, TypeOK
  <1>2. BuffersApart /\ IntactUnlessLapped /\ BackFollowsFront /\ NeverLapped
    BY DEF Init, BuffersApart, IntactUnlessLapped, BackFollowsFront, NeverLapped
  <1>3. QED
    BY <1>1, <1>2 DEF IInv

(* A step that leaves the reader's variables and the buffer being read     *)
(* alone leaves the outcome of the read() alone.                           *)
LEMMA OutcomeStable ==
  ASSUME UNCHANGED readerVars, rpc = "copy" => buffer'[ridx] = buffer[ridx]
  PROVE  Outcome' = Outcome
  BY DEF Outcome, readerVars

(* Copying one more word does not change what the read() will return.      *)
LEMMA OutcomeOfReadWord ==
  ASSUME TypeOK, NEW w \in Words, ReadWord(w)
  PROVE  Outcome' = Outcome
  <1>1. /\ rpc = "copy" /\ w \in rleft /\ out \in [Words -> Values]
        /\ out' = [out EXCEPT ![w] = buffer[ridx][w]]
        /\ rleft' = rleft \ {w} /\ buffer' = buffer /\ ridx' = ridx
        /\ rpc' = IF rleft' = {} THEN "done" ELSE "copy"
    BY DEF ReadWord, TypeOK, Packets, writerVars
  <1>2. ASSUME NEW x \in Words
        PROVE  (IF rpc' = "copy" /\ x \in rleft' THEN buffer'[ridx'][x] ELSE out'[x])
                  = (IF rpc = "copy" /\ x \in rleft THEN buffer[ridx][x] ELSE out[x])
    <2>1. CASE x = w
      BY <1>1, <2>1
    <2>2. CASE x # w
      BY <1>1, <2>2
    <2>3. QED
      BY <2>1, <2>2
  <1>3. QED
    BY <1>2 DEF Outcome

LEMMA OutcomeOfStartRead ==
  ASSUME TypeOK, StartRead
  PROVE  Outcome' = buffer[idx]
  <1>1. buffer[idx] \in [Words -> Values]
    BY DEF TypeOK, Packets
  <1>2. Outcome' = [w \in Words |-> buffer[idx][w]]
    BY DEF Outcome, StartRead, writerVars
  <1>3. QED
    BY <1>1, <1>2

LEMMA NextIInv == IInv /\ TypeOK' /\ [Next]_vars => IInv'
  <1> SUFFICES ASSUME IInv, TypeOK', [Next]_vars PROVE IInv'
    OBVIOUS
  <1> USE DEF IInv, TypeOK
  <1>1. CASE StartWrite
    <2>1. BuffersApart' /\ NeverLapped'
      BY <1>1 DEF StartWrite, BuffersApart, NeverLapped, readerVars, WriterMayRun
    <2>2. IntactUnlessLapped'
      BY <1>1, OutcomeStable DEF StartWrite, IntactUnlessLapped, readerVars
    <2>3. BackFollowsFront'
      BY <1>1 DEF StartWrite, BackFollowsFront
    <2>4. QED
      BY <2>1, <2>2, <2>3
  <1>2. ASSUME NEW w \in Words, CopyWord(w) PROVE IInv'
    <2>1. BuffersApart' /\ NeverLapped'
      BY <1>2 DEF CopyWord, BuffersApart, NeverLapped, readerVars
    <2>2. IntactUnlessLapped'
      <3>1. rpc = "copy" /\ overlap < 2 => buffer'[ridx] = buffer[ridx]
        BY <1>2 DEF CopyWord, BuffersApart, Back, Packets
      <3>2. overlap < 2 => Outcome' = Outcome
        BY <1>2, <3>1, OutcomeStable DEF CopyWord
      <3>3. QED
        BY <1>2, <3>2 DEF CopyWord, IntactUnlessLapped, readerVars
    <2>3. BackFollowsFront'
      BY <1>2 DEF CopyWord, BackFollowsFront, Back, Packets
    <2>4. QED
      BY <2>1, <2>2, <2>3
  <1>3. ASSUME NEW w \in Words, NEW v \in Values, Fill(w, v) PROVE IInv'
    <2>1. BuffersApart' /\ NeverLapped'
      BY <1>3 DEF Fill, BuffersApart, NeverLapped, readerVars
    <2>2. IntactUnlessLapped'
      <3>1. rpc = "copy" /\ overlap < 2 => buffer'[ridx] = buffer[ridx]
        BY <1>3 DEF Fill, BuffersApart, Back, Packets
      <3>2. overlap < 2 => Outcome' = Outcome
        BY <1>3, <3>1, OutcomeStable DEF Fill
      <3>3. QED
        BY <1>3, <3>2 DEF Fill, IntactUnlessLapped, readerVars
    <2>3. BackFollowsFront'
      BY <1>3 DEF Fill, BackFollowsFront, Back, Packets
    <2>4. QED
      BY <2>1, <2>2, <2>3
  <1>4. CASE Commit
    <2>1. BuffersApart' /\ NeverLapped'
      BY <1>4 DEF Commit, BuffersApart, NeverLapped, readerVars, WriterMayRun, Back
    <2>2. IntactUnlessLapped'
      BY <1>4, OutcomeStable DEF Commit, IntactUnlessLapped, readerVars
    <2>3. BackFollowsFront'
      BY <1>4 DEF Commit, BackFollowsFront
    <2>4. QED
      BY <2>1, <2>2, <2>3
  <1>5. CASE StartRead
    <2>1. BuffersApart' /\ NeverLapped' /\ BackFollowsFront'
      BY <1>5 DEF StartRead, BuffersApart, NeverLapped, BackFollowsFront, writerVars, Back
    <2>2. IntactUnlessLapped'
      BY <1>5, OutcomeOfStartRead DEF StartRead, IntactUnlessLapped
    <2>3. QED
      BY <2>1, <2>2
  <1>6. ASSUME NEW w \in Words, ReadWord(w) PROVE IInv'
    <2>1. BuffersApart' /\ NeverLapped' /\ BackFollowsFront'
      BY <1>6 DEF ReadWord, BuffersApart, NeverLapped, BackFollowsFront, writerVars, Back
    <2>2. IntactUnlessLapped'
      BY <1>6, OutcomeOfReadWord DEF ReadWord, IntactUnlessLapped
    <2>3. QED
      BY <2>1, <2>2
  <1>7. CASE UNCHANGED vars
    BY <1>7, OutcomeStable
       DEF vars, writerVars, readerVars, BuffersApart, IntactUnlessLapped,
           BackFollowsFront, NeverLapped, Back
  <1>8. QED
    BY <1>1, <1>2, <1>3, <1>4, <1>5, <1>6, <1>7 DEF Next, Write, Read

LEMMA Inductive == Spec => []IInv
  <1>1. QED
    BY InitIInv, NextIInv, TypeCorrect, PTL DEF Spec

(* A read() is disturbed only if the writer laps it, for every task         *)
(* priority: DoubleBuffer's index protects one commit and no more.         *)
THEOREM ReadsIntactUnlessLapped == Spec => []IntactUnlessLapped
  <1>1. IInv => IntactUnlessLapped
    BY DEF IInv
  <1>2. QED
    BY <1>1, Inductive, PTL

(* If the writer cannot interrupt a read(), no read() is torn: what the     *)
(* buffer needs is the opposite of assumption 3 of its comment.            *)
THEOREM ReadsWhole == ASSUME ~WriterPreempts PROVE Spec => []NoTornRead
  <1>1. IInv => NoTornRead
    <2> SUFFICES ASSUME IInv, rpc = "done" PROVE out \in seen
      BY DEF NoTornRead
    <2>1. Outcome = front /\ front \in seen
      BY DEF IInv, NeverLapped, IntactUnlessLapped
    <2>2. Outcome = out
      <3>1. Outcome = [w \in Words |-> out[w]]
        BY DEF Outcome
      <3>2. QED
        BY <3>1 DEF IInv, TypeOK, Packets
    <2>3. QED
      BY <2>1, <2>2
  <1>2. QED
    BY <1>1, Inductive, PTL

(* commit() changes, against the packet before it, only words that were     *)
(* written through the reference.                                          *)
THEOREM WritesCarriedForward == Spec => CarriedForward
  <1>1. IInv /\ [Next]_vars
          => [idx' # idx => \A w \in Words \ touched :
                               buffer'[idx'][w] = buffer[idx][w]]_vars
    BY DEF IInv, BackFollowsFront, Back, Next, Write, Read, StartWrite, CopyWord,
           Fill, Commit, StartRead, ReadWord, vars, writerVars, readerVars
  <1>2. QED
    BY <1>1, Inductive, PTL DEF Spec, CarriedForward

-----------------------------------------------------------------------------

LEMMA CommitPublishes ==
  ASSUME IInv, TypeOK', Commit PROVE Register!Publish
  <1>1. buffer'[idx'] \in Packets
    BY DEF TypeOK
  <1>2. Outcome' = Outcome
    BY OutcomeStable DEF Commit, readerVars
  <1>3. QED
    BY <1>1, <1>2 DEF Register!Publish

(* If the writer cannot interrupt a read(), the double buffer is an atomic  *)
(* register: read() takes the packet that is in front when it loads idx,   *)
(* commit() publishes, and every other step is invisible.                  *)
THEOREM BufferImplementsRegister ==
  ASSUME ~WriterPreempts PROVE Spec => ImplementsRegister
  <1>1. Init => Register!Init
    BY BlankIsPacket DEF Init, Register!Init, Outcome, Blank
  <1>2. IInv /\ TypeOK' /\ [Next]_vars => [Register!Next]_(Register!vars)
    <2> SUFFICES ASSUME IInv, TypeOK', [Next]_vars
                 PROVE  Register!Next \/ UNCHANGED Register!vars
      OBVIOUS
    <2> USE DEF Register!vars
    <2>1. CASE StartWrite
      BY <2>1, OutcomeStable DEF StartWrite
    <2>2. ASSUME NEW w \in Words, CopyWord(w) PROVE UNCHANGED Register!vars
      BY <2>2, OutcomeStable DEF CopyWord, WriterMayRun, readerVars, Back, IInv, TypeOK, Packets
    <2>3. ASSUME NEW w \in Words, NEW v \in Values, Fill(w, v) PROVE UNCHANGED Register!vars
      BY <2>3, OutcomeStable DEF Fill, WriterMayRun, readerVars, Back, IInv, TypeOK, Packets
    <2>4. CASE Commit
      BY <2>4, CommitPublishes DEF Register!Next
    <2>5. CASE StartRead
      BY <2>5, OutcomeOfStartRead DEF StartRead, writerVars, IInv, Register!Next, Register!Take
    <2>6. ASSUME NEW w \in Words, ReadWord(w) PROVE UNCHANGED Register!vars
      BY <2>6, OutcomeOfReadWord DEF ReadWord, writerVars, IInv
    <2>7. CASE UNCHANGED vars
      BY <2>7, OutcomeStable DEF vars, writerVars, readerVars
    <2>8. QED
      BY <2>1, <2>2, <2>3, <2>4, <2>5, <2>6, <2>7 DEF Next, Write, Read, Register!Next
  <1>3. QED
    BY <1>1, <1>2, Inductive, TypeCorrect, PTL DEF Spec, ImplementsRegister, Register!Spec
=============================================================================
