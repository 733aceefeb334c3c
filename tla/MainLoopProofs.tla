--------------------------- MODULE MainLoopProofs ---------------------------
(***************************************************************************)
(* The safety of viii_loop under exceptions, for every capacity of the     *)
(* queues, every length of a batch and any number of exceptions: events    *)
(* are retried in order, lines are replayed in order, a batch stays on one *)
(* VM and no note outlives its VM.                                         *)
(***************************************************************************)
EXTENDS MainLoop, SequenceTheorems, TLAPS

\* Between two calls of serial_task the batch is at its first line.
LinePosition == line <= Len(rx) + 1 /\ (pc # "serial" => line = 1)

\* The lines that have run in the present call have run, and once more than
\* the ones that are still to come.
RunAhead ==
    \A i \in 1 .. Len(rx) :
        i < line => /\ rx[i].runs > 0
                    /\ \A j \in line .. Len(rx) : rx[i].runs > rx[j].runs

\* The old VM's notes are ended before it is replaced.
QuietAtInit == pc = "vm_init" => sounding = "nobody"

Batch == ReplayBounded /\ BatchOnOneVm /\ LinePosition /\ RunAhead
Notes == NoOrphanNotes /\ QuietAtInit

IInv == TypeOK /\ OnlyHeadRetried /\ Batch /\ Notes

---------------------------------------------------------------------------
\* A step that leaves queues and batch alone, and is not one of a batch.
Steady ==
    /\ UNCHANGED <<queue, rx, line>>
    /\ throws' \in {throws, throws + 1}
    /\ pc = "serial" => pc' = pc /\ vm_id' = vm_id

\* All other steps are those of the queues and of the batch.
LEMMA Kinds ==
    ASSUME [Next]_vars
    PROVE  \/ \E q \in Queue : EventArrives(q) \/ HandlerReturns(q) \/ HandlerThrows(q)
           \/ \E kind \in {"lua", "reset"} : viii_serial_rx(kind)
           \/ LineReturns \/ LineThrows \/ BatchDone
           \/ Steady
<1> USE DEF Steady, inputVars, vmVars, midiVars, Queue
<1>1. CASE viii_init \/ viii_init_throws
  BY <1>1 DEF viii_init, viii_init_throws
<1>2. CASE viii_metro_tick \/ PortSelected \/ PortLost \/ PortBack \/ LoopStarts
  BY <1>2 DEF viii_metro_tick, PortSelected, PortLost, PortBack, LoopStarts
<1>3. CASE NotesOff \/ VmReplaced \/ VmInitThrows
  BY <1>3 DEF NotesOff, VmReplaced, VmInitThrows
<1>4. CASE MetroTask \/ MetroThrows
  BY <1>4 DEF MetroTask, MetroThrows
<1>5. CASE \E q \in Queue : QueueEmpty(q)
  BY <1>5 DEF QueueEmpty
<1>6. CASE UNCHANGED vars
  BY <1>6 DEF vars
<1>7. QED
  BY <1>1, <1>2, <1>3, <1>4, <1>5, <1>6 DEF Next, LoopRuns, Drain

---------------------------------------------------------------------------
(* Types.                                                                  *)

\* A started VM plays, or nobody does.
LEMMA PlaysType ==
    ASSUME NEW s \in {"nobody", "current", "old"}
    PROVE  /\ Plays(s) \subseteq {"nobody", "current", "old"}
           /\ Orphan(s) \in {"nobody", "current", "old"}
  BY DEF Plays, Orphan

\* A line that has run once more is a line.
LEMMA RunLine ==
    ASSUME TypeOK, line <= Len(rx)
    PROVE  [rx EXCEPT ![line] = Ran(@)] \in Seq(Line)
<1>1. rx \in Seq(Line) /\ line \in 1 .. Len(rx) /\ rx[line] \in Line /\ vm_id \in {0, 1}
  BY DEF TypeOK
<1>2. Ran(rx[line]) \in Line
  BY <1>1 DEF Ran, Line
<1>3. QED  BY <1>1, <1>2, ExceptSeq

LEMMA TypeStep == TypeOK /\ [Next]_vars => TypeOK'
<1> SUFFICES ASSUME TypeOK, [Next]_vars PROVE TypeOK'
  OBVIOUS
<1>0. /\ Plays(sounding) \subseteq {"nobody", "current", "old"}
      /\ Plays(Orphan(sounding)) \subseteq {"nobody", "current", "old"}
      /\ 1 - vm_id \in {0, 1}
      /\ throws < MaxThrows => throws + 1 \in 0 .. MaxThrows
  BY BoundsAssumption, PlaysType DEF TypeOK
<1> USE BoundsAssumption, <1>0 DEF TypeOK, PC, Queue, vmVars, midiVars, inputVars
<1>1. CASE viii_init \/ viii_init_throws
  BY <1>1 DEF viii_init, viii_init_throws
<1>2. CASE \E q \in Queue : EventArrives(q)
  BY <1>2 DEF EventArrives
<1>3. CASE \E kind \in {"lua", "reset"} : viii_serial_rx(kind)
  BY <1>3 DEF viii_serial_rx, Line, Nobody
<1>4. CASE viii_metro_tick \/ PortSelected \/ PortLost \/ PortBack \/ LoopStarts
  BY <1>4 DEF viii_metro_tick, PortSelected, PortLost, PortBack, LoopStarts
<1>5. CASE NotesOff \/ VmReplaced \/ VmInitThrows
  BY <1>5 DEF NotesOff, VmReplaced, VmInitThrows
<1>6. ASSUME NEW q \in Queue, HandlerReturns(q) PROVE TypeOK'
  BY <1>6 DEF HandlerReturns
<1>7. ASSUME NEW q \in Queue, HandlerThrows(q) PROVE TypeOK'
  <2>1. queue[q] \in Seq(Nat) /\ 1 \in 1 .. Len(queue[q])
    BY <1>7 DEF HandlerThrows
  <2>2. [queue[q] EXCEPT ![1] = @ + 1] \in Seq(Nat)
    BY <2>1, ExceptSeq
  <2>3. Len([queue[q] EXCEPT ![1] = @ + 1]) = Len(queue[q])
    BY <2>1, ExceptSeq
  <2>4. queue' = [queue EXCEPT ![q] = [queue[q] EXCEPT ![1] = @ + 1]]
    BY <1>7 DEF HandlerThrows
  <2>5. queue' \in [Queue -> Seq(Nat)] /\ \A p \in Queue : Len(queue'[p]) <= CAP[p]
    BY <2>2, <2>3, <2>4
  <2>6. QED  BY <1>7, <2>5 DEF HandlerThrows
<1>8. CASE \E q \in Queue : QueueEmpty(q)
  BY <1>8 DEF QueueEmpty, NextTask
<1>9. CASE MetroTask \/ MetroThrows
  BY <1>9 DEF MetroTask, MetroThrows, NextTask
<1>10. CASE LineReturns
  <2>1. rx' \in Seq(Line) /\ line' \in Nat \ {0}
    <3>1. line <= Len(rx) /\ rx' = [rx EXCEPT ![line] = Ran(@)] /\ line' = line + 1
      BY <1>10 DEF LineReturns
    <3>2. QED  BY <3>1, RunLine
  <2>2. sounding' \in {"nobody", "current", "old"} /\ reinit_requested' \in BOOLEAN
    BY <1>10 DEF LineReturns
  <2>3. QED  BY <1>10, <2>1, <2>2 DEF LineReturns
<1>11. CASE LineThrows
  <2>1. line <= Len(rx) /\ rx' = [rx EXCEPT ![line] = Ran(@)] /\ line' = 1
    BY <1>11 DEF LineThrows
  <2>2. rx' \in Seq(Line) /\ line' \in Nat \ {0}
    BY <2>1, RunLine
  <2>3. sounding' \in {"nobody", "current", "old"} /\ throws' \in 0 .. MaxThrows
    BY <1>11 DEF LineThrows
  <2>4. QED  BY <1>11, <2>2, <2>3 DEF LineThrows
<1>12. CASE BatchDone
  BY <1>12 DEF BatchDone, NextTask
<1>13. CASE UNCHANGED vars
  BY <1>13 DEF vars
<1>14. QED
  BY <1>1, <1>2, <1>3, <1>4, <1>5, <1>6, <1>7, <1>8, <1>9, <1>10, <1>11, <1>12, <1>13
     DEF Next, LoopRuns, Drain

---------------------------------------------------------------------------
(* Queues.                                                                 *)

LEMMA HeadStep == TypeOK /\ OnlyHeadRetried /\ [Next]_vars => OnlyHeadRetried'
<1> SUFFICES ASSUME TypeOK, OnlyHeadRetried, [Next]_vars PROVE OnlyHeadRetried'
  OBVIOUS
<1> USE DEF TypeOK, OnlyHeadRetried
<1>1. ASSUME NEW q \in Queue, EventArrives(q) PROVE OnlyHeadRetried'
  BY <1>1 DEF EventArrives
<1>2. ASSUME NEW q \in Queue, HandlerReturns(q) PROVE OnlyHeadRetried'
  <2>1. queue[q] \in Seq(Nat) /\ queue[q] # <<>>
    BY <1>2 DEF HandlerReturns
  <2>2. Len(Tail(queue[q])) = Len(queue[q]) - 1
        /\ \A i \in 1 .. Len(queue[q]) - 1 : Tail(queue[q])[i] = queue[q][i + 1]
    BY <2>1
  <2>3. \A i \in 1 .. Len(queue[q]) - 1 : ~(Tail(queue[q])[i] > 0)
    BY <2>1, <2>2
  <2>4. QED  BY <1>2, <2>1, <2>2, <2>3 DEF HandlerReturns
<1>3. ASSUME NEW q \in Queue, HandlerThrows(q) PROVE OnlyHeadRetried'
  <2>1. queue[q] \in Seq(Nat) /\ 1 \in 1 .. Len(queue[q])
    BY <1>3 DEF HandlerThrows
  <2>2. queue' = [queue EXCEPT ![q] = [queue[q] EXCEPT ![1] = @ + 1]]
        /\ throws' = throws + 1
    BY <1>3 DEF HandlerThrows
  <2>3. /\ Len([queue[q] EXCEPT ![1] = @ + 1]) = Len(queue[q])
        /\ \A i \in 1 .. Len(queue[q]) :
             [queue[q] EXCEPT ![1] = @ + 1][i] = IF i = 1 THEN queue[q][1] + 1 ELSE queue[q][i]
    BY <2>1, ExceptSeq
  <2>4. queue[q][1] + 1 <= throws'
    <3>1. queue[q][1] \in Nat /\ throws \in Nat
      BY <2>1, BoundsAssumption
    <3>2. queue[q][1] <= throws
      BY <2>1, <3>1
    <3>3. QED  BY <2>2, <3>1, <3>2
  <2>5. ASSUME NEW p \in Queue, NEW i \in 1 .. Len(queue'[p]), queue'[p][i] > 0
        PROVE  i = 1 /\ queue'[p][i] <= throws'
    <3>1. CASE p = q
      <4>1. queue'[q] = [queue[q] EXCEPT ![1] = @ + 1]
        BY <2>2
      <4>2. QED  BY <2>1, <2>3, <2>4, <2>5, <3>1, <4>1
    <3>2. CASE p # q
      <4>1. queue'[p] = queue[p] /\ queue[p] \in Seq(Nat)
        BY <2>2, <3>2
      <4>2. QED  BY <2>2, <2>5, <4>1
    <3>3. QED  BY <3>1, <3>2
  <2>6. QED  BY <2>5
<1>4. CASE \/ \E kind \in {"lua", "reset"} : viii_serial_rx(kind)
           \/ LineReturns \/ LineThrows \/ BatchDone \/ Steady
  <2>1. queue' = queue /\ throws' \in {throws, throws + 1}
    BY <1>4 DEF viii_serial_rx, LineReturns, LineThrows, BatchDone, Steady
  <2>2. QED  BY <2>1
<1>5. QED  BY Kinds, <1>1, <1>2, <1>3, <1>4

---------------------------------------------------------------------------
(* The batch.                                                              *)

\* What the step to the next line, or the exception in it, does to the batch.
LEMMA LineRuns ==
    ASSUME TypeOK, line <= Len(rx), rx' = [rx EXCEPT ![line] = Ran(@)]
    PROVE  /\ Len(rx') = Len(rx)
           /\ \A i \in 1 .. Len(rx) : i # line => rx'[i] = rx[i]
           /\ rx'[line].runs = rx[line].runs + 1 /\ rx'[line].by = vm_id
<1>1. rx \in Seq(Line) /\ line \in 1 .. Len(rx)
  BY DEF TypeOK
<1>2. rx'[line] = Ran(rx[line]) /\ Len(rx') = Len(rx)
  BY <1>1
<1>3. \A i \in 1 .. Len(rx) : i # line => rx'[i] = rx[i]
  BY <1>1
<1>4. QED  BY <1>2, <1>3 DEF Ran

LEMMA BatchStep == TypeOK /\ Batch /\ [Next]_vars => Batch'
<1> SUFFICES ASSUME TypeOK, Batch, [Next]_vars PROVE Batch'
  OBVIOUS
<1>0. /\ rx \in Seq(Line) /\ line \in Nat /\ line >= 1 /\ throws \in Nat
      /\ \A i \in 1 .. Len(rx) : rx[i].runs \in Nat
  <2>1. \A i \in 1 .. Len(rx) : rx[i] \in Line
    BY DEF TypeOK
  <2>2. \A l \in Line : l.runs \in Nat
    BY DEF Line
  <2>3. QED  BY <2>1, <2>2, BoundsAssumption DEF TypeOK
<1> USE <1>0 DEF Batch, ReplayBounded, BatchOnOneVm, LinePosition, RunAhead
<1>1. ASSUME NEW kind \in {"lua", "reset"}, viii_serial_rx(kind) PROVE Batch'
  <2> DEFINE new == [kind |-> kind, runs |-> 0, by |-> Nobody]
  <2>1. rx' = Append(rx, new) /\ line' = 1 /\ line = 1 /\ pc' = "idle" /\ throws' = throws
    BY <1>1 DEF viii_serial_rx, vmVars
  <2>2. /\ Len(rx') = Len(rx) + 1 /\ rx'[Len(rx) + 1] = new
        /\ \A i \in 1 .. Len(rx) : rx'[i] = rx[i]
    BY <2>1
  <2>3. new.runs = 0
    OBVIOUS
  <2>4. QED  BY <2>1, <2>2, <2>3
<1>2. CASE LineReturns
  <2>1. /\ line <= Len(rx) /\ pc = "serial" /\ pc' = pc /\ line' = line + 1
        /\ throws' = throws /\ vm_id' = vm_id
        /\ rx' = [rx EXCEPT ![line] = Ran(@)]
    BY <1>2 DEF LineReturns, vmVars
  <2>2. /\ Len(rx') = Len(rx)
        /\ \A i \in 1 .. Len(rx) : i # line => rx'[i] = rx[i]
        /\ rx'[line].runs = rx[line].runs + 1 /\ rx'[line].by = vm_id
    BY <2>1, LineRuns
  <2>3. ReplayBounded'
    BY <2>1, <2>2
  <2>4. BatchOnOneVm' /\ LinePosition'
    BY <2>1, <2>2
  <2>5. RunAhead'
    BY <2>1, <2>2
  <2>6. QED  BY <2>3, <2>4, <2>5
<1>3. CASE LineThrows
  <2>1. /\ line <= Len(rx) /\ pc' = "idle" /\ line' = 1 /\ throws' = throws + 1
        /\ rx' = [rx EXCEPT ![line] = Ran(@)]
    BY <1>3 DEF LineThrows
  <2>2. /\ Len(rx') = Len(rx)
        /\ \A i \in 1 .. Len(rx) : i # line => rx'[i] = rx[i]
        /\ rx'[line].runs = rx[line].runs + 1 /\ rx'[line].by = vm_id
    BY <2>1, LineRuns
  <2>3. ReplayBounded'
    BY <2>1, <2>2
  <2>4. BatchOnOneVm' /\ LinePosition' /\ RunAhead'
    BY <2>1, <2>2
  <2>5. QED  BY <2>3, <2>4
<1>4. CASE BatchDone
  BY <1>4 DEF BatchDone, NextTask
<1>5. ASSUME \/ \E q \in Queue : EventArrives(q) \/ HandlerReturns(q) \/ HandlerThrows(q)
             \/ Steady
      PROVE  Batch'
  <2>1. /\ rx' = rx /\ line' = line /\ throws' \in {throws, throws + 1}
        /\ pc = "serial" => pc' = pc /\ vm_id' = vm_id
    BY <1>5 DEF Steady, EventArrives, HandlerReturns, HandlerThrows, vmVars, Queue
  <2>2. QED  BY <2>1
<1>6. QED  BY Kinds, <1>1, <1>2, <1>3, <1>4, <1>5

---------------------------------------------------------------------------
(* Notes.                                                                  *)

LEMMA NotesStep == TypeOK /\ Notes /\ [Next]_vars => Notes'
<1> SUFFICES ASSUME TypeOK, Notes, [Next]_vars PROVE Notes'
  OBVIOUS
<1> USE DEF Notes, NoOrphanNotes, QuietAtInit, Plays, vmVars, midiVars, inputVars
<1>1. CASE viii_init \/ viii_init_throws
  BY <1>1 DEF viii_init, viii_init_throws
<1>2. CASE \/ \E q \in Queue : EventArrives(q)
           \/ \E kind \in {"lua", "reset"} : viii_serial_rx(kind)
  BY <1>2 DEF EventArrives, viii_serial_rx
<1>3. CASE viii_metro_tick \/ PortSelected \/ PortLost \/ PortBack \/ LoopStarts
  BY <1>3 DEF viii_metro_tick, PortSelected, PortLost, PortBack, LoopStarts
<1>4. CASE NotesOff
  BY <1>4 DEF NotesOff
<1>5. CASE VmReplaced \/ VmInitThrows
  BY <1>5 DEF VmReplaced, VmInitThrows, Orphan
<1>6. CASE \E q \in Queue : Drain(q)
  BY <1>6 DEF Drain, HandlerReturns, HandlerThrows, QueueEmpty, NextTask, Queue
<1>7. CASE MetroTask \/ MetroThrows
  BY <1>7 DEF MetroTask, MetroThrows, NextTask
<1>8. CASE LineReturns \/ LineThrows \/ BatchDone
  BY <1>8 DEF LineReturns, LineThrows, BatchDone, NextTask
<1>9. CASE UNCHANGED vars
  BY <1>9 DEF vars
<1>10. QED
  BY <1>1, <1>2, <1>3, <1>4, <1>5, <1>6, <1>7, <1>8, <1>9 DEF Next, LoopRuns

---------------------------------------------------------------------------
LEMMA InitInv == Init => IInv
<1> SUFFICES ASSUME Init PROVE IInv
  OBVIOUS
<1>1. TypeOK
  <2>1. /\ [q \in Queue |-> <<>>] \in [Queue -> Seq(Nat)]
        /\ \A q \in Queue : Len(<<>>) <= CAP[q]
        /\ <<>> \in Seq(Line) /\ 0 \in 0 .. MaxThrows
    BY BoundsAssumption DEF Queue
  <2>2. \A q \in Queue : queue[q] = <<>>
    BY DEF Init
  <2>3. queue \in [Queue -> Seq(Nat)] /\ \A q \in Queue : Len(queue[q]) <= CAP[q]
    BY <2>1, <2>2 DEF Init
  <2>4. rx \in Seq(Line) /\ line \in Nat \ {0} /\ throws \in 0 .. MaxThrows
    BY <2>1 DEF Init
  <2>5. /\ loaded \in BOOLEAN /\ vm \in BOOLEAN /\ callbacks \in BOOLEAN
        /\ vm_id \in {0, 1} /\ pc \in PC /\ reinit_requested \in BOOLEAN
        /\ metro_due \in BOOLEAN /\ port \in {"none", "live", "dead"}
        /\ sounding \in {"nobody", "current", "old"}
    BY DEF Init, PC
  <2>6. QED  BY <2>3, <2>4, <2>5 DEF TypeOK
<1>2. OnlyHeadRetried
  BY DEF Init, OnlyHeadRetried
<1>3. Batch
  BY DEF Init, Batch, ReplayBounded, BatchOnOneVm, LinePosition, RunAhead
<1>4. Notes
  BY DEF Init, Notes, NoOrphanNotes, QuietAtInit
<1>5. QED  BY <1>1, <1>2, <1>3, <1>4 DEF IInv

\* The invariant holds in every reachable state.
LEMMA Invariance == Spec => []IInv
<1>1. IInv /\ [Next]_vars => IInv'
  BY TypeStep, HeadStep, BatchStep, NotesStep DEF IInv
<1>2. QED  BY InitInv, <1>1, PTL DEF Spec

\* Queues, batch and ports are well typed, and no queue exceeds its capacity.
THEOREM LoopTypeCorrect == Spec => []TypeOK
<1>1. IInv => TypeOK
  BY DEF IInv
<1>2. QED  BY Invariance, <1>1, PTL

\* Whatever handlers throw, only the head of a queue is tried again.
THEOREM HeadRetried == Spec => []OnlyHeadRetried
<1>1. IInv => OnlyHeadRetried
  BY DEF IInv
<1>2. QED  BY Invariance, <1>1, PTL

\* A line runs once per exception more at most, and never before its turn.
THEOREM ReplayIsBounded == Spec => []ReplayBounded
<1>1. IInv => ReplayBounded
  BY DEF IInv, Batch
<1>2. QED  BY Invariance, <1>1, PTL

\* No VM is replaced under the batch that it runs.
THEOREM OneVmPerBatch == Spec => []BatchOnOneVm
<1>1. IInv => BatchOnOneVm
  BY DEF IInv, Batch
<1>2. QED  BY Invariance, <1>1, PTL

\* No note outlives the VM that plays it.
THEOREM NotesEnded == Spec => []NoOrphanNotes
<1>1. IInv => NoOrphanNotes
  BY DEF IInv, Notes
<1>2. QED  BY Invariance, <1>1, PTL

\* The buffer is emptied only after every line has run.
THEOREM LinesNotSkipped == Spec => NoLineSkipped
<1>1. IInv /\ [Next]_vars
        => [callbacks /\ rx # <<>> /\ rx' = <<>>
              => \A i \in 1 .. Len(rx) : rx[i].runs > 0]_vars
  <2> SUFFICES ASSUME IInv, [Next]_vars, callbacks, rx # <<>>, rx' = <<>>,
                      NEW i \in 1 .. Len(rx)
               PROVE  rx[i].runs > 0
    OBVIOUS
  <2>1. rx \in Seq(Line) /\ Len(rx) > 0 /\ Len(rx') = 0 /\ TypeOK
    BY DEF IInv, TypeOK
  <2>2. CASE BatchDone
    BY <2>1, <2>2 DEF BatchDone, IInv, Batch, RunAhead, TypeOK
  <2>3. CASE \E kind \in {"lua", "reset"} : viii_serial_rx(kind)
    <3>1. Len(rx') = Len(rx) + 1
      BY <2>1, <2>3 DEF viii_serial_rx
    <3>2. QED  BY <2>1, <3>1
  <2>4. CASE LineReturns \/ LineThrows
    <3>1. Len(rx') = Len(rx)
      BY <2>1, <2>4, LineRuns DEF LineReturns, LineThrows
    <3>2. QED  BY <2>1, <3>1
  <2>5. CASE Steady \/ \E q \in Queue : EventArrives(q) \/ HandlerReturns(q) \/ HandlerThrows(q)
    BY <2>1, <2>5 DEF Steady, EventArrives, HandlerReturns, HandlerThrows
  <2>6. QED  BY Kinds, <2>2, <2>3, <2>4, <2>5
<1>2. QED  BY Invariance, <1>1, PTL DEF Spec, NoLineSkipped
=============================================================================
