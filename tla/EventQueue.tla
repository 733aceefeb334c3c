----------------------------- MODULE EventQueue -----------------------------
(***************************************************************************)
(* One event queue of viii with its producer and its drain loop.  Named    *)
(* after midi_web.c; key_queue and enc_queue of device_web.c are the same  *)
(* code with other names.                                                  *)
(*                                                                         *)
(* JavaScript runs to completion: viii_midi_rx is called from a browser    *)
(* event and never while midi_task is on the stack.  midi_task calls       *)
(* rx_callback on the head BEFORE it advances r.  The callback may throw a *)
(* JavaScript exception (MIDIOutput.send does): it unwinds midi_task and   *)
(* viii_loop up to the catch in bridge.js, and r stays where it was.       *)
(***************************************************************************)
EXTENDS RingQueue, Sequences

VARIABLES ring,    \* queue, w and r of the C file
          in_task, \* TRUE while midi_task is on the stack
          last     \* history: what the last producer or handler call did

queueVars == <<ring, in_task, last>>

ASSUME SizeAssumption == SIZE \in Nat \ {0}
ASSUME ZeroAssumption == Zero \in Event

QueueInit ==
    /\ ring = EmptyRing
    /\ in_task = FALSE
    /\ last = [op |-> "none"]

---------------------------------------------------------------------------
viii_midi_rx(e) ==
    /\ ~in_task
    /\ ring' = Push(ring, e)
    /\ last' = [op |-> IF IsFull(ring) THEN "refused" ELSE "accepted",
                event |-> e]
    /\ UNCHANGED in_task

TaskBegins ==
    /\ ~in_task
    /\ in_task' = TRUE
    /\ UNCHANGED <<ring, last>>

HandlerReturns ==
    /\ in_task /\ ~IsEmpty(ring)
    /\ last' = [op |-> "handled", event |-> HeadOf(ring)]
    /\ ring' = Retire(ring)
    /\ UNCHANGED in_task

HandlerThrows ==
    /\ in_task /\ ~IsEmpty(ring)
    /\ last' = [op |-> "threw", event |-> HeadOf(ring)]
    /\ in_task' = FALSE
    /\ UNCHANGED ring

TaskEnds ==
    /\ in_task /\ IsEmpty(ring)
    /\ in_task' = FALSE
    /\ UNCHANGED <<ring, last>>

QueueNext ==
    \/ \E e \in Event : viii_midi_rx(e)
    \/ TaskBegins
    \/ HandlerReturns
    \/ HandlerThrows
    \/ TaskEnds

QueueSpec == QueueInit /\ [][QueueNext]_queueVars

---------------------------------------------------------------------------
Outcome == [op : {"accepted", "refused", "handled", "threw"}, event : Event]
             \cup {[op |-> "none"]}

\* The indexes stay inside the ring and every slot holds an event, in the
\* C structs and in the ghost record of the last call.
QueueTypeOK ==
    /\ ring \in Ring
    /\ in_task \in BOOLEAN
    /\ last \in Outcome

Fifo == INSTANCE BoundedFifo WITH CAP <- SIZE - 1, items <- Contents(ring)

\* The two wrapping indexes implement a bounded FIFO: no event is lost,
\* duplicated or reordered between viii_midi_rx and the callback, an event is
\* refused only when SIZE - 1 wait, and an event whose handler threw is the
\* next one handed out.
ImplementsFifo == Fifo!Spec

============================================================================
