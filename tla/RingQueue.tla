----------------------------- MODULE RingQueue -----------------------------
(***************************************************************************)
(* The bounded ring the C side of viii uses three times, always in the     *)
(* same way: midi_rx_queue (midi_web.c), key_queue and enc_queue           *)
(* (device_web.c).  A producer called from a browser event stores at w; a  *)
(* drain loop inside viii_loop reads at r.  One slot stays free, so w = r  *)
(* means empty and the ring holds at most SIZE - 1 events.                 *)
(*                                                                         *)
(* A ring is a record, and every operation a function of it, so that one   *)
(* module can keep several.                                                *)
(***************************************************************************)
EXTENDS Naturals

CONSTANTS SIZE,   \* MIDI_RX_QUEUE_SIZE, KEY_QUEUE_SIZE or ENC_QUEUE_SIZE
          Event,  \* the events a slot can hold
          Zero    \* what a static, never written slot holds

Slot == 0 .. SIZE - 1

Ring == [queue : [Slot -> Event], w : Slot, r : Slot]

EmptyRing == [queue |-> [i \in Slot |-> Zero], w |-> 0, r |-> 0]

\* Mutant: the index is not wrapped.
SuccUnwrapped(i) == i + 1

Succ(i) == (i + 1) % SIZE

IsFull(ring) == Succ(ring.w) = ring.r

IsEmpty(ring) == ring.w = ring.r

\* The slot is written before w moves, and w moves past it.
Store(ring, e) ==
    [ring EXCEPT !.queue[ring.w] = e, !.w = Succ(ring.w)]

\* Mutant: the producer does not test for a full ring.
PushOverFull(ring, e) == Store(ring, e)

\* The whole producer: the newest event is the one dropped by a full ring.
Push(ring, e) == IF IsFull(ring) THEN ring ELSE Store(ring, e)

HeadOf(ring) == ring.queue[ring.r]

Retire(ring) == [ring EXCEPT !.r = Succ(ring.r)]

---------------------------------------------------------------------------
(* What a ring stands for: the events between r and w, oldest first.       *)

Count(ring) == (ring.w + SIZE - ring.r) % SIZE

Contents(ring) ==
    [k \in 1 .. Count(ring) |-> ring.queue[(ring.r + k - 1) % SIZE]]

============================================================================
