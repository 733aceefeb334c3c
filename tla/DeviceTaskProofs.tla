-------------------------- MODULE DeviceTaskProofs --------------------------
(***************************************************************************)
(* The two halves of what device_task does with an event, and midi_task    *)
(* with its own: the queue it takes it from, and the encoder that turns    *)
(* one into ticks.                                                         *)
(*                                                                         *)
(* For every number of encoders, every clamp of the resolution and every   *)
(* set of deltas: no rotation is lost, less than a tick is held back, and  *)
(* no tick points the wrong way.                                           *)
(*                                                                         *)
(* For every ring size and every set of events: the type invariant, and    *)
(* that the ring with its two wrapping indexes implements BoundedFifo.     *)
(* The argument is arithmetic modulo SIZE done once, in the lemmas on      *)
(* Succ, Count and the slots between r and w; the steps of EventQueue then *)
(* map one to one to those of BoundedFifo, or to a stutter.                *)
(***************************************************************************)
EXTENDS EventQueue, ArcEncoder, SequenceTheorems, TLAPS

(***************************************************************************)
(* Division.                                                               *)
(***************************************************************************)
LEMMA Euclid ==
    ASSUME NEW a \in Nat, NEW b \in Nat \ {0}
    PROVE  /\ a \div b \in Nat
           /\ (a \div b) * b <= a
           /\ a - (a \div b) * b < b
<1>1. a \div b \in Nat
  BY SMT
<1>2. a = b * (a \div b) + (a % b) /\ a % b \in 0 .. b - 1
  BY SMT
<1>3. (a \div b) * b = b * (a \div b)
  BY <1>1, SMT
<1> QED
  BY <1>1, <1>2, <1>3, SMT

\* A sum of less than a resolution and one delta makes a quotient that an
\* int8_t holds.
LEMMA QuotientSmall ==
    ASSUME NEW a \in Nat, NEW b \in Nat, b >= 2, a >= b, a <= b + 127
    PROVE  /\ a \div b \in 1 .. 127
           /\ a - (a \div b) * b \in 0 .. b - 1
<1> DEFINE q == a \div b
<1>1. q \in Nat /\ q * b <= a /\ a - q * b < b /\ q * b \in Nat
  BY Euclid, SMT
<1>2. q >= 1
  <2>1. CASE q = 0
    BY <1>1, <2>1, SMT
  <2> QED BY <1>1, <2>1, SMT
<1>3. q <= 127
  <2> SUFFICES ASSUME q >= 128 PROVE FALSE
    BY <1>1, SMT
  <2>1. (q - 1) * b = q * b - b
    BY <1>1, SMT
  <2>2. (q - 1) * b >= 127 * b
    BY <1>1, SMT
  <2>3. 127 * b >= 254
    BY SMT
  <2> QED BY <1>1, <2>1, <2>2, <2>3, SMT
<1> QED
  BY <1>1, <1>2, <1>3, SMT

LEMMA Int8Small == ASSUME NEW i \in -127 .. 127 PROVE Int8(i) = i
<1>1. (i + 128) \in 0 .. 255
  OBVIOUS
<1>2. ASSUME NEW k \in 0 .. 255 PROVE k % 256 = k
  BY SMT
<1>3. (i + 128) % 256 = i + 128
  BY <1>1, <1>2
<1> QED
  BY <1>3 DEF Int8

\* What a sum of at least one tick becomes: ticks of its own sign that survive
\* the conversion, and a remainder of less than one.
LEMMA TickTaken ==
    ASSUME NEW s \in Int, NEW r \in Nat, r >= 2,
           Magnitude(s) >= r, Magnitude(s) <= r + 127
    PROVE  /\ Quotient(s, r) \in -127 .. 127
           /\ Int8(Quotient(s, r)) = Quotient(s, r)
           /\ Quotient(s, r) * r \in Int
           /\ s - Quotient(s, r) * r \in 1 - r .. r - 1
           /\ Quotient(s, r) > 0 => s > 0
           /\ Quotient(s, r) < 0 => s < 0
<1>1. CASE s < 0
  <2> DEFINE a == -s
             q == a \div r
  <2>1. a \in Nat /\ a >= r /\ a <= r + 127
    BY <1>1 DEF Magnitude
  <2>3. Quotient(s, r) = -q
    BY <1>1 DEF Quotient
  <2> HIDE DEF a
  <2>2. q \in 1 .. 127 /\ a - q * r \in 0 .. r - 1
    BY <2>1, QuotientSmall
  <2> HIDE DEF q
  <2>4. Int8(-q) = -q
    BY <2>2, Int8Small
  <2> DEFINE part == q * r
  <2>5. (-q) * r = -part /\ part \in Int
    BY <2>2, SMT
  <2>6. a - part \in 0 .. r - 1
    BY <2>2
  <2> HIDE DEF part
  <2>7. Quotient(s, r) * r = -part
    BY <2>3, <2>5
  <2>8. s - (-part) \in 1 - r .. r - 1
    BY <2>1, <2>5, <2>6 DEF a
  <2> QED
    BY <1>1, <2>2, <2>3, <2>4, <2>5, <2>7, <2>8
<1>2. CASE s >= 0
  <2> DEFINE q == s \div r
  <2>1. s \in Nat /\ s >= r /\ s <= r + 127
    BY <1>2 DEF Magnitude
  <2>2. q \in 1 .. 127 /\ s - q * r \in 0 .. r - 1
    BY <2>1, QuotientSmall
  <2>3. Quotient(s, r) = q
    BY <1>2 DEF Quotient
  <2> HIDE DEF q
  <2>4. Int8(q) = q
    BY <2>2, Int8Small
  <2> DEFINE part == q * r
  <2>5. part \in Int
    BY <2>2, SMT
  <2>6. s - part \in 0 .. r - 1
    BY <2>2
  <2> HIDE DEF part
  <2>7. Quotient(s, r) * r = part
    BY <2>3 DEF part
  <2>8. s - part \in 1 - r .. r - 1
    BY <2>1, <2>5, <2>6
  <2> QED
    BY <2>1, <2>2, <2>3, <2>4, <2>5, <2>7, <2>8
<1> QED
  BY <1>1, <1>2, SMT

LEMMA ResolutionInRange ==
    ASSUME NEW div \in Int
    PROVE  Resolution(div) \in 1 .. MAX_RES
<1>1. div % 65536 \in Nat
  BY SMT
<1> QED BY <1>1, ResolutionAssumption DEF Resolution

(***************************************************************************)
(* The inductive invariant is the conjunction of the four: less than a     *)
(* tick before a delta bounds the sum, which keeps the tick an int8_t.     *)
(***************************************************************************)
IInv == TypeOK /\ RotationKept /\ LessThanATick /\ SameDirection

LEMMA Initially == Init => IInv
  BY ResolutionAssumption DEF Init, IInv, TypeOK, RotationKept, LessThanATick, SameDirection

\* A step that leaves the other encoders alone has only its own to answer for.
LEMMA OneEncoder ==
    ASSUME IInv, NEW n \in Encoder,
           TypeOK', SameDirection',
           unreported'[n] = arc_accum'[n],
           arc_accum'[n] \in 1 - arc_res_val'[n] .. arc_res_val'[n] - 1,
           \A m \in Encoder \ {n} :
               /\ unreported'[m] = unreported[m]
               /\ arc_accum'[m] = arc_accum[m]
               /\ arc_res_val'[m] = arc_res_val[m]
    PROVE  IInv'
<1>1. ASSUME NEW m \in Encoder
      PROVE  /\ unreported'[m] = arc_accum'[m]
             /\ arc_accum'[m] \in 1 - arc_res_val'[m] .. arc_res_val'[m] - 1
  <2>1. CASE m = n
    BY <2>1
  <2>2. CASE m # n
    BY <2>2 DEF IInv, RotationKept, LessThanATick
  <2> QED BY <2>1, <2>2
<1>2. RotationKept' /\ LessThanATick'
  BY <1>1 DEF RotationKept, LessThanATick
<1> QED
  BY <1>2 DEF IInv

LEMMA ResolutionSet ==
    ASSUME IInv, NEW n \in Encoder, NEW div \in Div, l_arc_res(n, div)
    PROVE  IInv'
<1> DEFINE res == Resolution(div)
<1>1. res \in 1 .. MAX_RES
  BY ResolutionInRange, DivAssumption
<1> HIDE DEF res
<1>2. /\ arc_res_val' = [arc_res_val EXCEPT ![n] = res]
      /\ arc_accum' = [arc_accum EXCEPT ![n] = 0]
      /\ unreported' = [unreported EXCEPT ![n] = 0]
      /\ turned' = 0 /\ reported' = 0
  BY DEF l_arc_res, res
<1>3. TypeOK' /\ SameDirection'
  BY <1>1, <1>2 DEF IInv, TypeOK, SameDirection
<1>4. /\ unreported'[n] = 0 /\ arc_accum'[n] = 0 /\ arc_res_val'[n] = res
      /\ \A m \in Encoder \ {n} :
            /\ unreported'[m] = unreported[m]
            /\ arc_accum'[m] = arc_accum[m]
            /\ arc_res_val'[m] = arc_res_val[m]
  BY <1>2 DEF IInv, TypeOK
<1>5. 0 \in 1 - res .. res - 1
  BY <1>1
<1> QED
  BY <1>3, <1>4, <1>5, OneEncoder

LEMMA AllReset == ASSUME IInv, EncodersReset PROVE IInv'
  BY ResolutionAssumption DEF EncodersReset, IInv, TypeOK, RotationKept, LessThanATick,
         SameDirection

LEMMA RawReported ==
    ASSUME IInv, NEW n \in Encoder, NEW delta \in Delta, Raw(n, delta),
           turned' = delta, UNCHANGED arc_res_val
    PROVE  IInv'
<1>1. arc_res_val[n] = 1 /\ delta \in -128 .. 127 /\ unreported[n] \in Int
  BY DeltaAssumption DEF Raw, IInv, TypeOK
<1>2. unreported[n] + delta - delta * 1 = unreported[n]
  BY <1>1
<1>3. unreported' = [unreported EXCEPT ![n] = unreported[n]]
  BY <1>1, <1>2 DEF Raw
<1>4. unreported' = unreported
  BY <1>3 DEF IInv, TypeOK
<1>5. UNCHANGED arc_accum /\ reported' = delta
  BY DEF Raw
<1>6. TypeOK' /\ SameDirection'
  BY <1>1, <1>4, <1>5 DEF IInv, TypeOK, SameDirection
<1>7. RotationKept' /\ LessThanATick'
  BY <1>4, <1>5 DEF IInv, RotationKept, LessThanATick
<1> QED
  BY <1>6, <1>7 DEF IInv

\* What is left over is less than a tick, be it all of the sum or its rest.
LEMMA Held ==
    ASSUME IInv, NEW n \in Encoder, NEW held \in Int, UNCHANGED arc_res_val,
           held \in 1 - arc_res_val[n] .. arc_res_val[n] - 1,
           arc_accum' = [arc_accum EXCEPT ![n] = held],
           unreported' = [unreported EXCEPT ![n] = held],
           turned' \in -128 .. 127, reported' \in -128 .. 127,
           SameDirection'
    PROVE  IInv'
<1>1. TypeOK'
  BY DEF IInv, TypeOK
<1>2. /\ unreported'[n] = held /\ arc_accum'[n] = held
      /\ \A m \in Encoder \ {n} :
            /\ unreported'[m] = unreported[m]
            /\ arc_accum'[m] = arc_accum[m]
            /\ arc_res_val'[m] = arc_res_val[m]
  BY DEF IInv, TypeOK
<1>3. arc_res_val'[n] = arc_res_val[n]
  OBVIOUS
<1> QED
  BY <1>1, <1>2, <1>3, OneEncoder

LEMMA DeltaDivided ==
    ASSUME IInv, NEW n \in Encoder, NEW delta \in Delta, Divided(n, delta),
           turned' = delta, UNCHANGED arc_res_val
    PROVE  IInv'
<1> DEFINE a == arc_accum[n]
           r == arc_res_val[n]
           sum == a + delta
           tick == Quotient(sum, r)
<1>1. /\ delta \in -128 .. 127 /\ r \in Nat /\ r >= 2 /\ a \in Int
      /\ a \in 1 - r .. r - 1 /\ unreported[n] = a
  BY DeltaAssumption, ResolutionAssumption DEF Divided, IInv, TypeOK, RotationKept, LessThanATick
<1>2. sum \in Int /\ Magnitude(sum) <= r + 127
  BY <1>1 DEF Magnitude
<1>3. ASSUME Magnitude(sum) < r,
             arc_accum' = [arc_accum EXCEPT ![n] = sum], reported' = 0,
             unreported' = [unreported EXCEPT ![n] = @ + delta]
      PROVE  IInv'
  <2>1. unreported' = [unreported EXCEPT ![n] = sum]
    BY <1>1, <1>3
  <2>2. sum \in 1 - r .. r - 1
    BY <1>1, <1>2, <1>3 DEF Magnitude
  <2>3. /\ reported' \in -128 .. 127 /\ turned' \in -128 .. 127
        /\ SameDirection'
    BY <1>1, <1>3 DEF SameDirection
  <2> HIDE DEF sum
  <2> QED
    BY <1>2, <1>3, <2>1, <2>2, <2>3, Held
<1>4. ASSUME Magnitude(sum) >= r,
             arc_accum' = [arc_accum EXCEPT ![n] = sum - tick * r],
             reported' = Int8(tick),
             unreported' = [unreported EXCEPT
                              ![n] = @ + delta - Int8(tick) * r]
      PROVE  IInv'
  <2>1. /\ tick \in -127 .. 127 /\ Int8(tick) = tick
        /\ tick * r \in Int
        /\ sum - tick * r \in 1 - r .. r - 1
        /\ tick > 0 => sum > 0
        /\ tick < 0 => sum < 0
    <3> HIDE DEF sum, r
    <3> QED BY <1>1, <1>2, <1>4, TickTaken
  <2>2. /\ tick > 0 => delta > 0
        /\ tick < 0 => delta < 0
    <3> HIDE DEF tick
    <3> QED BY <1>1, <1>4, <2>1 DEF Magnitude
  <2>3. reported' = tick
    BY <1>4, <2>1
  <2> DEFINE part == tick * r
             held == sum - part
  <2>4. unreported' = [unreported EXCEPT ![n] = unreported[n] + delta - part]
    BY <1>4, <2>1
  <2>5. arc_accum' = [arc_accum EXCEPT ![n] = held]
    BY <1>4
  <2>6. part \in Int /\ held \in 1 - r .. r - 1
    BY <2>1
  <2> HIDE DEF tick, part
  <2>7. unreported[n] + delta - part = held /\ held \in Int
    BY <1>1, <2>6
  <2>8. unreported' = [unreported EXCEPT ![n] = held]
    BY <2>4, <2>7
  <2>9. /\ reported' \in -128 .. 127 /\ turned' \in -128 .. 127
        /\ SameDirection'
    BY <1>1, <2>1, <2>2, <2>3 DEF SameDirection
  <2> HIDE DEF held
  <2> QED
    BY <2>5, <2>6, <2>7, <2>8, <2>9, Held
<1> QED
  BY <1>3, <1>4 DEF Divided

LEMMA Inductive == IInv /\ [Next]_vars => IInv'
<1> SUFFICES ASSUME IInv, [Next]_vars PROVE IInv'
  OBVIOUS
<1>1. ASSUME NEW n \in Encoder, NEW div \in Div, l_arc_res(n, div)
      PROVE  IInv'
  BY <1>1, ResolutionSet
<1>2. CASE EncodersReset
  BY <1>2, AllReset
<1>3. ASSUME NEW n \in Encoder, NEW delta \in Delta,
             vm_handle_enc_delta(n, delta)
      PROVE  IInv'
  BY <1>3, RawReported, DeltaDivided DEF vm_handle_enc_delta
<1>4. CASE UNCHANGED vars
  BY <1>4 DEF vars, IInv, TypeOK, RotationKept, LessThanATick, SameDirection
<1> QED
  BY <1>1, <1>2, <1>3, <1>4 DEF Next

LEMMA Always == Spec => []IInv
  BY Initially, Inductive, PTL DEF Spec

\* Every value an encoder's state takes is in the range of its C type, and the
\* tick given to Lua is what the division yielded.
THEOREM EncoderTypeCorrect == Spec => []TypeOK
  BY Always, PTL DEF IInv

\* No rotation is lost or invented between the encoder and event_arc.
THEOREM NoRotationLost == Spec => []RotationKept
  BY Always, PTL DEF IInv

\* Less than one tick is ever held back.
THEOREM HeldBackLess == Spec => []LessThanATick
  BY Always, PTL DEF IInv

\* A tick has the sign of the movement that completed it.
THEOREM TicksFollowTurn == Spec => []SameDirection
  BY Always, PTL DEF IInv

---------------------------------------------------------------------------
(***************************************************************************)
(* The queues.                                                             *)
(***************************************************************************)
USE SizeAssumption, ZeroAssumption DEF SizeAssumption, ZeroAssumption

---------------------------------------------------------------------------
(* Arithmetic of the indexes.                                              *)

\* One wrap at most: what % does to a sum of two indexes of the ring.
LEMMA ModOnce ==
    ASSUME NEW x \in 0 .. SIZE + SIZE - 1
    PROVE  x % SIZE = IF x < SIZE THEN x ELSE x - SIZE
<1>1. CASE x < SIZE
  BY <1>1
<1>2. CASE x >= SIZE
  BY <1>2
<1> QED BY <1>1, <1>2

\* The successor of an index, which every write and every read moves to.
LEMMA SuccOnce ==
    ASSUME NEW i \in Slot
    PROVE  /\ Succ(i) \in Slot
           /\ Succ(i) = IF i + 1 = SIZE THEN 0 ELSE i + 1
BY ModOnce DEF Succ, Slot

\* The number of waiting events, with the wrap made explicit.
LEMMA CountOnce ==
    ASSUME NEW rg \in Ring
    PROVE  /\ Count(rg) \in 0 .. SIZE - 1
           /\ Count(rg) = IF rg.r <= rg.w THEN rg.w - rg.r
                                          ELSE rg.w + SIZE - rg.r
<1>1. rg.w \in 0 .. SIZE - 1 /\ rg.r \in 0 .. SIZE - 1
  BY DEF Ring, Slot
<1>2. rg.w + SIZE - rg.r \in 0 .. SIZE + SIZE - 1
  BY <1>1
<1> QED BY <1>1, <1>2, ModOnce DEF Count

\* The tests of the code against the number of waiting events: w = r says
\* none, and Succ(w) = r says all but one slot are taken.
LEMMA TestsOnCount ==
    ASSUME NEW rg \in Ring
    PROVE  /\ IsEmpty(rg) <=> Count(rg) = 0
           /\ IsFull(rg) <=> Count(rg) = SIZE - 1
<1>1. rg.w \in Slot /\ rg.r \in Slot
  BY DEF Ring
<1> QED BY <1>1, CountOnce, SuccOnce DEF IsEmpty, IsFull, Slot

\* The slot that holds the k-th oldest event.
LEMMA SlotOnce ==
    ASSUME NEW rg \in Ring, NEW k \in 1 .. SIZE
    PROVE  /\ (rg.r + k - 1) % SIZE \in Slot
           /\ (rg.r + k - 1) % SIZE = IF rg.r + k - 1 < SIZE
                                      THEN rg.r + k - 1
                                      ELSE rg.r + k - 1 - SIZE
<1> DEFINE x == rg.r + k - 1
<1>1. rg.r \in 0 .. SIZE - 1
  BY DEF Ring, Slot
<1>2. x \in 0 .. SIZE + SIZE - 1
  BY <1>1
<1> HIDE DEF x
<1>3. x % SIZE = IF x < SIZE THEN x ELSE x - SIZE
  BY <1>2, ModOnce
<1>4. x % SIZE \in Slot
  BY <1>2, <1>3 DEF Slot
<1> QED BY <1>1, <1>3, <1>4 DEF x

---------------------------------------------------------------------------
(* The operations of the ring as operations on the sequence it stands for. *)

LEMMA ContentsIsSeq ==
    ASSUME NEW rg \in Ring
    PROVE  /\ Contents(rg) \in Seq(Event)
           /\ Len(Contents(rg)) = Count(rg)
<1>1. Count(rg) \in Nat /\ 1 .. Count(rg) \subseteq 1 .. SIZE
  BY CountOnce
<1>2. \A k \in 1 .. Count(rg) : rg.queue[(rg.r + k - 1) % SIZE] \in Event
  BY <1>1, SlotOnce DEF Ring
<1> QED BY <1>1, <1>2 DEF Contents

LEMMA StoreIsRing ==
    ASSUME NEW rg \in Ring, NEW e \in Event
    PROVE  Store(rg, e) \in Ring
BY SuccOnce DEF Store, Ring

LEMMA RetireIsRing ==
    ASSUME NEW rg \in Ring
    PROVE  Retire(rg) \in Ring
BY SuccOnce DEF Retire, Ring

\* Storing appends: the slot written is the one after the newest event, and
\* none of the slots that wait is overwritten.
LEMMA StoreAppends ==
    ASSUME NEW rg \in Ring, NEW e \in Event, ~IsFull(rg)
    PROVE  Contents(Store(rg, e)) = Append(Contents(rg), e)
<1> DEFINE st == Store(rg, e)
           n  == Count(rg)
<1>1. st \in Ring /\ st.r = rg.r /\ st.w = Succ(rg.w)
      /\ st.queue = [rg.queue EXCEPT ![rg.w] = e]
  BY StoreIsRing DEF Store, Ring
<1>2. rg.w \in 0 .. SIZE - 1 /\ rg.r \in 0 .. SIZE - 1
  BY DEF Ring, Slot
<1>3. n \in 0 .. SIZE - 1 /\ n # SIZE - 1
  BY CountOnce, TestsOnCount
<1>4. Count(st) = n + 1
  BY <1>1, <1>2, <1>3, CountOnce, SuccOnce DEF Slot
<1>5. ASSUME NEW k \in 1 .. n + 1
      PROVE  st.queue[(st.r + k - 1) % SIZE]
               = IF k = n + 1 THEN e ELSE rg.queue[(rg.r + k - 1) % SIZE]
  <2>1. k \in 1 .. SIZE
    BY <1>3
  <2>2. (rg.r + k - 1) % SIZE = rg.w <=> k = n + 1
    BY <1>2, <1>3, <2>1, SlotOnce, CountOnce
  <2>3. (rg.r + k - 1) % SIZE \in Slot /\ rg.queue \in [Slot -> Event]
    BY <2>1, SlotOnce DEF Ring
  <2> QED BY <1>1, <2>2, <2>3
<1>6. Contents(rg) \in Seq(Event) /\ Len(Contents(rg)) = n
  BY ContentsIsSeq
<1>7. Contents(st) \in Seq(Event) /\ Len(Contents(st)) = n + 1
  BY <1>1, <1>4, ContentsIsSeq
<1>8. ASSUME NEW k \in 1 .. n + 1
      PROVE  Contents(st)[k] = Append(Contents(rg), e)[k]
  <2>1. Contents(st)[k] = IF k = n + 1 THEN e
                          ELSE rg.queue[(rg.r + k - 1) % SIZE]
    BY <1>4, <1>5 DEF Contents
  <2>2. CASE k = n + 1
    BY <1>6, <2>1, <2>2, AppendProperties
  <2>3. CASE k # n + 1
    <3>1. k \in 1 .. n
      BY <1>3, <2>3
    <3>2. Contents(rg)[k] = rg.queue[(rg.r + k - 1) % SIZE]
      BY <3>1 DEF Contents
    <3> QED BY <1>6, <2>1, <2>3, <3>1, <3>2, AppendProperties
  <2> QED BY <2>2, <2>3
<1>9. /\ Append(Contents(rg), e) \in Seq(Event)
      /\ Len(Append(Contents(rg), e)) = n + 1
  BY <1>6, AppendProperties
<1> QED BY <1>7, <1>8, <1>9, SeqEqual

\* Advancing r removes the head, and the head is what the handler was given.
LEMMA RetireRemovesHead ==
    ASSUME NEW rg \in Ring, ~IsEmpty(rg)
    PROVE  /\ Contents(rg) # <<>>
           /\ Head(Contents(rg)) = HeadOf(rg)
           /\ Contents(Retire(rg)) = Tail(Contents(rg))
<1> DEFINE rt == Retire(rg)
           n  == Count(rg)
<1>1. rt \in Ring /\ rt.r = Succ(rg.r) /\ rt.w = rg.w /\ rt.queue = rg.queue
  BY RetireIsRing DEF Retire, Ring
<1>2. rg.w \in 0 .. SIZE - 1 /\ rg.r \in 0 .. SIZE - 1
  BY DEF Ring, Slot
<1>3. n \in 1 .. SIZE - 1
  BY CountOnce, TestsOnCount
<1>4. Count(rt) = n - 1
  BY <1>1, <1>2, <1>3, CountOnce, SuccOnce DEF Slot
<1>5. Contents(rg) \in Seq(Event) /\ Len(Contents(rg)) = n
  BY ContentsIsSeq
<1>6. Contents(rg)[1] = HeadOf(rg)
  <2>1. (rg.r + 1 - 1) % SIZE = rg.r
    BY <1>2, SlotOnce
  <2> QED BY <1>3, <2>1 DEF Contents, HeadOf
<1>7. Contents(rg) # <<>>
  BY <1>3, <1>5
<1>8. Contents(rt) \in Seq(Event) /\ Len(Contents(rt)) = n - 1
  BY <1>1, <1>4, ContentsIsSeq
<1>9. ASSUME NEW k \in 1 .. n - 1
      PROVE  Contents(rt)[k] = Contents(rg)[k + 1]
  <2>1. k \in 1 .. SIZE /\ k + 1 \in 1 .. SIZE /\ k + 1 \in 1 .. n
    BY <1>3
  <2>2. (rg.r + (k + 1) - 1) % SIZE = IF rg.r + k < SIZE THEN rg.r + k
                                      ELSE rg.r + k - SIZE
    BY <1>2, <2>1, SlotOnce
  <2>3. rt.r = IF rg.r + 1 = SIZE THEN 0 ELSE rg.r + 1
    BY <1>1, <1>2, SuccOnce DEF Slot
  <2>4. (rt.r + k - 1) % SIZE = IF rt.r + k - 1 < SIZE THEN rt.r + k - 1
                                ELSE rt.r + k - 1 - SIZE
    BY <1>1, <2>1, SlotOnce
  <2>5. (rt.r + k - 1) % SIZE = (rg.r + (k + 1) - 1) % SIZE
    BY <1>2, <1>3, <2>1, <2>2, <2>3, <2>4
  <2>6. Contents(rt)[k] = rt.queue[(rt.r + k - 1) % SIZE]
    BY <1>4 DEF Contents
  <2>7. Contents(rg)[k + 1] = rg.queue[(rg.r + (k + 1) - 1) % SIZE]
    BY <2>1 DEF Contents
  <2> QED BY <1>1, <2>5, <2>6, <2>7
<1>10. /\ Tail(Contents(rg)) \in Seq(Event)
       /\ Len(Tail(Contents(rg))) = n - 1
       /\ \A k \in 1 .. n - 1 : Tail(Contents(rg))[k] = Contents(rg)[k + 1]
  BY <1>3, <1>5, <1>7, HeadTailProperties
<1>11. Contents(rt) = Tail(Contents(rg))
  BY <1>8, <1>9, <1>10, SeqEqual
<1> QED BY <1>5, <1>6, <1>7, <1>11

---------------------------------------------------------------------------
(* The theorems of the specification.                                      *)

\* The cursors stay inside the ring and every slot holds an event, whatever
\* the interleaving of viii_midi_rx, midi_task and throwing handlers.
THEOREM QueueTypeCorrect == QueueSpec => []QueueTypeOK
<1>1. QueueInit => QueueTypeOK
  <2>1. [i \in Slot |-> Zero] \in [Slot -> Event] /\ 0 \in Slot
    BY DEF Slot
  <2>2. EmptyRing \in Ring
    BY <2>1 DEF EmptyRing, Ring
  <2> QED BY <2>2 DEF QueueInit, QueueTypeOK, Outcome
<1>2. QueueTypeOK /\ [QueueNext]_queueVars => QueueTypeOK'
  <2> SUFFICES ASSUME QueueTypeOK, [QueueNext]_queueVars PROVE QueueTypeOK'
    OBVIOUS
  <2> USE DEF QueueTypeOK
  <2>1. ASSUME NEW e \in Event, viii_midi_rx(e) PROVE QueueTypeOK'
    BY <2>1, StoreIsRing DEF viii_midi_rx, Push, Outcome
  <2>2. CASE TaskBegins
    BY <2>2 DEF TaskBegins
  <2>3. CASE HandlerReturns
    BY <2>3, RetireIsRing DEF HandlerReturns, HeadOf, Ring, Outcome
  <2>4. CASE HandlerThrows
    BY <2>4 DEF HandlerThrows, HeadOf, Ring, Outcome
  <2>5. CASE TaskEnds
    BY <2>5 DEF TaskEnds
  <2>6. CASE UNCHANGED queueVars
    BY <2>6 DEF queueVars
  <2> QED BY <2>1, <2>2, <2>3, <2>4, <2>5, <2>6 DEF QueueNext
<1> QED BY <1>1, <1>2, PTL DEF QueueSpec

\* Every step of the ring is a step of the bounded FIFO, or a stutter when
\* midi_task is entered or left: the handlers see the accepted events, all of
\* them and in order, for every SIZE.
THEOREM RingImplementsFifo == QueueSpec => ImplementsFifo
<1>1. QueueInit => Fifo!Init
  <2> SUFFICES ASSUME QueueInit PROVE Contents(ring) = <<>>
    BY DEF QueueInit, Fifo!Init
  <2>1. ring \in Ring /\ IsEmpty(ring)
    BY DEF QueueInit, EmptyRing, Ring, Slot, IsEmpty
  <2> QED BY <2>1, TestsOnCount, ContentsIsSeq, EmptySeq
<1>2. QueueTypeOK /\ [QueueNext]_queueVars => [Fifo!Next]_(Fifo!fifoVars)
  <2> SUFFICES ASSUME QueueTypeOK, [QueueNext]_queueVars
               PROVE  Fifo!Next \/ UNCHANGED <<Contents(ring), last>>
    BY DEF Fifo!fifoVars
  <2>1. ring \in Ring /\ Len(Contents(ring)) = Count(ring)
    BY ContentsIsSeq DEF QueueTypeOK
  <2>2. ASSUME NEW e \in Event, viii_midi_rx(e) PROVE Fifo!Next
    <3>1. CASE IsFull(ring)
      <4>1. Len(Contents(ring)) = SIZE - 1
        BY <2>1, <3>1, TestsOnCount
      <4>2. Fifo!Refuse(e)
        BY <2>2, <3>1, <4>1 DEF viii_midi_rx, Push, Fifo!Refuse
      <4> QED BY <4>2 DEF Fifo!Next
    <3>2. CASE ~IsFull(ring)
      <4>1. Len(Contents(ring)) < SIZE - 1
        BY <2>1, <3>2, TestsOnCount, CountOnce
      <4>2. Contents(ring)' = Append(Contents(ring), e)
        <5>1. ring' = Store(ring, e)
          BY <2>2, <3>2 DEF viii_midi_rx, Push
        <5>2. Contents(ring)' = Contents(Store(ring, e))
          BY <5>1 DEF Contents, Count
        <5> QED BY <2>1, <3>2, <5>2, StoreAppends
      <4>3. Fifo!Accept(e)
        BY <2>2, <3>2, <4>1, <4>2 DEF viii_midi_rx, Fifo!Accept
      <4> QED BY <4>3 DEF Fifo!Next
    <3> QED BY <3>1, <3>2
  <2>3. CASE HandlerReturns
    <3>1. ~IsEmpty(ring) /\ ring' = Retire(ring)
          /\ last' = [op |-> "handled", event |-> HeadOf(ring)]
      BY <2>3 DEF HandlerReturns
    <3>2. Contents(ring)' = Contents(Retire(ring))
      BY <3>1 DEF Contents, Count
    <3>3. Fifo!Deliver
      BY <2>1, <3>1, <3>2, RetireRemovesHead DEF Fifo!Deliver
    <3> QED BY <3>3 DEF Fifo!Next
  <2>4. CASE HandlerThrows
    <3>1. Fifo!Attempt
      <4>1. ring' = ring /\ ~IsEmpty(ring)
            /\ last' = [op |-> "threw", event |-> HeadOf(ring)]
        BY <2>4 DEF HandlerThrows
      <4>2. Contents(ring)' = Contents(ring)
        BY <4>1 DEF Contents, Count
      <4> QED BY <2>1, <4>1, <4>2, RetireRemovesHead DEF Fifo!Attempt
    <3> QED BY <3>1 DEF Fifo!Next
  <2>5. CASE TaskBegins \/ TaskEnds \/ UNCHANGED queueVars
    <3>1. ring' = ring /\ last' = last
      BY <2>5 DEF TaskBegins, TaskEnds, queueVars
    <3> QED BY <3>1 DEF Contents, Count
  <2> QED BY <2>2, <2>3, <2>4, <2>5 DEF QueueNext
<1> QED BY <1>1, <1>2, QueueTypeCorrect, PTL DEF QueueSpec, ImplementsFifo, Fifo!Spec

=============================================================================
