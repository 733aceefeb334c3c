----------------------------- MODULE ArcEncoder -----------------------------
(***************************************************************************)
(* The encoders of an arc in device_web.c: the deltas read by device_task, *)
(* the accumulator that divides them by the resolution a script chose, and *)
(* the ticks given to event_arc.                                           *)
(***************************************************************************)
EXTENDS Integers

CONSTANTS
    MAX_ENCODERS, \* 4
    MAX_RES,      \* 1024
    Div,          \* the resolutions scripts ask for
    Delta         \* the deltas the arc sends

ASSUME EncoderAssumption == MAX_ENCODERS \in Nat
ASSUME ResolutionAssumption == MAX_RES \in Nat \ {0}
ASSUME DivAssumption == Div \subseteq Int
ASSUME DeltaAssumption == Delta \subseteq -128 .. 127

VARIABLES
    arc_res_val,
    arc_accum,
    unreported, \* history: of each encoder, the rotation since the resolution
                \* was last set, less a resolution for each tick reported
    turned,     \* history: the delta of the last event, 0 after other calls
    reported    \* history: the ticks the last event gave to Lua, or would
                \* have given to a script that defines event_arc

vars == <<arc_res_val, arc_accum, unreported, turned, reported>>

Encoder == 0 .. MAX_ENCODERS - 1

Magnitude(i) == IF i < 0 THEN -i ELSE i

\* Division in C rounds towards 0.
Quotient(a, b) == IF a < 0 THEN -((-a) \div b) ELSE a \div b

\* A conversion to int8_t.
Int8(i) == ((i + 128) % 256) - 128

\* Mutant: no clamp.
Resolution_unclamped(div) == div % 65536

\* The argument is cut to a uint16_t and clamped.
Resolution(div) ==
    LET r == div % 65536 IN
    IF r < 1 THEN 1 ELSE IF r > MAX_RES THEN MAX_RES ELSE r

Init ==
    /\ arc_res_val = [n \in Encoder |-> 1]
    /\ arc_accum = [n \in Encoder |-> 0]
    /\ unreported = [n \in Encoder |-> 0]
    /\ turned = 0 /\ reported = 0

\* Mutant: the rotation collected under the old resolution is kept.
l_arc_res_keeps(n, div) ==
    /\ arc_res_val' = [arc_res_val EXCEPT ![n] = Resolution(div)]
    /\ turned' = 0 /\ reported' = 0
    /\ UNCHANGED <<arc_accum, unreported>>

l_arc_res(n, div) ==
    /\ arc_res_val' = [arc_res_val EXCEPT ![n] = Resolution(div)]
    /\ arc_accum' = [arc_accum EXCEPT ![n] = 0]
    /\ unreported' = [unreported EXCEPT ![n] = 0]
    /\ turned' = 0 /\ reported' = 0

\* device_init and viii_grid_connect.
EncodersReset ==
    /\ arc_res_val' = [n \in Encoder |-> 1]
    /\ arc_accum' = [n \in Encoder |-> 0]
    /\ unreported' = [n \in Encoder |-> 0]
    /\ turned' = 0 /\ reported' = 0

Raw(n, delta) ==
    /\ arc_res_val[n] <= 1
    /\ reported' = delta
    /\ unreported' = [unreported EXCEPT
                        ![n] = @ + delta - delta * arc_res_val[n]]
    /\ UNCHANGED arc_accum

\* Mutant: a sum of exactly one tick is held back.
Divided_above(n, delta) ==
    LET sum == arc_accum[n] + delta
        tick == Quotient(sum, arc_res_val[n])
    IN
    /\ arc_res_val[n] > 1
    /\ \/ /\ Magnitude(sum) <= arc_res_val[n]
          /\ arc_accum' = [arc_accum EXCEPT ![n] = sum]
          /\ reported' = 0
          /\ unreported' = [unreported EXCEPT ![n] = @ + delta]
       \/ /\ Magnitude(sum) > arc_res_val[n]
          /\ arc_accum' = [arc_accum EXCEPT ![n] = sum - tick * arc_res_val[n]]
          /\ reported' = Int8(tick)
          /\ unreported' = [unreported EXCEPT
                              ![n] = @ + delta - Int8(tick) * arc_res_val[n]]

Divided(n, delta) ==
    LET sum == arc_accum[n] + delta
        tick == Quotient(sum, arc_res_val[n])
    IN
    /\ arc_res_val[n] > 1
    /\ \/ /\ Magnitude(sum) < arc_res_val[n]
          /\ arc_accum' = [arc_accum EXCEPT ![n] = sum]
          /\ reported' = 0
          /\ unreported' = [unreported EXCEPT ![n] = @ + delta]
       \/ /\ Magnitude(sum) >= arc_res_val[n]
          /\ arc_accum' = [arc_accum EXCEPT ![n] = sum - tick * arc_res_val[n]]
          /\ reported' = Int8(tick)
          /\ unreported' = [unreported EXCEPT
                              ![n] = @ + delta - Int8(tick) * arc_res_val[n]]

\* Mutant: the accumulator starts anew after a tick.
vm_handle_enc_delta_drops(n, delta) ==
    LET sum == arc_accum[n] + delta
        tick == Quotient(sum, arc_res_val[n])
    IN
    /\ arc_res_val[n] > 1 /\ Magnitude(sum) >= arc_res_val[n]
    /\ arc_accum' = [arc_accum EXCEPT ![n] = 0]
    /\ reported' = Int8(tick) /\ turned' = delta
    /\ unreported' = [unreported EXCEPT
                        ![n] = @ + delta - Int8(tick) * arc_res_val[n]]
    /\ UNCHANGED arc_res_val

\* An n of MAX_ENCODERS or more is ignored.
vm_handle_enc_delta(n, delta) ==
    /\ Raw(n, delta) \/ Divided(n, delta)
    /\ turned' = delta
    /\ UNCHANGED arc_res_val

Next ==
    \/ \E n \in Encoder, div \in Div : l_arc_res(n, div)
    \/ EncodersReset
    \/ \E n \in Encoder, delta \in Delta : vm_handle_enc_delta(n, delta)

Spec == Init /\ [][Next]_vars

---------------------------------------------------------------------------
TypeOK ==
    /\ arc_res_val \in [Encoder -> 1 .. MAX_RES]
    /\ arc_accum \in [Encoder -> Int]
    /\ unreported \in [Encoder -> Int]
    /\ turned \in -128 .. 127
    /\ reported \in -128 .. 127

\* No rotation is lost or invented, whatever mix of speeds, directions and
\* resolutions: what has not been reported is in the accumulator (the tick
\* count that Lua gets has passed through an int8_t, the one taken from the
\* accumulator has not).
RotationKept == \A n \in Encoder : unreported[n] = arc_accum[n]

\* Less than one tick is ever held back, so that a slow turn is reported as
\* soon as it makes one, also after the resolution was made finer.
LessThanATick ==
    \A n \in Encoder :
        arc_accum[n] \in 1 - arc_res_val[n] .. arc_res_val[n] - 1

\* A script never sees the encoder turn the other way.
SameDirection ==
    /\ reported > 0 => turned > 0
    /\ reported < 0 => turned < 0

=============================================================================
