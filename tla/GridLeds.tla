------------------------------ MODULE GridLeds ------------------------------
(***************************************************************************)
(* The LEDs of a grid: the level buffer of device_web.c, the dirty flag of *)
(* each 8 x 8 block, the refresh that sends the dirty blocks, and the      *)
(* device that shows them, across connects, lost writes and the second     *)
(* viii_grid_connect of an automatic reconnection.                         *)
(*                                                                         *)
(* Bytes handed to the serial port arrive in order or, once the link is    *)
(* lost, not at all: gridSerialWrite of bridge.js drops them in silence and *)
(* the C side goes on believing they were sent until it is told.           *)
(***************************************************************************)
EXTENDS Integers

CONSTANTS
    QUAD,               \* side of a block: 8
    MAX_LEVEL,          \* 15
    DeviceX, DeviceY,   \* the size the connected grid answers
    Level,              \* levels scripts ask for, already cut to an int8_t
    DEFAULT_INTENSITY   \* what a grid that was just powered shows

MAX_GRID_X == 2 * QUAD
MAX_GRID_Y == 2 * QUAD

ASSUME GridAssumption ==
    /\ QUAD \in Nat \ {0} /\ MAX_LEVEL \in Nat
    /\ DeviceX \in 1 .. MAX_GRID_X /\ DeviceY \in 1 .. MAX_GRID_Y
    /\ Level \subseteq -128 .. 127
    /\ DEFAULT_INTENSITY \in 0 .. MAX_LEVEL

VARIABLES
    grid_size_x_val, grid_size_y_val,
    grid_led,
    grid_dirty,
    grid_intensity_val, grid_intensity_pending,
    grid_refresh_pending,
    grid_connected,     \* what the C side has been told
    link,               \* what becomes of the bytes written
    shown,              \* device: the level of each LED
    shown_intensity     \* device

ledVars == <<grid_led, grid_dirty>>
sizeVars == <<grid_size_x_val, grid_size_y_val>>
intensityVars == <<grid_intensity_val, grid_intensity_pending>>
deviceVars == <<link, shown, shown_intensity>>

vars == <<sizeVars, ledVars, intensityVars, grid_refresh_pending,
          grid_connected, deviceVars>>

Cell == (0 .. MAX_GRID_X - 1) \X (0 .. MAX_GRID_Y - 1)
Block == {0, QUAD} \X {0, QUAD}
Quad == 0 .. 3

grid_quad_idx(x, y) ==
    (IF y >= QUAD THEN 2 ELSE 0) + (IF x >= QUAD THEN 1 ELSE 0)

QuadOf(cell) == grid_quad_idx(cell[1], cell[2])

InBlock(cell, b) ==
    /\ cell[1] \in b[1] .. b[1] + QUAD - 1
    /\ cell[2] \in b[2] .. b[2] + QUAD - 1

InSize(cell) == cell[1] < grid_size_x_val /\ cell[2] < grid_size_y_val

clamp_val(v, lo, hi) == IF v < lo THEN lo ELSE IF v > hi THEN hi ELSE v

Dark == [cell \in Cell |-> 0]
Clean == [q \in Quad |-> FALSE]

Init ==
    /\ grid_size_x_val = 2 * QUAD /\ grid_size_y_val = QUAD
    /\ grid_led = Dark /\ grid_dirty = Clean
    /\ grid_intensity_val = MAX_LEVEL /\ grid_intensity_pending = FALSE
    /\ grid_refresh_pending = FALSE
    /\ grid_connected = FALSE
    /\ link = "down" /\ shown = Dark
    /\ shown_intensity = DEFAULT_INTENSITY

---------------------------------------------------------------------------
(* Lua bindings.                                                           *)

Relative(z, rel, cell) ==
    clamp_val(IF rel THEN z + grid_led[cell] ELSE z, 0, MAX_LEVEL)

l_grid_led(cell, z, rel) ==
    /\ InSize(cell)
    /\ grid_led' = [grid_led EXCEPT ![cell] = Relative(z, rel, cell)]
    /\ grid_dirty' = [grid_dirty EXCEPT ![QuadOf(cell)] = TRUE]
    /\ UNCHANGED <<sizeVars, intensityVars, grid_refresh_pending,
                   grid_connected, deviceVars>>

\* Mutant: a relative change marks nothing.
l_grid_led_all_clean(z, rel) ==
    /\ grid_led' = [cell \in Cell |-> IF InSize(cell) THEN Relative(z, rel, cell)
                                      ELSE grid_led[cell]]
    /\ grid_dirty' = [q \in Quad |-> grid_dirty[q] \/ ~rel]
    /\ UNCHANGED <<sizeVars, intensityVars, grid_refresh_pending,
                   grid_connected, deviceVars>>

l_grid_led_all(z, rel) ==
    /\ grid_led' = [cell \in Cell |-> IF InSize(cell) THEN Relative(z, rel, cell)
                                      ELSE grid_led[cell]]
    /\ grid_dirty' = [q \in Quad |-> TRUE]
    /\ UNCHANGED <<sizeVars, intensityVars, grid_refresh_pending,
                   grid_connected, deviceVars>>

\* The argument is cut to a uint8_t, so that a negative one is the maximum.
l_grid_intensity(z) ==
    /\ grid_intensity_val' = IF z % 256 > MAX_LEVEL THEN MAX_LEVEL ELSE z % 256
    /\ grid_intensity_pending' = TRUE
    /\ grid_refresh_pending' = TRUE
    /\ UNCHANGED <<sizeVars, ledVars, grid_connected, deviceVars>>

l_grid_refresh ==
    /\ grid_refresh_pending' = TRUE
    /\ UNCHANGED <<sizeVars, ledVars, intensityVars, grid_connected, deviceVars>>

---------------------------------------------------------------------------
(* The refresh, at the end of device_task.                                 *)

\* The dirty blocks that begin within the size.
Sent == {b \in Block : InSize(b) /\ grid_dirty[grid_quad_idx(b[1], b[2])]}

\* LEVEL_MAP: 64 levels, those beyond the size dark.
LevelMaps ==
    [cell \in Cell |-> IF \E b \in Sent : InBlock(cell, b)
                      THEN IF InSize(cell) THEN grid_led[cell] ELSE 0
                      ELSE shown[cell]]

\* Mutant: the intensity is taken for sent before the connection is tested.
grid_send_refresh_unconnected ==
    /\ ~grid_connected
    /\ grid_intensity_pending' = FALSE
    /\ UNCHANGED <<grid_dirty, shown, shown_intensity>>

grid_send_refresh ==
    \/ /\ ~grid_connected
       /\ UNCHANGED <<grid_dirty, grid_intensity_pending, shown, shown_intensity>>
    \/ /\ grid_connected
       /\ grid_intensity_pending' = FALSE
       /\ grid_dirty' = [q \in Quad |->
             grid_dirty[q] /\ \A b \in Sent : grid_quad_idx(b[1], b[2]) # q]
       /\ IF link = "up"
          THEN /\ shown' = LevelMaps
               /\ shown_intensity' = IF grid_intensity_pending THEN grid_intensity_val
                                                               ELSE shown_intensity
          ELSE UNCHANGED <<shown, shown_intensity>>

\* Without a pending refresh device_task sends nothing.
device_task ==
    /\ grid_refresh_pending /\ grid_refresh_pending' = FALSE
    /\ grid_send_refresh
    /\ UNCHANGED <<sizeVars, grid_led, grid_intensity_val, grid_connected, link>>

---------------------------------------------------------------------------
(* Connection.                                                             *)

AllCleared ==
    /\ grid_connected' = TRUE
    /\ grid_size_x_val' = 0 /\ grid_size_y_val' = 0
    /\ grid_led' = Dark /\ grid_dirty' = Clean
    /\ UNCHANGED <<intensityVars, grid_refresh_pending>>

\* Mutant: LED_ALL_OFF is not sent.
viii_grid_connect_keeps_leds ==
    /\ link # "down" /\ AllCleared
    /\ UNCHANGED <<link, shown, shown_intensity>>

\* LED_ALL_OFF ends the queries.  The second call, 300 ms later, which bridge.js
\* makes unless it has noticed by then that the link is lost.
viii_grid_connect ==
    /\ link # "down"
    /\ AllCleared
    /\ shown' = IF link = "up" THEN Dark ELSE shown
    /\ UNCHANGED <<link, shown_intensity>>

\* gridConnect opens the port, of a device that was powered anew or of one
\* that still shows its last levels, and calls viii_grid_connect.
PortOpened ==
    /\ link \in {"down", "lost"} /\ link' = "up"
    /\ AllCleared
    /\ shown' = Dark
    /\ shown_intensity' \in {shown_intensity, DEFAULT_INTENSITY}

\* The answer to the size query: both sizes come in one message.
SizeAnswered ==
    /\ link = "up"
    /\ grid_size_x_val' = DeviceX /\ grid_size_y_val' = DeviceY
    /\ UNCHANGED <<ledVars, intensityVars, grid_refresh_pending,
                   grid_connected, deviceVars>>

\* The device is unplugged, or a read or a write failed: the device_web.c side
\* is not told, and from here on what it sends is dropped.
LinkLost ==
    /\ link = "up" /\ link' = "lost"
    /\ UNCHANGED <<sizeVars, ledVars, intensityVars, grid_refresh_pending,
                   grid_connected, shown, shown_intensity>>

viii_grid_disconnect ==
    /\ link # "down" /\ link' = "down"
    /\ grid_connected' = FALSE
    /\ UNCHANGED <<sizeVars, ledVars, intensityVars, grid_refresh_pending,
                   shown, shown_intensity>>

Next ==
    \/ \E cell \in Cell, z \in Level, rel \in BOOLEAN : l_grid_led(cell, z, rel)
    \/ \E z \in Level, rel \in BOOLEAN : l_grid_led_all(z, rel)
    \/ \E z \in Level : l_grid_intensity(z)
    \/ l_grid_refresh
    \/ device_task
    \/ viii_grid_connect \/ PortOpened \/ SizeAnswered \/ LinkLost \/ viii_grid_disconnect

Spec == Init /\ [][Next]_vars

\* bridge.js calls viii_loop again and again, and each call runs device_task.
FairSpec == Spec /\ WF_vars(device_task)

---------------------------------------------------------------------------
TypeOK ==
    /\ grid_size_x_val \in 0 .. MAX_GRID_X
    /\ grid_size_y_val \in 0 .. MAX_GRID_Y
    /\ grid_led \in [Cell -> 0 .. MAX_LEVEL]
    /\ grid_dirty \in [Quad -> BOOLEAN]
    /\ grid_intensity_val \in 0 .. MAX_LEVEL
    /\ grid_intensity_pending \in BOOLEAN
    /\ grid_refresh_pending \in BOOLEAN
    /\ grid_connected \in BOOLEAN
    /\ link \in {"down", "up", "lost"}
    /\ shown \in [Cell -> 0 .. MAX_LEVEL]
    /\ shown_intensity \in 0 .. MAX_LEVEL

\* What is not marked dirty is on the device: no LED change is ever forgotten
\* between a write to the buffer and the block that carries it, in whatever
\* order scripts write, refresh, connect and reconnect (grid_send_refresh
\* skips the blocks that are not dirty).
CleanIsShown ==
    link = "up" =>
        \A cell \in Cell :
            ~grid_dirty[QuadOf(cell)] => shown[cell] = grid_led[cell]

\* A device that answered its size shows the whole buffer once a refresh has
\* been carried out, though the refresh sends the dirty blocks only.
RefreshShowsAll ==
    [][device_task /\ grid_connected /\ link = "up"
        => \A cell \in Cell : InSize(cell) => shown'[cell] = grid_led[cell]]_vars

\* An intensity that a script asked for, connected or not, reaches a device,
\* though device_task forgets the refresh that l_grid_intensity asks for when
\* nothing is connected: if a device stays in the end, scripts go on refreshing,
\* and the link is not lost in silence meanwhile.  After a lost link the
\* intensity may be gone for good: the flag is cleared by a send that
\* gridSerialWrite drops, and no connect sets it again.
IntensityArrives ==
    [](grid_intensity_pending
         /\ [](link # "lost") /\ <>[](link = "up") /\ []<>grid_refresh_pending
       => <>(link = "up" /\ ~grid_intensity_pending
                         /\ shown_intensity = grid_intensity_val))
=============================================================================
