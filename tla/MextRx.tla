------------------------------- MODULE MextRx -------------------------------
(***************************************************************************)
(* The receive side of device_web.c: the parser that cuts the byte stream  *)
(* of a grid or an arc into mext messages, what each message does, and the *)
(* resets of viii_grid_connect, which bridge.js calls a second time 300 ms *)
(* after the first while the device is already answering.                  *)
(*                                                                         *)
(* The environment is the device: it sends whole messages, one byte at a   *)
(* time, with 0xFF padding between them.  Of a message only the first      *)
(* three bytes are kept: no handler reads further.                         *)
(***************************************************************************)
EXTENDS Integers, Sequences

CONSTANTS Payload,     \* the bytes that follow a header; any of them may look
                       \* like a header
          MaxConnects  \* bound: calls of viii_grid_connect in a behaviour

ASSUME PayloadAssumption == Payload \subseteq 0 .. 255 /\ MaxConnects \in Nat

MAX_GRID_X == 16
MAX_GRID_Y == 16
MAX_ENCODERS == 4
PAD == 255

VARIABLES
    mext_rx_buf,      \* the first three bytes collected
    mext_rx_len,
    mext_rx_expected,
    grid_size_x_val, grid_size_y_val,
    arc_enc_count, device_is_arc,
    event,            \* the event queued by the last byte, or NoEvent
    frame,            \* device: first three bytes sent of its message
    left,             \* device: bytes still to send of its message
    dispatched,       \* history: the message the last byte dispatched
    completed,        \* history: the message the last byte completed
    loaded,           \* viii_init, and with it device_init, has been called
    connects,         \* history: calls of viii_grid_connect
    synced,           \* history: since parser and device were last both between
                      \* two messages, no reset cut a message in two
    answer            \* history: the size the device has answered since the last
                      \* connect, Unknown since a message was cut in two

vars == <<mext_rx_buf, mext_rx_len, mext_rx_expected, grid_size_x_val,
          grid_size_y_val, arc_enc_count, device_is_arc, event, frame, left,
          dispatched, completed, loaded, connects, synced, answer>>

rxVars == <<mext_rx_buf, mext_rx_len, mext_rx_expected>>
discoveryVars == <<grid_size_x_val, grid_size_y_val, arc_enc_count,
                   device_is_arc>>

NoEvent == [type |-> "none"]

Unknown == -1

Addr(byte) == byte \div 16
Cmd(byte) == byte % 16

Init ==
    /\ mext_rx_buf = <<>> /\ mext_rx_len = 0 /\ mext_rx_expected = 0
    /\ grid_size_x_val = 16 /\ grid_size_y_val = 8
    /\ arc_enc_count = 0 /\ device_is_arc = FALSE
    /\ event = NoEvent
    /\ frame = <<>> /\ left = 0
    /\ dispatched = <<>> /\ completed = <<>>
    /\ loaded = FALSE /\ connects = 0 /\ synced = TRUE
    /\ answer = [x |-> 16, y |-> 8]

---------------------------------------------------------------------------
(* The parser.                                                             *)

\* Mutant: all encoder messages are as long as the encoder delta.
mext_response_len_long(header) ==
    IF Addr(header) \in {0, 2, 5} THEN 3 ELSE 1

\* Header byte to total message length.
mext_response_len(header) ==
    LET addr == Addr(header) cmd == Cmd(header) IN
    CASE addr = 0 /\ cmd \in {0, 3, 4} -> 3
      [] addr = 0 /\ cmd = 1  -> 33
      [] addr = 0 /\ cmd = 2  -> 4
      [] addr = 0 /\ cmd = 15 -> 9
      [] addr = 2 /\ cmd \in {0, 1} -> 3
      [] addr = 5 /\ cmd = 0 -> 3
      [] addr = 5 /\ cmd \in {1, 2} -> 2
      [] addr = 8 /\ cmd = 0 -> 2
      [] addr = 8 /\ cmd = 1 -> 8
      [] OTHER -> 1

\* An int8_t read from a byte.
Int8(byte) == IF byte < 128 THEN byte ELSE byte - 256

KeyEvent(msg, z) ==
    IF device_is_arc THEN [type |-> "enc_key", n |-> msg[2], z |-> z]
                     ELSE [type |-> "grid_key", x |-> msg[2], y |-> msg[3], z |-> z]

EventOf(msg) ==
    LET addr == Addr(msg[1]) cmd == Cmd(msg[1]) IN
    CASE addr = 2 /\ cmd \in {0, 1} -> KeyEvent(msg, cmd)
      [] addr = 5 /\ cmd = 0 ->
           [type |-> "enc_delta", n |-> msg[2], delta |-> Int8(msg[3])]
      [] addr = 5 /\ cmd \in {1, 2} ->
           [type |-> "enc_key", n |-> msg[2], z |-> cmd - 1]
      [] OTHER -> NoEvent

arc_count(count) == IF count > MAX_ENCODERS THEN MAX_ENCODERS ELSE count

\* Mutant: only the upper bound of a size is tested.
SizeIn_upper(size, known, max) == IF size <= max THEN size ELSE known

\* A size of 0, or beyond the LED buffer, is ignored.
SizeIn(size, known, max) == IF size \in 1 .. max THEN size ELSE known

\* The responses to the discovery queries.
Discover(msg) ==
    CASE msg[1] = 3 ->
           /\ grid_size_x_val' = SizeIn(msg[2], grid_size_x_val, MAX_GRID_X)
           /\ grid_size_y_val' = SizeIn(msg[3], grid_size_y_val, MAX_GRID_Y)
           /\ UNCHANGED <<arc_enc_count, device_is_arc>>
      [] msg[1] = 0 /\ msg[2] = 5 ->
           /\ arc_enc_count' = arc_count(msg[3])
           /\ device_is_arc' = (device_is_arc \/ arc_count(msg[3]) > 0)
           /\ UNCHANGED <<grid_size_x_val, grid_size_y_val>>
      [] OTHER -> UNCHANGED discoveryVars

mext_dispatch_message(msg) ==
    /\ Discover(msg)
    /\ event' = EventOf(msg)
    /\ dispatched' = msg

ParserReset ==
    mext_rx_buf' = <<>> /\ mext_rx_len' = 0 /\ mext_rx_expected' = 0

NoDispatch ==
    event' = NoEvent /\ dispatched' = <<>> /\ UNCHANGED discoveryVars

Collected(byte) ==
    IF Len(mext_rx_buf) < 3 THEN Append(mext_rx_buf, byte) ELSE mext_rx_buf

WaitsForHeader == mext_rx_expected = 0

\* Mutant: the message is taken for complete one byte early.
Completes_early == mext_rx_len + 2 >= mext_rx_expected

Completes == mext_rx_len + 1 >= mext_rx_expected

mext_rx_consume_byte(byte) ==
    \/ /\ WaitsForHeader /\ byte = PAD
       /\ NoDispatch /\ UNCHANGED rxVars
    \/ /\ WaitsForHeader /\ byte # PAD
       /\ IF mext_response_len(byte) > 1
          THEN /\ mext_rx_buf' = <<byte>> /\ mext_rx_len' = 1
               /\ mext_rx_expected' = mext_response_len(byte)
               /\ NoDispatch
          ELSE ParserReset /\ mext_dispatch_message(<<byte>>)
    \/ /\ ~WaitsForHeader
       /\ IF Completes
          THEN ParserReset /\ mext_dispatch_message(Collected(byte))
          ELSE /\ mext_rx_buf' = Collected(byte)
               /\ mext_rx_len' = mext_rx_len + 1
               /\ NoDispatch /\ UNCHANGED mext_rx_expected

---------------------------------------------------------------------------
(* The device, from the message layouts quoted in device_web.c.            *)

Message == {0, 1, 2, 3, 15, 32, 33, 80, 81, 82, 128, 129}

DeviceLen == [header \in Message |->
    CASE header \in {0, 3, 32, 33, 80} -> 3
      [] header \in {81, 82, 128} -> 2
      [] header = 1 -> 33
      [] header = 2 -> 4
      [] header = 15 -> 9
      [] header = 129 -> 8]

\* Parser and device are again between two messages: what was lost is over.
Resync == synced' = (synced \/ (left' = 0 /\ mext_rx_expected' = 0))

DevicePads ==
    /\ left = 0
    /\ mext_rx_consume_byte(PAD)
    /\ completed' = <<>>
    /\ UNCHANGED <<frame, left, loaded, connects, answer>> /\ Resync

DeviceStarts(header) ==
    /\ left = 0
    /\ mext_rx_consume_byte(header)
    /\ frame' = <<header>> /\ left' = DeviceLen[header] - 1
    /\ completed' = <<>>
    /\ UNCHANGED <<loaded, connects, answer>> /\ Resync

\* What a size answer tells: a device without a grid says 0.
Answered(msg) ==
    answer' = [x |-> IF msg[2] \in 1 .. MAX_GRID_X THEN msg[2] ELSE answer.x,
               y |-> IF msg[3] \in 1 .. MAX_GRID_Y THEN msg[3] ELSE answer.y]

DeviceContinues(byte) ==
    /\ left > 0
    /\ mext_rx_consume_byte(byte)
    /\ left' = left - 1
    /\ LET sent == IF Len(frame) < 3 THEN Append(frame, byte) ELSE frame IN
       IF left = 1
       THEN frame' = <<>> /\ completed' = sent
       ELSE frame' = sent /\ completed' = <<>>
    /\ IF synced /\ completed' # <<>> /\ frame[1] = 3 THEN Answered(completed')
                                                   ELSE UNCHANGED answer
    /\ UNCHANGED <<loaded, connects>> /\ Resync

---------------------------------------------------------------------------
(* The calls of bridge.js.                                                 *)

\* gridConnect: on a port just opened, where the rest of a message is lost or
\* still comes, and again 300 ms later in the middle of the stream.
viii_grid_connect ==
    /\ connects < MaxConnects /\ connects' = connects + 1
    /\ ParserReset
    /\ grid_size_x_val' = 0 /\ grid_size_y_val' = 0
    /\ arc_enc_count' = 0 /\ device_is_arc' = FALSE
    /\ event' = NoEvent /\ dispatched' = <<>> /\ completed' = <<>>
    /\ \/ UNCHANGED <<frame, left>>
       \/ frame' = <<>> /\ left' = 0
    /\ synced' = (left' = 0)
    /\ answer' = IF left' = 0 THEN [x |-> 0, y |-> 0] ELSE [x |-> Unknown, y |-> Unknown]
    /\ UNCHANGED loaded

\* From viii_init; a device can be connected before it, while the stored files
\* are being loaded.
device_init ==
    /\ ~loaded /\ loaded' = TRUE
    /\ ParserReset
    /\ device_is_arc' = FALSE
    /\ event' = NoEvent /\ dispatched' = <<>> /\ completed' = <<>>
    /\ synced' = (left = 0)
    /\ answer' = IF left = 0 THEN answer ELSE [x |-> Unknown, y |-> Unknown]
    /\ UNCHANGED <<grid_size_x_val, grid_size_y_val, arc_enc_count, frame, left,
                   connects>>

\* Mutant: leaving arc mode keeps the encoder count.
viii_set_arc_mode_only(is_arc) ==
    /\ device_is_arc' = is_arc
    /\ event' = NoEvent /\ dispatched' = <<>> /\ completed' = <<>>
    /\ UNCHANGED <<rxVars, grid_size_x_val, grid_size_y_val, arc_enc_count,
                   frame, left, loaded, connects, synced, answer>>

\* syncDetectedDevice, with whatever detectedArc bridge.js last settled on.
viii_set_arc_mode(is_arc) ==
    /\ device_is_arc' = is_arc
    /\ arc_enc_count' = IF is_arc THEN arc_enc_count ELSE 0
    /\ event' = NoEvent /\ dispatched' = <<>> /\ completed' = <<>>
    /\ UNCHANGED <<rxVars, grid_size_x_val, grid_size_y_val, frame, left,
                   loaded, connects, synced, answer>>

Next ==
    \/ DevicePads
    \/ \E header \in Message : DeviceStarts(header)
    \/ \E byte \in Payload : DeviceContinues(byte)
    \/ viii_grid_connect \/ device_init
    \/ \E is_arc \in BOOLEAN : viii_set_arc_mode(is_arc)

Spec == Init /\ [][Next]_vars

---------------------------------------------------------------------------
TypeOK ==
    /\ mext_rx_len \in 0 .. 32 /\ mext_rx_expected \in {0} \cup 2 .. 33
    /\ mext_rx_buf \in Seq(0 .. 255) /\ Len(mext_rx_buf) <= 3
    /\ grid_size_x_val \in 0 .. MAX_GRID_X
    /\ grid_size_y_val \in 0 .. MAX_GRID_Y
    /\ arc_enc_count \in 0 .. MAX_ENCODERS
    /\ device_is_arc \in BOOLEAN /\ loaded \in BOOLEAN /\ synced \in BOOLEAN
    /\ frame \in Seq(0 .. 255) /\ left \in 0 .. 32
    /\ connects \in 0 .. MaxConnects
    /\ answer \in [x : Unknown .. MAX_GRID_X, y : Unknown .. MAX_GRID_Y]

\* The parser never waits for a byte that does not come in the same message:
\* as long as no reset cut a message in two, it stands exactly where the
\* device stands (mext_rx_consume_byte against mext_response_len).
FrameInSync ==
    synced => /\ mext_rx_expected - mext_rx_len = left
              /\ mext_rx_buf = frame

\* Every message the device completes is dispatched once, at its last byte,
\* and nothing else of any effect is: no byte of a payload, padding or another
\* message is taken for a message.
WholeMessages == [][synced => dispatched' = completed']_vars

\* The size is what the device has answered since the last connect, and 0 up
\* to its first whole answer and no longer (an arc never gives one): no other
\* message, payload or padding, and no device_init between two messages, sets or
\* forgets it.  After a reset that cut a message in two, payload can be taken for
\* an answer: the size is Unknown here until the next answer that is received in
\* step.  grid_led_get divides by it.
SizeIsAnswered ==
    /\ answer.x # Unknown => grid_size_x_val = answer.x
    /\ answer.y # Unknown => grid_size_y_val = answer.y

\* arc_send_refresh, which goes by the encoder count, and the routing of keys,
\* which goes by the mode, agree on what the device is: the arc's count is
\* never kept for a device that left arc mode.  Only device_init, called after
\* a connect, clears the mode and keeps the count.
ArcHasEncoders == arc_enc_count > 0 => device_is_arc

ArcModeKept == [][ArcHasEncoders => ArcHasEncoders' \/ device_init]_vars

=============================================================================
