----------------------------- MODULE MextRxProofs -----------------------------
(***************************************************************************)
(* The framing of the mext stream, for every set of payload bytes and any  *)
(* number of connects: parser and device stand at the same byte, every     *)
(* message is dispatched once, and the size is the one last answered.      *)
(***************************************************************************)
EXTENDS MextRx, SequenceTheorems, TLAPS

\* The parser waits for a header, or is inside the message that the first
\* byte it keeps announced.
ParserState ==
    \/ mext_rx_expected = 0 /\ mext_rx_len = 0 /\ mext_rx_buf = <<>>
    \/ /\ mext_rx_len \in 1 .. mext_rx_expected - 1
       /\ Len(mext_rx_buf) = IF mext_rx_len < 3 THEN mext_rx_len ELSE 3
       /\ mext_rx_expected = mext_response_len(mext_rx_buf[1])

\* Between two messages the device has nothing under way.
DeviceState == left = 0 => frame = <<>>

\* What device_web.c takes for a size while it reads a message that was cut is
\* no answer.
NoAnswerUnsynced == ~synced => answer.x = Unknown /\ answer.y = Unknown

IInv == TypeOK /\ ParserState /\ DeviceState /\ FrameInSync /\ NoAnswerUnsynced
          /\ SizeIsAnswered

Byte == 0 .. 255

---------------------------------------------------------------------------
(* Lengths.                                                                *)

\* Parser and device agree on the length of every message a device sends.
LEMMA LengthsAgree ==
    \A header \in Message :
        /\ header \in Byte \ {PAD}
        /\ mext_response_len(header) = DeviceLen[header]
        /\ DeviceLen[header] \in 2 .. 33
        /\ mext_response_len(header) > 1 /\ DeviceLen[header] - 1 > 0
  BY DEF Message, DeviceLen, mext_response_len, Addr, Cmd, Byte, PAD

LEMMA LengthType == \A byte : mext_response_len(byte) \in 1 .. 33
  BY DEF mext_response_len

\* The response to the system query has three bytes.
LEMMA QueryLength == mext_response_len(0) = 3
  BY DEF mext_response_len, Addr, Cmd

---------------------------------------------------------------------------
(* The parser.                                                             *)


LEMMA DispatchTypes ==
    ASSUME TypeOK, NEW msg, mext_dispatch_message(msg),
           msg[1] = 0 /\ msg[2] = 5 => msg[3] \in Byte
    PROVE  /\ grid_size_x_val' \in 0 .. MAX_GRID_X
           /\ grid_size_y_val' \in 0 .. MAX_GRID_Y
           /\ arc_enc_count' \in 0 .. MAX_ENCODERS
           /\ device_is_arc' \in BOOLEAN
<1>1. CASE msg[1] = 3
  <2>1. /\ grid_size_x_val' = SizeIn(msg[2], grid_size_x_val, MAX_GRID_X)
        /\ grid_size_y_val' = SizeIn(msg[3], grid_size_y_val, MAX_GRID_Y)
        /\ UNCHANGED <<arc_enc_count, device_is_arc>>
    BY <1>1 DEF mext_dispatch_message, Discover
  <2>2. QED
    BY <2>1 DEF TypeOK, SizeIn, MAX_GRID_X, MAX_GRID_Y
<1>2. CASE msg[1] = 0 /\ msg[2] = 5
  <2>1. PICK count \in Byte : count = msg[3]
    BY <1>2
  <2>2. arc_count(count) \in 0 .. MAX_ENCODERS
    BY DEF arc_count, Byte, MAX_ENCODERS
  <2>3. /\ arc_enc_count' = arc_count(count)
        /\ device_is_arc' = (device_is_arc \/ arc_count(count) > 0)
        /\ UNCHANGED <<grid_size_x_val, grid_size_y_val>>
    BY <1>2, <2>1 DEF mext_dispatch_message, Discover
  <2>4. QED  BY <2>2, <2>3 DEF TypeOK
<1>3. CASE ~(msg[1] = 3) /\ ~(msg[1] = 0 /\ msg[2] = 5)
  <2>1. UNCHANGED discoveryVars
    BY <1>3 DEF mext_dispatch_message, Discover
  <2>2. QED  BY <2>1 DEF TypeOK, discoveryVars
<1>4. QED  BY <1>1, <1>2, <1>3

\* What consuming a byte does to the parser, and what it dispatches.
LEMMA ConsumeType ==
    ASSUME TypeOK, ParserState, NEW byte \in Byte, mext_rx_consume_byte(byte)
    PROVE  /\ mext_rx_len' \in 0 .. 32 /\ mext_rx_expected' \in {0} \cup 2 .. 33
           /\ mext_rx_buf' \in Seq(Byte) /\ Len(mext_rx_buf') <= 3
           /\ grid_size_x_val' \in 0 .. MAX_GRID_X
           /\ grid_size_y_val' \in 0 .. MAX_GRID_Y
           /\ arc_enc_count' \in 0 .. MAX_ENCODERS
           /\ device_is_arc' \in BOOLEAN
           /\ ParserState'
<1> USE DEF TypeOK, ParserState, Byte
<1>1. CASE WaitsForHeader /\ (byte = PAD \/ mext_response_len(byte) > 1)
  <2>1. UNCHANGED discoveryVars
    BY <1>1 DEF mext_rx_consume_byte, NoDispatch, WaitsForHeader
  <2>2. CASE UNCHANGED rxVars
    BY <2>1, <2>2 DEF rxVars, discoveryVars
  <2>3. CASE ~UNCHANGED rxVars
    <3>1. /\ mext_rx_buf' = <<byte>> /\ mext_rx_len' = 1
          /\ mext_rx_expected' = mext_response_len(byte)
          /\ mext_response_len(byte) > 1
      BY <1>1, <2>3 DEF mext_rx_consume_byte, WaitsForHeader
    <3>2. mext_rx_expected' \in 2 .. 33
      <4>1. mext_rx_expected' \in 1 .. 33 /\ mext_rx_expected' > 1
        BY <3>1, LengthType
      <4>2. QED  BY <4>1
    <3>3. /\ mext_rx_buf' \in Seq(0 .. 255) /\ Len(mext_rx_buf') = 1
          /\ mext_rx_buf'[1] = byte
      BY <3>1
    <3>4. mext_rx_len' \in 1 .. mext_rx_expected' - 1
      BY <3>1, <3>2
    <3>5. mext_rx_expected' = mext_response_len(mext_rx_buf'[1])
      BY <3>1, <3>3
    <3>6. ParserState'
      BY <3>1, <3>3, <3>4, <3>5
    <3>7. QED  BY <2>1, <3>1, <3>2, <3>3, <3>6 DEF discoveryVars
  <2>4. QED  BY <2>2, <2>3
<1>2. CASE WaitsForHeader /\ byte # PAD /\ ~(mext_response_len(byte) > 1)
  <2>1. ParserReset /\ mext_dispatch_message(<<byte>>)
    BY <1>2 DEF mext_rx_consume_byte, WaitsForHeader
  <2>2. byte # 0
    BY <1>2, QueryLength
  <2>3. QED  BY <2>1, <2>2, DispatchTypes DEF ParserReset
<1>3. CASE ~WaitsForHeader
  <2> DEFINE msg == Collected(byte)
  <2>1. mext_rx_len \in 1 .. mext_rx_expected - 1 /\ mext_rx_expected \in 2 .. 33
    BY <1>3 DEF WaitsForHeader
  <2>2. /\ mext_rx_buf # <<>> /\ mext_rx_buf \in Seq(Byte)
        /\ Len(mext_rx_buf) = IF mext_rx_len < 3 THEN mext_rx_len ELSE 3
        /\ mext_rx_expected = mext_response_len(mext_rx_buf[1])
    BY <1>3, <2>1 DEF WaitsForHeader
  <2>3. /\ msg \in Seq(Byte) /\ msg[1] = mext_rx_buf[1]
        /\ Len(msg) = IF mext_rx_len + 1 < 3 THEN mext_rx_len + 1 ELSE 3
    <3>1. CASE Len(mext_rx_buf) < 3
      <4>1. msg = Append(mext_rx_buf, byte)
        BY <3>1 DEF Collected
      <4>2. QED  BY <2>1, <2>2, <3>1, <4>1
    <3>2. CASE ~(Len(mext_rx_buf) < 3)
      <4>1. msg = mext_rx_buf
        BY <3>2 DEF Collected
      <4>2. QED  BY <2>1, <2>2, <3>2, <4>1
    <3>3. QED  BY <3>1, <3>2
  <2> HIDE DEF msg
  <2>4. CASE Completes
    <3>1. ParserReset /\ mext_dispatch_message(msg)
      BY <1>3, <2>4 DEF mext_rx_consume_byte, msg
    <3>2. ASSUME msg[1] = 0 PROVE msg[3] \in Byte
      <4>1. mext_rx_expected = 3
        BY <2>2, <2>3, <3>2, QueryLength
      <4>2. mext_rx_len = 2
        BY <2>1, <2>4, <4>1 DEF Completes
      <4>3. Len(msg) = 3
        BY <2>3, <4>2
      <4>4. msg \in Seq(Byte)
        BY <2>3
      <4>5. 3 \in 1 .. Len(msg)
        BY <4>3
      <4>6. QED  BY <4>4, <4>5, ElementOfSeq, Zenon
    <3>3. QED  BY <3>1, <3>2, DispatchTypes DEF ParserReset
  <2>5. CASE ~Completes
    <3>1. /\ mext_rx_buf' = msg /\ mext_rx_len' = mext_rx_len + 1
          /\ mext_rx_expected' = mext_rx_expected /\ UNCHANGED discoveryVars
      BY <1>3, <2>5 DEF mext_rx_consume_byte, NoDispatch, msg
    <3>2. mext_rx_len + 1 < mext_rx_expected
      BY <2>1, <2>5 DEF Completes
    <3>3. ParserState'
      BY <2>1, <2>2, <2>3, <3>1, <3>2
    <3>4. mext_rx_len' \in 0 .. 32 /\ mext_rx_expected' \in {0} \cup 2 .. 33
      BY <2>1, <3>1, <3>2
    <3>5. mext_rx_buf' \in Seq(0 .. 255) /\ Len(mext_rx_buf') <= 3
      <4>1. msg \in Seq(0 .. 255) /\ Len(msg) <= 3
        BY <2>1, <2>3
      <4>2. QED  BY <3>1, <4>1
    <3>6. QED  BY <3>1, <3>3, <3>4, <3>5 DEF discoveryVars
  <2>6. QED  BY <2>4, <2>5
<1>4. QED  BY <1>1, <1>2, <1>3

---------------------------------------------------------------------------
(* The steps.                                                              *)

LEMMA AnswerType ==
    ASSUME TypeOK
    PROVE  /\ \A msg : Answered(msg) =>
                answer' \in [x : Unknown .. MAX_GRID_X, y : Unknown .. MAX_GRID_Y]
           /\ \A n \in {Unknown, 0} :
                [x |-> n, y |-> n] \in [x : Unknown .. MAX_GRID_X, y : Unknown .. MAX_GRID_Y]
BY DEF Answered, TypeOK, Unknown, MAX_GRID_X, MAX_GRID_Y

LEMMA TypeStep ==
    ASSUME TypeOK, ParserState, [Next]_vars
    PROVE  TypeOK' /\ ParserState'
<1> USE PayloadAssumption DEF TypeOK, Byte
<1>0. left \in 0 .. 32 /\ 0 \in 0 .. 32
  OBVIOUS
<1>1. CASE DevicePads
  <2>1. mext_rx_consume_byte(PAD) /\ PAD \in Byte
    BY <1>1 DEF DevicePads, PAD
  <2>2. /\ left' = left /\ frame' = frame /\ loaded' = loaded /\ connects' = connects
        /\ synced' \in BOOLEAN /\ answer' = answer
    BY <1>1 DEF DevicePads, Resync
  <2>3. QED  BY <2>1, <2>2, ConsumeType
<1>2. ASSUME NEW header \in Message, DeviceStarts(header) PROVE TypeOK' /\ ParserState'
  <2>1. mext_rx_consume_byte(header) /\ header \in Byte
    BY <1>2, LengthsAgree DEF DeviceStarts
  <2>2. /\ left' \in 0 .. 32 /\ frame' \in Seq(Byte) /\ loaded' = loaded
        /\ connects' = connects /\ synced' \in BOOLEAN /\ answer' = answer
    BY <1>2, <2>1, LengthsAgree DEF DeviceStarts, Resync
  <2>3. QED  BY <2>1, <2>2, ConsumeType
<1>3. ASSUME NEW byte \in Payload, DeviceContinues(byte) PROVE TypeOK' /\ ParserState'
  <2>1. mext_rx_consume_byte(byte) /\ byte \in Byte
    BY <1>3 DEF DeviceContinues
  <2>2. left' = left - 1 /\ left > 0 /\ (frame' = <<>> \/ frame' = frame \/ frame' = Append(frame, byte))
    BY <1>3 DEF DeviceContinues
  <2>3. left' \in 0 .. 32 /\ frame' \in Seq(Byte)
    <3>1. left' \in 0 .. 32
      BY <2>2
    <3>2. Append(frame, byte) \in Seq(Byte)
      BY <2>1
    <3>3. <<>> \in Seq(Byte)
      OBVIOUS
    <3>4. QED  BY <2>2, <3>1, <3>2, <3>3
  <2>4. loaded' = loaded /\ connects' = connects /\ synced' \in BOOLEAN
    BY <1>3 DEF DeviceContinues, Resync
  <2>5. answer' \in [x : Unknown .. MAX_GRID_X, y : Unknown .. MAX_GRID_Y]
    BY <1>3, AnswerType DEF DeviceContinues
  <2>6. QED  BY <2>1, <2>3, <2>4, <2>5, ConsumeType
<1>4. CASE viii_grid_connect \/ device_init
  <2>1. ParserReset /\ ParserState'
    BY <1>4 DEF viii_grid_connect, device_init, ParserReset, ParserState
  <2>2. /\ loaded' \in BOOLEAN /\ synced' \in BOOLEAN /\ device_is_arc' \in BOOLEAN
        /\ connects' \in 0 .. MaxConnects
    <3>1. CASE viii_grid_connect
      <4>1. connects' = connects + 1 /\ connects < MaxConnects
        BY <3>1 DEF viii_grid_connect
      <4>2. connects' \in 0 .. MaxConnects
        BY <4>1
      <4>3. loaded' = loaded /\ synced' \in BOOLEAN /\ device_is_arc' = FALSE
        BY <3>1 DEF viii_grid_connect
      <4>4. QED  BY <4>2, <4>3
    <3>2. CASE device_init
      BY <3>2 DEF device_init
    <3>3. QED  BY <1>4, <3>1, <3>2
  <2>3. /\ grid_size_x_val' \in {0, grid_size_x_val}
        /\ grid_size_y_val' \in {0, grid_size_y_val}
        /\ arc_enc_count' \in {0, arc_enc_count}
        /\ left' = 0 \/ left' = left
        /\ frame' = <<>> \/ frame' = frame
    BY <1>4 DEF viii_grid_connect, device_init
  <2>4. QED
    <3>1. mext_rx_len' = 0 /\ mext_rx_expected' = 0 /\ mext_rx_buf' = <<>>
      BY <2>1 DEF ParserReset
    <3>2. /\ grid_size_x_val' \in 0 .. MAX_GRID_X /\ grid_size_y_val' \in 0 .. MAX_GRID_Y
          /\ arc_enc_count' \in 0 .. MAX_ENCODERS
      BY <2>3 DEF MAX_GRID_X, MAX_GRID_Y, MAX_ENCODERS
    <3>3. left' \in 0 .. 32 /\ frame' \in Seq(0 .. 255)
      <4>1. left' \in 0 .. 32
        BY <1>0, <2>3, Zenon
      <4>2. <<>> \in Seq(0 .. 255)
        OBVIOUS
      <4>3. QED  BY <2>3, <4>1, <4>2
    <3>4. answer' \in [x : Unknown .. MAX_GRID_X, y : Unknown .. MAX_GRID_Y]
      BY <1>4, AnswerType DEF viii_grid_connect, device_init
    <3>5. QED  BY <2>1, <2>2, <3>1, <3>2, <3>3, <3>4
<1>5. ASSUME NEW is_arc \in BOOLEAN, viii_set_arc_mode(is_arc)
      PROVE  TypeOK' /\ ParserState'
  BY <1>5 DEF viii_set_arc_mode, rxVars, ParserState, MAX_ENCODERS
<1>6. CASE UNCHANGED vars
  BY <1>6 DEF vars, ParserState
<1>7. QED  BY <1>1, <1>2, <1>3, <1>4, <1>5, <1>6 DEF Next

\* Frame by frame; on the way, what a byte dispatches when parser and device
\* stand at the same one.
LEMMA FrameStep ==
    ASSUME IInv, [Next]_vars
    PROVE  /\ DeviceState' /\ FrameInSync'
           /\ [synced => dispatched' = completed']_vars
<1> USE DEF IInv, TypeOK, ParserState, DeviceState, FrameInSync
<1>1. CASE DevicePads
  <2>1. left = 0 /\ left' = 0 /\ frame' = <<>> /\ completed' = <<>>
    BY <1>1 DEF DevicePads
  <2>2. CASE synced
    <3>1. mext_rx_expected = 0
      BY <2>1, <2>2
    <3>2. UNCHANGED rxVars /\ dispatched' = <<>> /\ synced' = TRUE
      BY <1>1, <2>2, <3>1
         DEF DevicePads, mext_rx_consume_byte, WaitsForHeader, NoDispatch, Resync
    <3>3. QED  BY <2>1, <2>2, <3>1, <3>2 DEF rxVars
  <2>3. CASE ~synced
    <3>1. ParserState'
      BY TypeStep
    <3>2. synced' => mext_rx_expected' = 0
      BY <1>1, <2>3 DEF DevicePads, Resync
    <3>3. QED  BY <2>1, <2>3, <3>1, <3>2
  <2>4. QED  BY <2>2, <2>3
<1>2. ASSUME NEW header \in Message, DeviceStarts(header)
      PROVE  /\ DeviceState' /\ FrameInSync'
             /\ synced => dispatched' = completed'
  <2>1. /\ left = 0 /\ left' = DeviceLen[header] - 1 /\ frame' = <<header>>
        /\ completed' = <<>> /\ left' > 0
    <3>1. /\ left = 0 /\ left' = DeviceLen[header] - 1 /\ frame' = <<header>>
          /\ completed' = <<>>
      BY <1>2 DEF DeviceStarts
    <3>2. DeviceLen[header] - 1 > 0
      BY LengthsAgree
    <3>3. QED  BY <3>1, <3>2, Zenon
  <2>2. CASE synced
    <3>1. mext_rx_expected = 0
      BY <2>1, <2>2
    <3>2. /\ mext_rx_buf' = <<header>> /\ mext_rx_len' = 1
          /\ mext_rx_expected' = DeviceLen[header] /\ dispatched' = <<>>
      <4>1. mext_rx_consume_byte(header) /\ header # PAD /\ mext_response_len(header) > 1
            /\ mext_response_len(header) = DeviceLen[header]
        <5>1. mext_rx_consume_byte(header)
          BY <1>2 DEF DeviceStarts
        <5>2. header # PAD /\ mext_response_len(header) = DeviceLen[header]
          BY LengthsAgree
        <5>3. mext_response_len(header) > 1
          BY LengthsAgree
        <5>4. QED  BY <5>1, <5>2, <5>3
      <4>2. QED
        BY <3>1, <4>1 DEF mext_rx_consume_byte, WaitsForHeader, NoDispatch
    <3>3. QED  BY <2>1, <3>2
  <2>3. CASE ~synced
    BY <1>2, <2>1, <2>3 DEF DeviceStarts, Resync
  <2>4. QED  BY <2>2, <2>3
<1>3. ASSUME NEW byte \in Payload, DeviceContinues(byte)
      PROVE  /\ DeviceState' /\ FrameInSync'
             /\ synced => dispatched' = completed'
  <2> DEFINE sent == IF Len(frame) < 3 THEN Append(frame, byte) ELSE frame
  <2>1. /\ left > 0 /\ left' = left - 1 /\ mext_rx_consume_byte(byte)
        /\ IF left = 1 THEN frame' = <<>> /\ completed' = sent
                       ELSE frame' = sent /\ completed' = <<>>
        /\ synced' = (synced \/ (left' = 0 /\ mext_rx_expected' = 0))
    BY <1>3 DEF DeviceContinues, Resync
  <2>2. CASE synced
    <3>1. ~WaitsForHeader /\ Collected(byte) = sent
          /\ (Completes <=> left = 1)
      BY <2>1, <2>2 DEF WaitsForHeader, Collected, Completes
    <3>2. CASE left = 1
      <4>1. ParserReset /\ dispatched' = sent
        BY <2>1, <3>1, <3>2 DEF mext_rx_consume_byte, mext_dispatch_message
      <4>2. QED  BY <2>1, <3>2, <4>1 DEF ParserReset
    <3>3. CASE left # 1
      <4>1. /\ mext_rx_buf' = sent /\ mext_rx_len' = mext_rx_len + 1
            /\ mext_rx_expected' = mext_rx_expected /\ dispatched' = <<>>
        BY <2>1, <3>1, <3>3 DEF mext_rx_consume_byte, NoDispatch
      <4>2. frame' = sent /\ completed' = <<>> /\ left' # 0
        BY <2>1, <3>3
      <4>3. QED  BY <2>1, <2>2, <4>1, <4>2
    <3>4. QED  BY <3>2, <3>3
  <2>3. CASE ~synced
    <3>1. ParserState'
      BY TypeStep
    <3>2. left' = 0 => frame' = <<>>
      BY <2>1
    <3>3. QED  BY <2>1, <2>3, <3>1, <3>2
  <2>4. QED  BY <2>2, <2>3
<1>4. CASE viii_grid_connect \/ device_init
  <2>1. mext_rx_expected' = 0 /\ mext_rx_len' = 0 /\ mext_rx_buf' = <<>>
    BY <1>4 DEF viii_grid_connect, device_init, ParserReset
  <2>2. /\ synced' => left' = 0
        /\ left' = 0 => frame' = <<>>
    BY <1>4 DEF viii_grid_connect, device_init
  <2>3. dispatched' = completed'
    BY <1>4 DEF viii_grid_connect, device_init
  <2>4. QED  BY <2>1, <2>2, <2>3
<1>5. ASSUME NEW is_arc \in BOOLEAN, viii_set_arc_mode(is_arc)
      PROVE  /\ DeviceState' /\ FrameInSync'
             /\ dispatched' = completed'
  BY <1>5 DEF viii_set_arc_mode, rxVars
<1>6. CASE UNCHANGED vars
  BY <1>6 DEF vars
<1>7. QED  BY <1>1, <1>2, <1>3, <1>4, <1>5, <1>6 DEF Next

LEMMA SizeMessage ==
    ASSUME NEW msg, msg[1] = 3, Discover(msg)
    PROVE  /\ grid_size_x_val' = SizeIn(msg[2], grid_size_x_val, MAX_GRID_X)
           /\ grid_size_y_val' = SizeIn(msg[3], grid_size_y_val, MAX_GRID_Y)
BY DEF Discover

\* The sizes are those answered: while parser and device stand at the same byte
\* what is dispatched is what the device has completed, and before that nothing
\* is taken for an answer.
LEMMA SizeStep ==
    ASSUME IInv, [Next]_vars
    PROVE  NoAnswerUnsynced' /\ SizeIsAnswered'
<1> USE DEF NoAnswerUnsynced, SizeIsAnswered
<1>1. IInv
  OBVIOUS
<1>2. CASE DevicePads \/ \E header \in Message : DeviceStarts(header)
  <2>1. PICK byte \in Byte : mext_rx_consume_byte(byte) /\ (byte = PAD \/ byte \in Message)
    <3>1. CASE DevicePads
      BY <3>1 DEF DevicePads, PAD, Byte
    <3>2. ASSUME NEW header \in Message, DeviceStarts(header)
          PROVE  header \in Byte /\ mext_rx_consume_byte(header)
      BY <3>2 DEF DeviceStarts, Message, Byte
    <3>3. QED  BY <1>2, <3>1, <3>2
  <2>2. left = 0 /\ answer' = answer /\ (synced => synced')
    BY <1>2 DEF DevicePads, DeviceStarts, Resync
  <2>3. CASE synced
    <3>1. WaitsForHeader
      BY <2>2, <2>3, <1>1 DEF IInv, FrameInSync, ParserState, TypeOK, WaitsForHeader
    <3>2. UNCHANGED discoveryVars
      BY <2>1, <3>1, LengthsAgree DEF mext_rx_consume_byte, NoDispatch
    <3>3. QED  BY <1>1, <2>2, <2>3, <3>2 DEF IInv, discoveryVars
  <2>4. CASE ~synced
    BY <1>1, <2>2, <2>4 DEF IInv
  <2>5. QED  BY <2>3, <2>4
<1>3. ASSUME NEW byte \in Payload, DeviceContinues(byte)
      PROVE  NoAnswerUnsynced' /\ SizeIsAnswered'
  <2> DEFINE sent == IF Len(frame) < 3 THEN Append(frame, byte) ELSE frame
  <2>1. /\ left > 0 /\ mext_rx_consume_byte(byte)
        /\ completed' = IF left = 1 THEN sent ELSE <<>>
        /\ synced => synced'
        /\ IF synced /\ completed' # <<>> /\ frame[1] = 3 THEN Answered(completed')
                                                       ELSE UNCHANGED answer
    BY <1>3 DEF DeviceContinues, Resync
  <2>2. CASE synced
    <3>1. /\ ~WaitsForHeader /\ Collected(byte) = sent
          /\ Completes <=> left = 1
          /\ frame # <<>> /\ frame \in Seq(Byte)
      BY <1>1, <2>1, <2>2
         DEF IInv, TypeOK, FrameInSync, ParserState, WaitsForHeader, Collected, Completes, Byte
    <3>2. sent # <<>> /\ sent[1] = frame[1]
      <4>1. byte \in Byte
        BY PayloadAssumption DEF Byte
      <4>2. QED  BY <3>1, <4>1
    <3>3. CASE left = 1
      <4>1. Discover(sent) /\ completed' = sent
        BY <2>1, <3>1, <3>3 DEF mext_rx_consume_byte, mext_dispatch_message
      <4>2. CASE frame[1] = 3
        <5>1. Answered(sent)
          BY <2>1, <2>2, <3>2, <4>1, <4>2
        <5>2. /\ grid_size_x_val' = SizeIn(sent[2], grid_size_x_val, MAX_GRID_X)
              /\ grid_size_y_val' = SizeIn(sent[3], grid_size_y_val, MAX_GRID_Y)
          <6>1. sent[1] = 3 /\ Discover(sent)
            BY <3>2, <4>1, <4>2
          <6>2. QED  BY <6>1, SizeMessage
        <5> HIDE DEF sent
        <5>3. /\ answer'.x = IF sent[2] \in 1 .. MAX_GRID_X THEN sent[2] ELSE answer.x
              /\ answer'.y = IF sent[3] \in 1 .. MAX_GRID_Y THEN sent[3] ELSE answer.y
          BY <5>1 DEF Answered
        <5>4. QED  BY <1>1, <2>1, <2>2, <5>2, <5>3 DEF IInv, SizeIn
      <4>3. CASE frame[1] # 3
        <5>1. UNCHANGED <<grid_size_x_val, grid_size_y_val>> /\ answer' = answer
          BY <2>1, <3>2, <4>1, <4>3 DEF Discover, discoveryVars
        <5>2. QED  BY <1>1, <2>1, <2>2, <5>1 DEF IInv
      <4>4. QED  BY <4>2, <4>3
    <3>4. CASE left # 1
      <4>1. UNCHANGED discoveryVars /\ answer' = answer
        BY <2>1, <3>1, <3>4 DEF mext_rx_consume_byte, NoDispatch
      <4>2. QED  BY <1>1, <2>1, <2>2, <4>1 DEF IInv, discoveryVars
    <3>5. QED  BY <3>3, <3>4
  <2>3. CASE ~synced
    BY <1>1, <2>1, <2>3 DEF IInv
  <2>4. QED  BY <2>2, <2>3
<1>4. CASE viii_grid_connect
  BY <1>4 DEF viii_grid_connect, Unknown
<1>5. CASE device_init
  BY <1>1, <1>5 DEF device_init, IInv, Unknown
<1>6. CASE \/ \E is_arc \in BOOLEAN : viii_set_arc_mode(is_arc)
           \/ UNCHANGED vars
  BY <1>1, <1>6 DEF viii_set_arc_mode, vars, IInv
<1>7. QED  BY <1>2, <1>3, <1>4, <1>5, <1>6 DEF Next

---------------------------------------------------------------------------
LEMMA InitInv == Init => IInv
<1> SUFFICES ASSUME Init PROVE IInv
  OBVIOUS
<1>1. <<>> \in Seq(0 .. 255) /\ Len(<<>>) = 0 /\ 0 \in 0 .. MaxConnects
  BY PayloadAssumption
<1>2. TypeOK
  <2>1. mext_rx_buf \in Seq(0 .. 255) /\ Len(mext_rx_buf) <= 3 /\ frame \in Seq(0 .. 255)
    BY <1>1 DEF Init
  <2>2. /\ mext_rx_len \in 0 .. 32 /\ mext_rx_expected \in {0} \cup 2 .. 33
        /\ left \in 0 .. 32 /\ connects \in 0 .. MaxConnects
    BY <1>1 DEF Init
  <2>3. /\ grid_size_x_val \in 0 .. MAX_GRID_X /\ grid_size_y_val \in 0 .. MAX_GRID_Y
        /\ arc_enc_count \in 0 .. MAX_ENCODERS
    BY DEF Init, MAX_GRID_X, MAX_GRID_Y, MAX_ENCODERS
  <2>4. device_is_arc \in BOOLEAN /\ loaded \in BOOLEAN /\ synced \in BOOLEAN
    BY DEF Init
  <2>5. answer \in [x : Unknown .. MAX_GRID_X, y : Unknown .. MAX_GRID_Y]
    BY DEF Init, Unknown, MAX_GRID_X, MAX_GRID_Y
  <2>6. QED  BY <2>1, <2>2, <2>3, <2>4, <2>5 DEF TypeOK
<1>3. ParserState /\ DeviceState /\ FrameInSync
  BY DEF Init, ParserState, DeviceState, FrameInSync
<1>4. NoAnswerUnsynced /\ SizeIsAnswered
  BY DEF Init, NoAnswerUnsynced, SizeIsAnswered
<1>5. QED  BY <1>2, <1>3, <1>4 DEF IInv

\* The invariant holds in every reachable state.
LEMMA Invariance == Spec => []IInv
<1>1. IInv /\ [Next]_vars => IInv'
  BY TypeStep, FrameStep, SizeStep DEF IInv
<1>2. QED  BY InitInv, <1>1, PTL DEF Spec

\* The parser's indexes, sizes and counts stay in the range of their C types,
\* whatever bytes come.
THEOREM ParserTypeCorrect == Spec => []TypeOK
<1>1. IInv => TypeOK
  BY DEF IInv
<1>2. QED  BY Invariance, <1>1, PTL

\* Parser and device stand at the same byte of the same message, once what a
\* reset cut in two is over.
THEOREM FramesAgree == Spec => []FrameInSync
<1>1. IInv => FrameInSync
  BY DEF IInv
<1>2. QED  BY Invariance, <1>1, PTL

\* Each message the device completes is dispatched, once, and nothing else is.
THEOREM MessagesWhole == Spec => WholeMessages
<1>1. IInv /\ [Next]_vars => [synced => dispatched' = completed']_vars
  BY FrameStep
<1>2. QED  BY Invariance, <1>1, PTL DEF Spec, WholeMessages

\* The size is the one answered since the last connect, for every stream of
\* messages, wherever a connect falls in it.
THEOREM SizeComesFromDevice == Spec => []SizeIsAnswered
<1>1. IInv => SizeIsAnswered
  BY DEF IInv
<1>2. QED  BY Invariance, <1>1, PTL

\* Encoder count and arc mode part in device_init and nowhere else.
THEOREM ModeFollowsCount == Spec => ArcModeKept
<1>1. IInv /\ [Next]_vars => [ArcHasEncoders => ArcHasEncoders' \/ device_init]_vars
  <2> SUFFICES ASSUME IInv, Next, ArcHasEncoders, ~device_init
               PROVE  ArcHasEncoders'
    OBVIOUS
  <2>1. CASE \/ DevicePads
             \/ \E header \in Message : DeviceStarts(header)
             \/ \E byte \in Payload : DeviceContinues(byte)
    <3>1. \/ UNCHANGED <<arc_enc_count, device_is_arc>>
          \/ \E msg : Discover(msg)
      BY <2>1 DEF DevicePads, DeviceStarts, DeviceContinues, mext_rx_consume_byte,
                  NoDispatch, discoveryVars, mext_dispatch_message
    <3>2. ASSUME NEW msg, Discover(msg) PROVE ArcHasEncoders'
      <4>1. \/ UNCHANGED <<arc_enc_count, device_is_arc>>
            \/ \E count : /\ arc_enc_count' = count
                          /\ device_is_arc' = (device_is_arc \/ count > 0)
        BY <3>2 DEF Discover, discoveryVars
      <4>2. QED  BY <4>1 DEF ArcHasEncoders
    <3>3. QED  BY <3>1, <3>2 DEF ArcHasEncoders
  <2>2. CASE viii_grid_connect
    BY <2>2 DEF viii_grid_connect, ArcHasEncoders
  <2>3. CASE \E is_arc \in BOOLEAN : viii_set_arc_mode(is_arc)
    BY <2>3 DEF viii_set_arc_mode, ArcHasEncoders
  <2>4. QED  BY <2>1, <2>2, <2>3 DEF Next
<1>2. QED  BY Invariance, <1>1, PTL DEF Spec, ArcModeKept
=============================================================================
