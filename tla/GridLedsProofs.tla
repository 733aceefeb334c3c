--------------------------- MODULE GridLedsProofs ---------------------------
(***************************************************************************)
(* What is not dirty is on the device, for every size of block and grid,   *)
(* every set of levels and every order of scripts, refreshes, connects and *)
(* lost links.                                                             *)
(*                                                                         *)
(* A block is sent with the LEDs beyond the size dark.  That agrees with   *)
(* the buffer since nothing is ever lit beyond the size (LitInSize), and   *)
(* this stays so when the size is answered since, on an open port, the     *)
(* size is none or the device's (SizeKnown).                               *)
(***************************************************************************)
EXTENDS GridLeds, TLAPS

LitInSize == \A cell \in Cell : grid_led[cell] # 0 => InSize(cell)

SizeKnown ==
    link = "up" => \/ grid_size_x_val = 0 /\ grid_size_y_val = 0
                   \/ grid_size_x_val = DeviceX /\ grid_size_y_val = DeviceY

IInv == TypeOK /\ LitInSize /\ SizeKnown /\ CleanIsShown

---------------------------------------------------------------------------
(* The four blocks.                                                        *)

\* The corner of the block a cell is in.
Corner(cell) == <<IF cell[1] >= QUAD THEN QUAD ELSE 0,
                  IF cell[2] >= QUAD THEN QUAD ELSE 0>>

\* Quads are numbered 0 to 3.
LEMMA QuadType == \A cell \in Cell : QuadOf(cell) \in Quad
  BY GridAssumption DEF QuadOf, grid_quad_idx, Quad, Cell, MAX_GRID_X, MAX_GRID_Y

\* A cell is in the block that begins at its corner, whose number is its own.
LEMMA CornerBlock ==
    ASSUME NEW cell \in Cell
    PROVE  /\ Corner(cell) \in Block
           /\ InBlock(cell, Corner(cell))
           /\ grid_quad_idx(Corner(cell)[1], Corner(cell)[2]) = QuadOf(cell)
           /\ Corner(cell)[1] <= cell[1] /\ Corner(cell)[2] <= cell[2]
  BY GridAssumption
     DEF Corner, Block, InBlock, QuadOf, grid_quad_idx, Cell, MAX_GRID_X, MAX_GRID_Y

\* The cells of a block are those with its number.
LEMMA BlockOfCell ==
    ASSUME NEW cell \in Cell, NEW b \in Block
    PROVE  InBlock(cell, b) <=> grid_quad_idx(b[1], b[2]) = QuadOf(cell)
  BY GridAssumption
     DEF Block, InBlock, QuadOf, grid_quad_idx, Cell, MAX_GRID_X, MAX_GRID_Y

\* Levels stay between 0 and the maximum.
LEMMA RelativeType ==
    ASSUME NEW z \in Level, NEW rel \in BOOLEAN, NEW cell \in Cell,
           grid_led \in [Cell -> 0 .. MAX_LEVEL]
    PROVE  Relative(z, rel, cell) \in 0 .. MAX_LEVEL
  BY GridAssumption DEF Relative, clamp_val

---------------------------------------------------------------------------
(* The refresh.                                                            *)

\* Every LED within the size shows the buffer after a refresh that is sent,
\* and every LED of a block that is clean then.
LEMMA RefreshShows ==
    ASSUME IInv, device_task, grid_connected, link = "up"
    PROVE  \A cell \in Cell :
             InSize(cell) \/ ~grid_dirty'[QuadOf(cell)] => shown'[cell] = grid_led[cell]
<1> SUFFICES ASSUME NEW cell \in Cell, InSize(cell) \/ ~grid_dirty'[QuadOf(cell)]
             PROVE  shown'[cell] = grid_led[cell]
  OBVIOUS
<1> DEFINE q == QuadOf(cell)
<1>1. q \in Quad
  BY QuadType
<1>2. /\ shown' = LevelMaps
      /\ grid_dirty' = [p \in Quad |->
             grid_dirty[p] /\ \A b \in Sent : grid_quad_idx(b[1], b[2]) # p]
  BY DEF device_task, grid_send_refresh
<1>3. CASE \E b \in Sent : InBlock(cell, b)
  <2>1. shown'[cell] = IF InSize(cell) THEN grid_led[cell] ELSE 0
    BY <1>2, <1>3 DEF LevelMaps
  <2>2. QED  BY <2>1 DEF IInv, LitInSize
<1>4. CASE ~\E b \in Sent : InBlock(cell, b)
  <2>1. shown'[cell] = shown[cell]
    BY <1>2, <1>4 DEF LevelMaps
  <2>2. \A b \in Sent : grid_quad_idx(b[1], b[2]) # q
    BY <1>4, BlockOfCell DEF Sent
  <2>3. ~grid_dirty[q]
    <3>1. CASE InSize(cell)
      <4>1. /\ Corner(cell) \in Block /\ InBlock(cell, Corner(cell))
            /\ grid_quad_idx(Corner(cell)[1], Corner(cell)[2]) = q
            /\ Corner(cell)[1] <= cell[1] /\ Corner(cell)[2] <= cell[2]
        BY CornerBlock
      <4>2. InSize(Corner(cell))
        BY <3>1, <4>1, GridAssumption
           DEF InSize, IInv, TypeOK, Block, Cell, MAX_GRID_X, MAX_GRID_Y
      <4>3. Corner(cell) \notin Sent
        BY <1>4, <4>1
      <4>4. QED  BY <4>1, <4>2, <4>3 DEF Sent
    <3>2. CASE ~grid_dirty'[q]
      BY <3>2, <1>1, <1>2, <2>2
    <3>3. QED  BY <3>1, <3>2
  <2>4. QED  BY <2>1, <2>3 DEF IInv, CleanIsShown
<1>5. QED  BY <1>3, <1>4

---------------------------------------------------------------------------
(* The inductive invariant.                                                *)

LEMMA InitInv == Init => IInv
<1> SUFFICES ASSUME Init PROVE IInv
  OBVIOUS
<1>1. TypeOK
  <2>1. 2 * QUAD \in 0 .. MAX_GRID_X /\ QUAD \in 0 .. MAX_GRID_Y
    BY GridAssumption DEF MAX_GRID_X, MAX_GRID_Y
  <2>2. Dark \in [Cell -> 0 .. MAX_LEVEL] /\ Clean \in [Quad -> BOOLEAN]
    BY GridAssumption DEF Dark, Clean
  <2>3. MAX_LEVEL \in 0 .. MAX_LEVEL /\ DEFAULT_INTENSITY \in 0 .. MAX_LEVEL
    BY GridAssumption
  <2>4. QED  BY <2>1, <2>2, <2>3 DEF Init, TypeOK
<1>2. LitInSize
  BY DEF Init, LitInSize, Dark
<1>3. SizeKnown /\ CleanIsShown
  BY DEF Init, SizeKnown, CleanIsShown
<1>4. QED  BY <1>1, <1>2, <1>3 DEF IInv

\* Types.
LEMMA TypeStep == IInv /\ [Next]_vars => TypeOK'
<1> SUFFICES ASSUME IInv, [Next]_vars PROVE TypeOK'
  OBVIOUS
<1> USE GridAssumption DEF IInv, TypeOK
<1>1. ASSUME NEW cell \in Cell, NEW z \in Level, NEW rel \in BOOLEAN,
             l_grid_led(cell, z, rel)
      PROVE  TypeOK'
  <2>1. Relative(z, rel, cell) \in 0 .. MAX_LEVEL
    BY RelativeType
  <2>2. QED  BY <1>1, <2>1
        DEF l_grid_led, sizeVars, intensityVars, deviceVars
<1>2. ASSUME NEW z \in Level, NEW rel \in BOOLEAN, l_grid_led_all(z, rel)
      PROVE  TypeOK'
  <2>1. \A cell \in Cell : Relative(z, rel, cell) \in 0 .. MAX_LEVEL
    BY RelativeType
  <2>2. QED  BY <1>2, <2>1
        DEF l_grid_led_all, sizeVars, intensityVars, deviceVars
<1>3. ASSUME NEW z \in Level, l_grid_intensity(z) PROVE TypeOK'
  <2>1. z \in Int /\ z % 256 \in 0 .. 255
    OBVIOUS
  <2>2. grid_intensity_val' \in 0 .. MAX_LEVEL
    BY <1>3, <2>1 DEF l_grid_intensity
  <2>3. QED  BY <1>3, <2>2
        DEF l_grid_intensity, sizeVars, ledVars, deviceVars
<1>4. CASE l_grid_refresh
  BY <1>4 DEF l_grid_refresh, sizeVars, ledVars, intensityVars, deviceVars
<1>5. CASE device_task
  <2>1. shown' \in [Cell -> 0 .. MAX_LEVEL]
    BY <1>5 DEF device_task, grid_send_refresh, LevelMaps
  <2>2. /\ grid_dirty' \in [Quad -> BOOLEAN] /\ grid_intensity_pending' \in BOOLEAN
        /\ shown_intensity' \in 0 .. MAX_LEVEL
    BY <1>5 DEF device_task, grid_send_refresh
  <2>3. QED  BY <1>5, <2>1, <2>2 DEF device_task, sizeVars
<1>6. ASSUME AllCleared PROVE /\ grid_size_x_val' \in 0 .. MAX_GRID_X
                              /\ grid_size_y_val' \in 0 .. MAX_GRID_Y
                              /\ grid_led' \in [Cell -> 0 .. MAX_LEVEL]
                              /\ grid_dirty' \in [Quad -> BOOLEAN]
  BY <1>6 DEF AllCleared, Dark, Clean, MAX_GRID_X, MAX_GRID_Y
<1>7. ASSUME viii_grid_connect PROVE TypeOK'
  BY <1>6, <1>7 DEF viii_grid_connect, AllCleared, Dark, intensityVars
<1>8. ASSUME PortOpened PROVE TypeOK'
  BY <1>6, <1>8 DEF PortOpened, AllCleared, Dark, intensityVars
<1>9. CASE SizeAnswered
  BY <1>9 DEF SizeAnswered, ledVars, intensityVars, deviceVars
<1>10. CASE LinkLost \/ viii_grid_disconnect
  BY <1>10 DEF LinkLost, viii_grid_disconnect, sizeVars, ledVars, intensityVars
<1>11. CASE UNCHANGED vars
  BY <1>11 DEF vars, sizeVars, ledVars, intensityVars, deviceVars
<1>12. QED  BY <1>1, <1>2, <1>3, <1>4, <1>5, <1>7, <1>8, <1>9, <1>10, <1>11 DEF Next

\* Nothing is lit beyond the size, and the size is none or the device's.
LEMMA SizeStep == IInv /\ [Next]_vars => LitInSize' /\ SizeKnown'
<1> SUFFICES ASSUME IInv, [Next]_vars PROVE LitInSize' /\ SizeKnown'
  OBVIOUS
<1> USE DEF IInv, TypeOK, LitInSize, SizeKnown, InSize
<1>1. ASSUME NEW cell \in Cell, NEW z \in Level, NEW rel \in BOOLEAN,
             l_grid_led(cell, z, rel)
      PROVE  LitInSize' /\ SizeKnown'
  BY <1>1 DEF l_grid_led, sizeVars, deviceVars
<1>2. ASSUME NEW z \in Level, NEW rel \in BOOLEAN, l_grid_led_all(z, rel)
      PROVE  LitInSize' /\ SizeKnown'
  BY <1>2 DEF l_grid_led_all, sizeVars, deviceVars
<1>3. CASE (\E z \in Level : l_grid_intensity(z)) \/ l_grid_refresh
  BY <1>3 DEF l_grid_intensity, l_grid_refresh, sizeVars, ledVars, deviceVars
<1>4. CASE device_task \/ LinkLost \/ viii_grid_disconnect
  BY <1>4 DEF device_task, LinkLost, viii_grid_disconnect, sizeVars, ledVars
<1>5. CASE viii_grid_connect \/ PortOpened
  BY <1>5 DEF viii_grid_connect, PortOpened, AllCleared, Dark
<1>6. CASE SizeAnswered
  <2>1. grid_led' = grid_led /\ link' = link /\ link = "up"
    BY <1>6 DEF SizeAnswered, ledVars, deviceVars
  <2>2. ASSUME NEW cell \in Cell, grid_led[cell] # 0
        PROVE  cell[1] < DeviceX /\ cell[2] < DeviceY
    BY <2>1, <2>2, GridAssumption DEF Cell, MAX_GRID_X, MAX_GRID_Y
  <2>3. QED  BY <1>6, <2>1, <2>2 DEF SizeAnswered
<1>7. CASE UNCHANGED vars
  BY <1>7 DEF vars, sizeVars, ledVars, deviceVars
<1>8. QED  BY <1>1, <1>2, <1>3, <1>4, <1>5, <1>6, <1>7 DEF Next

\* What is not dirty is on the device.
LEMMA CleanStep == IInv /\ [Next]_vars => CleanIsShown'
<1> SUFFICES ASSUME IInv, [Next]_vars PROVE CleanIsShown'
  OBVIOUS
<1> USE QuadType DEF IInv, TypeOK, CleanIsShown
<1>1. ASSUME NEW cell \in Cell, NEW z \in Level, NEW rel \in BOOLEAN,
             l_grid_led(cell, z, rel)
      PROVE  CleanIsShown'
  BY <1>1 DEF l_grid_led, deviceVars
<1>2. ASSUME NEW z \in Level, NEW rel \in BOOLEAN, l_grid_led_all(z, rel)
      PROVE  CleanIsShown'
  BY <1>2 DEF l_grid_led_all, deviceVars
<1>3. CASE (\E z \in Level : l_grid_intensity(z)) \/ l_grid_refresh \/ SizeAnswered
  BY <1>3 DEF l_grid_intensity, l_grid_refresh, SizeAnswered, ledVars, deviceVars
<1>4. CASE device_task /\ grid_connected /\ link = "up"
  <2>1. grid_led' = grid_led
    BY <1>4 DEF device_task
  <2>2. QED  BY <1>4, <2>1, RefreshShows
<1>5. CASE device_task /\ ~(grid_connected /\ link = "up")
  BY <1>5 DEF device_task, grid_send_refresh
<1>6. CASE viii_grid_connect \/ PortOpened
  BY <1>6 DEF viii_grid_connect, PortOpened, AllCleared, Dark
<1>7. CASE LinkLost \/ viii_grid_disconnect
  BY <1>7 DEF LinkLost, viii_grid_disconnect
<1>8. CASE UNCHANGED vars
  BY <1>8 DEF vars, ledVars, deviceVars
<1>9. QED  BY <1>1, <1>2, <1>3, <1>4, <1>5, <1>6, <1>7, <1>8 DEF Next

\* The invariant holds in every reachable state.
LEMMA Invariance == Spec => []IInv
<1>1. IInv /\ [Next]_vars => IInv'
  BY TypeStep, SizeStep, CleanStep DEF IInv
<1>2. QED  BY InitInv, <1>1, PTL DEF Spec

---------------------------------------------------------------------------
\* No LED change is forgotten between the buffer and the device, whatever
\* scripts, refreshes and connections do in whatever order.
THEOREM CleanLedsShown == Spec => []CleanIsShown
<1>1. IInv => CleanIsShown
  BY DEF IInv
<1>2. QED  BY Invariance, <1>1, PTL

\* A refresh that is carried out leaves the device showing the whole buffer,
\* though it sends the dirty blocks only.
THEOREM RefreshComplete == Spec => RefreshShowsAll
<1>1. IInv => [device_task /\ grid_connected /\ link = "up"
                 => \A cell \in Cell : InSize(cell) => shown'[cell] = grid_led[cell]]_vars
  BY RefreshShows
<1>2. QED  BY Invariance, <1>1, PTL DEF RefreshShowsAll
=============================================================================
