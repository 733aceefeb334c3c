---------------------------- MODULE GridLinkProofs ----------------------------
(***************************************************************************)
(* The bookkeeping of gridConnect, gridDisconnect and the read loop, for   *)
(* any number of devices and of overlapping calls, and whatever the        *)
(* environment does: who owns which stream; and, with one device, what is  *)
(* pending for a link that is down.                                        *)
(***************************************************************************)
EXTENDS GridLink, TLAPS

\* The page shows no link that the C side was not told of.
ShownIsTold == gridConnected => grid_connected

\* A link the user gave up is not reconnected.
GivenUp == isManualDisconnect => ~gridAutoReconnect

\* A call that has returned is no attempt.
FreeCalls == \A k \in Slot : connect[k].pc = "free" => ~connect[k].auto

\* A device that was pulled out is lost until its event has come; and while the
\* link is shown its event comes before the port is found broken, or not at all.
BreakIsKnown ==
    /\ lost \cap plugged = {}
    /\ gridConnected /\ gridPort # null => open \ plugged \subseteq lost

EventInv == RetryPending /\ BreakIsKnown

OneDevice == \A p, q \in Port : p = q

---------------------------------------------------------------------------
(* The calls, as records.                                                  *)

PortOrNull == Port \cup {null}

LEMMA NewCall ==
    ASSUME NEW auto \in BOOLEAN, NEW c, NEW d
    PROVE  /\ c \in {"pick", "ports", "failed"} => [pc |-> c, auto |-> auto, port |-> null] \in Connect
           /\ d \in {"cancel", "release"} => [pc |-> d, manual |-> auto, port |-> null] \in Disconnect
           /\ NoConnect \in Connect /\ NoDisconnect \in Disconnect
  BY DEF Connect, Disconnect, NoConnect, NoDisconnect

LEMMA GoesType ==
    ASSUME LinkTypeOK, NEW k \in Slot, NEW port \in PortOrNull,
           NEW pc \in {"open", "signals", "failed"}, Goes(k, pc, port)
    PROVE  connect' \in [Slot -> Connect] /\ connect'[k].auto = connect[k].auto
           /\ \A i \in Slot : i # k => connect'[i] = connect[i]
  BY DEF LinkTypeOK, Goes, Connect, PortOrNull

---------------------------------------------------------------------------
(* Types.                                                                  *)

\* What the calls and the events of the page do to the calls under way.
LEMMA ConnectStartsType ==
    ASSUME LinkTypeOK, NEW auto \in BOOLEAN, ConnectStarts(auto)
    PROVE  connect' \in [Slot -> Connect]
<1>1. PICK k \in Slot : connect' = [connect EXCEPT ![k] =
             [pc |-> IF ~auto THEN "pick"
                     ELSE IF gridPort # null THEN "ports" ELSE "failed",
              auto |-> auto, port |-> null]]
  BY DEF ConnectStarts
<1>2. QED  BY <1>1 DEF LinkTypeOK, Connect

LEMMA OpenCalledType ==
    ASSUME LinkTypeOK, NEW k \in Slot, NEW port \in PortOrNull, OpenCalled(k, port)
    PROVE  connect' \in [Slot -> Connect]
  BY GoesType DEF OpenCalled, PortOrNull

LEMMA DisconnectStartsType ==
    ASSUME LinkTypeOK, NEW manual \in BOOLEAN, DisconnectStarts(manual)
    PROVE  /\ disconnect' \in [Slot -> Disconnect]
           /\ gridConnected' = FALSE /\ isManualDisconnect' = manual
           /\ gridAutoReconnect' = (gridAutoReconnect /\ ~manual)
           /\ gridAutoReconnectTimer' = (gridAutoReconnectTimer /\ ~manual)
           /\ grid_connected' = FALSE
           /\ reading' \subseteq reading /\ gridReader' \in reading' \cup {null}
           /\ UNCHANGED <<gridPort, gridWriter, connect>>
           /\ \E k \in Slot : disconnect'[k].pc # "free"
<1>1. PICK k \in Slot : disconnect' = [disconnect EXCEPT ![k] =
             [pc |-> IF gridReader # null THEN "cancel" ELSE "release",
              manual |-> manual, port |-> null]]
  BY DEF DisconnectStarts
<1>2. disconnect' \in [Slot -> Disconnect] /\ disconnect'[k].pc # "free"
  BY <1>1 DEF LinkTypeOK, Disconnect
<1>3. reading' \subseteq reading /\ gridReader' \in reading' \cup {null}
  BY DEF DisconnectStarts, LoopLeft, LinkTypeOK
<1>4. QED  BY <1>2, <1>3 DEF DisconnectStarts

LEMMA TypeStep == LinkTypeOK /\ [Next]_vars => LinkTypeOK'
<1> SUFFICES ASSUME LinkTypeOK, [Next]_vars PROVE LinkTypeOK'
  OBVIOUS
<1> USE LinkAssumption DEF LinkAssumption, jsVars, portVars
<1>1. ASSUME NEW k \in Slot, PortPicked(k) PROVE LinkTypeOK'
  <2>1. gridPort' \in PortOrNull
    BY <1>1 DEF PortPicked, LinkTypeOK, PortOrNull
  <2>2. connect' \in [Slot -> Connect]
    BY <1>1, OpenCalledType, GoesType DEF PortPicked, LinkTypeOK, PortOrNull
  <2>3. QED  BY <1>1, <2>1, <2>2 DEF PortPicked, LinkTypeOK, PortOrNull
<1>2. ASSUME NEW k \in Slot, PortsListed(k) PROVE LinkTypeOK'
  <2>1. gridPort' \in PortOrNull
    BY <1>2 DEF PortsListed, LinkTypeOK, PortOrNull
  <2>2. connect' \in [Slot -> Connect]
    BY <1>2, <2>1, OpenCalledType DEF PortsListed
  <2>3. QED  BY <1>2, <2>1, <2>2 DEF PortsListed, LinkTypeOK, PortOrNull
<1>3. ASSUME NEW k \in Slot, Opened(k) PROVE LinkTypeOK'
  <2>1. connect' \in [Slot -> Connect]
    BY <1>3, GoesType DEF Opened, LinkTypeOK, PortOrNull
  <2>2. reading \subseteq open' /\ write_locked \subseteq open'
    BY <1>3 DEF Opened, LinkTypeOK
  <2>3. QED  BY <1>3, <2>1, <2>2 DEF Opened, LinkTypeOK
<1>4. ASSUME NEW k \in Slot, OpenRefused(k) \/ SignalsRefused(k) PROVE LinkTypeOK'
  <2>1. connect' \in [Slot -> Connect]
    BY <1>4, GoesType DEF OpenRefused, SignalsRefused, PortOrNull
  <2>2. QED  BY <1>4, <2>1 DEF OpenRefused, SignalsRefused, LinkTypeOK
<1>5. ASSUME NEW k \in Slot, Connected(k) PROVE LinkTypeOK'
  <2>1. /\ gridPort \in open /\ gridPort # null
        /\ gridWriter' \in Port /\ write_locked' \subseteq open
    BY <1>5 DEF Connected, LinkTypeOK
  <2>2. reading' \subseteq open /\ gridReader' \in reading' \cup {null}
    BY <1>5, <2>1 DEF Connected, ReadLoopStarts, LinkTypeOK
  <2>3. connect' \in [Slot -> Connect]
    BY <1>5, NewCall DEF Connected, LinkTypeOK
  <2>4. QED  BY <1>5, <2>1, <2>2, <2>3 DEF Connected, LinkTypeOK
<1>6. ASSUME NEW k \in Slot, ConnectFails(k) PROVE LinkTypeOK'
  <2>1. connect' \in [Slot -> Connect]
    BY <1>6, NewCall DEF ConnectFails, LinkTypeOK
  <2>2. QED  BY <1>6, <2>1 DEF ConnectFails, scheduleGridReconnect, LinkTypeOK
<1>7. ASSUME NEW k \in Slot, Cancelled(k) \/ Closed(k) PROVE LinkTypeOK'
  <2>1. disconnect' \in [Slot -> Disconnect]
    BY <1>7 DEF Cancelled, Closed, LinkTypeOK, Disconnect
  <2>2. QED  BY <1>7, <2>1 DEF Cancelled, Closed, LinkTypeOK
<1>8. ASSUME NEW k \in Slot, Released(k) PROVE LinkTypeOK'
  <2>1. disconnect' \in [Slot -> Disconnect]
    BY <1>8 DEF Released, LinkTypeOK, Disconnect
  <2>2. reading \subseteq open' /\ write_locked' \subseteq open'
    BY <1>8 DEF Released, LinkTypeOK
  <2>3. QED  BY <1>8, <2>1, <2>2 DEF Released, LinkTypeOK
<1>9. ASSUME NEW k \in Slot, Finished(k) PROVE LinkTypeOK'
  <2>1. disconnect' \in [Slot -> Disconnect]
    BY <1>9, NewCall DEF Finished, LinkTypeOK
  <2>2. gridPort' \in PortOrNull
    BY <1>9 DEF Finished, LinkTypeOK, PortOrNull
  <2>3. QED  BY <1>9, <2>1, <2>2 DEF Finished, scheduleGridReconnect, LinkTypeOK, PortOrNull
<1>10. CASE TimerFires
  <2>1. connect' \in [Slot -> Connect]
    BY <1>10, ConnectStartsType DEF TimerFires, LinkTypeOK
  <2>2. QED  BY <1>10, <2>1 DEF TimerFires, LinkTypeOK
<1>11. CASE ConnectEvent
  BY <1>11 DEF ConnectEvent, scheduleGridReconnect, LinkTypeOK
<1>12. ASSUME NEW p \in Port, PortBreaks(p) PROVE LinkTypeOK'
  <2>1. /\ reading' \subseteq open' /\ write_locked' \subseteq open'
        /\ gridReader' \in reading' \cup {null}
    BY <1>12 DEF PortBreaks, LoopLeft, LinkTypeOK
  <2>2. QED  BY <1>12, <2>1 DEF PortBreaks, LinkTypeOK
<1>13. ASSUME NEW p \in Port, DisconnectEvent(p) PROVE LinkTypeOK'
  <2>1. CASE DisconnectStarts(FALSE)
    BY <1>13, <2>1, DisconnectStartsType DEF DisconnectEvent, LinkTypeOK
  <2>2. CASE ~DisconnectStarts(FALSE)
    BY <1>13, <2>2 DEF DisconnectEvent, LinkTypeOK
  <2>3. QED  BY <2>1, <2>2
<1>14. CASE Clicked
  <2>1. CASE DisconnectStarts(TRUE)
    BY <1>14, <2>1, DisconnectStartsType DEF Clicked, LinkTypeOK
  <2>2. CASE ~DisconnectStarts(TRUE)
    <3>1. connect' \in [Slot -> Connect]
      BY <1>14, <2>2, ConnectStartsType DEF Clicked
    <3>2. QED  BY <1>14, <2>2, <3>1 DEF Clicked, LinkTypeOK
  <2>3. QED  BY <2>1, <2>2
<1>15. ASSUME NEW p \in Port, Unplugged(p) \/ PluggedIn(p) PROVE LinkTypeOK'
  BY <1>15 DEF Unplugged, PluggedIn, LinkTypeOK
<1>16. ASSUME NEW p \in Port, LoopNotices(p) \/ ReadFails(p) PROVE LinkTypeOK'
  BY <1>16 DEF LoopNotices, ReadFails, LoopLeft, LinkTypeOK
<1>17. CASE UNCHANGED vars
  BY <1>17 DEF vars, LinkTypeOK
<1>18. QED
  BY <1>1, <1>2, <1>3, <1>4, <1>5, <1>6, <1>7, <1>8, <1>9, <1>10, <1>11, <1>12,
     <1>13, <1>14, <1>15, <1>16, <1>17
     DEF Next, Connecting, Disconnecting, Event

---------------------------------------------------------------------------
(* The calls that return.                                                  *)

LEMMA FreeStep == LinkTypeOK /\ FreeCalls /\ [Next]_vars => FreeCalls'
<1> SUFFICES ASSUME LinkTypeOK, FreeCalls, [Next]_vars PROVE FreeCalls'
  OBVIOUS
<1> USE DEF jsVars, portVars, FreeCalls
<1>1. \/ connect' = connect
      \/ \E auto \in BOOLEAN : ConnectStarts(auto)
      \/ \E k \in Slot : \E pc \in {"open", "signals", "failed"} :
           \E port : Goes(k, pc, port)
      \/ \E k \in Slot : connect' = [connect EXCEPT ![k] = NoConnect]
  <2>1. ASSUME NEW k \in Slot, PortPicked(k) \/ PortsListed(k)
        PROVE  \E pc \in {"open", "signals", "failed"} : \E port : Goes(k, pc, port)
    BY <2>1 DEF PortPicked, PortsListed, OpenCalled
  <2>2. ASSUME NEW k \in Slot, Opened(k) \/ OpenRefused(k) \/ SignalsRefused(k)
        PROVE  \E pc \in {"open", "signals", "failed"} : \E port : Goes(k, pc, port)
    BY <2>2 DEF Opened, OpenRefused, SignalsRefused
  <2>3. ASSUME NEW k \in Slot, Connected(k) \/ ConnectFails(k)
        PROVE  connect' = [connect EXCEPT ![k] = NoConnect]
    BY <2>3 DEF Connected, ConnectFails
  <2>4. ASSUME NEW k \in Slot, Disconnecting(k) PROVE connect' = connect
    BY <2>4 DEF Disconnecting, Cancelled, Released, Closed, Finished
  <2>5. ASSUME TimerFires \/ Clicked
        PROVE  connect' = connect \/ \E auto \in BOOLEAN : ConnectStarts(auto)
    BY <2>5 DEF TimerFires, Clicked, DisconnectStarts
  <2>6. ASSUME \/ ConnectEvent
               \/ \E p \in Port : PortBreaks(p) \/ DisconnectEvent(p)
               \/ \E p \in Port : Unplugged(p) \/ PluggedIn(p) \/ LoopNotices(p) \/ ReadFails(p)
        PROVE  connect' = connect
    BY <2>6 DEF ConnectEvent, PortBreaks, DisconnectEvent, DisconnectStarts,
                Unplugged, PluggedIn, LoopNotices, ReadFails
  <2>7. CASE UNCHANGED vars
    BY <2>7 DEF vars
  <2>8. QED
    BY <2>1, <2>2, <2>3, <2>4, <2>5, <2>6, <2>7 DEF Next, Connecting, Event
<1>2. ASSUME NEW auto \in BOOLEAN, ConnectStarts(auto) PROVE FreeCalls'
  BY <1>2 DEF ConnectStarts, LinkTypeOK
<1>3. ASSUME NEW k \in Slot, NEW pc \in {"open", "signals", "failed"}, NEW port,
             Goes(k, pc, port)
      PROVE  FreeCalls'
  BY <1>3 DEF Goes, LinkTypeOK, Connect
<1>4. ASSUME NEW k \in Slot, connect' = [connect EXCEPT ![k] = NoConnect] PROVE FreeCalls'
  BY <1>4 DEF NoConnect, LinkTypeOK
<1>5. QED  BY <1>1, <1>2, <1>3, <1>4

---------------------------------------------------------------------------
(* The retry.                                                              *)

\* An attempt that is pending stays so, until the link is up or given up.
LEMMA PendingStep ==
    ASSUME LinkTypeOK, FreeCalls, GivenUp, AttemptPending, [Next]_vars,
           gridAutoReconnect', ~gridConnected'
    PROVE  AttemptPending'
<1> DEFINE Tried == \E k \in Slot : connect[k].auto \/ disconnect[k].pc # "free"
<1>0. AttemptPending <=> gridAutoReconnectTimer \/ Tried
  BY DEF AttemptPending
<1>01. gridAutoReconnectTimer' = gridAutoReconnectTimer /\ (Tried => Tried') => AttemptPending'
  BY <1>0 DEF AttemptPending
<1>02. gridAutoReconnectTimer' \/ Tried' => AttemptPending'
  BY DEF AttemptPending
<1> HIDE DEF Tried
<1> USE DEF jsVars, portVars
<1>1. ASSUME NEW k \in Slot, NEW port \in PortOrNull,
             NEW pc \in {"open", "signals", "failed"}, Goes(k, pc, port),
             disconnect' = disconnect
      PROVE  Tried => Tried'
  <2>1. /\ connect'[k].auto = connect[k].auto
        /\ \A i \in Slot : i # k => connect'[i] = connect[i]
    BY <1>1, GoesType
  <2>2. \A i \in Slot : connect'[i].auto = connect[i].auto
    BY <2>1
  <2>3. QED  BY <1>1, <2>2 DEF Tried
<1>2. ASSUME NEW k \in Slot, PortPicked(k) PROVE AttemptPending'
  <2>1. \E port \in PortOrNull, pc \in {"open", "failed"} : Goes(k, pc, port)
    BY <1>2 DEF PortPicked, OpenCalled, LinkTypeOK, PortOrNull
  <2>2. disconnect' = disconnect /\ gridAutoReconnectTimer' = gridAutoReconnectTimer
    BY <1>2 DEF PortPicked
  <2>3. QED  BY <1>01, <1>1, <2>1, <2>2
<1>3. ASSUME NEW k \in Slot, PortsListed(k) PROVE AttemptPending'
  <2>1. gridPort' \in PortOrNull
    BY <1>3 DEF PortsListed, LinkTypeOK, PortOrNull
  <2>2. \E port \in PortOrNull, pc \in {"open", "failed"} : Goes(k, pc, port)
    BY <1>3, <2>1 DEF PortsListed, OpenCalled, PortOrNull
  <2>3. disconnect' = disconnect /\ gridAutoReconnectTimer' = gridAutoReconnectTimer
    BY <1>3 DEF PortsListed
  <2>4. QED  BY <1>01, <1>1, <2>2, <2>3
<1>4. ASSUME NEW k \in Slot, Opened(k) \/ OpenRefused(k) \/ SignalsRefused(k)
      PROVE  AttemptPending'
  <2>1. \E port \in PortOrNull, pc \in {"signals", "failed"} : Goes(k, pc, port)
    BY <1>4 DEF Opened, OpenRefused, SignalsRefused, LinkTypeOK, PortOrNull
  <2>2. disconnect' = disconnect /\ gridAutoReconnectTimer' = gridAutoReconnectTimer
    BY <1>4 DEF Opened, OpenRefused, SignalsRefused
  <2>3. QED  BY <1>01, <1>1, <2>1, <2>2
<1>5. ASSUME NEW k \in Slot, Connected(k) PROVE AttemptPending'
  BY <1>5 DEF Connected
<1>6. ASSUME NEW k \in Slot, ConnectFails(k) PROVE AttemptPending'
  <2>1. CASE connect[k].auto
    BY <1>02, <1>6, <2>1 DEF ConnectFails, scheduleGridReconnect
  <2>2. CASE ~connect[k].auto
    <3>1. /\ \A i \in Slot : i # k => connect'[i] = connect[i]
          /\ disconnect' = disconnect
          /\ gridAutoReconnectTimer' = gridAutoReconnectTimer
      BY <1>6, <2>2 DEF ConnectFails, LinkTypeOK
    <3>2. Tried => Tried'
      BY <2>2, <3>1 DEF Tried
    <3>3. QED  BY <1>01, <3>1, <3>2
  <2>3. QED  BY <2>1, <2>2
<1>7. ASSUME NEW k \in Slot, Cancelled(k) \/ Released(k) \/ Closed(k)
      PROVE  AttemptPending'
  <2>1. \E pc \in {"release", "close", "finish"} :
          \/ disconnect' = [disconnect EXCEPT ![k].pc = pc]
          \/ disconnect' = [disconnect EXCEPT ![k].pc = pc, ![k].port = gridPort]
    BY <1>7 DEF Cancelled, Released, Closed
  <2>2. disconnect'[k].pc # "free"
    BY <2>1 DEF LinkTypeOK, Disconnect
  <2>3. QED  BY <1>02, <2>2 DEF Tried
<1>8. ASSUME NEW k \in Slot, Finished(k) PROVE AttemptPending'
  BY <1>02, <1>8 DEF Finished, scheduleGridReconnect, GivenUp
<1>9. CASE TimerFires
  <2>1. ConnectStarts(TRUE)
    BY <1>9 DEF TimerFires
  <2>2. Tried'
    BY <2>1 DEF ConnectStarts, Tried, LinkTypeOK
  <2>3. QED  BY <1>02, <2>2
<1>10. CASE ConnectEvent
  BY <1>02, <1>10 DEF ConnectEvent, scheduleGridReconnect
<1>11. ASSUME NEW manual \in BOOLEAN, DisconnectStarts(manual) PROVE AttemptPending'
  BY <1>02, <1>11, DisconnectStartsType DEF Tried
<1>12. ASSUME NEW p \in Port, DisconnectEvent(p) PROVE AttemptPending'
  <2>1. \/ DisconnectStarts(FALSE)
        \/ UNCHANGED <<gridAutoReconnectTimer, connect, disconnect>>
    BY <1>12 DEF DisconnectEvent
  <2>2. QED  BY <1>01, <1>11, <2>1 DEF Tried
<1>13. CASE Clicked
  <2>1. CASE DisconnectStarts(TRUE)
    BY <1>11, <2>1
  <2>2. CASE ~DisconnectStarts(TRUE)
    <3>1. /\ ConnectStarts(FALSE) /\ disconnect' = disconnect
          /\ gridAutoReconnectTimer' = gridAutoReconnectTimer
      BY <1>13, <2>2 DEF Clicked
    <3>2. PICK k \in Slot :
            /\ connect[k].pc = "free"
            /\ connect' = [connect EXCEPT ![k] =
                 [pc |-> "pick", auto |-> FALSE, port |-> null]]
      BY <3>1 DEF ConnectStarts
    <3>3. ~connect[k].auto /\ \A i \in Slot : i # k => connect'[i] = connect[i]
      BY <3>2 DEF FreeCalls, LinkTypeOK
    <3>4. Tried => Tried'
      BY <3>1, <3>3 DEF Tried
    <3>5. QED  BY <1>01, <3>1, <3>4
  <2>3. QED  BY <2>1, <2>2
<1>14. ASSUME NEW p \in Port,
              \/ PortBreaks(p) \/ LoopNotices(p) \/ ReadFails(p)
              \/ Unplugged(p) \/ PluggedIn(p)
       PROVE  AttemptPending'
  <2>1. UNCHANGED <<gridAutoReconnectTimer, connect, disconnect>>
    BY <1>14 DEF PortBreaks, LoopNotices, ReadFails, Unplugged, PluggedIn
  <2>2. QED  BY <1>01, <2>1 DEF Tried
<1>15. CASE UNCHANGED vars
  BY <1>01, <1>15 DEF vars, Tried
<1>16. QED
  BY <1>2, <1>3, <1>4, <1>5, <1>6, <1>7, <1>8, <1>9, <1>10, <1>12, <1>13, <1>14,
     <1>15 DEF Next, Connecting, Disconnecting, Event

\* The flags of the page follow each other.
LEMMA FlagStep ==
    ASSUME LinkTypeOK, ShownIsTold, GivenUp, [Next]_vars
    PROVE  ShownIsTold' /\ GivenUp'
<1> USE DEF ShownIsTold, GivenUp, jsVars, portVars
<1>1. ASSUME NEW k \in Slot,
             \/ PortPicked(k) \/ Connecting(k) \/ Disconnecting(k)
      PROVE  ShownIsTold' /\ GivenUp'
  BY <1>1 DEF Connecting, Disconnecting, PortPicked, PortsListed, Opened, OpenRefused,
              Connected, SignalsRefused, ConnectFails, Cancelled, Released, Closed,
              Finished
<1>2. CASE TimerFires \/ ConnectEvent
  <2>1. UNCHANGED <<gridConnected, grid_connected, gridAutoReconnect, isManualDisconnect>>
    BY <1>2 DEF TimerFires, ConnectEvent
  <2>2. QED  BY <2>1
<1>3. ASSUME NEW p \in Port,
             \/ PortBreaks(p) \/ LoopNotices(p) \/ ReadFails(p)
             \/ Unplugged(p) \/ PluggedIn(p)
      PROVE  ShownIsTold' /\ GivenUp'
  BY <1>3 DEF PortBreaks, LoopNotices, ReadFails, Unplugged, PluggedIn
<1>4. ASSUME NEW manual \in BOOLEAN, DisconnectStarts(manual)
      PROVE  ShownIsTold' /\ GivenUp'
  BY <1>4, DisconnectStartsType
<1>5. ASSUME NEW p \in Port, DisconnectEvent(p) PROVE ShownIsTold' /\ GivenUp'
  BY <1>4, <1>5 DEF DisconnectEvent
<1>6. CASE Clicked
  <2>1. \/ DisconnectStarts(TRUE)
        \/ UNCHANGED <<gridConnected, grid_connected, gridAutoReconnect, isManualDisconnect>>
    BY <1>6 DEF Clicked
  <2>2. CASE DisconnectStarts(TRUE)
    BY <1>4, <2>2
  <2>3. CASE UNCHANGED <<gridConnected, grid_connected, gridAutoReconnect,
                         isManualDisconnect>>
    BY <2>3
  <2>4. QED  BY <2>1, <2>2, <2>3
<1>7. CASE UNCHANGED vars
  BY <1>7 DEF vars
<1>8. QED
  BY <1>1, <1>2, <1>3, <1>5, <1>6, <1>7 DEF Next, Event

\* What a step leaves of the link when no attempt is pending.
LEMMA EventStep ==
    ASSUME OneDevice, LinkTypeOK, FreeCalls, ShownIsTold, GivenUp, EventInv, [Next]_vars
    PROVE  EventInv'
<1> USE LinkAssumption DEF LinkAssumption, jsVars, portVars
<1>0. /\ lost \subseteq Port /\ plugged \subseteq Port /\ open \subseteq Port
      /\ gridPort \in Port \cup {null} /\ connect \in [Slot -> Connect]
      /\ reading \subseteq open
      /\ \A p \in Port : p # null /\ Port = {p}
  BY DEF LinkTypeOK, OneDevice
<1> DEFINE Rest == EventToCome \/ ReadErrorLeft \/ PortForgotten
<1>01. AttemptPending' /\ BreakIsKnown' => EventInv'
  BY DEF EventInv, RetryPending
<1>02. ASSUME gridConnected' = gridConnected, grid_connected' = grid_connected,
              gridAutoReconnect' = gridAutoReconnect, Rest => Rest' \/ AttemptPending',
              BreakIsKnown'
       PROVE  EventInv'
  BY <1>02, PendingStep DEF EventInv, RetryPending
<1>1. ASSUME NEW k \in Slot, PortPicked(k) \/ PortsListed(k) PROVE EventInv'
  <2>1. /\ UNCHANGED <<gridConnected, grid_connected, gridAutoReconnect, plugged, open, lost, found>>
        /\ gridPort' \in plugged \/ gridPort' = gridPort
        /\ plugged = {} => gridPort' = gridPort
    BY <1>1 DEF PortPicked, PortsListed
  <2>2. BreakIsKnown'
    BY <1>0, <2>1 DEF EventInv, BreakIsKnown
  <2>3. Rest => Rest'
    BY <2>1 DEF EventToCome, ReadErrorLeft, PortForgotten
  <2>4. QED  BY <1>02, <2>1, <2>2, <2>3
<1>2. ASSUME NEW k \in Slot, Opened(k) \/ OpenRefused(k) \/ SignalsRefused(k)
      PROVE  EventInv'
  <2>1. /\ UNCHANGED <<gridConnected, grid_connected, gridAutoReconnect, gridPort,
                       plugged, lost, found>>
        /\ open \subseteq open' /\ open' \ plugged = open \ plugged
    BY <1>2 DEF Opened, OpenRefused, SignalsRefused
  <2>2. BreakIsKnown'
    BY <2>1 DEF EventInv, BreakIsKnown
  <2>3. Rest => Rest'
    BY <2>1 DEF EventToCome, ReadErrorLeft, PortForgotten
  <2>4. QED  BY <1>02, <2>1, <2>2, <2>3
<1>3. ASSUME NEW k \in Slot, Connected(k) PROVE EventInv'
  <2>1. /\ gridConnected' /\ UNCHANGED <<plugged, open, lost>>
        /\ connect[k].port \in plugged
    BY <1>3 DEF Connected
  <2>2. open \subseteq plugged
    BY <1>0, <2>1
  <2>3. QED  BY <2>1, <2>2 DEF EventInv, RetryPending, BreakIsKnown
<1>4. ASSUME NEW k \in Slot, ConnectFails(k) PROVE EventInv'
  <2>1. /\ UNCHANGED <<gridConnected, grid_connected, gridAutoReconnect, gridPort,
                       plugged, open, lost, found>>
    BY <1>4 DEF ConnectFails
  <2>2. QED  BY <1>02, <2>1 DEF EventInv, BreakIsKnown, EventToCome, ReadErrorLeft, PortForgotten
<1>5. ASSUME NEW k \in Slot, Cancelled(k) \/ Released(k) \/ Closed(k) PROVE EventInv'
  <2>1. disconnect'[k].pc # "free"
    BY <1>5 DEF Cancelled, Released, Closed, LinkTypeOK, Disconnect
  <2>2. /\ UNCHANGED <<gridConnected, gridPort, plugged, lost>>
        /\ open' \subseteq open
    BY <1>5 DEF Cancelled, Released, Closed
  <2>3. BreakIsKnown'
    BY <2>2 DEF EventInv, BreakIsKnown
  <2>4. QED  BY <1>01, <2>1, <2>3 DEF AttemptPending
<1>6. ASSUME NEW k \in Slot, Finished(k) PROVE EventInv'
  <2>1. /\ UNCHANGED <<gridConnected, grid_connected, gridAutoReconnect, isManualDisconnect,
                       plugged, open, lost>>
        /\ gridPort' \in {gridPort, null}
    BY <1>6 DEF Finished
  <2>2. BreakIsKnown'
    BY <2>1 DEF EventInv, BreakIsKnown
  <2>3. gridAutoReconnect /\ ~gridConnected => gridAutoReconnectTimer'
    BY <1>6 DEF Finished, scheduleGridReconnect, GivenUp
  <2>4. QED  BY <2>1, <2>2, <2>3 DEF EventInv, RetryPending, AttemptPending
<1>7. CASE TimerFires
  <2>1. UNCHANGED <<gridConnected, grid_connected, gridAutoReconnect, gridPort, plugged,
                    open, lost, found>>
    BY <1>7 DEF TimerFires
  <2>2. QED  BY <1>02, <2>1 DEF EventInv, BreakIsKnown, EventToCome, ReadErrorLeft, PortForgotten
<1>8. CASE ConnectEvent
  <2>1. /\ UNCHANGED <<gridConnected, gridAutoReconnect, gridPort, plugged, open, lost>>
        /\ gridAutoReconnect /\ ~gridConnected => gridAutoReconnectTimer'
    BY <1>8 DEF ConnectEvent, scheduleGridReconnect
  <2>2. QED  BY <2>1 DEF EventInv, BreakIsKnown, RetryPending, AttemptPending
<1>9. ASSUME NEW manual \in BOOLEAN, DisconnectStarts(manual),
             UNCHANGED plugged, lost' \subseteq lost
      PROVE  EventInv'
  <2>1. ~gridConnected' /\ \E k \in Slot : disconnect'[k].pc # "free"
    BY <1>9, DisconnectStartsType
  <2>2. QED  BY <1>01, <1>9, <2>1 DEF EventInv, BreakIsKnown, AttemptPending
<1>10. ASSUME NEW p \in Port, DisconnectEvent(p) PROVE EventInv'
  <2>1. CASE gridPort = p
    BY <1>9, <1>10, <2>1 DEF DisconnectEvent
  <2>2. CASE gridPort # p
    <3>1. /\ UNCHANGED <<gridConnected, grid_connected, gridAutoReconnect, gridPort, plugged, open>>
          /\ p \in lost /\ lost' \subseteq lost /\ gridPort = null
      BY <1>0, <1>10, <2>2 DEF DisconnectEvent
    <3>2. plugged = {}
      BY <1>0, <3>1 DEF EventInv, BreakIsKnown
    <3>3. BreakIsKnown' /\ PortForgotten'
      BY <3>1, <3>2 DEF EventInv, BreakIsKnown, PortForgotten
    <3>4. QED  BY <1>02, <3>1, <3>3
  <2>3. QED  BY <2>1, <2>2
<1>11. CASE Clicked
  <2>1. CASE DisconnectStarts(TRUE)
    BY <1>9, <1>11, <2>1 DEF Clicked
  <2>2. CASE ~DisconnectStarts(TRUE)
    <3>1. UNCHANGED <<gridConnected, grid_connected, gridAutoReconnect, gridPort, plugged,
                      open, lost, found>>
      BY <1>11, <2>2 DEF Clicked
    <3>2. QED  BY <1>02, <3>1 DEF EventInv, BreakIsKnown, EventToCome, ReadErrorLeft, PortForgotten
  <2>3. QED  BY <2>1, <2>2
<1>12. ASSUME NEW p \in Port, PortBreaks(p) PROVE EventInv'
  <2>1. /\ UNCHANGED <<gridAutoReconnect, grid_connected, gridPort, plugged, lost, found>>
        /\ open' = open \ {p} /\ p \in open \ plugged
        /\ gridConnected' => gridConnected
    BY <1>12 DEF PortBreaks
  <2>2. BreakIsKnown'
    BY <2>1 DEF EventInv, BreakIsKnown
  <2>3. open' \cap plugged' = open \cap plugged /\ plugged = {}
    BY <1>0, <2>1
  <2>4. gridConnected => Rest'
    BY <1>0, <2>1, <2>3 DEF EventInv, BreakIsKnown, EventToCome, PortForgotten
  <2>5. Rest => Rest'
    BY <2>1, <2>3 DEF EventToCome, ReadErrorLeft, PortForgotten
  <2>6. gridAutoReconnect' /\ ~gridConnected' =>
          AttemptPending' \/ (grid_connected' /\ Rest')
    BY <2>1, <2>4, <2>5, PendingStep DEF EventInv, RetryPending, ShownIsTold
  <2>7. QED  BY <2>2, <2>6 DEF EventInv, RetryPending
<1>13. ASSUME NEW p \in Port, LoopNotices(p) \/ ReadFails(p) PROVE EventInv'
  <2>1. /\ UNCHANGED <<gridAutoReconnect, grid_connected, gridPort, plugged, lost, found, open>>
        /\ p \in open \cap plugged
        /\ gridConnected' => gridConnected
    BY <1>0, <1>13 DEF LoopNotices, ReadFails
  <2>2. BreakIsKnown' /\ ReadErrorLeft'
    BY <2>1 DEF EventInv, BreakIsKnown, ReadErrorLeft
  <2>3. gridAutoReconnect' /\ ~gridConnected' => AttemptPending' \/ grid_connected'
    BY <2>1, PendingStep DEF EventInv, RetryPending, ShownIsTold
  <2>4. QED  BY <2>2, <2>3 DEF EventInv, RetryPending
<1>14. ASSUME NEW p \in Port, Unplugged(p) \/ PluggedIn(p) PROVE EventInv'
  <2>1. /\ UNCHANGED <<gridConnected, grid_connected, gridAutoReconnect, gridPort, open>>
        /\ EventToCome'
    BY <1>14 DEF Unplugged, PluggedIn, EventToCome
  <2>2. BreakIsKnown'
    BY <1>14 DEF Unplugged, PluggedIn, EventInv, BreakIsKnown
  <2>3. QED  BY <1>02, <2>1, <2>2
<1>15. CASE UNCHANGED vars
  BY <1>02, <1>15 DEF vars, EventInv, BreakIsKnown, EventToCome, ReadErrorLeft, PortForgotten
<1>16. QED
  BY <1>1, <1>2, <1>3, <1>4, <1>5, <1>6, <1>7, <1>8, <1>10, <1>11, <1>12, <1>13, <1>14,
     <1>15 DEF Next, Connecting, Disconnecting, Event

---------------------------------------------------------------------------
\* All of it is invariant.
LEMMA Invariance == Spec => [](LinkTypeOK /\ FreeCalls /\ ShownIsTold /\ GivenUp)
<1>1. Init => LinkTypeOK /\ FreeCalls /\ ShownIsTold /\ GivenUp
  <2> SUFFICES ASSUME Init PROVE LinkTypeOK /\ FreeCalls /\ ShownIsTold /\ GivenUp
    OBVIOUS
  <2>1. connect \in [Slot -> Connect] /\ disconnect \in [Slot -> Disconnect]
    BY NewCall DEF Init
  <2>2. LinkTypeOK
    BY <2>1 DEF Init, LinkTypeOK
  <2>3. FreeCalls
    BY DEF Init, FreeCalls, NoConnect
  <2>4. ShownIsTold /\ GivenUp
    BY DEF Init, ShownIsTold, GivenUp
  <2>5. QED  BY <2>2, <2>3, <2>4
<1>2. LinkTypeOK /\ FreeCalls /\ ShownIsTold /\ GivenUp /\ [Next]_vars
      => (LinkTypeOK /\ FreeCalls /\ ShownIsTold /\ GivenUp)'
  BY TypeStep, FreeStep, FlagStep
<1>3. QED  BY <1>1, <1>2, PTL DEF Spec

\* A reader is that of a loop that runs, and only open ports have locked
\* streams, whichever calls overlap and whatever fails.
THEOREM LinkTypeCorrect == Spec => []LinkTypeOK
  BY Invariance, PTL

\* With one device, a link that is down and that the user wants has an attempt or
\* an event before it, except after a read error that the device survives and
\* after a slow manual disconnection forgot its port: no interleaving of the calls
\* and events of bridge.js drops the attempt.
THEOREM RetryIsPending == OneDevice /\ Spec => []RetryPending
<1> SUFFICES ASSUME OneDevice PROVE Spec => []RetryPending
  OBVIOUS
<1>1. Init => EventInv
  BY DEF Init, EventInv, RetryPending, BreakIsKnown
<1>2. LinkTypeOK /\ FreeCalls /\ ShownIsTold /\ GivenUp /\ EventInv /\ [Next]_vars => EventInv'
  BY EventStep
<1>3. EventInv => RetryPending
  BY DEF EventInv
<1>4. QED  BY <1>1, <1>2, <1>3, Invariance, PTL DEF Spec

\* With one device the lock is always the one that gridWriter holds.
LEMMA WriterStep ==
    ASSUME OneDevice, LinkTypeOK, WriterOwned, [Next]_vars
    PROVE  WriterOwned'
<1> USE DEF WriterOwned, jsVars, portVars
<1>1. ASSUME NEW k \in Slot, Connected(k) PROVE WriterOwned'
  <2>1. /\ gridPort \in Port /\ gridWriter' = gridPort
        /\ write_locked' \subseteq Port
    BY <1>1 DEF Connected, LinkTypeOK
  <2>2. QED  BY <2>1 DEF OneDevice
<1>2. ASSUME NEW k \in Slot, Released(k) PROVE WriterOwned'
  BY <1>2 DEF Released
<1>3. ASSUME NEW k \in Slot,
             \/ PortPicked(k) \/ PortsListed(k) \/ Opened(k) \/ OpenRefused(k)
             \/ SignalsRefused(k) \/ ConnectFails(k)
             \/ Cancelled(k) \/ Closed(k) \/ Finished(k)
      PROVE  WriterOwned'
  BY <1>3 DEF PortPicked, PortsListed, Opened, OpenRefused, SignalsRefused,
              ConnectFails, Cancelled, Closed, Finished
<1>4. CASE TimerFires \/ ConnectEvent \/ Clicked
  BY <1>4 DEF TimerFires, ConnectEvent, Clicked, DisconnectStarts
<1>5. ASSUME NEW p \in Port, PortBreaks(p) \/ DisconnectEvent(p) PROVE WriterOwned'
  BY <1>5 DEF PortBreaks, DisconnectEvent, DisconnectStarts
<1>6. ASSUME NEW p \in Port, Unplugged(p) \/ PluggedIn(p) \/ LoopNotices(p) \/ ReadFails(p)
      PROVE  WriterOwned'
  BY <1>6 DEF Unplugged, PluggedIn, LoopNotices, ReadFails
<1>7. CASE UNCHANGED vars
  BY <1>7 DEF vars
<1>8. QED
  BY <1>1, <1>2, <1>3, <1>4, <1>5, <1>6, <1>7 DEF Next, Connecting, Disconnecting, Event

\* With one device, no overlapping of calls leaves a lock that nobody releases.
THEOREM WriterIsOwned == OneDevice /\ Spec => []WriterOwned
<1> SUFFICES ASSUME OneDevice PROVE Spec => []WriterOwned
  OBVIOUS
<1>1. Init => WriterOwned
  BY DEF Init, WriterOwned
<1>2. LinkTypeOK /\ WriterOwned /\ [Next]_vars => WriterOwned'
  BY WriterStep
<1>3. QED  BY <1>1, <1>2, Invariance, PTL DEF Spec

---------------------------------------------------------------------------
(* The link that is shown.                                                 *)

\* While a disconnection is under way nothing is connected and nothing read;
\* between two of them a loop has its reader.
LinkInv ==
    /\ LinkUsable
    /\ ~NoneDisconnecting => ~gridConnected /\ reading = {}
    /\ gridReader = null => reading = {}

LEMMA LinkStep ==
    ASSUME OneDevice, "slow" \notin Faults, LinkTypeOK, LinkInv, [Next]_vars
    PROVE  LinkInv'
<1> USE DEF LinkInv, LinkUsable, NoneDisconnecting, jsVars, portVars
<1>0. /\ reading \subseteq Port /\ write_locked \subseteq Port
      /\ \A p \in Port : p # null /\ Port = {p}
      /\ gridPort \in Port \cup {null} /\ gridReader \in reading \cup {null}
  BY LinkAssumption DEF LinkTypeOK, OneDevice, LinkAssumption
<1>1. ASSUME NEW k \in Slot, PortPicked(k) PROVE LinkInv'
  <2>1. UNCHANGED <<gridReader, gridWriter, gridConnected, disconnect, reading, write_locked>>
        /\ (gridPort' \in plugged \/ gridPort' = gridPort)
    BY <1>1 DEF PortPicked
  <2>2. gridPort \in Port => gridPort' = gridPort
    BY <1>0, <2>1 DEF LinkTypeOK
  <2>3. QED  BY <1>0, <2>1, <2>2
<1>2. ASSUME NEW k \in Slot, PortsListed(k) PROVE LinkInv'
  <2>1. UNCHANGED <<gridReader, gridWriter, gridConnected, disconnect, reading, write_locked>>
        /\ (gridPort' \in plugged \/ gridPort' = gridPort)
    BY <1>2 DEF PortsListed
  <2>2. gridPort \in Port => gridPort' = gridPort
    BY <1>0, <2>1 DEF LinkTypeOK
  <2>3. QED  BY <1>0, <2>1, <2>2
<1>3. ASSUME NEW k \in Slot,
             Opened(k) \/ OpenRefused(k) \/ SignalsRefused(k) \/ ConnectFails(k)
      PROVE  LinkInv'
  BY <1>3 DEF Opened, OpenRefused, SignalsRefused, ConnectFails
<1>4. ASSUME NEW k \in Slot, Connected(k) PROVE LinkInv'
  <2>1. /\ NoneDisconnecting /\ disconnect' = disconnect
        /\ gridPort \in Port /\ gridPort' = gridPort /\ gridWriter' = gridPort
        /\ gridPort \in write_locked'
    BY <1>4 DEF Connected, Idle, LinkTypeOK
  <2>2. gridPort \in reading' /\ gridReader' = gridPort
    BY <1>0, <1>4, <2>1 DEF Connected, ReadLoopStarts
  <2>3. gridReader' # null
    BY <1>0, <2>1, <2>2
  <2>4. QED  BY <2>1, <2>2, <2>3
<1>5. ASSUME NEW k \in Slot, Cancelled(k) \/ Released(k) \/ Closed(k) \/ Finished(k)
      PROVE  LinkInv'
  <2>1. ~NoneDisconnecting /\ UNCHANGED <<gridConnected, reading>>
    BY <1>5 DEF Cancelled, Released, Closed, Finished
  <2>2. QED  BY <2>1
<1>6. ASSUME NEW manual \in BOOLEAN, DisconnectStarts(manual) PROVE LinkInv'
  <2>1. reading' = {}
    BY <1>0, <1>6 DEF DisconnectStarts, LoopLeft
  <2>2. QED  BY <1>6, <2>1 DEF DisconnectStarts
<1>7. CASE TimerFires \/ ConnectEvent
  <2>1. UNCHANGED <<gridPort, gridReader, gridWriter, gridConnected, disconnect,
                    reading, write_locked>>
    BY <1>7 DEF TimerFires, ConnectEvent
  <2>2. QED  BY <2>1
<1>8. CASE Clicked
  <2>1. CASE DisconnectStarts(TRUE)
    BY <1>6, <2>1
  <2>2. CASE ~DisconnectStarts(TRUE)
    <3>1. UNCHANGED <<gridPort, gridReader, gridWriter, gridConnected, disconnect,
                      reading, write_locked>>
      BY <1>8, <2>2 DEF Clicked
    <3>2. QED  BY <3>1
  <2>3. QED  BY <2>1, <2>2
<1>9. ASSUME NEW p \in Port, DisconnectEvent(p) PROVE LinkInv'
  <2>1. DisconnectStarts(FALSE) \/ UNCHANGED <<jsVars, disconnect, reading, write_locked>>
    BY <1>9 DEF DisconnectEvent
  <2>2. CASE DisconnectStarts(FALSE)
    BY <1>6, <2>2
  <2>3. CASE UNCHANGED <<jsVars, disconnect, reading, write_locked>>
    BY <2>3
  <2>4. QED  BY <2>1, <2>2, <2>3
<1>10. ASSUME NEW p \in Port, PortBreaks(p) PROVE LinkInv'
  <2>1. reading' = {} /\ disconnect' = disconnect
    BY <1>0, <1>10 DEF PortBreaks, LoopLeft
  <2>2. Idle /\ NoneDisconnecting
    BY <1>10 DEF PortBreaks, Idle
  <2>3. ~gridConnected'
    BY <1>0, <1>10, <2>2 DEF PortBreaks, LoopLeft
  <2>4. QED  BY <2>1, <2>3
<1>11. ASSUME NEW p \in Port, LoopNotices(p) \/ ReadFails(p) PROVE LinkInv'
  <2>1. reading' = {} /\ ~gridConnected'
    BY <1>0, <1>11 DEF LoopNotices, ReadFails, LoopLeft
  <2>2. QED  BY <2>1
<1>12. ASSUME NEW p \in Port, Unplugged(p) \/ PluggedIn(p) PROVE LinkInv'
  BY <1>12 DEF Unplugged, PluggedIn
<1>13. CASE UNCHANGED vars
  BY <1>13 DEF vars
<1>14. QED
  BY <1>1, <1>2, <1>3, <1>4, <1>5, <1>7, <1>8, <1>9, <1>10, <1>11, <1>12, <1>13
     DEF Next, Connecting, Disconnecting, Event

\* With one device, and disconnections that nothing overlaps, a link shown as
\* connected is one: its port is open, written to and read.
THEOREM LinkIsUsable == OneDevice /\ "slow" \notin Faults /\ Spec => []LinkUsable
<1> SUFFICES ASSUME OneDevice, "slow" \notin Faults PROVE Spec => []LinkUsable
  OBVIOUS
<1>1. Init => LinkInv
  BY DEF Init, LinkInv, LinkUsable, NoneDisconnecting, NoDisconnect
<1>2. LinkTypeOK /\ LinkInv /\ [Next]_vars => LinkInv'
  BY LinkStep
<1>3. LinkInv => LinkUsable
  BY DEF LinkInv
<1>4. QED  BY <1>1, <1>2, <1>3, Invariance, PTL DEF Spec

---------------------------------------------------------------------------
(* The open port.                                                          *)

Releasing == \E k \in Slot : disconnect[k].pc \in {"cancel", "release"}

\* A port that is open, and whose device is there, has an owner: a link, a call
\* of gridConnect that still has to set its signals, or a disconnection that
\* has not come to close it.  gridPort is forgotten only once it is closed.
PortInv ==
    /\ \A i, j \in Slot : disconnect[i].pc # "free" /\ disconnect[j].pc # "free" => i = j
    /\ Releasing => gridPort # null
    /\ \A k \in Slot : disconnect[k].pc \in {"close", "finish"} => open = {}
    /\ \A k \in Slot : disconnect[k].pc # "free" /\ disconnect[k].manual =>
                       \A i \in Slot : connect[i].pc # "open"
    /\ \A k \in Slot : connect[k].pc = "open" =>
                       gridPort # null /\ open = {} /\ connect[k].port # null
    /\ \A i, j \in Slot : connect[i].pc = "open" /\ connect[j].pc = "open" => i = j
    /\ \A k \in Slot : connect[k].pc = "signals" => connect[k].port # null
    /\ open # {} => gridPort # null
    /\ write_locked # {} => grid_connected \/ Releasing
    /\ open \cap plugged # {} =>
         \/ write_locked # {} \/ Releasing
         \/ \E k \in Slot : connect[k].pc = "signals"

LEMMA PortStep ==
    ASSUME OneDevice, Faults \cap {"slow", "signals"} = {},
           LinkTypeOK, WriterOwned, LinkInv, PortInv, [Next]_vars
    PROVE  PortInv'
<1> USE DEF jsVars, portVars
<1>0. /\ \A p \in Port : p # null /\ Port = {p}
      /\ gridPort \in Port \cup {null}
      /\ open \in SUBSET Port /\ plugged \in SUBSET Port
      /\ write_locked \in SUBSET open /\ reading \in SUBSET open
      /\ connect \in [Slot -> Connect] /\ disconnect \in [Slot -> Disconnect]
  BY LinkAssumption DEF LinkTypeOK, OneDevice, LinkAssumption
<1>1. Idle => NoneDisconnecting /\ ~Releasing
  BY DEF Idle, NoneDisconnecting, Releasing
\* What a call of gridConnect that moves on keeps.
<1>2. ASSUME NEW k \in Slot, NEW pc \in {"open", "signals", "failed"}, NEW port \in PortOrNull,
             Goes(k, pc, port)
      PROVE  /\ connect'[k].pc = pc /\ connect'[k].port = port
             /\ \A i \in Slot : i # k => connect'[i] = connect[i]
  BY <1>0, <1>2 DEF Goes, Connect
<1>3. ASSUME NEW k \in Slot, PortPicked(k) \/ PortsListed(k) PROVE PortInv'
  <2>1. /\ Idle /\ connect[k].pc \notin {"open", "signals"}
        /\ UNCHANGED <<grid_connected, disconnect, plugged, open, write_locked>>
    BY <1>3 DEF PortPicked, PortsListed, Settled
  <2>2. gridPort' = gridPort \/ (gridPort' # null /\ gridPort = null)
    BY <1>0, <1>3 DEF PortPicked, PortsListed
  <2>3. gridPort' \in PortOrNull
    BY <1>0, <1>3 DEF PortPicked, PortsListed, PortOrNull
  <2>4. \/ Goes(k, "failed", null)
        \/ /\ gridPort' # null /\ gridPort' \notin open \cup Opening
           /\ Goes(k, "open", gridPort')
    BY <1>0, <1>3 DEF PortPicked, PortsListed, OpenCalled
  <2>5. \A i \in Slot : i # k => connect'[i] = connect[i]
    BY <1>2, <2>3, <2>4 DEF PortOrNull
  <2>6. CASE Goes(k, "failed", null)
    <3>1. connect'[k].pc = "failed"
      BY <1>2, <2>6 DEF PortOrNull
    <3>2. QED  BY <1>1, <2>1, <2>2, <2>5, <3>1 DEF PortInv, Releasing, NoneDisconnecting
  <2>7. CASE /\ gridPort' # null /\ gridPort' \notin open \cup Opening
             /\ Goes(k, "open", gridPort')
    <3>1. connect'[k].pc = "open" /\ connect'[k].port # null
      BY <1>2, <2>3, <2>7
    <3>2. open = {}
      BY <1>0, <2>3, <2>7 DEF PortOrNull
    <3>3. \A i \in Slot : connect[i].pc # "open"
      <4>1. \A i \in Slot : connect[i].pc = "open" => connect[i].port \in Port
        BY <1>0 DEF PortInv, Connect
      <4>2. QED  BY <1>0, <2>3, <2>7, <4>1 DEF PortOrNull, Opening
    <3>4. QED
      BY <1>1, <2>1, <2>5, <2>7, <3>1, <3>2, <3>3 DEF PortInv, Releasing, NoneDisconnecting
  <2>8. QED  BY <2>4, <2>6, <2>7
<1>4. ASSUME NEW k \in Slot, Opened(k) PROVE PortInv'
  <2>1. /\ Idle /\ connect[k].pc = "open" /\ gridPort # null
        /\ UNCHANGED <<gridPort, grid_connected, disconnect, plugged, write_locked>>
    BY <1>4 DEF Opened, PortInv
  <2>2. connect[k].port \in Port /\ open' = Port /\ open = {}
    BY <1>0, <1>4, <2>1 DEF Opened, PortInv, Connect
  <2>3. Goes(k, "signals", gridPort)
    BY <1>0, <1>4, <2>1, <2>2 DEF Opened
  <2>4. /\ connect'[k].pc = "signals" /\ connect'[k].port # null
        /\ \A i \in Slot : i # k => connect'[i] = connect[i]
    BY <1>0, <1>2, <2>1, <2>3 DEF PortOrNull
  <2>5. \A i \in Slot : i # k => connect[i].pc # "open"
    BY <2>1 DEF PortInv
  <2>6. QED  BY <1>1, <2>1, <2>2, <2>4, <2>5 DEF PortInv, Releasing, NoneDisconnecting
<1>5. ASSUME NEW k \in Slot, OpenRefused(k) \/ SignalsRefused(k) PROVE PortInv'
  <2>1. /\ Idle
        /\ UNCHANGED <<gridPort, grid_connected, disconnect, plugged, open, write_locked>>
    BY <1>5 DEF OpenRefused, SignalsRefused
  <2>2. /\ connect'[k].pc = "failed"
        /\ \A i \in Slot : i # k => connect'[i] = connect[i]
    BY <1>2, <1>5 DEF OpenRefused, SignalsRefused, PortOrNull
  \* Its own port is open, there and not written to: it was not refused.
  <2>3. connect[k].pc = "signals" /\ open \cap plugged # {} => write_locked # {}
    <3> SUFFICES ASSUME connect[k].pc = "signals", open \cap plugged # {} PROVE write_locked # {}
      OBVIOUS
    <3>1. connect[k].port \in open \cap plugged /\ gridPort \in open
      BY <1>0 DEF PortInv, Connect
    <3>2. SignalsRefused(k)
      BY <1>5 DEF OpenRefused
    <3>3. QED  BY <3>1, <3>2 DEF SignalsRefused
  <2>4. QED  BY <1>1, <2>1, <2>2, <2>3 DEF PortInv, Releasing, NoneDisconnecting
<1>6. ASSUME NEW k \in Slot, Connected(k) PROVE PortInv'
  <2>1. /\ Idle /\ gridPort \in open /\ grid_connected'
        /\ UNCHANGED <<gridPort, disconnect, plugged, open>>
        /\ write_locked' # {}
    BY <1>6 DEF Connected
  <2>2. /\ connect'[k].pc = "free"
        /\ \A i \in Slot : i # k => connect'[i] = connect[i]
    BY <1>0, <1>6 DEF Connected, NoConnect
  <2>3. QED  BY <1>1, <2>1, <2>2 DEF PortInv, Releasing, NoneDisconnecting
<1>7. ASSUME NEW k \in Slot, ConnectFails(k) PROVE PortInv'
  <2>1. UNCHANGED <<gridPort, grid_connected, disconnect, plugged, open, write_locked>>
    BY <1>7 DEF ConnectFails
  <2>2. /\ connect'[k].pc = "free" /\ connect[k].pc = "failed"
        /\ \A i \in Slot : i # k => connect'[i] = connect[i]
    BY <1>0, <1>7 DEF ConnectFails, NoConnect
  <2>3. QED  BY <2>1, <2>2 DEF PortInv, Releasing
<1>8. ASSUME NEW k \in Slot, Cancelled(k) \/ Closed(k) PROVE PortInv'
  <2>1. UNCHANGED <<gridPort, grid_connected, connect, plugged, open, write_locked>>
    BY <1>8 DEF Cancelled, Closed
  <2>2. /\ \/ disconnect[k].pc = "cancel" /\ disconnect'[k].pc = "release"
           \/ disconnect[k].pc = "close" /\ disconnect'[k].pc = "finish"
        /\ disconnect'[k].manual = disconnect[k].manual
        /\ \A i \in Slot : i # k => disconnect'[i] = disconnect[i]
    BY <1>0, <1>8 DEF Cancelled, Closed, Disconnect
  <2>3. Releasing' <=> Releasing
    BY <2>2 DEF Releasing
  <2>4. QED  BY <2>1, <2>2, <2>3 DEF PortInv
<1>9. ASSUME NEW k \in Slot, Released(k) PROVE PortInv'
  <2>1. /\ disconnect[k].pc = "release" /\ gridPort \in Port
        /\ UNCHANGED <<gridPort, grid_connected, connect, plugged>>
        /\ reading = {} /\ write_locked' = {}
    BY <1>0, <1>9 DEF Released, PortInv, LinkInv, NoneDisconnecting, Releasing, WriterOwned
  <2>2. open' = {}
    BY <1>0, <1>9, <2>1 DEF Released
  <2>3. /\ disconnect'[k].pc \in {"close", "finish"}
        /\ disconnect'[k].manual = disconnect[k].manual
        /\ \A i \in Slot : i # k => disconnect'[i] = disconnect[i]
    BY <1>0, <1>9 DEF Released, Disconnect
  <2>4. ~Releasing'
    BY <2>1, <2>3 DEF PortInv, Releasing
  <2>5. QED  BY <2>1, <2>2, <2>3, <2>4 DEF PortInv
<1>10. ASSUME NEW k \in Slot, Finished(k) PROVE PortInv'
  <2>1. /\ disconnect[k].pc = "finish" /\ open = {} /\ write_locked = {}
        /\ UNCHANGED <<grid_connected, connect, plugged, open, write_locked>>
        /\ gridPort' = IF disconnect[k].manual THEN null ELSE gridPort
    BY <1>0, <1>10 DEF Finished, PortInv
  <2>2. /\ disconnect'[k].pc = "free"
        /\ \A i \in Slot : i # k => disconnect'[i] = disconnect[i] /\ disconnect[i].pc = "free"
    BY <1>0, <1>10, <2>1 DEF Finished, NoDisconnect, PortInv
  <2>3. ~Releasing'
    BY <2>2 DEF Releasing
  <2>4. \A i \in Slot : connect[i].pc = "open" => gridPort' # null
    BY <2>1 DEF PortInv
  <2>5. QED  BY <2>1, <2>2, <2>3, <2>4 DEF PortInv
<1>11. ASSUME NEW auto \in BOOLEAN, ConnectStarts(auto),
              UNCHANGED <<gridPort, grid_connected, disconnect, plugged, open, write_locked>>
       PROVE  PortInv'
  <2>1. PICK k \in Slot : connect[k].pc = "free" /\ connect' = [connect EXCEPT ![k] =
             [pc |-> IF ~auto THEN "pick"
                     ELSE IF gridPort # null THEN "ports" ELSE "failed",
              auto |-> auto, port |-> null]]
    BY <1>11 DEF ConnectStarts
  <2>2. /\ connect'[k].pc \notin {"open", "signals"}
        /\ \A i \in Slot : i # k => connect'[i] = connect[i]
    BY <1>0, <2>1
  <2>3. QED  BY <1>11, <2>1, <2>2 DEF PortInv, Releasing
<1>12. ASSUME NEW manual \in BOOLEAN, DisconnectStarts(manual), Idle, gridPort # null,
              manual => \A i \in Slot : connect[i].pc # "open",
              UNCHANGED <<plugged, open, write_locked>>
       PROVE  PortInv'
  <2>1. PICK k \in Slot : disconnect' = [disconnect EXCEPT ![k] =
             [pc |-> IF gridReader # null THEN "cancel" ELSE "release",
              manual |-> manual, port |-> null]]
    BY <1>12 DEF DisconnectStarts
  <2>2. /\ disconnect'[k].pc \in {"cancel", "release"} /\ disconnect'[k].manual = manual
        /\ \A i \in Slot : i # k => disconnect'[i] = disconnect[i] /\ disconnect[i].pc = "free"
    BY <1>0, <1>1, <1>12, <2>1 DEF NoneDisconnecting
  <2>3. UNCHANGED <<gridPort, connect>> /\ Releasing'
    BY <1>12, <2>2 DEF DisconnectStarts, Releasing
  <2>4. QED  BY <1>12, <2>2, <2>3 DEF PortInv
<1>13. CASE TimerFires
  <2>1. UNCHANGED <<gridPort, grid_connected, disconnect, plugged, open, write_locked>>
        /\ (connect' = connect \/ ConnectStarts(TRUE))
    BY <1>13 DEF TimerFires
  <2>2. connect' = connect => PortInv'
    BY <2>1 DEF PortInv, Releasing
  <2>3. QED  BY <1>11, <2>1, <2>2
<1>14. CASE Clicked
  <2>1. CASE gridConnected /\ DisconnectStarts(TRUE)
    <3>1. Idle /\ UNCHANGED <<plugged, open, write_locked>>
      BY <1>14 DEF Clicked, Settled
    <3>2. gridPort \in open
      BY <1>0, <1>1, <2>1, <3>1 DEF LinkInv, LinkUsable
    <3>3. gridPort # null /\ \A i \in Slot : connect[i].pc # "open"
      BY <1>0, <3>2 DEF PortInv
    <3>4. QED  BY <1>12, <2>1, <3>1, <3>3
  <2>2. CASE ~(gridConnected /\ DisconnectStarts(TRUE))
    <3>1. /\ ConnectStarts(FALSE)
          /\ UNCHANGED <<gridPort, grid_connected, disconnect, plugged, open, write_locked>>
      BY <1>14, <2>2 DEF Clicked
    <3>2. QED  BY <1>11, <3>1
  <2>3. QED  BY <2>1, <2>2
<1>15. ASSUME NEW p \in Port, DisconnectEvent(p) PROVE PortInv'
  <2>1. Idle /\ UNCHANGED <<plugged, open, write_locked>>
    BY <1>15 DEF DisconnectEvent
  <2>2. CASE gridPort = p
    <3>1. DisconnectStarts(FALSE) /\ gridPort # null
      BY <1>0, <1>15, <2>2 DEF DisconnectEvent
    <3>2. QED  BY <1>12, <2>1, <3>1
  <2>3. CASE gridPort # p
    BY <1>15, <2>1, <2>3 DEF DisconnectEvent, PortInv, Releasing
  <2>4. QED  BY <2>2, <2>3
<1>16. ASSUME NEW p \in Port, PortBreaks(p) PROVE PortInv'
  <2>1. /\ UNCHANGED <<gridPort, grid_connected, connect, disconnect, plugged>>
        /\ open' = {} /\ write_locked' = {}
    BY <1>0, <1>16 DEF PortBreaks
  <2>2. QED  BY <2>1 DEF PortInv, Releasing
<1>17. ASSUME NEW p \in Port, Unplugged(p) \/ PluggedIn(p) PROVE PortInv'
  <2>1. /\ UNCHANGED <<gridPort, grid_connected, connect, disconnect, open, write_locked>>
        /\ open \cap plugged' \subseteq open \cap plugged
    BY <1>17 DEF Unplugged, PluggedIn
  <2>2. QED  BY <2>1 DEF PortInv, Releasing
<1>18. CASE \/ ConnectEvent
            \/ \E p \in Port : LoopNotices(p) \/ ReadFails(p)
            \/ UNCHANGED vars
  <2>1. UNCHANGED <<gridPort, grid_connected, connect, disconnect, plugged, open, write_locked>>
    BY <1>18 DEF ConnectEvent, LoopNotices, ReadFails, vars
  <2>2. QED  BY <2>1 DEF PortInv, Releasing
<1>19. QED
  BY <1>3, <1>4, <1>5, <1>6, <1>7, <1>8, <1>9, <1>10, <1>13, <1>14, <1>15, <1>16,
     <1>17, <1>18 DEF Next, Connecting, Disconnecting, Event

\* With one device that accepts setSignals, and disconnections that nothing
\* overlaps, every port that was opened is closed once the calls have returned
\* and the C side knows of no link: the device can always be opened again.
THEOREM NoPortIsLeaked ==
    OneDevice /\ Faults \cap {"slow", "signals"} = {} /\ Spec => []NoPortLeaks
<1> SUFFICES ASSUME OneDevice, Faults \cap {"slow", "signals"} = {}
             PROVE  Spec => []NoPortLeaks
  OBVIOUS
<1>1. Init => WriterOwned /\ LinkInv /\ PortInv
  BY DEF Init, WriterOwned, LinkInv, LinkUsable, NoneDisconnecting, PortInv, Releasing,
         NoConnect, NoDisconnect
<1>2. LinkTypeOK /\ WriterOwned /\ LinkInv /\ PortInv /\ [Next]_vars
      => (WriterOwned /\ LinkInv /\ PortInv)'
  BY WriterStep, LinkStep, PortStep
<1>3. PortInv => NoPortLeaks
  <2> SUFFICES ASSUME PortInv, ~grid_connected, NoneConnecting, NoneDisconnecting,
                      Settled, open # {}
               PROVE  FALSE
    BY DEF NoPortLeaks
  <2>1. open \cap plugged # {} /\ ~Releasing /\ \A k \in Slot : connect[k].pc # "signals"
    BY DEF Settled, NoneConnecting, NoneDisconnecting, Releasing
  <2>2. QED  BY <2>1 DEF PortInv
<1>4. QED  BY <1>1, <1>2, <1>3, Invariance, PTL DEF Spec
=============================================================================
