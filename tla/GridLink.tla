------------------------------ MODULE GridLink ------------------------------
(***************************************************************************)
(* The serial link of bridge.js: gridConnect, gridDisconnect, the read     *)
(* loop and the reconnection timer, as the asynchronous functions they     *)
(* are.  Several calls of each can be under way; every await is a point    *)
(* where the others go on.                                                 *)
(*                                                                         *)
(* A call waits in the pcs "pick", "ports", "open", "signals", "cancel"    *)
(* and "close", for a promise of the browser.  In "failed", "release" and  *)
(* "finish" it is running, and nothing else happens (~Quiet).  What a      *)
(* settled read does follows at once, before any other event: the steps    *)
(* that settle a read include it.                                          *)
(*                                                                         *)
(* The browser is modelled from what bridge.js relies on: open needs a     *)
(* closed port, close needs both its streams unlocked, a device that is    *)
(* pulled out breaks its port and is announced by an event, in any order.  *)
(***************************************************************************)
CONSTANTS Port,    \* the serial devices
          null,
          Slot,    \* bound: calls of gridConnect, and of gridDisconnect, at a time
          Faults   \* what the environment may do besides: see Fault

Fault == {"signals", \* setSignals is refused
          "hasty",   \* the user asks for a connection while one is being made
          "slow",    \* anything can happen while cancel or close is awaited
          "read"}    \* a read fails though the device is there (overrun, framing)

ASSUME LinkAssumption ==
    /\ null \notin Port
    /\ Faults \subseteq Fault

VARIABLES
    gridPort, gridReader, gridWriter,
    gridConnected, gridAutoReconnect, isManualDisconnect,
    gridAutoReconnectTimer, \* whether a timer is set
    grid_connected,  \* device_web.c
    connect,         \* the calls of gridConnect
    disconnect,      \* the calls of gridDisconnect
    reading,         \* the ports a gridReadLoop reads
    plugged,         \* browser: the devices that are there
    open,            \* browser: the open ports
    write_locked,    \* browser: the ports whose writable is locked
    lost,            \* browser: disconnect events still to come
    found            \* browser: a connect event is still to come

jsVars == <<gridPort, gridReader, gridWriter, gridConnected, gridAutoReconnect,
            isManualDisconnect, gridAutoReconnectTimer>>
portVars == <<plugged, open, write_locked, lost, found>>
vars == <<jsVars, grid_connected, connect, disconnect, reading, portVars>>

Connect == [pc : {"free", "pick", "ports", "open", "signals", "failed"},
            auto : BOOLEAN, port : Port \cup {null}]
Disconnect == [pc : {"free", "cancel", "release", "close", "finish"},
               manual : BOOLEAN, port : Port \cup {null}]

NoConnect == [pc |-> "free", auto |-> FALSE, port |-> null]
NoDisconnect == [pc |-> "free", manual |-> FALSE, port |-> null]

Init ==
    /\ gridPort = null /\ gridReader = null /\ gridWriter = null
    /\ gridConnected = FALSE /\ gridAutoReconnect = FALSE
    /\ isManualDisconnect = FALSE /\ gridAutoReconnectTimer = FALSE
    /\ grid_connected = FALSE
    /\ connect = [k \in Slot |-> NoConnect]
    /\ disconnect = [k \in Slot |-> NoDisconnect]
    /\ reading = {}
    /\ plugged \in SUBSET Port /\ open = {} /\ write_locked = {}
    /\ lost = {} /\ found = FALSE

\* No call is running.
Quiet ==
    /\ \A k \in Slot : connect[k].pc # "failed"
    /\ \A k \in Slot : disconnect[k].pc \notin {"release", "finish"}

Opening == {connect[k].port : k \in {i \in Slot : connect[i].pc = "open"}}
Closing == {disconnect[k].port : k \in {i \in Slot : disconnect[i].pc = "close"}}

\* Something else may happen: while a gridDisconnect waits, if waits are slow.
Idle ==
    /\ Quiet
    /\ \/ "slow" \in Faults
       \/ \A k \in Slot : disconnect[k].pc = "free"

\* The user waits for the calls under way, and for the reconnection.
Patient ==
    \/ "hasty" \in Faults
    \/ /\ \A k \in Slot : connect[k].pc = "free"
       /\ ~gridAutoReconnect

\* Events already under way reach bridge.js before the next thing a user does.
Settled == Idle /\ lost = {} /\ ~found /\ open \subseteq plugged

scheduleGridReconnect ==
    gridAutoReconnectTimer' = (gridAutoReconnectTimer \/ ~gridConnected)

---------------------------------------------------------------------------
(* gridConnect.                                                            *)

ConnectStarts(auto) ==
    \E k \in Slot :
        /\ connect[k].pc = "free"
        /\ connect' = [connect EXCEPT ![k] =
             [pc |-> IF ~auto THEN "pick"
                     ELSE IF gridPort # null THEN "ports" ELSE "failed",
              auto |-> auto, port |-> null]]

Goes(k, pc, port) ==
    connect' = [connect EXCEPT ![k].pc = pc, ![k].port = port]

\* gridPort.open of a port that is not closed is refused at once.
OpenCalled(k, port) ==
    IF port = null \/ port \in open \cup Opening \cup Closing
    THEN Goes(k, "failed", null)
    ELSE Goes(k, "open", port)

\* requestPort: the user picks a port, or none.
PortPicked(k) ==
    /\ Settled /\ connect[k].pc = "pick"
    /\ \/ \E p \in plugged : gridPort' = p /\ OpenCalled(k, p)
       \/ Goes(k, "failed", null) /\ UNCHANGED gridPort
    /\ UNCHANGED <<gridReader, gridWriter, gridConnected, gridAutoReconnect,
                   isManualDisconnect, gridAutoReconnectTimer, grid_connected,
                   disconnect, reading, portVars>>

\* getPorts: the first port of the list replaces gridPort, whatever became of
\* it in the meantime.
PortsListed(k) ==
    /\ Idle /\ connect[k].pc = "ports"
    /\ gridPort' \in IF plugged = {} THEN {gridPort} ELSE plugged
    /\ OpenCalled(k, gridPort')
    /\ UNCHANGED <<gridReader, gridWriter, gridConnected, gridAutoReconnect,
                   isManualDisconnect, gridAutoReconnectTimer, grid_connected,
                   disconnect, reading, portVars>>

\* setSignals is called on what gridPort is by then.
Opened(k) ==
    /\ Idle /\ connect[k].pc = "open"
    /\ connect[k].port \in plugged
    /\ open' = open \cup {connect[k].port}
    /\ IF gridPort \in open' THEN Goes(k, "signals", gridPort)
                             ELSE Goes(k, "failed", null)
    /\ UNCHANGED <<jsVars, grid_connected, disconnect, reading, plugged,
                   write_locked, lost, found>>

OpenRefused(k) ==
    /\ Idle /\ connect[k].pc = "open"
    /\ connect[k].port \notin plugged
    /\ Goes(k, "failed", null)
    /\ UNCHANGED <<jsVars, grid_connected, disconnect, reading, portVars>>

\* gridReadLoop up to its first await; a stream that is locked makes it fail
\* in silence.
ReadLoopStarts(p) ==
    IF p \in reading THEN UNCHANGED <<reading, gridReader>>
    ELSE reading' = reading \cup {p} /\ gridReader' = p

\* The rest of gridConnect, up to viii_grid_connect and the read loop.
Connected(k) ==
    /\ Idle /\ connect[k].pc = "signals"
    /\ connect[k].port \in plugged \cap open
    /\ gridPort \in open \ write_locked
    /\ gridWriter' = gridPort
    /\ write_locked' = write_locked \cup {gridPort}
    /\ gridConnected' = TRUE /\ gridAutoReconnect' = TRUE
    /\ isManualDisconnect' = FALSE
    /\ grid_connected' = TRUE
    /\ ReadLoopStarts(gridPort)
    /\ connect' = [connect EXCEPT ![k] = NoConnect]
    /\ UNCHANGED <<gridPort, gridAutoReconnectTimer, disconnect, plugged, open,
                   lost, found>>

\* setSignals is refused, or gridPort cannot be written any more.
SignalsRefused(k) ==
    /\ Idle /\ connect[k].pc = "signals"
    /\ \/ "signals" \in Faults
       \/ connect[k].port \notin plugged \cap open
       \/ gridPort \notin open \ write_locked
    /\ Goes(k, "failed", null)
    /\ UNCHANGED <<jsVars, grid_connected, disconnect, reading, portVars>>

\* The catch of gridConnect, and its return without a port.
ConnectFails(k) ==
    /\ connect[k].pc = "failed"
    /\ connect' = [connect EXCEPT ![k] = NoConnect]
    /\ IF connect[k].auto THEN scheduleGridReconnect
                          ELSE UNCHANGED gridAutoReconnectTimer
    /\ UNCHANGED <<gridPort, gridReader, gridWriter, gridConnected,
                   gridAutoReconnect, isManualDisconnect, grid_connected,
                   disconnect, reading, portVars>>

---------------------------------------------------------------------------
(* gridReadLoop.                                                           *)

\* Mutant: gridReader outlives its loop.
LoopLeft_reader_kept(p) == reading' = reading \ {p} /\ UNCHANGED gridReader

\* The finally of the loop: it clears gridReader, whosever that is.
LoopLeft(p) == reading' = reading \ {p} /\ gridReader' = null

\* A byte comes, and the loop finds that the link was given up.
LoopNotices(p) ==
    /\ Idle /\ p \in reading \cap plugged /\ ~gridConnected
    /\ LoopLeft(p)
    /\ UNCHANGED <<gridPort, gridWriter, gridConnected, gridAutoReconnect,
                   isManualDisconnect, gridAutoReconnectTimer, grid_connected,
                   connect, disconnect, portVars>>

\* Mutant: the catch of the loop does not mark the link as down.
PortBreaks_unnoticed(p) ==
    /\ Idle /\ p \in open \ plugged
    /\ open' = open \ {p} /\ write_locked' = write_locked \ {p}
    /\ IF p \in reading THEN LoopLeft(p) ELSE UNCHANGED <<reading, gridReader>>
    /\ UNCHANGED <<gridPort, gridWriter, gridConnected, gridAutoReconnect,
                   isManualDisconnect, gridAutoReconnectTimer, grid_connected,
                   connect, disconnect, plugged, lost, found>>

\* The browser gives up the port of a device that is gone; a read fails.
PortBreaks(p) ==
    /\ Idle /\ p \in open \ plugged
    /\ open' = open \ {p} /\ write_locked' = write_locked \ {p}
    /\ IF p \in reading
       THEN LoopLeft(p) /\ gridConnected' = FALSE
       ELSE UNCHANGED <<reading, gridReader, gridConnected>>
    /\ UNCHANGED <<gridPort, gridWriter, gridAutoReconnect, isManualDisconnect,
                   gridAutoReconnectTimer, grid_connected, connect, disconnect,
                   plugged, lost, found>>

\* A read fails, the port stays open: its next stream could be read.
ReadFails(p) ==
    /\ Idle /\ "read" \in Faults /\ p \in reading \cap plugged
    /\ LoopLeft(p) /\ gridConnected' = FALSE
    /\ UNCHANGED <<gridPort, gridWriter, gridAutoReconnect, isManualDisconnect,
                   gridAutoReconnectTimer, grid_connected, connect, disconnect,
                   portVars>>

---------------------------------------------------------------------------
(* gridDisconnect.                                                         *)

\* Up to the first await: gridReader.cancel, which ends its read loop.
DisconnectStarts(manual) ==
    \E k \in Slot :
        /\ disconnect[k].pc = "free"
        /\ disconnect' = [disconnect EXCEPT ![k] =
             [pc |-> IF gridReader # null THEN "cancel" ELSE "release",
              manual |-> manual, port |-> null]]
        /\ gridConnected' = FALSE /\ isManualDisconnect' = manual
        /\ gridAutoReconnect' = (gridAutoReconnect /\ ~manual)
        /\ gridAutoReconnectTimer' = (gridAutoReconnectTimer /\ ~manual)
        /\ grid_connected' = FALSE
        /\ IF gridReader # null THEN LoopLeft(gridReader)
                                ELSE UNCHANGED <<reading, gridReader>>
        /\ UNCHANGED <<gridPort, gridWriter, connect>>

Cancelled(k) ==
    /\ Quiet /\ disconnect[k].pc = "cancel"
    /\ gridReader' = null
    /\ disconnect' = [disconnect EXCEPT ![k].pc = "release"]
    /\ UNCHANGED <<gridPort, gridWriter, gridConnected, gridAutoReconnect,
                   isManualDisconnect, gridAutoReconnectTimer, grid_connected,
                   connect, reading, portVars>>

\* Mutant: the writer is dropped without releaseLock.
Released_lock_kept(k) ==
    /\ disconnect[k].pc = "release"
    /\ gridWriter' = null
    /\ IF gridPort \in open \ (reading \cup write_locked)
       THEN /\ open' = open \ {gridPort}
            /\ disconnect' = [disconnect EXCEPT ![k].pc = "close",
                                                ![k].port = gridPort]
       ELSE /\ disconnect' = [disconnect EXCEPT ![k].pc = "finish"]
            /\ UNCHANGED open
    /\ UNCHANGED <<gridPort, gridReader, gridConnected, gridAutoReconnect,
                   isManualDisconnect, gridAutoReconnectTimer, grid_connected,
                   connect, reading, plugged, write_locked, lost, found>>

\* The writer is released and the port closed: whatever both are by then.
\* close is refused while the port is locked, or not open.
Released(k) ==
    /\ disconnect[k].pc = "release"
    /\ gridWriter' = null
    /\ write_locked' = write_locked \ {gridWriter}
    /\ IF gridPort \in open \ (reading \cup write_locked')
       THEN /\ open' = open \ {gridPort}
            /\ disconnect' = [disconnect EXCEPT ![k].pc = "close",
                                                ![k].port = gridPort]
       ELSE /\ disconnect' = [disconnect EXCEPT ![k].pc = "finish"]
            /\ UNCHANGED open
    /\ UNCHANGED <<gridPort, gridReader, gridConnected, gridAutoReconnect,
                   isManualDisconnect, gridAutoReconnectTimer, grid_connected,
                   connect, reading, plugged, lost, found>>

Closed(k) ==
    /\ Quiet /\ disconnect[k].pc = "close"
    /\ disconnect' = [disconnect EXCEPT ![k].pc = "finish"]
    /\ UNCHANGED <<jsVars, grid_connected, connect, reading, portVars>>

\* Mutant: only the connect event of the device leads to an attempt.
Finished_unscheduled(k) ==
    /\ disconnect[k].pc = "finish"
    /\ gridPort' = IF disconnect[k].manual THEN null ELSE gridPort
    /\ disconnect' = [disconnect EXCEPT ![k] = NoDisconnect]
    /\ UNCHANGED <<gridReader, gridWriter, gridConnected, gridAutoReconnect,
                   isManualDisconnect, gridAutoReconnectTimer, grid_connected,
                   connect, reading, portVars>>

\* Mutant: the port is forgotten after every disconnection.
Finished_forgetful(k) ==
    /\ disconnect[k].pc = "finish"
    /\ gridPort' = null
    /\ IF gridAutoReconnect /\ ~isManualDisconnect
       THEN scheduleGridReconnect ELSE UNCHANGED gridAutoReconnectTimer
    /\ disconnect' = [disconnect EXCEPT ![k] = NoDisconnect]
    /\ UNCHANGED <<gridReader, gridWriter, gridConnected, gridAutoReconnect,
                   isManualDisconnect, grid_connected, connect, reading,
                   portVars>>

\* The port is forgotten after a manual disconnection; the flags decide about
\* the retry as they are by now.
Finished(k) ==
    /\ disconnect[k].pc = "finish"
    /\ gridPort' = IF disconnect[k].manual THEN null ELSE gridPort
    /\ IF gridAutoReconnect /\ ~isManualDisconnect
       THEN scheduleGridReconnect ELSE UNCHANGED gridAutoReconnectTimer
    /\ disconnect' = [disconnect EXCEPT ![k] = NoDisconnect]
    /\ UNCHANGED <<gridReader, gridWriter, gridConnected, gridAutoReconnect,
                   isManualDisconnect, grid_connected, connect, reading,
                   portVars>>

---------------------------------------------------------------------------
(* What calls them.                                                        *)

\* The button; while the browser's chooser is open it takes no second click.
Clicked ==
    /\ Settled /\ \A k \in Slot : connect[k].pc # "pick"
    /\ \/ gridConnected /\ DisconnectStarts(TRUE)
       \/ /\ Patient
          /\ ~gridConnected /\ ConnectStarts(FALSE)
          /\ UNCHANGED <<jsVars, grid_connected, disconnect, reading>>
    /\ UNCHANGED portVars

TimerFires ==
    /\ Idle
    /\ gridAutoReconnectTimer /\ gridAutoReconnectTimer' = FALSE
    /\ IF gridConnected \/ ~gridAutoReconnect THEN UNCHANGED connect
                                              ELSE ConnectStarts(TRUE)
    /\ UNCHANGED <<gridPort, gridReader, gridWriter, gridConnected,
                   gridAutoReconnect, isManualDisconnect, grid_connected,
                   disconnect, reading, portVars>>

DisconnectEvent(p) ==
    /\ Idle /\ p \in lost /\ lost' = lost \ {p}
    /\ IF gridPort = p
       THEN DisconnectStarts(FALSE)
       ELSE UNCHANGED <<jsVars, grid_connected, connect, disconnect, reading>>
    /\ UNCHANGED <<plugged, open, write_locked, found>>

ConnectEvent ==
    /\ Idle /\ found /\ found' = FALSE
    /\ IF gridAutoReconnect THEN scheduleGridReconnect
                            ELSE UNCHANGED gridAutoReconnectTimer
    /\ UNCHANGED <<gridPort, gridReader, gridWriter, gridConnected,
                   gridAutoReconnect, isManualDisconnect, grid_connected,
                   connect, disconnect, reading, plugged, open, write_locked,
                   lost>>

Unplugged(p) ==
    /\ Idle /\ p \in plugged
    /\ plugged' = plugged \ {p} /\ lost' = lost \cup {p}
    /\ UNCHANGED <<jsVars, grid_connected, connect, disconnect, reading, open,
                   write_locked, found>>

\* After the browser has seen the device go.
PluggedIn(p) ==
    /\ Idle /\ p \notin plugged \cup lost \cup open
    /\ plugged' = plugged \cup {p} /\ found' = TRUE
    /\ UNCHANGED <<jsVars, grid_connected, connect, disconnect, reading, open,
                   write_locked, lost>>

Connecting(k) ==
    \/ PortsListed(k) \/ Opened(k) \/ OpenRefused(k) \/ Connected(k)
    \/ SignalsRefused(k) \/ ConnectFails(k)

Disconnecting(k) == Cancelled(k) \/ Released(k) \/ Closed(k) \/ Finished(k)

Event ==
    \/ TimerFires \/ ConnectEvent
    \/ \E p \in Port : PortBreaks(p) \/ DisconnectEvent(p)

Next ==
    \/ \E k \in Slot : PortPicked(k) \/ Connecting(k) \/ Disconnecting(k)
    \/ Event
    \/ Clicked
    \/ \E p \in Port : Unplugged(p) \/ PluggedIn(p) \/ LoopNotices(p) \/ ReadFails(p)

Spec == Init /\ [][Next]_vars

\* Promises settle, timers fire and events are delivered.
FairSpec ==
    /\ Spec
    /\ \A k \in Slot : SF_vars(Connecting(k)) /\ SF_vars(Disconnecting(k))
    /\ SF_vars(TimerFires) /\ SF_vars(ConnectEvent)
    /\ \A p \in Port : SF_vars(PortBreaks(p)) /\ SF_vars(DisconnectEvent(p))

---------------------------------------------------------------------------
\* Each variable has its type; gridReader is null or the reader of a loop that
\* runs, and only open ports have streams that are locked.
LinkTypeOK ==
    /\ gridPort \in Port \cup {null}
    /\ gridReader \in reading \cup {null}
    /\ gridWriter \in Port \cup {null}
    /\ gridConnected \in BOOLEAN /\ gridAutoReconnect \in BOOLEAN
    /\ isManualDisconnect \in BOOLEAN /\ gridAutoReconnectTimer \in BOOLEAN
    /\ grid_connected \in BOOLEAN /\ found \in BOOLEAN
    /\ connect \in [Slot -> Connect] /\ disconnect \in [Slot -> Disconnect]
    /\ plugged \subseteq Port /\ open \subseteq Port /\ lost \subseteq Port
    /\ reading \subseteq open /\ write_locked \subseteq open

NoneDisconnecting == \A k \in Slot : disconnect[k].pc = "free"
NoneConnecting == \A k \in Slot : connect[k].pc = "free"

\* A writer's lock is always that of gridWriter: whatever calls overlap, with
\* one device gridDisconnect can always find the lock that it must release
\* before the port can be closed.
WriterOwned == write_locked \subseteq {gridWriter}

\* While bridge.js shows the link as connected and no disconnection is under
\* way, gridPort is open, gridWriter writes to it and a loop reads it: there is
\* no link that looks alive and carries nothing.
LinkUsable ==
    gridConnected /\ NoneDisconnecting =>
        /\ gridPort \in write_locked /\ gridWriter = gridPort
        /\ gridPort \in reading /\ gridReader = gridPort

\* Once the C side has been told of the disconnection and all calls have
\* returned, no port is left open: an open port could not be opened again.
NoPortLeaks ==
    ~grid_connected /\ NoneConnecting /\ NoneDisconnecting /\ Settled
    => open = {}

\* An attempt is on its way: by the timer, or by a call under way.
AttemptPending ==
    \/ gridAutoReconnectTimer
    \/ \E k \in Slot : connect[k].auto \/ disconnect[k].pc # "free"

\* What is left of a link of which only the page has noticed that it is down:
\* the disconnect event or the connect event of its device is still to come ...
EventToCome == lost # {} \/ found

\* ... or a read failed, and the device stays ...
ReadErrorLeft == open \cap plugged # {}

\* ... or a slow manual disconnection forgot the port of the new link, and the
\* device was pulled out.
PortForgotten == gridPort = null /\ plugged = {}

\* A link that is down and was not given up by the user is going to be tried
\* again: by the timer, by a call under way, or, while the C side still shows the
\* link, at an event that is still to come.  Two cases are excepted, because in
\* them bridge.js has nothing pending: the read error of bridge.js:674, left to
\* an event that does not come (EventHandlesReadError), and the forgotten port,
\* until the device is plugged in again.
RetryPending ==
    gridAutoReconnect /\ ~gridConnected =>
        \/ AttemptPending
        \/ grid_connected /\ (EventToCome \/ ReadErrorLeft \/ PortForgotten)

\* bridge.js:720, "auto-reconnect on replug": if the user wants the link and
\* the devices stay plugged in, the C side sees the grid again.  After a read
\* error the C side has not stopped seeing it: that the link itself comes back
\* then is not claimed (EventHandlesReadError).
Reconnects == <>[](gridAutoReconnect /\ plugged = Port) => []<>grid_connected

\* bridge.js:674, "don't call gridDisconnect here - the serial 'disconnect'
\* event will handle it": after an error of the read loop the C side and the
\* page agree again on whether there is a link.
EventHandlesReadError ==
    grid_connected /\ ~gridConnected ~> (grid_connected <=> gridConnected)
=============================================================================
