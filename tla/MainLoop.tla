------------------------------ MODULE MainLoop ------------------------------
(***************************************************************************)
(* viii_loop (main.c) with everything it drains, the browser events that   *)
(* feed it, and the restart of the Lua VM.                                 *)
(*                                                                         *)
(* The browser has one thread.  A timer calls viii_loop; between two calls *)
(* (pc = "idle") events append to the queues.  Within a call nothing else  *)
(* runs, but any handler may throw a JavaScript exception (MIDIOutput.send *)
(* throws on a lost port or an invalid message): it unwinds the whole of   *)
(* viii_loop to the catch in bridge.js, and what the call had not yet      *)
(* stored stays as it was.                                                 *)
(*                                                                         *)
(* The event queues are the bounded FIFOs that EventQueue is proved to     *)
(* implement.  An entry is represented by the number of times its handler  *)
(* has been started so far, a line of REPL input by a record.              *)
(***************************************************************************)
EXTENDS Naturals, Sequences

CONSTANTS CAP,        \* capacity of each event queue
          MaxBatch,   \* bound: lines buffered between two loops
          MaxThrows   \* bound: exceptions thrown by handlers in a behaviour

ASSUME BoundsAssumption ==
    /\ CAP \in [{"midi", "key", "enc"} -> Nat]
    /\ MaxBatch \in Nat
    /\ MaxThrows \in Nat

Queue == {"midi", "key", "enc"}

VARIABLES
    loaded,           \* viii_init has been called (bridge.js initWasm)
    vm,               \* L # NULL
    callbacks,        \* midi and serial rx_callback no longer the noops
    vm_id,            \* parity of the number of VMs created
    pc,               \* where viii_loop is
    reinit_requested, \* main.c
    queue,            \* midi_rx_queue, key_queue, enc_queue
    rx,               \* serial rx_buf: the lines between rx_r and rx_w
    line,             \* next line of rx for repl_handle_bytes
    metro_due,        \* some metro is running and pending
    port,             \* midiOutPort of bridge.js
    sounding,         \* whose notes the selected output is playing
    throws            \* history: handler exceptions so far

vars == <<loaded, vm, callbacks, vm_id, pc, reinit_requested, queue, rx, line,
          metro_due, port, sounding, throws>>

vmVars == <<loaded, vm, callbacks, vm_id>>
midiVars == <<port, sounding>>
inputVars == <<queue, rx, line, metro_due>>

Nobody == 2  \* the VM of a line that has not run

PC == {"idle", "notes_off", "vm_init", "midi", "metro", "serial", "key", "enc"}

Line == [kind : {"lua", "reset"}, runs : Nat, by : {0, 1, Nobody}]

Init ==
    /\ loaded = FALSE /\ vm = FALSE /\ callbacks = FALSE /\ vm_id = 0
    /\ pc = "idle"
    /\ reinit_requested = FALSE
    /\ queue = [q \in Queue |-> <<>>]
    /\ rx = <<>> /\ line = 1
    /\ metro_due = FALSE
    /\ port \in {"none", "live"} /\ sounding = "nobody"
    /\ throws = 0

---------------------------------------------------------------------------
(* Browser events, between two calls of viii_loop.                         *)

\* initWasm of bridge.js, once the stored files are loaded.  vm_init runs
\* the user's init script, which may already play.
Plays(s) == {s} \cup (IF port = "live" THEN {"current"} ELSE {})

viii_init ==
    /\ pc = "idle" /\ ~loaded
    /\ loaded' = TRUE /\ vm' = TRUE /\ callbacks' = TRUE
    /\ vm_id' = 1 - vm_id
    /\ metro_due' = FALSE
    /\ sounding' \in Plays(sounding)
    /\ UNCHANGED <<pc, reinit_requested, queue, rx, line, port, throws>>

\* The init script throws out of vm_init: nothing after it runs.
viii_init_throws ==
    /\ pc = "idle" /\ ~loaded /\ throws < MaxThrows
    /\ loaded' = TRUE /\ vm' = TRUE
    /\ vm_id' = 1 - vm_id
    /\ metro_due' = FALSE
    /\ sounding' \in Plays(sounding)
    /\ throws' = throws + 1
    /\ UNCHANGED <<callbacks, pc, reinit_requested, queue, rx, line, port>>

\* viii_midi_rx, viii_grid_rx and viii_arc_key; a full queue drops the event.
EventArrives(q) ==
    /\ pc = "idle" /\ Len(queue[q]) < CAP[q]
    /\ queue' = [queue EXCEPT ![q] = Append(@, 0)]
    /\ UNCHANGED <<vmVars, midiVars, pc, reinit_requested, rx, line, metro_due,
                   throws>>

viii_serial_rx(kind) ==
    /\ pc = "idle" /\ Len(rx) < MaxBatch
    /\ rx' = Append(rx, [kind |-> kind, runs |-> 0, by |-> Nobody])
    /\ UNCHANGED <<vmVars, midiVars, pc, reinit_requested, queue, line,
                   metro_due, throws>>

viii_metro_tick ==
    /\ pc = "idle" /\ vm /\ ~metro_due
    /\ metro_due' = TRUE
    /\ UNCHANGED <<vmVars, midiVars, pc, reinit_requested, queue, rx, line,
                   throws>>

\* The change listener of the output menu: panic on the old port, then switch.
\* On a lost port the panic throws and nothing is switched.
PortSelected ==
    /\ pc = "idle" /\ port # "dead"
    /\ sounding' = "nobody"
    /\ port' \in {"none", "live"}
    /\ UNCHANGED <<vmVars, pc, reinit_requested, inputVars, throws>>

\* onstatechange for the selected port: midiPanic throws on the disconnected
\* port before refreshMidiPorts can replace midiOutPort.
PortLost ==
    /\ pc = "idle" /\ port = "live"
    /\ port' = "dead"
    /\ UNCHANGED <<vmVars, pc, reinit_requested, inputVars, sounding, throws>>

\* A later statechange reaches refreshMidiPorts; the menu decides the port.
PortBack ==
    /\ pc = "idle" /\ port = "dead"
    /\ \/ port' = "live" /\ sounding' \in {sounding, "nobody"}
       \/ port' = "none" /\ sounding' = "nobody"
    /\ UNCHANGED <<vmVars, pc, reinit_requested, inputVars, throws>>

---------------------------------------------------------------------------
(* viii_loop.                                                              *)

\* Mutant: the request is cleared by every call, and acted on by none.
LoopStartsForgetful ==
    /\ pc = "idle" /\ pc' = "midi"
    /\ reinit_requested' = FALSE
    /\ UNCHANGED <<vmVars, midiVars, inputVars, throws>>

LoopStarts ==
    /\ pc = "idle"
    /\ pc' = IF reinit_requested THEN "notes_off" ELSE "midi"
    /\ reinit_requested' = FALSE
    /\ UNCHANGED <<vmVars, midiVars, inputVars, throws>>

\* Mutant: the restart sends nothing.
NotesOffSkipped ==
    /\ pc = "notes_off" /\ pc' = "vm_init"
    /\ UNCHANGED <<vmVars, midiVars, reinit_requested, inputVars, throws>>

\* CC 123 on the 16 channels.  On a lost port the first midi_tx throws and
\* viii_loop is left, the request already taken.
NotesOff ==
    /\ pc = "notes_off"
    /\ IF port = "dead"
       THEN pc' = "idle" /\ UNCHANGED sounding
       ELSE pc' = "vm_init" /\ sounding' = "nobody"
    /\ UNCHANGED <<vmVars, reinit_requested, inputVars, port, throws>>

\* A note left sounding by the closed VM has nobody to end it.
Orphan(s) == IF s = "current" THEN "old" ELSE s

VmReplaced ==
    /\ pc = "vm_init"
    /\ vm' = TRUE /\ callbacks' = TRUE
    /\ vm_id' = 1 - vm_id
    /\ sounding' \in Plays(Orphan(sounding))
    /\ pc' = "idle"
    /\ UNCHANGED <<loaded, reinit_requested, inputVars, port, throws>>

VmInitThrows ==
    /\ pc = "vm_init" /\ throws < MaxThrows
    /\ vm' = TRUE
    /\ vm_id' = 1 - vm_id
    /\ sounding' \in Plays(Orphan(sounding))
    /\ throws' = throws + 1
    /\ pc' = "idle"
    /\ UNCHANGED <<loaded, callbacks, reinit_requested, inputVars, port>>

\* Mutants: device_task, or serial_task, is not called.
NoDeviceTask ==
    [midi |-> "metro", metro |-> "serial", serial |-> "idle", key |-> "enc",
     enc |-> "idle"]

NoSerialTask ==
    [midi |-> "metro", metro |-> "key", serial |-> "key", key |-> "enc",
     enc |-> "idle"]

\* midi_task, metro_task, serial_task and device_task in their fixed order.
NextTask ==
    [midi |-> "metro", metro |-> "serial", serial |-> "key", key |-> "enc",
     enc |-> "idle"]

HasHandler(q) == IF q = "midi" THEN callbacks ELSE vm

HandlerReturns(q) ==
    /\ pc = q /\ queue[q] # <<>>
    /\ queue' = [queue EXCEPT ![q] = Tail(@)]
    /\ sounding' \in IF HasHandler(q) THEN Plays(sounding) ELSE {sounding}
    /\ UNCHANGED <<vmVars, pc, reinit_requested, rx, line, metro_due, port,
                   throws>>

\* Mutant: an entry whose handler threw goes to the back of the queue.
HandlerThrowsRequeues(q) ==
    /\ pc = q /\ queue[q] # <<>> /\ HasHandler(q) /\ throws < MaxThrows
    /\ queue' = [queue EXCEPT ![q] = Append(Tail(@), Head(@) + 1)]
    /\ throws' = throws + 1 /\ pc' = "idle"
    /\ UNCHANGED <<vmVars, midiVars, reinit_requested, rx, line, metro_due>>

\* The exception leaves r where it was: the entry stays at the head.
HandlerThrows(q) ==
    /\ pc = q /\ queue[q] # <<>> /\ HasHandler(q) /\ throws < MaxThrows
    /\ queue' = [queue EXCEPT ![q][1] = @ + 1]
    /\ sounding' \in Plays(sounding)
    /\ throws' = throws + 1
    /\ pc' = "idle"
    /\ UNCHANGED <<vmVars, reinit_requested, rx, line, metro_due, port>>

QueueEmpty(q) ==
    /\ pc = q /\ queue[q] = <<>>
    /\ pc' = NextTask[q]
    /\ UNCHANGED <<vmVars, midiVars, inputVars, reinit_requested, throws>>

\* metro_task clears pending before it calls vm_handle_metro.
MetroTask ==
    /\ pc = "metro"
    /\ metro_due' = FALSE
    /\ sounding' \in IF metro_due THEN Plays(sounding) ELSE {sounding}
    /\ pc' = NextTask["metro"]
    /\ UNCHANGED <<vmVars, reinit_requested, queue, rx, line, port, throws>>

MetroThrows ==
    /\ pc = "metro" /\ metro_due /\ throws < MaxThrows
    /\ metro_due' = FALSE
    /\ sounding' \in Plays(sounding)
    /\ throws' = throws + 1
    /\ pc' = "idle"
    /\ UNCHANGED <<vmVars, reinit_requested, queue, rx, line, port>>

\* A line that has run once more.
Ran(l) == [kind |-> l.kind, runs |-> l.runs + 1, by |-> vm_id]

\* Mutant: a reset line replaces the VM on the spot.
LineReturnsReset ==
    /\ pc = "serial" /\ callbacks /\ line <= Len(rx)
    /\ rx' = [rx EXCEPT ![line] = Ran(@)]
    /\ line' = line + 1
    /\ vm_id' = IF rx[line].kind = "reset" THEN 1 - vm_id ELSE vm_id
    /\ UNCHANGED <<loaded, vm, callbacks, midiVars, reinit_requested, pc, queue,
                   metro_due, throws>>

\* rx_callback is given the whole batch; repl_handle_bytes runs its lines in
\* turn.  A reset line only sets the flag, and the lines after it run on.
LineReturns ==
    /\ pc = "serial" /\ callbacks /\ line <= Len(rx)
    /\ rx' = [rx EXCEPT ![line] = Ran(@)]
    /\ line' = line + 1
    /\ \/ /\ rx[line].kind = "reset"
          /\ reinit_requested' = TRUE /\ UNCHANGED sounding
       \/ /\ rx[line].kind = "lua"
          /\ sounding' \in Plays(sounding) /\ UNCHANGED reinit_requested
    /\ UNCHANGED <<vmVars, pc, queue, metro_due, port, throws>>

\* Mutant: the buffer is emptied before its lines are run.
LineThrowsAway ==
    /\ pc = "serial" /\ callbacks /\ line <= Len(rx) /\ throws < MaxThrows
    /\ rx' = <<>> /\ line' = 1
    /\ throws' = throws + 1 /\ pc' = "idle"
    /\ UNCHANGED <<vmVars, midiVars, reinit_requested, queue, metro_due>>

\* The exception skips rx_r = rx_w = 0: the next loop gets the batch again.
LineThrows ==
    /\ pc = "serial" /\ callbacks /\ line <= Len(rx) /\ throws < MaxThrows
    /\ rx[line].kind = "lua"
    /\ rx' = [rx EXCEPT ![line] = Ran(@)]
    /\ line' = 1
    /\ sounding' \in Plays(sounding)
    /\ throws' = throws + 1
    /\ pc' = "idle"
    /\ UNCHANGED <<vmVars, reinit_requested, queue, metro_due, port>>

\* Mutant: rx_r and rx_w are not reset.
BatchKept ==
    /\ pc = "serial" /\ (callbacks => line > Len(rx))
    /\ line' = 1 /\ pc' = NextTask["serial"]
    /\ UNCHANGED <<vmVars, midiVars, reinit_requested, queue, rx, metro_due,
                   throws>>

\* The callback has returned, or was the noop: the buffer is emptied.
BatchDone ==
    /\ pc = "serial"
    /\ callbacks => line > Len(rx)
    /\ rx' = <<>> /\ line' = 1
    /\ pc' = NextTask["serial"]
    /\ UNCHANGED <<vmVars, midiVars, reinit_requested, queue, metro_due, throws>>

---------------------------------------------------------------------------
Drain(q) == HandlerReturns(q) \/ HandlerThrows(q) \/ QueueEmpty(q)

LoopRuns ==
    \/ NotesOff \/ VmReplaced \/ VmInitThrows
    \/ \E q \in Queue : Drain(q)
    \/ MetroTask \/ MetroThrows
    \/ LineReturns \/ LineThrows \/ BatchDone

Next ==
    \/ viii_init \/ viii_init_throws
    \/ \E q \in Queue : EventArrives(q)
    \/ \E kind \in {"lua", "reset"} : viii_serial_rx(kind)
    \/ viii_metro_tick
    \/ PortSelected \/ PortLost \/ PortBack
    \/ LoopStarts
    \/ LoopRuns

Spec == Init /\ [][Next]_vars

\* The audio thread keeps calling viii_loop, and a call runs to its end.
FairSpec == Spec /\ WF_vars(LoopStarts) /\ WF_vars(LoopRuns)

---------------------------------------------------------------------------
TypeOK ==
    /\ loaded \in BOOLEAN /\ vm \in BOOLEAN /\ callbacks \in BOOLEAN
    /\ vm_id \in {0, 1}
    /\ pc \in PC
    /\ reinit_requested \in BOOLEAN
    /\ queue \in [Queue -> Seq(Nat)]
    /\ \A q \in Queue : Len(queue[q]) <= CAP[q]
    /\ rx \in Seq(Line) /\ line \in Nat \ {0}
    /\ metro_due \in BOOLEAN
    /\ port \in {"none", "live", "dead"}
    /\ sounding \in {"nobody", "current", "old"}
    /\ throws \in 0 .. MaxThrows

\* Events are handed out in order even when handlers throw: only the head of
\* a queue can have been started before, and never more often than handlers
\* have thrown (midi_task, device_task: r moves only after the call).
OnlyHeadRetried ==
    \A q \in Queue : \A i \in 1 .. Len(queue[q]) :
        queue[q][i] > 0 => i = 1 /\ queue[q][i] <= throws

\* A line of a batch runs again only because a handler threw: no more runs than
\* all the exceptions so far, of whichever handler, plus the one of the present
\* call; and a line never runs more often than the lines before it.
ReplayBounded ==
    \A i \in 1 .. Len(rx) :
        /\ rx[i].runs <= throws + (IF i < line THEN 1 ELSE 0)
        /\ \A j \in 1 .. i : rx[j].runs >= rx[i].runs

\* All the lines of a batch that have run in the present call ran on the VM
\* that is still there: a reset line never replaces the VM under its own
\* batch, which is still on the stack.
BatchOnOneVm ==
    pc = "serial" => \A i \in 1 .. line - 1 : rx[i].by = vm_id

\* A note sounding on the selected output belongs to the running VM: the
\* restart in viii_loop ends the old VM's notes or does not happen at all.
NoOrphanNotes == sounding # "old"

\* serial_task empties its buffer only after every line of it has run, but for
\* the lines that came before viii_init installed the callback.
NoLineSkipped ==
    [][callbacks /\ rx # <<>> /\ rx' = <<>>
         => \A i \in 1 .. Len(rx) : rx[i].runs > 0]_vars

\* Every queued event is handled, whatever handlers throw and however often
\* the VM is restarted, once the throwing ends.
QueuesDrain == \A q \in Queue : queue[q] # <<>> ~> queue[q] = <<>>

\* The receive buffer is emptied again, whatever lines throw.  (That a line has
\* run by then is NoLineSkipped, which excepts a failed viii_init: without the
\* callback of the core, serial_task throws the lines away.)
LinesRun == rx # <<>> ~> rx = <<>>

\* A requested restart replaces the VM, or the selected MIDI output is lost.
RestartUnlessPortLost ==
    \A id \in {0, 1} :
        reinit_requested /\ vm_id = id ~> vm_id # id \/ port = "dead"

\* The documented ^^i: a requested restart replaces the VM.
RestartHappens ==
    \A id \in {0, 1} : reinit_requested /\ vm_id = id ~> vm_id # id

============================================================================
