-------------------------------- MODULE Repl --------------------------------
(***************************************************************************)
(* The REPL as bridge.js uses it: lines of text that wait in the receive   *)
(* buffer until the loop ticks, output that is cut off by a full transmit  *)
(* buffer, captures that recognise their answer by tokens in the output    *)
(* and give up after a timeout, and the asynchronous functions of the page *)
(* that send lines and captures and await each other's results.            *)
(*                                                                         *)
(* The loop ticks while the pump of initWasm or the audio timer runs: the  *)
(* pump until the first file list has settled, the audio timer once a      *)
(* gesture finds the audio context running.                                *)
(*                                                                         *)
(* What a line does is up to the iii core, which is not in the tree; it is *)
(* modelled from what uploadScript relies on.  A batch runs to its end: an *)
(* exception in one is a matter of MainLoop.                               *)
(***************************************************************************)
EXTENDS Integers, Sequences, FiniteSets, SequencesExt

CONSTANTS
    MayStart,        \* for each thing the user may do once, what it may be
    none,
    SERIAL_TX_BUFSIZE,
    OutputLen,       \* lengths of the two lines that a command prints; those
                     \* of all others are 1
    MaxAtOnce,       \* bound: functions under way with one of the user's
    MaxNoise,        \* bound: lines that handlers print before a batch
    MaxSuspend       \* bound: times the browser suspends the context again, which
                     \* it does once there is nothing left to do

ASSUME ReplAssumption ==
    /\ SERIAL_TX_BUFSIZE \in Nat /\ OutputLen \in [1 .. 2 -> Nat \ {0}]
    /\ MaxAtOnce \in Nat /\ MaxNoise \in Nat /\ MaxSuspend \in Nat
    /\ {"boot", "gesture"} \cap DOMAIN MayStart = {}
    /\ \A u \in DOMAIN MayStart : MayStart[u] \subseteq {"refresh", "delete", "upload", "type"}

VARIABLES
    rx,             \* serial_web.c: lines received and not yet run
    vm,             \* the core: whether it collects text, what, and the file's name
    tasks,          \* the functions under way: what each has left to do
    pendingCapture, \* bridge.js, with the command it is for
    captureSeq, timers,
    answer,         \* history: the capture this tick of the loop resolved, and
                    \* whether its command's output fitted the transmit buffer
    saved,          \* history: the files this tick of the loop saved
    initPump, audio \* what makes the loop tick

vars == <<rx, vm, tasks, pendingCapture, captureSeq, timers, answer, saved, initPump, audio>>
captureVars == <<pendingCapture, captureSeq, timers>>

\* A step other than a tick of the loop.
NoTick == answer' = none /\ saved' = {}

User == DOMAIN MayStart
Task == {"boot", "gesture"} \cup User

---------------------------------------------------------------------------
(* The functions of the page, as the sequence of what they do between      *)
(* awaits: "ask" is a capture, anything else a line.                       *)

refreshFileList == <<"ask", "ask">>
deleteFile == <<"ask">> \o refreshFileList

\* Mutant: the content is not announced.
uploadScript_unannounced ==
    <<"ask", "^^s", "name", "^^f", "text1", "text2", "^^w">> \o refreshFileList

\* The content is sent 50 lines at a time; here are two such chunks.
uploadScript ==
    <<"ask", "^^s", "name", "^^f", "^^s", "text1", "text2", "^^w">> \o refreshFileList

Steps(f) ==
    CASE f = "refresh" -> refreshFileList
      [] f = "delete" -> deleteFile
      [] f = "upload" -> uploadScript
      [] f = "type" -> <<"line">>

\* A call: its function, the steps it has left, the capture it waits for or 0.
Call(f, left, waits) == [f |-> f, left |-> left, waits |-> waits]

Idle == Call(none, 0, 0)
Function(f) == Call(f, Len(Steps(f)), 0)

Vm(collecting, text, name) == [collecting |-> collecting, text |-> text, name |-> name]

Init ==
    /\ rx = <<>>
    /\ vm = Vm(FALSE, <<>>, <<>>)
    /\ \E starts \in [User -> UNION {MayStart[u] : u \in User}] :
         /\ \A u \in User : starts[u] \in MayStart[u]
         /\ tasks = [t \in Task |-> IF t \in User THEN Function(starts[t]) ELSE
                                   IF t = "boot" THEN Function("refresh") ELSE Idle]
    /\ pendingCapture = none /\ captureSeq = 0 /\ timers = {}
    /\ answer = none /\ saved = {}
    /\ initPump = TRUE
    /\ audio = [context |-> "none", resumed |-> FALSE, node |-> FALSE,
                started |-> FALSE, suspensions |-> 0]

\* A function of the user's has begun with its first step.
Begun(t) == t \in User => tasks[t].left # Len(Steps(tasks[t].f))
Busy == {t \in Task : Begun(t) /\ tasks[t].left # 0}

Ready(t) ==
    /\ tasks[t].left # 0 /\ tasks[t].waits = 0
    /\ Begun(t) \/ Cardinality(Busy) < MaxAtOnce

\* The step that is next.
Doing(t) == Steps(tasks[t].f)[Len(Steps(tasks[t].f)) + 1 - tasks[t].left]

\* Which command of which function: what it prints is known by it.
Command(t) == <<t, tasks[t].left>>

Line(do, id, of) == [do |-> do, id |-> id, of |-> of]

SendLine(t) ==
    /\ Ready(t) /\ Doing(t) # "ask"
    /\ rx' = Append(rx, Line(Doing(t), 0, Command(t)))
    /\ tasks' = [tasks EXCEPT ![t].left = @ - 1]
    /\ NoTick /\ UNCHANGED <<vm, captureVars, initPump, audio>>

\* A rejected capture ends the function: none of them goes on after one.
Ended(ts, t) == [ts EXCEPT ![t] = Call(ts[t].f, 0, 0)]

CaptureBusy(t) ==
    /\ Ready(t) /\ Doing(t) = "ask"
    /\ pendingCapture # none
    /\ tasks' = Ended(tasks, t)
    /\ NoTick /\ UNCHANGED <<rx, vm, captureVars, initPump, audio>>

Capture(t, id) == [id |-> id, of |-> Command(t), started |-> FALSE, lines |-> <<>>]

Asks(t, id) ==
    /\ Ready(t) /\ Doing(t) = "ask"
    /\ pendingCapture = none
    /\ pendingCapture' = Capture(t, id)
    /\ tasks' = [tasks EXCEPT ![t].waits = id]
    /\ rx' = rx \o <<Line("begin", id, Command(t)), Line("ask", 0, Command(t)),
                     Line("end", id, Command(t))>>
    /\ NoTick /\ UNCHANGED <<vm, initPump, audio>>

\* Mutant: every capture has the same tokens.
executeLuaCapture_same(t) ==
    Asks(t, 1) /\ timers' = timers \cup {1} /\ UNCHANGED captureSeq

\* Mutant: no timeout is set.
executeLuaCapture_endless(t) ==
    Asks(t, captureSeq + 1) /\ captureSeq' = captureSeq + 1 /\ UNCHANGED timers

executeLuaCapture(t) ==
    /\ Asks(t, captureSeq + 1)
    /\ captureSeq' = captureSeq + 1
    /\ timers' = timers \cup {captureSeq + 1}

CaptureTimesOut(id) ==
    /\ id \in timers
    /\ timers' = timers \ {id}
    /\ pendingCapture' = none
    /\ \E t \in Task : tasks[t].waits = id /\ tasks' = Ended(tasks, t)
    /\ NoTick /\ UNCHANGED <<rx, vm, captureSeq, initPump, audio>>

---------------------------------------------------------------------------
(* One tick of the loop: handlers print, the batch runs, the output is     *)
(* sent, and handleSerialOutput takes it line by line.                     *)

\* FoldLeft of SequencesExt, as a function that visits each element once.
Folded(op(_, _), base, seq) ==
    LET upTo[i \in 0 .. Len(seq)] == IF i = 0 THEN base ELSE op(upTo[i - 1], seq[i])
    IN  upTo[Len(seq)]

LenOf(l) == CASE l.do = "out1" -> OutputLen[1]
              [] l.do = "out2" -> OutputLen[2]
              [] OTHER -> 1

\* serial_tx: a line that does not fit is left out, a shorter one may fit after.
serial_tx(s, l) ==
    IF LenOf(l) + s.tx_w < SERIAL_TX_BUFSIZE
    THEN [s EXCEPT !.tx = Append(@, l), !.tx_w = @ + LenOf(l)]
    ELSE [s EXCEPT !.cut = @ \cup {l.of}]

Output(of) == <<Line("out1", 0, of), Line("out2", 0, of)>>

\* Of a command each line is printed by itself: any of them may be left out.
Prints(s, l) ==
    IF l.do = "ask" THEN serial_tx(serial_tx(s, Output(l.of)[1]), Output(l.of)[2])
                    ELSE serial_tx(s, l)

\* repl_handle_bytes: a line is a word of the protocol, text, or Lua code.
RunLine(s, l) ==
    CASE l.do = "^^s" -> [s EXCEPT !.vm = Vm(TRUE, <<>>, s.vm.name)]
      [] l.do = "^^f" -> [s EXCEPT !.vm = Vm(FALSE, <<>>, s.vm.text)]
      [] l.do = "^^w" -> [s EXCEPT !.vm = Vm(FALSE, <<>>, <<>>),
                                !.saved = @ \cup {[name |-> s.vm.name, text |-> s.vm.text]}]
      [] OTHER -> IF s.vm.collecting
                  THEN [s EXCEPT !.vm = Vm(TRUE, Append(s.vm.text, l.do), s.vm.name)]
                  ELSE Prints(s, l)

Noise == Line("noise", 0, none)

serial_task(noise) ==
    Folded(RunLine,
             Folded(serial_tx, [vm |-> vm, tx |-> <<>>, tx_w |-> 0, cut |-> {}, saved |-> {}],
                      [i \in 1 .. noise |-> Noise]),
             rx)

\* What is captured, with lines of handlers in a row kept as one.
Captured(lines, l) == IF l = Noise /\ lines # <<>> /\ Last(lines) = Noise
                      THEN lines ELSE Append(lines, l)

\* js: the capture and, when it has resolved, the capture with its lines.
handleLine(js, l) ==
    CASE js.capture = none -> js
      [] js.capture # none /\ l.do = "end" /\ l.id = js.capture.id ->
           [capture |-> none, resolved |-> js.capture]
      [] js.capture # none /\ l.do = "begin" /\ l.id = js.capture.id ->
           [js EXCEPT !.capture = [js.capture EXCEPT !.started = TRUE]]
      [] OTHER -> IF js.capture.started
                  THEN [js EXCEPT !.capture = [js.capture EXCEPT !.lines = Captured(@, l)]]
                  ELSE js

handleSerialOutput(tx) ==
    Folded(handleLine, [capture |-> pendingCapture, resolved |-> none], tx)

LoopRuns == initPump \/ (audio.node /\ audio.context = "running")

\* A promise that resolves lets its function go on, which it does later.
Resolved(id) ==
    tasks' = [t \in Task |-> IF tasks[t].waits = id
                             THEN Call(tasks[t].f, tasks[t].left - 1, 0)
                             ELSE tasks[t]]

viii_loop ==
    /\ LoopRuns
    /\ \E noise \in 0 .. MaxNoise :
         LET out == serial_task(noise)
             js == handleSerialOutput(out.tx)
         IN  /\ rx' = <<>>
             /\ vm' = out.vm
             /\ saved' = out.saved
             /\ pendingCapture' = js.capture
             /\ IF js.resolved = none
                THEN answer' = none /\ UNCHANGED <<timers, tasks>>
                ELSE /\ answer' = [of |-> js.resolved.of, lines |-> js.resolved.lines,
                                   fitted |-> js.resolved.of \notin out.cut]
                     /\ timers' = timers \ {js.resolved.id}
                     /\ Resolved(js.resolved.id)
    /\ UNCHANGED <<captureSeq, initPump, audio>>

---------------------------------------------------------------------------
(* What makes the loop tick.                                               *)

\* The pump ends when the first file list has settled.
FirstListSettles ==
    /\ initPump /\ tasks["boot"].left = 0
    /\ initPump' = FALSE
    /\ audio' = [audio EXCEPT !.started = TRUE]
    /\ NoTick /\ UNCHANGED <<rx, vm, tasks, captureVars>>

startAudioTimer(context) == ~audio.node /\ context = "running"

\* A new context may be suspended.
Contexts == IF audio.context = "none" THEN {"suspended", "running"} ELSE {audio.context}

\* The list is refreshed once.
Keepalive(context, resumed) ==
    /\ audio' = [audio EXCEPT !.context = context, !.resumed = resumed,
                              !.node = @ \/ startAudioTimer(context),
                              !.started = @ \/ startAudioTimer(context)]
    /\ tasks' = IF startAudioTimer(context) /\ ~audio.started
                THEN [tasks EXCEPT !["gesture"] = Function("refresh")] ELSE tasks
    /\ NoTick /\ UNCHANGED <<rx, vm, captureVars, initPump>>

\* Mutant: only a new context is resumed.
ensureAudioKeepalive_once ==
    \E context \in Contexts : Keepalive(context, audio.context = "none")

ensureAudioKeepalive ==
    \E context \in Contexts : Keepalive(context, context = "suspended")

ContextResumes ==
    /\ audio.context = "suspended" /\ audio.resumed
    /\ audio' = [audio EXCEPT !.context = "running", !.resumed = FALSE]
    /\ NoTick /\ UNCHANGED <<rx, vm, tasks, captureVars, initPump>>

ContextSuspended ==
    /\ audio.context = "running" /\ audio.suspensions < MaxSuspend
    /\ \A t \in Task : tasks[t].left = 0
    /\ rx = <<>>
    /\ audio' = [audio EXCEPT !.context = "suspended", !.suspensions = @ + 1]
    /\ NoTick /\ UNCHANGED <<rx, vm, tasks, captureVars, initPump>>

Continues(t) == SendLine(t) \/ CaptureBusy(t) \/ executeLuaCapture(t)

Next ==
    \/ \E t \in Task : Continues(t)
    \/ \E id \in timers : CaptureTimesOut(id)
    \/ viii_loop
    \/ FirstListSettles
    \/ ensureAudioKeepalive \/ ContextResumes \/ ContextSuspended

Spec == Init /\ [][Next]_vars

\* Promises, timers and the pump are the browser's; the user, who may do
\* anything else or not, goes on clicking.
FairSpec ==
    /\ Spec
    /\ \A t \in Task : WF_vars(Begun(t) /\ Continues(t))
    /\ WF_vars(\E id \in timers : CaptureTimesOut(id))
    /\ WF_vars(FirstListSettles)
    /\ WF_vars(ContextResumes) /\ WF_vars(ensureAudioKeepalive)

---------------------------------------------------------------------------
\* A capture resolves with the output of its own command: never with that of
\* a capture that timed out and was answered late, never with what handlers
\* print, and with some of its lines, in order, only when the transmit buffer
\* was full.
AnswerIsOwn ==
    answer # none =>
        \/ answer.lines = Output(answer.of)
        \/ ~answer.fitted /\ answer.lines \in {<<>>, <<Output(answer.of)[1]>>,
                                               <<Output(answer.of)[2]>>}

\* Where the lines of an upload are, whatever was typed or asked between them.
Own(text) == {i \in DOMAIN text : text[i] \in {"name", "text1", "text2"}}

Named(name) == \E i \in DOMAIN name : Own(name) = {i} /\ name[i] = "name"

Written(text) ==
    \E i, j \in DOMAIN text :
        i < j /\ Own(text) = {i, j} /\ text[i] = "text1" /\ text[j] = "text2"

\* A file that is saved is the one that was uploaded, whole, in order and under
\* its name: what is sent while the upload awaits may add to it, not more.
UploadSaved == \A file \in saved : Written(file.text) /\ Named(file.name)

\* Every function of the page ends, also when its answer is cut off, collected
\* into a file or never given because no loop runs.
TasksEnd == \A t \in Task : t \in Busy ~> t \notin Busy

\* As long as the user clicks, the loop does not stop for good, though a click
\* finds the context suspended and the browser may suspend it again.  The first
\* gesture, which the comment at bridge.js:221 speaks of, need not be enough.
LoopComesBack == []<>LoopRuns
=============================================================================
