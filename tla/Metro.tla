-------------------------------- MODULE Metro --------------------------------
(***************************************************************************)
(* The metros of viii: the C records of metro_web.c, the JavaScript timers *)
(* of bridge.js that drive them, and the audio callback that runs both.    *)
(*                                                                         *)
(* One audio callback reads the clock once, runs viii_loop if it is due,   *)
(* then ticks every timer that is due.  Lua runs inside viii_loop, before  *)
(* metro_task (a MIDI handler), under it (a metro's own handler) and after *)
(* it (the REPL, a grid handler); anywhere there it may start, restart or  *)
(* stop any metro, take time, or throw a JavaScript exception, which       *)
(* unwinds viii_loop but not the callback.                                 *)
(*                                                                         *)
(* Times are relative to the present: a timer holds the wait until its     *)
(* nextTickAt, negative when it is overdue.                                *)
(***************************************************************************)
EXTENDS Integers

CONSTANTS
    METRO_COUNT, \* number of metros
    MIN,         \* METRO_MIN_INTERVAL_MS
    LOOP,        \* loopIntervalMs
    Requested,   \* the intervals scripts ask for; 0 stops the metro
    Counts,      \* the stage counts scripts ask for; -1 is for ever
    MaxGap,      \* bound: time between two audio callbacks
    MaxLag,      \* bound: time Lua takes within one callback
    MaxTick,     \* bound: tick_count stays there once it has reached it
    MaxCredit    \* bound: a larger credit is not told apart

Index == 0 .. METRO_COUNT - 1

Clamped(ms) == IF ms < MIN THEN MIN ELSE ms

ASSUME MetroAssumption ==
    /\ METRO_COUNT \in Nat \ {0} /\ MIN \in Nat \ {0} /\ LOOP \in Nat \ {0}
    /\ Requested \subseteq Nat
    /\ MaxTick \in Nat /\ Counts \subseteq -1 .. MaxTick
    /\ MaxGap \in Nat /\ MaxLag \in Nat

\* The bounded history is exact where NoEarlyTick looks at it.
ASSUME CreditAssumption ==
    /\ MaxCredit \in Nat
    /\ \A ms \in Requested :
         2 * Clamped(ms) + MaxGap + 2 * MaxLag <= MaxCredit

VARIABLES
    metros,     \* metro_web.c
    metroState, \* bridge.js; armed is being a key of the object
    loopWait,   \* bridge.js loopNextTickAt
    lag,        \* how far the callback's "now" is behind the clock
    pc,         \* where the audio callback is
    cursor,     \* the metro that metro_task, or the loop of ticks, is at
    credit      \* history: time since the metro was last started, less one
                \* interval for each of its ticks that reached Lua; of a
                \* stopped metro only a debt is remembered

vars == <<metros, metroState, loopWait, lag, pc, cursor, credit>>

clockVars == <<loopWait, lag>>
metroVars == <<metros, metroState, credit>>

Metro == [running : BOOLEAN, count : -1 .. MaxTick, stages : -1 .. MaxTick,
          tick_count : 0 .. MaxTick, pending : BOOLEAN]

Timer == [armed : BOOLEAN, intervalMs : Nat, wait : Int]

NoTimer == [armed |-> FALSE, intervalMs |-> 0, wait |-> 0]

PC == {"idle", "before", "metro_task", "handler", "after", "ticks"}

metro_init == [i \in Index |->
    [running |-> FALSE, count |-> 0, stages |-> 0, tick_count |-> 0,
     pending |-> FALSE]]

Init ==
    /\ metros = metro_init
    /\ metroState = [i \in Index |-> NoTimer]
    /\ loopWait = 0 /\ lag = 0
    /\ pc = "idle" /\ cursor = 0
    /\ credit = [i \in Index |-> 0]

---------------------------------------------------------------------------
(* What Lua may do while it runs.                                          *)

InLua == pc \in {"before", "handler", "after"}

\* The record of a started metro: no tick of an earlier start is pending.
Started(count) ==
    [running |-> TRUE, count |-> count, stages |-> count, tick_count |-> 0,
     pending |-> FALSE]

Debt(c) == IF c < 0 THEN c ELSE 0

\* Mutant: the first tick is due at once.
js_metro_start_due(ms) == [armed |-> TRUE, intervalMs |-> ms, wait |-> 0]

js_metro_start(ms) == [armed |-> TRUE, intervalMs |-> ms, wait |-> ms]

metro_set_with_count(i, ms, count) ==
    /\ InLua
    /\ \/ /\ ms > 0
          /\ metros' = [metros EXCEPT ![i] = Started(count)]
          /\ metroState' = [metroState EXCEPT ![i] = js_metro_start(Clamped(ms))]
          /\ credit' = [credit EXCEPT ![i] = 0]
       \/ /\ ms = 0 /\ metros[i].running
          /\ metros' = [metros EXCEPT ![i].running = FALSE]
          /\ metroState' = [metroState EXCEPT ![i] = NoTimer]
          /\ credit' = [credit EXCEPT ![i] = Debt(@)]
    /\ UNCHANGED <<clockVars, pc, cursor>>

\* Mutant: the timers are left running.
metro_cleanup_records ==
    /\ InLua
    /\ metros' = [i \in Index |-> [metros[i] EXCEPT !.running = FALSE]]
    /\ credit' = [i \in Index |-> Debt(credit[i])]
    /\ UNCHANGED <<metroState, clockVars, pc, cursor>>

\* Called when a VM is closed.
metro_cleanup ==
    /\ InLua
    /\ metros' = [i \in Index |-> [metros[i] EXCEPT !.running = FALSE]]
    /\ metroState' = [i \in Index |-> IF metros[i].running THEN NoTimer
                                                          ELSE metroState[i]]
    /\ credit' = [i \in Index |-> IF metros[i].running THEN Debt(credit[i])
                                                      ELSE credit[i]]
    /\ UNCHANGED <<clockVars, pc, cursor>>

Capped(c) == IF c > MaxCredit THEN MaxCredit ELSE c

\* d ms pass, for every timer and for every credit.
Elapse(d) ==
    /\ metroState' = [i \in Index |->
                        IF metroState[i].armed
                        THEN [metroState[i] EXCEPT !.wait = @ - d]
                        ELSE metroState[i]]
    /\ credit' = [i \in Index |-> IF metroState[i].armed
                                  THEN Capped(credit[i] + d) ELSE credit[i]]

LuaTakesTime(d) ==
    /\ InLua /\ lag + d <= MaxLag
    /\ Elapse(d)
    /\ lag' = lag + d
    /\ loopWait' = loopWait - d
    /\ UNCHANGED <<metros, pc, cursor>>

LuaThrows ==
    /\ InLua
    /\ pc' = "ticks" /\ cursor' = 0
    /\ UNCHANGED <<metroVars, clockVars>>

---------------------------------------------------------------------------
(* The audio callback of bridge.js.                                        *)

\* nextTickAt += interval, and no burst: when that is already past, start
\* again from now.
Advance(wait, interval, late) ==
    IF wait + interval < -late THEN interval - late ELSE wait + interval

onaudioprocess(d) ==
    /\ pc = "idle"
    /\ Elapse(d)
    /\ lag' = 0
    /\ cursor' = 0
    /\ IF loopWait - d <= 0
       THEN pc' = "before" /\ loopWait' = Advance(loopWait - d, LOOP, 0)
       ELSE pc' = "ticks" /\ loopWait' = loopWait - d
    /\ UNCHANGED metros

\* Mutant: the loop of metro_task starts at 1, the index Lua uses.
MidiTaskDoneFromOne ==
    /\ pc = "before"
    /\ pc' = "metro_task" /\ cursor' = 1
    /\ UNCHANGED <<metroVars, clockVars>>

MidiTaskDone ==
    /\ pc = "before"
    /\ pc' = "metro_task" /\ cursor' = 0
    /\ UNCHANGED <<metroVars, clockVars>>

\* The loop of metro_task reaches a metro with nothing to do.
SkipMetro ==
    /\ pc = "metro_task" /\ cursor < METRO_COUNT
    /\ ~(metros[cursor].running /\ metros[cursor].pending)
    /\ cursor' = cursor + 1
    /\ UNCHANGED <<metroVars, clockVars, pc>>

\* Mutant: a finite metro is stopped one tick late.
LastTickLate(m) == m.count = 0

LastTick(m) == m.count = 1

NextStage(m) == IF m.tick_count < MaxTick THEN m.tick_count + 1 ELSE MaxTick

\* Mutant: the count of an endless metro is decremented too.
TickTakenEndless(m) ==
    [running |-> ~LastTick(m), count |-> m.count - 1, stages |-> m.stages,
     tick_count |-> NextStage(m), pending |-> FALSE]

TickTaken(m) ==
    [running |-> ~LastTick(m),
     count |-> IF m.count > 0 THEN m.count - 1 ELSE m.count,
     stages |-> m.stages, tick_count |-> NextStage(m), pending |-> FALSE]

\* The loop of metro_task reaches a metro whose tick is pending: everything
\* it does up to the call of vm_handle_metro.
FireMetro ==
    /\ pc = "metro_task" /\ cursor < METRO_COUNT
    /\ metros[cursor].running /\ metros[cursor].pending
    /\ metros' = [metros EXCEPT ![cursor] = TickTaken(@)]
    /\ LET left == credit[cursor] - metroState[cursor].intervalMs IN
         IF LastTick(metros[cursor])
         THEN /\ metroState' = [metroState EXCEPT ![cursor] = NoTimer]
              /\ credit' = [credit EXCEPT ![cursor] = Debt(left)]
         ELSE /\ credit' = [credit EXCEPT ![cursor] = left]
              /\ UNCHANGED metroState
    /\ pc' = "handler"
    /\ UNCHANGED <<clockVars, cursor>>

HandlerDone ==
    /\ pc = "handler"
    /\ pc' = "metro_task" /\ cursor' = cursor + 1
    /\ UNCHANGED <<metroVars, clockVars>>

MetroTaskDone ==
    /\ pc = "metro_task" /\ cursor = METRO_COUNT
    /\ pc' = "after"
    /\ UNCHANGED <<metroVars, clockVars, cursor>>

LoopDone ==
    /\ pc = "after"
    /\ pc' = "ticks" /\ cursor' = 0
    /\ UNCHANGED <<metroVars, clockVars>>

\* Mutant: the test of running is the wrong way round.
viii_metro_tick_inverted(m) == [m EXCEPT !.pending = @ \/ ~m.running]

viii_metro_tick(m) == [m EXCEPT !.pending = @ \/ m.running]

\* One turn of the loop over metroState.
Tick ==
    /\ pc = "ticks" /\ cursor < METRO_COUNT
    /\ LET t == metroState[cursor] IN
         IF t.armed /\ t.wait <= -lag
         THEN /\ metroState' = [metroState EXCEPT ![cursor].wait =
                                  Advance(t.wait, t.intervalMs, lag)]
              /\ metros' = [metros EXCEPT ![cursor] = viii_metro_tick(@)]
         ELSE UNCHANGED <<metroState, metros>>
    /\ cursor' = cursor + 1
    /\ UNCHANGED <<clockVars, pc, credit>>

CallbackDone ==
    /\ pc = "ticks" /\ cursor = METRO_COUNT
    /\ pc' = "idle"
    /\ UNCHANGED <<metroVars, clockVars, cursor>>

LuaRuns ==
    \/ \E i \in Index, ms \in Requested, count \in Counts :
         metro_set_with_count(i, ms, count)
    \/ metro_cleanup
    \/ \E d \in 1 .. MaxLag : LuaTakesTime(d)
    \/ LuaThrows

Callback ==
    \/ MidiTaskDone
    \/ SkipMetro \/ FireMetro \/ HandlerDone \/ MetroTaskDone
    \/ LoopDone
    \/ Tick \/ CallbackDone

Next ==
    \/ \E d \in 1 .. MaxGap : onaudioprocess(d)
    \/ LuaRuns
    \/ Callback

Spec == Init /\ [][Next]_vars

\* The audio thread keeps calling back, and Lua handlers return.
FairSpec ==
    /\ Spec
    /\ WF_vars(\E d \in 1 .. MaxGap : onaudioprocess(d))
    /\ WF_vars(Callback)

---------------------------------------------------------------------------
TypeOK ==
    /\ metros \in [Index -> Metro]
    /\ metroState \in [Index -> Timer]
    /\ loopWait \in Int /\ lag \in 0 .. MaxLag
    /\ pc \in PC /\ cursor \in 0 .. METRO_COUNT
    /\ pc = "handler" => cursor \in Index
    /\ credit \in [Index -> Int]

\* The C record and the JavaScript timer never disagree on whether a metro
\* runs, whichever of metro_set, metro_task and metro_cleanup stopped it and
\* whatever a handler did to its own metro.
TimerMirrorsRunning ==
    \A i \in Index : metros[i].running <=> metroState[i].armed

\* A metro started with n stages gives Lua the stages 1 .. n and stops itself
\* at n: ticks done and ticks left always add up, restarts included.
ExactStages ==
    \A i \in Index : metros[i].stages > 0 =>
        IF metros[i].running
        THEN /\ metros[i].count > 0
             /\ metros[i].tick_count = metros[i].stages - metros[i].count
        ELSE metros[i].tick_count <= metros[i].stages

\* The k-th tick after a start reaches Lua no sooner than k intervals after it:
\* no stale tick of an earlier start is taken for one of this start, and lag
\* between two readings of the clock adds none.
NoEarlyTick ==
    \A i \in Index : credit[i] >= 0

\* From some time on no exception keeps metro_task from its end.  (One thrown
\* after metro_task makes the same step as the end of viii_loop.)
StopsThrowing ==
    <>[][~(pc \in {"before", "handler"} /\ LuaThrows)]_vars

\* A pending tick reaches Lua, or its metro is restarted or stopped: handlers
\* of other metros that throw delay it, and keep it back only while they do.
TickServed ==
    StopsThrowing =>
        \A i \in Index :
            metros[i].running /\ metros[i].pending
              ~> ~(metros[i].running /\ metros[i].pending)

\* A metro that Lua leaves running keeps ticking.
KeepsTicking ==
    StopsThrowing =>
        \A i \in Index :
            (/\ <>[](metros[i].running)
             /\ <>[][~\E ms \in Requested, count \in Counts :
                        metro_set_with_count(i, ms, count)]_vars)
              => []<>(pc = "handler" /\ cursor = i)

==============================================================================
