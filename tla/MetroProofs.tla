----------------------------- MODULE MetroProofs -----------------------------
(***************************************************************************)
(* Theorems about Metro for every number of metros, every set of           *)
(* requested intervals and counts, and every bound on the delays.          *)
(*                                                                         *)
(* The first three invariants are inductive together.  NoEarlyTick needs   *)
(* to know that the credit of a metro covers the ticks that its timer has  *)
(* issued and metro_task has not yet taken: CreditCoversTimer relates the  *)
(* credit, which counts what reached Lua, to the wait of the timer.        *)
(***************************************************************************)
EXTENDS Metro, TLAPS

USE MetroAssumption DEF MetroAssumption

\* An overdue timer is overdue by no more than the delays add up to, and not
\* at all once the loop of ticks has passed it.
WaitBounded ==
    \A i \in Index : metroState[i].armed =>
        /\ metroState[i].wait <= metroState[i].intervalMs
        /\ metroState[i].wait >= -(MaxLag + MaxGap + lag)
        /\ pc = "idle" \/ (pc = "ticks" /\ i < cursor)
             => metroState[i].wait >= -lag

\* The intervals of the timers are clamped requests.
IntervalsClamped ==
    \A i \in Index : metroState[i].armed =>
        /\ metroState[i].intervalMs > 0
        /\ 2 * metroState[i].intervalMs + MaxGap + 2 * MaxLag <= MaxCredit

\* What the credit of a running metro must still pay for: the interval in
\* progress up to now, and the tick that is pending.
Owed(i) ==
    (IF metros[i].pending THEN 2 * metroState[i].intervalMs
                          ELSE metroState[i].intervalMs) - metroState[i].wait

CreditCoversTimer ==
    \A i \in Index : IF metroState[i].armed THEN credit[i] >= Owed(i)
                                            ELSE credit[i] >= 0

IInv ==
    /\ TypeOK
    /\ TimerMirrorsRunning
    /\ WaitBounded
    /\ IntervalsClamped
    /\ CreditCoversTimer

---------------------------------------------------------------------------
(* Facts about the operators.                                              *)

LEMMA AdvanceBounds ==
    ASSUME NEW wait \in Int, NEW interval \in Nat, NEW late \in Nat,
           wait <= -late
    PROVE  /\ Advance(wait, interval, late) \in Int
           /\ Advance(wait, interval, late) >= -late
           /\ Advance(wait, interval, late) >= wait + interval
           /\ Advance(wait, interval, late) <= interval
BY DEF Advance

LEMMA ClampedBounds ==
    ASSUME NEW ms \in Requested
    PROVE  /\ Clamped(ms) \in Nat /\ Clamped(ms) > 0
           /\ 2 * Clamped(ms) + MaxGap + 2 * MaxLag <= MaxCredit
BY CreditAssumption DEF Clamped, CreditAssumption

LEMMA CappedInt ==
    ASSUME NEW c \in Int
    PROVE  Capped(c) \in Int /\ (c >= 0 => Capped(c) >= 0)
BY CreditAssumption DEF Capped, CreditAssumption

LEMMA NoTimerType == NoTimer \in Timer
BY DEF NoTimer, Timer

LEMMA DebtInt ==
    ASSUME NEW c \in Int
    PROVE  Debt(c) \in Int /\ (c >= 0 => Debt(c) = 0)
BY DEF Debt

\* What metro_task does to a record whose tick is pending.
LEMMA TickTakenType ==
    ASSUME NEW m \in Metro
    PROVE  TickTaken(m) \in Metro
BY DEF TickTaken, NextStage, LastTick, Metro

---------------------------------------------------------------------------
(* The type invariant.                                                     *)

LEMMA TypeInit == Init => TypeOK
BY DEF Init, TypeOK, metro_init, Metro, Timer, NoTimer, Index, PC

LEMMA ElapseType ==
    ASSUME TypeOK, NEW d \in Nat, Elapse(d)
    PROVE  /\ metroState' \in [Index -> Timer]
           /\ credit' \in [Index -> Int]
<1>1. ASSUME NEW i \in Index
      PROVE  (IF metroState[i].armed THEN [metroState[i] EXCEPT !.wait = @ - d]
              ELSE metroState[i]) \in Timer
  BY DEF TypeOK, Timer
<1>2. ASSUME NEW i \in Index
      PROVE  (IF metroState[i].armed THEN Capped(credit[i] + d)
              ELSE credit[i]) \in Int
  BY CappedInt DEF TypeOK
<1> QED BY <1>1, <1>2 DEF Elapse

LEMMA TypeStep == TypeOK /\ [Next]_vars => TypeOK'
<1> SUFFICES ASSUME TypeOK, [Next]_vars PROVE TypeOK'
  OBVIOUS
<1> USE DEF TypeOK
<1>1. ASSUME NEW i \in Index, NEW ms \in Requested, NEW count \in Counts,
             metro_set_with_count(i, ms, count)
      PROVE  TypeOK'
  <2>1. CASE ms > 0
    <3>1. Started(count) \in Metro
      BY DEF Started, Metro
    <3>2. js_metro_start(Clamped(ms)) \in Timer
      BY ClampedBounds DEF js_metro_start, Timer
    <3> QED BY <1>1, <2>1, <3>1, <3>2 DEF metro_set_with_count, clockVars
  <2>2. CASE ~(ms > 0)
    <3>1. [metros[i] EXCEPT !.running = FALSE] \in Metro
      BY DEF Metro
    <3>2. NoTimer \in Timer /\ Debt(credit[i]) \in Int
      BY NoTimerType, DebtInt
    <3> QED BY <1>1, <2>2, <3>1, <3>2 DEF metro_set_with_count, clockVars
  <2> QED BY <2>1, <2>2
<1>2. CASE metro_cleanup
  <2>1. ASSUME NEW i \in Index
        PROVE  [metros[i] EXCEPT !.running = FALSE] \in Metro
    BY DEF Metro
  <2>2. ASSUME NEW i \in Index
        PROVE  (IF metros[i].running THEN NoTimer ELSE metroState[i]) \in Timer
    BY NoTimerType
  <2>3. ASSUME NEW i \in Index
        PROVE  (IF metros[i].running THEN Debt(credit[i]) ELSE credit[i]) \in Int
    BY DebtInt
  <2> QED BY <1>2, <2>1, <2>2, <2>3 DEF metro_cleanup, clockVars
<1>3. ASSUME NEW d \in 1 .. MaxLag, LuaTakesTime(d) PROVE TypeOK'
  <2>1. d \in Nat /\ lag + d \in 0 .. MaxLag
    BY <1>3 DEF LuaTakesTime
  <2> QED BY <1>3, <2>1, ElapseType DEF LuaTakesTime
<1>4. CASE LuaThrows
  BY <1>4 DEF LuaThrows, metroVars, clockVars, PC
<1>5. ASSUME NEW d \in 1 .. MaxGap, onaudioprocess(d) PROVE TypeOK'
  <2>1. d \in Nat /\ loopWait - d \in Int
    OBVIOUS
  <2>2. loopWait - d <= 0 => Advance(loopWait - d, LOOP, 0) \in Int
    BY <2>1, AdvanceBounds
  <2> QED BY <1>5, <2>1, <2>2, ElapseType DEF onaudioprocess, PC
<1>6. CASE MidiTaskDone
  BY <1>6 DEF MidiTaskDone, metroVars, clockVars, PC
<1>7. CASE SkipMetro
  BY <1>7 DEF SkipMetro, metroVars, clockVars
<1>8. CASE FireMetro
  <2>1. cursor \in Index
    BY <1>8 DEF FireMetro, Index
  <2>2. TickTaken(metros[cursor]) \in Metro
    BY <2>1, TickTakenType
  <2>3. credit[cursor] - metroState[cursor].intervalMs \in Int
    BY <2>1 DEF Timer
  <2>4. metroState' \in [Index -> Timer] /\ credit' \in [Index -> Int]
    BY <1>8, <2>1, <2>3, NoTimerType, DebtInt DEF FireMetro
  <2> QED BY <1>8, <2>1, <2>2, <2>4 DEF FireMetro, clockVars, PC
<1>9. CASE HandlerDone
  <2>1. cursor + 1 \in 0 .. METRO_COUNT
    BY <1>9 DEF HandlerDone, Index
  <2> QED BY <1>9, <2>1 DEF HandlerDone, metroVars, clockVars, PC
<1>10. CASE MetroTaskDone
  BY <1>10 DEF MetroTaskDone, metroVars, clockVars, PC
<1>11. CASE LoopDone
  BY <1>11 DEF LoopDone, metroVars, clockVars, PC
<1>12. CASE Tick
  <2>1. cursor \in Index /\ cursor + 1 \in 0 .. METRO_COUNT
    BY <1>12 DEF Tick, Index
  <2>2. viii_metro_tick(metros[cursor]) \in Metro
    BY <2>1 DEF viii_metro_tick, Metro
  <2>3. metroState[cursor].wait <= -lag =>
          Advance(metroState[cursor].wait, metroState[cursor].intervalMs, lag)
            \in Int
    BY <2>1, AdvanceBounds DEF Timer
  <2>4. metroState' \in [Index -> Timer] /\ metros' \in [Index -> Metro]
    BY <1>12, <2>1, <2>2, <2>3 DEF Tick, Timer
  <2> QED BY <1>12, <2>1, <2>4 DEF Tick, clockVars
<1>13. CASE CallbackDone
  BY <1>13 DEF CallbackDone, metroVars, clockVars, PC
<1>14. CASE UNCHANGED vars
  BY <1>14 DEF vars
<1> QED
  BY <1>1, <1>2, <1>3, <1>4, <1>5, <1>6, <1>7, <1>8, <1>9, <1>10, <1>11,
     <1>12, <1>13, <1>14 DEF Next, LuaRuns, Callback

---------------------------------------------------------------------------
(* The record and the timer of a metro.                                    *)

\* The steps that touch a metro, and those that only move pc, cursor or the
\* clocks.
LEMMA MetroSteps ==
    ASSUME [Next]_vars
    PROVE  \/ \E i \in Index, ms \in Requested, count \in Counts :
                metro_set_with_count(i, ms, count)
           \/ metro_cleanup
           \/ \E d \in Nat : Elapse(d) /\ UNCHANGED metros
           \/ FireMetro
           \/ Tick
           \/ UNCHANGED metroVars
<1>1. CASE \E d \in 1 .. MaxLag : LuaTakesTime(d)
  BY <1>1 DEF LuaTakesTime
<1>2. CASE \E d \in 1 .. MaxGap : onaudioprocess(d)
  BY <1>2 DEF onaudioprocess
<1>3. CASE LuaThrows \/ MidiTaskDone \/ SkipMetro \/ HandlerDone
           \/ MetroTaskDone \/ LoopDone \/ CallbackDone \/ UNCHANGED vars
  BY <1>3 DEF LuaThrows, MidiTaskDone, SkipMetro, HandlerDone, MetroTaskDone,
              LoopDone, CallbackDone, vars, metroVars
<1> QED BY <1>1, <1>2, <1>3 DEF Next, LuaRuns, Callback

LEMMA MirrorStep ==
    TypeOK /\ TimerMirrorsRunning /\ [Next]_vars => TimerMirrorsRunning'
<1> SUFFICES ASSUME TypeOK, TimerMirrorsRunning, [Next]_vars, NEW j \in Index
             PROVE  metros'[j].running <=> metroState'[j].armed
  BY DEF TimerMirrorsRunning
<1>0. /\ metros \in [Index -> Metro] /\ metroState \in [Index -> Timer]
      /\ metros[j].running <=> metroState[j].armed
  BY DEF TypeOK, TimerMirrorsRunning
<1>1. ASSUME NEW i \in Index, NEW ms \in Requested, NEW count \in Counts,
             metro_set_with_count(i, ms, count)
      PROVE  metros'[j].running <=> metroState'[j].armed
  <2>1. CASE ms > 0
    BY <1>0, <1>1, <2>1 DEF metro_set_with_count, Started, js_metro_start
  <2>2. CASE ~(ms > 0)
    BY <1>0, <1>1, <2>2 DEF metro_set_with_count, NoTimer, Metro
  <2> QED BY <2>1, <2>2
<1>2. CASE metro_cleanup
  BY <1>0, <1>2 DEF metro_cleanup, NoTimer, Metro
<1>3. ASSUME NEW d \in Nat, Elapse(d), UNCHANGED metros
      PROVE  metros'[j].running <=> metroState'[j].armed
  BY <1>0, <1>3 DEF Elapse, Timer
<1>4. CASE FireMetro
  <2>1. cursor \in Index /\ metroState[cursor].armed
    BY <1>4 DEF FireMetro, Index, TypeOK, TimerMirrorsRunning
  <2>2. CASE j # cursor
    BY <1>0, <1>4, <2>1, <2>2 DEF FireMetro
  <2>3. CASE j = cursor
    <3>1. metros'[j].running <=> ~LastTick(metros[j])
      BY <1>0, <1>4, <2>3 DEF FireMetro, TickTaken
    <3>2. LastTick(metros[j]) => ~metroState'[j].armed
      BY <1>0, <1>4, <2>3 DEF FireMetro, NoTimer
    <3>3. ~LastTick(metros[j]) => metroState'[j].armed
      BY <1>4, <2>1, <2>3 DEF FireMetro
    <3> QED BY <3>1, <3>2, <3>3
  <2> QED BY <2>2, <2>3
<1>5. CASE Tick
  <2>1. metroState'[j].armed = metroState[j].armed
    BY <1>0, <1>5 DEF Tick, Timer
  <2>2. metros'[j].running = metros[j].running
    BY <1>0, <1>5 DEF Tick, viii_metro_tick, Metro
  <2> QED BY <1>0, <2>1, <2>2
<1>6. CASE UNCHANGED metroVars
  BY <1>0, <1>6 DEF metroVars
<1> QED BY <1>1, <1>2, <1>3, <1>4, <1>5, <1>6, MetroSteps

\* ExactStages for one record.
Exact(m) ==
    m.stages > 0 =>
        IF m.running THEN m.count > 0 /\ m.tick_count = m.stages - m.count
                     ELSE m.tick_count <= m.stages

LEMMA StagesStep == TypeOK /\ ExactStages /\ [Next]_vars => ExactStages'
<1> SUFFICES ASSUME TypeOK, ExactStages, [Next]_vars, NEW j \in Index
             PROVE  Exact(metros'[j])
  BY DEF ExactStages, Exact
<1>0. metros \in [Index -> Metro] /\ metros[j] \in Metro /\ Exact(metros[j])
  BY DEF TypeOK, ExactStages, Exact
<1>1. ASSUME NEW i \in Index, NEW ms \in Requested, NEW count \in Counts,
             metro_set_with_count(i, ms, count)
      PROVE  Exact(metros'[j])
  <2>1. Exact(Started(count))
    BY DEF Exact, Started
  <2>2. Exact([metros[j] EXCEPT !.running = FALSE])
    BY <1>0 DEF Exact, Metro
  <2> QED BY <1>0, <1>1, <2>1, <2>2 DEF metro_set_with_count
<1>2. CASE metro_cleanup
  BY <1>0, <1>2 DEF metro_cleanup, Exact, Metro
<1>3. CASE UNCHANGED metros
  BY <1>0, <1>3
<1>4. CASE FireMetro
  <2>1. cursor \in Index /\ metros[cursor].running
    BY <1>4 DEF FireMetro, Index, TypeOK
  <2>2. CASE j = cursor
    <3>1. metros'[j] = TickTaken(metros[j])
      BY <1>0, <1>4, <2>1, <2>2 DEF FireMetro
    <3>2. metros[j].running
      BY <2>1, <2>2
    <3>3. Exact(TickTaken(metros[j]))
      <4> DEFINE m == metros[j]
      <4>1. /\ m.count \in -1 .. MaxTick /\ m.stages \in -1 .. MaxTick
            /\ m.tick_count \in 0 .. MaxTick
        BY <1>0 DEF Metro
      <4>2. /\ TickTaken(m).stages = m.stages
            /\ TickTaken(m).count = IF m.count > 0 THEN m.count - 1 ELSE m.count
            /\ TickTaken(m).tick_count = NextStage(m)
            /\ TickTaken(m).running <=> m.count # 1
        BY DEF TickTaken, LastTick
      <4>3. m.stages > 0 => m.count > 0 /\ m.tick_count = m.stages - m.count
        BY <1>0, <3>2 DEF Exact
      <4> QED BY <4>1, <4>2, <4>3 DEF Exact, NextStage
    <3> QED BY <3>1, <3>3
  <2>3. CASE j # cursor
    BY <1>0, <1>4, <2>1, <2>3 DEF FireMetro
  <2> QED BY <2>2, <2>3
<1>5. CASE Tick
  <2>1. metros'[j] = metros[j] \/ metros'[j] = viii_metro_tick(metros[j])
    BY <1>0, <1>5 DEF Tick
  <2>2. Exact(viii_metro_tick(metros[j]))
    BY <1>0 DEF viii_metro_tick, Exact, Metro
  <2> QED BY <1>0, <2>1, <2>2
<1> QED BY <1>1, <1>2, <1>3, <1>4, <1>5, MetroSteps DEF metroVars

---------------------------------------------------------------------------
(* The timers.                                                             *)

LEMMA ClampedStep ==
    TypeOK /\ IntervalsClamped /\ [Next]_vars => IntervalsClamped'
<1> SUFFICES ASSUME TypeOK, IntervalsClamped, [Next]_vars, NEW j \in Index,
                    metroState'[j].armed
             PROVE  /\ metroState'[j].intervalMs > 0
                    /\ 2 * metroState'[j].intervalMs + MaxGap + 2 * MaxLag
                         <= MaxCredit
  BY DEF IntervalsClamped
<1>0. metroState \in [Index -> Timer]
  BY DEF TypeOK
<1>1. metroState[j].armed /\ metroState'[j].intervalMs = metroState[j].intervalMs
        => /\ metroState'[j].intervalMs > 0
           /\ 2 * metroState'[j].intervalMs + MaxGap + 2 * MaxLag <= MaxCredit
  BY DEF IntervalsClamped
<1>2. ASSUME NEW i \in Index, NEW ms \in Requested, NEW count \in Counts,
             metro_set_with_count(i, ms, count)
      PROVE  /\ metroState'[j].intervalMs > 0
             /\ 2 * metroState'[j].intervalMs + MaxGap + 2 * MaxLag <= MaxCredit
  <2>1. CASE metroState'[j] = metroState[j]
    BY <1>1, <2>1
  <2>2. CASE metroState'[j] = js_metro_start(Clamped(ms))
    BY <2>2, ClampedBounds DEF js_metro_start
  <2>3. CASE metroState'[j] = NoTimer
    BY <2>3 DEF NoTimer
  <2> QED BY <1>0, <1>2, <2>1, <2>2, <2>3 DEF metro_set_with_count
<1>3. CASE metro_cleanup
  BY <1>0, <1>1, <1>3 DEF metro_cleanup, NoTimer
<1>4. ASSUME NEW d \in Nat, Elapse(d)
      PROVE  metroState[j].armed
             /\ metroState'[j].intervalMs = metroState[j].intervalMs
  BY <1>0, <1>4 DEF Elapse, Timer
<1>5. CASE FireMetro
  <2>1. metroState'[j] = metroState[j] \/ metroState'[j] = NoTimer
    BY <1>0, <1>5 DEF FireMetro
  <2> QED BY <1>1, <2>1 DEF NoTimer
<1>6. CASE Tick
  <2>1. metroState[j].armed
        /\ metroState'[j].intervalMs = metroState[j].intervalMs
    BY <1>0, <1>6 DEF Tick, Timer
  <2> QED BY <1>1, <2>1
<1>7. CASE UNCHANGED metroVars
  BY <1>1, <1>7 DEF metroVars
<1> QED BY <1>1, <1>2, <1>3, <1>4, <1>5, <1>6, <1>7, MetroSteps

\* WaitBounded for one timer.
WaitOf(j) ==
    metroState[j].armed =>
        /\ metroState[j].wait <= metroState[j].intervalMs
        /\ metroState[j].wait >= -(MaxLag + MaxGap + lag)
        /\ pc = "idle" \/ (pc = "ticks" /\ j < cursor)
             => metroState[j].wait >= -lag

LEMMA WaitStep == TypeOK /\ WaitBounded /\ [Next]_vars => WaitBounded'
<1> SUFFICES ASSUME TypeOK, WaitBounded, [Next]_vars, NEW j \in Index
             PROVE  WaitOf(j)'
  BY DEF WaitBounded, WaitOf
<1>0. /\ metroState \in [Index -> Timer] /\ WaitOf(j)
      /\ lag \in Nat /\ lag <= MaxLag
      /\ metroState[j].wait \in Int /\ metroState[j].intervalMs \in Nat
      /\ j \in Nat /\ j < METRO_COUNT /\ cursor \in Nat
  BY DEF TypeOK, WaitBounded, WaitOf, Timer, Index
<1>1. ASSUME NEW i \in Index, NEW ms \in Requested, NEW count \in Counts,
             metro_set_with_count(i, ms, count)
      PROVE  WaitOf(j)'
  <2>1. lag' = lag /\ pc' = pc /\ cursor' = cursor
    BY <1>1 DEF metro_set_with_count, clockVars
  <2>2. CASE metroState'[j] = metroState[j]
    BY <1>0, <2>1, <2>2 DEF WaitOf
  <2>3. CASE metroState'[j] = js_metro_start(Clamped(ms))
    BY <1>0, <2>1, <2>3, ClampedBounds DEF js_metro_start, WaitOf
  <2>4. CASE metroState'[j] = NoTimer
    BY <2>4 DEF NoTimer, WaitOf
  <2> QED BY <1>0, <1>1, <2>2, <2>3, <2>4 DEF metro_set_with_count
<1>2. CASE metro_cleanup
  <2>1. metroState'[j] = metroState[j] \/ metroState'[j] = NoTimer
    BY <1>2 DEF metro_cleanup
  <2>2. lag' = lag /\ pc' = pc /\ cursor' = cursor
    BY <1>2 DEF metro_cleanup, clockVars
  <2> QED BY <1>0, <2>1, <2>2 DEF WaitOf, NoTimer
<1>3. ASSUME NEW d \in 1 .. MaxLag, LuaTakesTime(d) PROVE WaitOf(j)'
  <2>1. /\ pc' = pc /\ cursor' = cursor /\ lag' = lag + d
        /\ pc \in {"before", "handler", "after"}
    BY <1>3 DEF LuaTakesTime, InLua
  <2>2. /\ metroState'[j].armed = metroState[j].armed
        /\ metroState'[j].intervalMs = metroState[j].intervalMs
        /\ metroState[j].armed => metroState'[j].wait = metroState[j].wait - d
    BY <1>0, <1>3 DEF LuaTakesTime, Elapse, Timer
  <2> QED BY <1>0, <2>1, <2>2 DEF WaitOf
<1>4. ASSUME NEW d \in 1 .. MaxGap, onaudioprocess(d) PROVE WaitOf(j)'
  <2>1. /\ pc = "idle" /\ lag' = 0 /\ cursor' = 0 /\ pc' \in {"before", "ticks"}
    BY <1>4 DEF onaudioprocess
  <2>2. /\ metroState'[j].armed = metroState[j].armed
        /\ metroState'[j].intervalMs = metroState[j].intervalMs
        /\ metroState[j].armed => metroState'[j].wait = metroState[j].wait - d
    BY <1>0, <1>4 DEF onaudioprocess, Elapse, Timer
  <2> QED BY <1>0, <2>1, <2>2 DEF WaitOf
<1>5. CASE LuaThrows \/ MidiTaskDone \/ SkipMetro \/ HandlerDone
           \/ MetroTaskDone \/ LoopDone
  <2>1. /\ metroState' = metroState /\ lag' = lag
        /\ pc' # "idle" /\ (pc' = "ticks" => cursor' = 0)
    BY <1>5 DEF LuaThrows, MidiTaskDone, SkipMetro, HandlerDone,
                MetroTaskDone, LoopDone, metroVars, clockVars
  <2> QED BY <1>0, <2>1 DEF WaitOf
<1>6. CASE FireMetro
  <2>1. metroState'[j] = metroState[j] \/ metroState'[j] = NoTimer
    BY <1>0, <1>6 DEF FireMetro
  <2>2. lag' = lag /\ pc' = "handler"
    BY <1>6 DEF FireMetro, clockVars
  <2> QED BY <1>0, <2>1, <2>2 DEF WaitOf, NoTimer
<1>7. CASE Tick
  <2>1. lag' = lag /\ pc = "ticks" /\ pc' = "ticks" /\ cursor' = cursor + 1
        /\ cursor \in Index
    BY <1>7 DEF Tick, clockVars, TypeOK, Index
  <2>2. CASE j = cursor /\ metroState[j].armed /\ metroState[j].wait <= -lag
    <3> DEFINE a == Advance(metroState[j].wait, metroState[j].intervalMs, lag)
    <3>1. a \in Int /\ a >= -lag /\ a <= metroState[j].intervalMs
      BY <1>0, <2>2, AdvanceBounds
    <3>2. metroState'[j].wait = a
          /\ metroState'[j].intervalMs = metroState[j].intervalMs
      BY <1>0, <1>7, <2>2 DEF Tick, Timer
    <3> HIDE DEF a
    <3> QED BY <1>0, <2>1, <3>1, <3>2 DEF WaitOf
  <2>3. CASE ~(j = cursor /\ metroState[j].armed /\ metroState[j].wait <= -lag)
    <3>1. metroState'[j] = metroState[j]
      BY <1>0, <1>7, <2>1, <2>3 DEF Tick
    <3> QED BY <1>0, <2>1, <2>3, <3>1 DEF WaitOf
  <2> QED BY <2>2, <2>3
<1>8. CASE CallbackDone
  <2>1. metroState' = metroState /\ lag' = lag /\ pc' = "idle"
        /\ pc = "ticks" /\ cursor = METRO_COUNT
    BY <1>8 DEF CallbackDone, metroVars, clockVars
  <2> QED BY <1>0, <2>1 DEF WaitOf
<1>9. CASE UNCHANGED vars
  BY <1>0, <1>9 DEF vars, WaitOf
<1> QED
  BY <1>1, <1>2, <1>3, <1>4, <1>5, <1>6, <1>7, <1>8, <1>9
     DEF Next, LuaRuns, Callback

---------------------------------------------------------------------------
(* The credit.                                                             *)

\* CreditCoversTimer for one metro.
CreditOf(j) == IF metroState[j].armed THEN credit[j] >= Owed(j)
                                      ELSE credit[j] >= 0

\* What is owed is never negative and never beyond the bound of the history.
LEMMA OwedBounds ==
    ASSUME TypeOK, WaitBounded, IntervalsClamped, NEW j \in Index,
           metroState[j].armed
    PROVE  /\ Owed(j) \in Int /\ Owed(j) >= 0
           /\ Owed(j) <= MaxCredit
           /\ metros[j].pending => Owed(j) >= metroState[j].intervalMs
<1>1. /\ metroState[j].wait \in Int /\ metroState[j].intervalMs \in Nat
      /\ lag \in Nat /\ lag <= MaxLag
  BY DEF TypeOK, Timer
<1>2. /\ metroState[j].wait <= metroState[j].intervalMs
      /\ metroState[j].wait >= -(MaxLag + MaxGap + lag)
      /\ metroState[j].intervalMs > 0
      /\ 2 * metroState[j].intervalMs + MaxGap + 2 * MaxLag <= MaxCredit
  BY DEF WaitBounded, IntervalsClamped
<1>3. MaxCredit \in Nat
  BY CreditAssumption DEF CreditAssumption
<1> QED BY <1>1, <1>2, <1>3 DEF Owed

LEMMA CreditStep ==
    IInv /\ [Next]_vars /\ WaitBounded' /\ TypeOK' /\ IntervalsClamped'
      => CreditCoversTimer'
<1> SUFFICES ASSUME IInv, [Next]_vars, WaitBounded', TypeOK',
                    IntervalsClamped', NEW j \in Index
             PROVE  CreditOf(j)'
  BY DEF CreditCoversTimer, CreditOf
<1>0. /\ metros \in [Index -> Metro] /\ metroState \in [Index -> Timer]
      /\ credit \in [Index -> Int] /\ CreditOf(j)
      /\ metroState[j].wait \in Int /\ metroState[j].intervalMs \in Nat
      /\ lag \in Nat
  BY DEF IInv, TypeOK, CreditCoversTimer, CreditOf, Timer
<1>1. credit[j] >= 0
  BY <1>0, OwedBounds DEF IInv, CreditOf
<1>2. ASSUME NEW i \in Index, NEW ms \in Requested, NEW count \in Counts,
             metro_set_with_count(i, ms, count)
      PROVE  CreditOf(j)'
  <2>1. CASE i # j
    BY <1>0, <1>2, <2>1 DEF metro_set_with_count, CreditOf, Owed
  <2>2. CASE i = j /\ ms > 0
    <3>1. /\ metros'[j].pending = FALSE
          /\ metroState'[j] = js_metro_start(Clamped(ms))
          /\ credit'[j] = 0
      BY <1>0, <1>2, <2>2 DEF metro_set_with_count, Started
    <3> QED BY <3>1, ClampedBounds DEF CreditOf, Owed, js_metro_start
  <2>3. CASE i = j /\ ~(ms > 0)
    <3>1. metroState'[j] = NoTimer /\ credit'[j] = Debt(credit[j])
      BY <1>0, <1>2, <2>3 DEF metro_set_with_count
    <3> QED BY <1>0, <1>1, <3>1, DebtInt DEF CreditOf, NoTimer
  <2> QED BY <2>1, <2>2, <2>3
<1>3. CASE metro_cleanup
  <2>1. metros[j].running <=> metroState[j].armed
    BY DEF IInv, TimerMirrorsRunning
  <2>2. CASE metros[j].running
    <3>1. metroState'[j] = NoTimer /\ credit'[j] = Debt(credit[j])
      BY <1>3, <2>2 DEF metro_cleanup
    <3> QED BY <1>0, <1>1, <3>1, DebtInt DEF CreditOf, NoTimer
  <2>3. CASE ~metros[j].running
    <3>1. metroState'[j] = metroState[j] /\ credit'[j] = credit[j]
      BY <1>3, <2>3 DEF metro_cleanup
    <3> QED BY <1>0, <2>1, <2>3, <3>1 DEF CreditOf
  <2> QED BY <2>2, <2>3
<1>4. ASSUME NEW d \in Nat, Elapse(d), UNCHANGED metros
      PROVE  CreditOf(j)'
  <2>1. metroState'[j].armed = metroState[j].armed
        /\ metroState'[j].intervalMs = metroState[j].intervalMs
    BY <1>0, <1>4 DEF Elapse, Timer
  <2>2. CASE metroState[j].armed
    <3>1. /\ metroState'[j].wait = metroState[j].wait - d
          /\ credit'[j] = Capped(credit[j] + d)
      BY <1>0, <1>4, <2>2 DEF Elapse, Timer
    <3>2. Owed(j)' = Owed(j) + d
      BY <1>0, <1>4, <2>1, <3>1 DEF Owed
    <3>3. Owed(j)' <= MaxCredit
      <4>1. /\ metroState'[j].wait \in Int /\ metroState'[j].intervalMs \in Nat
            /\ lag' \in Nat /\ lag' <= MaxLag
        BY DEF TypeOK, Timer
      <4>2. /\ metroState'[j].wait >= -(MaxLag + MaxGap + lag')
            /\ 2 * metroState'[j].intervalMs + MaxGap + 2 * MaxLag <= MaxCredit
        BY <2>1, <2>2 DEF WaitBounded, IntervalsClamped
      <4> QED BY <4>1, <4>2, CreditAssumption DEF Owed, CreditAssumption
    <3>4. credit[j] >= Owed(j) /\ Owed(j) \in Int
      BY <1>0, <2>2, OwedBounds DEF CreditOf, IInv
    <3>5. MaxCredit \in Nat /\ credit[j] \in Int
      BY <1>0, CreditAssumption DEF CreditAssumption
    <3>6. credit'[j] >= Owed(j)'
      BY <3>1, <3>2, <3>3, <3>4, <3>5 DEF Capped
    <3> QED BY <2>1, <2>2, <3>6 DEF CreditOf
  <2>3. CASE ~metroState[j].armed
    <3>1. credit'[j] = credit[j]
      BY <1>0, <1>4, <2>3 DEF Elapse
    <3> QED BY <1>1, <2>1, <2>3, <3>1 DEF CreditOf
  <2> QED BY <2>2, <2>3
<1>5. CASE FireMetro
  <2>1. /\ cursor \in Index /\ metros[cursor].pending
        /\ metroState[cursor].armed
    BY <1>5 DEF FireMetro, Index, IInv, TypeOK, TimerMirrorsRunning
  <2>2. CASE j # cursor
    BY <1>0, <1>5, <2>1, <2>2 DEF FireMetro, CreditOf, Owed
  <2>3. CASE j = cursor
    <3> DEFINE left == credit[j] - metroState[j].intervalMs
    <3>1. credit[j] >= Owed(j) /\ Owed(j) >= metroState[j].intervalMs
          /\ Owed(j) \in Int
      BY <1>0, <2>1, <2>3, OwedBounds DEF CreditOf, IInv
    <3>2. left \in Int /\ left >= 0
      BY <1>0, <3>1
    <3>3. CASE LastTick(metros[j])
      <4>1. metroState'[j] = NoTimer /\ credit'[j] = Debt(left)
        BY <1>0, <1>5, <2>3, <3>3 DEF FireMetro
      <4> QED BY <3>2, <4>1, DebtInt DEF CreditOf, NoTimer
    <3>4. CASE ~LastTick(metros[j])
      <4>1. metroState'[j] = metroState[j] /\ credit'[j] = left
            /\ metros'[j].pending = FALSE
        BY <1>0, <1>5, <2>3, <3>4 DEF FireMetro, TickTaken
      <4>2. Owed(j) = 2 * metroState[j].intervalMs - metroState[j].wait
        BY <2>1, <2>3 DEF Owed
      <4>3. Owed(j)' = metroState[j].intervalMs - metroState[j].wait
        BY <4>1 DEF Owed
      <4>4. left >= Owed(j)'
        BY <1>0, <3>1, <4>2, <4>3
      <4> QED BY <2>1, <2>3, <4>1, <4>4 DEF CreditOf
    <3> QED BY <3>3, <3>4
  <2> QED BY <2>2, <2>3
<1>6. CASE Tick
  <2>1. credit' = credit /\ cursor \in Index
    BY <1>6 DEF Tick, IInv, TypeOK, Index
  <2>2. CASE j = cursor /\ metroState[j].armed /\ metroState[j].wait <= -lag
    <3> DEFINE a == Advance(metroState[j].wait, metroState[j].intervalMs, lag)
    <3>1. a \in Int /\ a >= metroState[j].wait + metroState[j].intervalMs
      BY <1>0, <2>2, AdvanceBounds
    <3>2. /\ metroState'[j].wait = a /\ metroState'[j].armed
          /\ metroState'[j].intervalMs = metroState[j].intervalMs
          /\ metros'[j] = viii_metro_tick(metros[j])
      BY <1>0, <1>6, <2>2 DEF Tick, Timer
    <3> HIDE DEF a
    <3>3. metros[j].running
      BY <2>2 DEF IInv, TimerMirrorsRunning
    <3>4. metros'[j].pending
      BY <1>0, <3>2, <3>3 DEF viii_metro_tick, Metro
    <3>5. Owed(j)' = 2 * metroState[j].intervalMs - a
      BY <3>2, <3>4 DEF Owed
    <3>6. Owed(j) >= metroState[j].intervalMs - metroState[j].wait
      BY <1>0 DEF Owed
    <3>7. credit[j] >= Owed(j) /\ credit[j] \in Int /\ Owed(j) \in Int
      BY <1>0, <2>2, OwedBounds DEF CreditOf, IInv
    <3>8. credit[j] >= Owed(j)'
      BY <1>0, <3>1, <3>5, <3>6, <3>7
    <3> QED BY <2>1, <3>2, <3>8 DEF CreditOf
  <2>3. CASE ~(j = cursor /\ metroState[j].armed /\ metroState[j].wait <= -lag)
    <3>1. metroState'[j] = metroState[j] /\ metros'[j] = metros[j]
      BY <1>0, <1>6, <2>1, <2>3 DEF Tick
    <3> QED BY <1>0, <2>1, <3>1 DEF CreditOf, Owed
  <2> QED BY <2>2, <2>3
<1>7. CASE UNCHANGED metroVars
  BY <1>0, <1>7 DEF metroVars, CreditOf, Owed
<1> QED BY <1>2, <1>3, <1>4, <1>5, <1>6, <1>7, MetroSteps

---------------------------------------------------------------------------
(* The theorems.                                                           *)

\* Every variable keeps its type, and the cursors of metro_task and of the
\* loop of ticks stay inside the array of metros.
THEOREM TypeCorrect == Spec => []TypeOK
BY TypeInit, TypeStep, PTL DEF Spec

\* A metro runs in C exactly when its JavaScript timer is armed.
THEOREM TimersMirror == Spec => []TimerMirrorsRunning
<1>1. Init => TimerMirrorsRunning
  BY DEF Init, metro_init, NoTimer, TimerMirrorsRunning
<1> QED BY <1>1, MirrorStep, TypeCorrect, PTL DEF Spec

\* Finite metros count exactly their stages, for every count and restart.
THEOREM StagesExact == Spec => []ExactStages
<1>1. Init => ExactStages
  BY DEF Init, metro_init, ExactStages
<1> QED BY <1>1, StagesStep, TypeCorrect, PTL DEF Spec

\* No tick reaches Lua before its time, whatever the delays of the callbacks
\* and of Lua within the bounds.
THEOREM TicksNotEarly == Spec => []NoEarlyTick
<1>1. Init => IInv
  <2>1. Init => WaitBounded /\ IntervalsClamped /\ CreditCoversTimer
                /\ TimerMirrorsRunning
    BY DEF Init, metro_init, NoTimer, WaitBounded, IntervalsClamped,
           CreditCoversTimer, TimerMirrorsRunning
  <2> QED BY <2>1, TypeInit DEF IInv
<1>2. IInv /\ [Next]_vars => IInv'
  BY TypeStep, MirrorStep, WaitStep, ClampedStep, CreditStep DEF IInv
<1>3. IInv => NoEarlyTick
  <2> SUFFICES ASSUME IInv, NEW j \in Index PROVE credit[j] >= 0
    BY DEF NoEarlyTick
  <2>1. CASE metroState[j].armed
    <3>1. Owed(j) \in Int /\ Owed(j) >= 0 /\ credit[j] >= Owed(j)
      BY <2>1, OwedBounds DEF IInv, CreditCoversTimer
    <3>2. credit[j] \in Int
      BY DEF IInv, TypeOK
    <3> QED BY <3>1, <3>2
  <2>2. CASE ~metroState[j].armed
    BY <2>2 DEF IInv, CreditCoversTimer
  <2> QED BY <2>1, <2>2
<1> QED BY <1>1, <1>2, <1>3, PTL DEF Spec

==============================================================================
