------------------------------ MODULE ReplProofs ------------------------------
(***************************************************************************)
(* The protocol of the REPL, for any number of functions and steps, any    *)
(* transmit buffer and any number of lines in a batch: a capture gets its  *)
(* own answer, and a saved file is the one that was uploaded.              *)
(*                                                                         *)
(* A tick of the loop folds three operators over sequences.  Induction     *)
(* over their elements is induction over sets of numbers here: the least   *)
(* number that is not in the set is what WFMin finds.                      *)
(***************************************************************************)
EXTENDS Repl, WellFoundedInduction, SequenceTheorems, TLAPS

---------------------------------------------------------------------------
(* Induction, and functions defined by it.                                 *)

\* A set of numbers that holds 0, and with each number the next, holds all of
\* them up to n.
LEMMA UpTo ==
    ASSUME NEW n \in Nat, NEW S, 0 \in S, \A i \in 0 .. n - 1 : i \in S => i + 1 \in S
    PROVE  \A i \in 0 .. n : i \in S
<1> DEFINE R == {ss \in Nat \X Nat : ss[1] < ss[2]}
           T == {i \in 0 .. n : i \notin S}
<1>1. IsWellFoundedOn(R, Nat)
  BY NatLessThanWellFounded DEF OpToRel
<1>2. \A x, y \in Nat : <<y, x>> \in R <=> y < x
  OBVIOUS
<1> HIDE DEF R
<1>3. SUFFICES ASSUME T # {} PROVE FALSE
  OBVIOUS
<1>4. T \subseteq Nat
  OBVIOUS
<1>5. PICK x \in T : \A y \in T : ~ (<<y, x>> \in R)
  BY <1>1, <1>3, <1>4, WFMin
<1>6. x - 1 \in 0 .. n - 1
  OBVIOUS
<1>7. x - 1 \notin S
  OBVIOUS
<1>8. x - 1 \in T /\ x - 1 < x
  BY <1>6, <1>7
<1>9. QED  BY <1>2, <1>4, <1>5, <1>8

StepsOn(step, A, n) == step \in [A \X (1 .. n) -> A]

Iterates(f, n, A, base, step) ==
    /\ f \in [0 .. n -> A]
    /\ f[0] = base /\ \A i \in 1 .. n : f[i] = step[<<f[i - 1], i>>]

\* The steps from a first value are a function.
LEMMA Iteration ==
    ASSUME NEW n \in Nat, NEW A, NEW base \in A, NEW step, StepsOn(step, A, n)
    PROVE  \E f : Iterates(f, n, A, base, step)
<1> DEFINE Reaches(m, f) == f[0] = base /\ \A i \in 1 .. m : f[i] = step[<<f[i - 1], i>>]
           S == {m \in 0 .. n : \E f \in [0 .. m -> A] : Reaches(m, f)}
<1>0. step \in [A \X (1 .. n) -> A]
  BY DEF StepsOn
<1>1. 0 \in S
  <2> DEFINE f == [i \in 0 .. 0 |-> base]
  <2>1. f \in [0 .. 0 -> A] /\ Reaches(0, f)
    OBVIOUS
  <2> HIDE DEF f, Reaches
  <2>2. QED  BY <2>1
<1>2. ASSUME NEW m \in 0 .. n - 1, m \in S PROVE m + 1 \in S
  <2>1. PICK f \in [0 .. m -> A] : Reaches(m, f)
    BY <1>2
  <2> DEFINE g == [i \in 0 .. m + 1 |-> IF i = m + 1 THEN step[<<f[m], m + 1>>] ELSE f[i]]
  <2>2. f[m] \in A /\ m + 1 \in 1 .. n
    OBVIOUS
  <2>3. step[<<f[m], m + 1>>] \in A
    BY <1>0, <2>2
  <2>4. g \in [0 .. m + 1 -> A]
    BY <2>3
  <2>5. ASSUME NEW i \in 1 .. m + 1 PROVE g[i] = step[<<g[i - 1], i>>]
    <3>1. g[i - 1] = f[i - 1]
      OBVIOUS
    <3>2. CASE i = m + 1
      <4>1. g[i] = step[<<f[m], m + 1>>] /\ i - 1 = m
        BY <3>2
      <4>2. QED  BY <3>1, <3>2, <4>1
    <3>3. CASE i # m + 1
      <4>1. i \in 1 .. m /\ g[i] = f[i]
        BY <3>3
      <4>2. QED  BY <2>1, <3>1, <4>1
    <3>4. QED  BY <3>2, <3>3
  <2>6. g[0] = base
    BY <2>1
  <2>7. Reaches(m + 1, g)
    BY <2>5, <2>6
  <2> HIDE DEF Reaches, g
  <2>8. QED  BY <2>4, <2>7
<1> HIDE DEF Reaches
<1>3. \A m \in 0 .. n : m \in S
  <2> HIDE DEF S
  <2>1. QED  BY <1>1, <1>2, UpTo
<1>4. PICK f \in [0 .. n -> A] : Reaches(n, f)
  BY <1>3
<1>5. QED  BY <1>4 DEF Reaches, Iterates

---------------------------------------------------------------------------
(* What the folds take and give.                                           *)

CommandSet == Task \X Nat
Said == {"noise", "begin", "ask", "end", "line", "^^s", "^^f", "^^w", "name", "text1", "text2",
         "out1", "out2"}
LineSet == [do : Said, id : Nat, of : CommandSet \cup {none}]
VmSet == [collecting : BOOLEAN, text : Seq(Said), name : Seq(Said)]
FileSet == [name : Seq(Said), text : Seq(Said)]
RunState == [vm : VmSet, tx : Seq(LineSet), tx_w : Nat,
             cut : SUBSET (CommandSet \cup {none}), saved : SUBSET FileSet]
CaptureSet == [id : Nat, of : CommandSet, started : BOOLEAN, lines : Seq(LineSet)]
JsState == [capture : CaptureSet \cup {none}, resolved : CaptureSet \cup {none}]

LEMMA NoLines == <<>> \in Seq(LineSet) /\ <<>> \in Seq(Said)
  OBVIOUS

LEMMA TxType ==
    ASSUME NEW s \in RunState, NEW l \in LineSet
    PROVE  /\ serial_tx(s, l) \in RunState
           /\ serial_tx(s, l).vm = s.vm /\ serial_tx(s, l).saved = s.saved
           /\ serial_tx(s, l).cut = IF LenOf(l) + s.tx_w < SERIAL_TX_BUFSIZE
                                    THEN s.cut ELSE s.cut \cup {l.of}
           /\ serial_tx(s, l).tx = IF LenOf(l) + s.tx_w < SERIAL_TX_BUFSIZE
                                   THEN Append(s.tx, l) ELSE s.tx
           /\ serial_tx(s, l).tx_w = IF LenOf(l) + s.tx_w < SERIAL_TX_BUFSIZE
                                     THEN s.tx_w + LenOf(l) ELSE s.tx_w
<1>1. LenOf(l) \in Nat
  <2>1. OutputLen[1] \in Nat /\ OutputLen[2] \in Nat
    BY ReplAssumption DEF ReplAssumption
  <2>2. QED  BY <2>1 DEF LenOf
<1>2. s.tx \in Seq(LineSet) /\ s.tx_w \in Nat /\ l.of \in CommandSet \cup {none}
  BY DEF RunState, LineSet
<1>3. Append(s.tx, l) \in Seq(LineSet) /\ s.tx_w + LenOf(l) \in Nat
  BY <1>1, <1>2
<1>4. CASE LenOf(l) + s.tx_w < SERIAL_TX_BUFSIZE
  <2>1. serial_tx(s, l) = [s EXCEPT !.tx = Append(s.tx, l), !.tx_w = s.tx_w + LenOf(l)]
    BY <1>4 DEF serial_tx
  <2>2. QED  BY <1>3, <1>4, <2>1 DEF RunState
<1>5. CASE ~ (LenOf(l) + s.tx_w < SERIAL_TX_BUFSIZE)
  <2>1. serial_tx(s, l) = [s EXCEPT !.cut = s.cut \cup {l.of}]
    BY <1>5 DEF serial_tx
  <2>2. QED  BY <1>2, <1>5, <2>1 DEF RunState
<1>6. QED  BY <1>4, <1>5

LEMMA TxFits ==
    ASSUME NEW s \in RunState, NEW l \in LineSet, LenOf(l) + s.tx_w < SERIAL_TX_BUFSIZE
    PROVE  /\ serial_tx(s, l).tx = Append(s.tx, l) /\ serial_tx(s, l).cut = s.cut
           /\ serial_tx(s, l).tx_w = s.tx_w + LenOf(l)
  BY TxType

LEMMA TxCut ==
    ASSUME NEW s \in RunState, NEW l \in LineSet, ~ (LenOf(l) + s.tx_w < SERIAL_TX_BUFSIZE)
    PROVE  /\ serial_tx(s, l).tx = s.tx /\ serial_tx(s, l).cut = s.cut \cup {l.of}
           /\ serial_tx(s, l).tx_w = s.tx_w
  BY TxType

\* The two lines of a command's output.
LEMMA OutputType ==
    ASSUME NEW of \in CommandSet \cup {none}
    PROVE  LET o1 == Output(of)[1]  o2 == Output(of)[2] IN
           /\ o1 = Line("out1", 0, of) /\ o2 = Line("out2", 0, of) /\ Output(of) = <<o1, o2>>
           /\ o1 \in LineSet /\ o1.do = "out1" /\ o1.id = 0 /\ o1.of = of
           /\ o2 \in LineSet /\ o2.do = "out2" /\ o2.id = 0 /\ o2.of = of
  BY DEF Output, Line, LineSet, Said

\* A line that is run and neither collected nor a word is printed, once or
\* as the two lines it prints.
LEMMA PrintsAs ==
    ASSUME NEW s \in RunState, NEW l \in LineSet
    PROVE  \/ l.do # "ask" /\ Prints(s, l) = serial_tx(s, l)
           \/ /\ l.do = "ask" /\ l.of \in CommandSet \cup {none}
              /\ Prints(s, l) = serial_tx(serial_tx(s, Output(l.of)[1]), Output(l.of)[2])
  BY DEF Prints, LineSet

LEMMA PrintsType ==
    ASSUME NEW s \in RunState, NEW l \in LineSet
    PROVE  /\ Prints(s, l) \in RunState
           /\ Prints(s, l).vm = s.vm /\ Prints(s, l).saved = s.saved
<1>1. CASE l.do # "ask"
  BY <1>1, PrintsAs, TxType
<1>2. CASE l.do = "ask"
  <2> DEFINE o1 == Output(l.of)[1]  o2 == Output(l.of)[2]
  <2>1. o1 \in LineSet /\ o2 \in LineSet
    BY <1>2, PrintsAs, OutputType
  <2>2. Prints(s, l) = serial_tx(serial_tx(s, o1), o2)
    BY <1>2, PrintsAs
  <2> DEFINE u == serial_tx(s, o1)
  <2>3. u \in RunState /\ u.vm = s.vm /\ u.saved = s.saved
    BY <2>1, TxType
  <2>4. Prints(s, l) = serial_tx(u, o2)
    BY <2>2
  <2> HIDE DEF u, o1, o2
  <2>5. /\ serial_tx(u, o2) \in RunState
        /\ serial_tx(u, o2).vm = u.vm /\ serial_tx(u, o2).saved = u.saved
    BY <2>1, <2>3, TxType
  <2>6. QED  BY <2>3, <2>4, <2>5
<1>3. QED  BY <1>1, <1>2

LEMMA VmType ==
    ASSUME NEW collecting \in BOOLEAN, NEW text \in Seq(Said), NEW name \in Seq(Said)
    PROVE  /\ Vm(collecting, text, name) \in VmSet
           /\ Vm(collecting, text, name).collecting = collecting
           /\ Vm(collecting, text, name).text = text
           /\ Vm(collecting, text, name).name = name
  BY DEF Vm, VmSet

Words == {"^^s", "^^f", "^^w"}

\* A line that is no word of the protocol is collected or sent.
LEMMA RunOther ==
    ASSUME NEW s \in RunState, NEW l \in LineSet, l.do \notin Words
    PROVE  RunLine(s, l) = IF s.vm.collecting
                           THEN [s EXCEPT !.vm = Vm(TRUE, Append(s.vm.text, l.do), s.vm.name)]
                           ELSE Prints(s, l)
  BY DEF RunLine, Words

LEMMA RunWord ==
    ASSUME NEW s \in RunState, NEW l \in LineSet
    PROVE  /\ l.do = "^^s" => RunLine(s, l) = [s EXCEPT !.vm = Vm(TRUE, <<>>, s.vm.name)]
           /\ l.do = "^^f" => RunLine(s, l) = [s EXCEPT !.vm = Vm(FALSE, <<>>, s.vm.text)]
           /\ l.do = "^^w" => RunLine(s, l) =
                [s EXCEPT !.vm = Vm(FALSE, <<>>, <<>>),
                          !.saved = s.saved \cup {[name |-> s.vm.name, text |-> s.vm.text]}]
  BY DEF RunLine

LEMMA RunLineType ==
    ASSUME NEW s \in RunState, NEW l \in LineSet
    PROVE  RunLine(s, l) \in RunState
<1>1. s.vm \in VmSet /\ s.vm.text \in Seq(Said) /\ s.vm.name \in Seq(Said)
      /\ s.vm.collecting \in BOOLEAN /\ l.do \in Said /\ s.saved \subseteq FileSet
  BY DEF RunState, VmSet, LineSet
<1>2. ASSUME NEW v \in VmSet PROVE [s EXCEPT !.vm = v] \in RunState
  BY <1>2 DEF RunState
<1>3. CASE l.do = "^^s"
  <2>1. Vm(TRUE, <<>>, s.vm.name) \in VmSet
    BY <1>1, VmType, NoLines
  <2>2. QED  BY <1>2, <1>3, <2>1, RunWord
<1>4. CASE l.do = "^^f"
  <2>1. Vm(FALSE, <<>>, s.vm.text) \in VmSet
    BY <1>1, VmType, NoLines
  <2>2. QED  BY <1>2, <1>4, <2>1, RunWord
<1>5. CASE l.do = "^^w"
  <2>1. [name |-> s.vm.name, text |-> s.vm.text] \in FileSet
    BY <1>1 DEF FileSet
  <2>2. Vm(FALSE, <<>>, <<>>) \in VmSet
    BY VmType, NoLines
  <2>3. ASSUME NEW v \in VmSet, NEW file \in FileSet
        PROVE  [s EXCEPT !.vm = v, !.saved = s.saved \cup {file}] \in RunState
    BY <1>1 DEF RunState
  <2>4. QED  BY <1>5, <2>1, <2>2, <2>3, RunWord
<1>6. CASE l.do \notin Words
  <2>1. Append(s.vm.text, l.do) \in Seq(Said)
    BY <1>1
  <2>2. Vm(TRUE, Append(s.vm.text, l.do), s.vm.name) \in VmSet
    BY <1>1, <2>1, VmType
  <2>3. QED  BY <1>2, <1>6, <2>2, RunOther, PrintsType
<1>7. QED  BY <1>3, <1>4, <1>5, <1>6 DEF Words

LEMMA HandleLineType ==
    ASSUME NEW js \in JsState, NEW l \in LineSet
    PROVE  handleLine(js, l) \in JsState
<1>1. CASE js.capture = none
  BY <1>1 DEF handleLine
<1>2. CASE js.capture # none /\ js.capture \in CaptureSet
  <2>1. js.capture.lines \in Seq(LineSet)
    BY <1>2 DEF CaptureSet
  <2>2. Append(js.capture.lines, l) \in Seq(LineSet)
    BY <2>1
  <2>3. Captured(js.capture.lines, l) \in Seq(LineSet)
    BY <2>1, <2>2 DEF Captured
  <2>4. /\ [js.capture EXCEPT !.started = TRUE] \in CaptureSet
        /\ [js.capture EXCEPT !.lines = Captured(js.capture.lines, l)] \in CaptureSet
    BY <1>2, <2>3 DEF CaptureSet
  <2>5. ASSUME NEW c \in CaptureSet PROVE [js EXCEPT !.capture = c] \in JsState
    BY DEF JsState
  <2>6. [capture |-> none, resolved |-> js.capture] \in JsState
    BY <1>2 DEF JsState
  <2>7. CASE l.do = "end" /\ l.id = js.capture.id
    BY <1>2, <2>6, <2>7 DEF handleLine
  <2>8. CASE l.do = "begin" /\ l.id = js.capture.id
    BY <1>2, <2>4, <2>5, <2>8 DEF handleLine
  <2>9. CASE l.do \notin {"begin", "end"} \/ l.id # js.capture.id
    BY <1>2, <2>4, <2>5, <2>9 DEF handleLine
  <2>10. QED  BY <2>7, <2>8, <2>9
<1>3. QED  BY <1>1, <1>2 DEF JsState

---------------------------------------------------------------------------
(* Each fold is reached step by step, and stays in its type.               *)

LEMMA TxFold ==
    ASSUME NEW seq \in Seq(LineSet), NEW base \in RunState
    PROVE  \E f \in [0 .. Len(seq) -> RunState] :
             /\ f[0] = base
             /\ \A i \in 1 .. Len(seq) : f[i] = serial_tx(f[i - 1], seq[i])
             /\ Folded(serial_tx, base, seq) = f[Len(seq)]
<1> DEFINE n == Len(seq)
           step == [p \in RunState \X (1 .. n) |-> serial_tx(p[1], seq[p[2]])]
           Eq(g) == g = [i \in 0 .. n |-> IF i = 0 THEN base ELSE serial_tx(g[i - 1], seq[i])]
           f == CHOOSE g : Eq(g)
<1>1. n \in Nat /\ \A i \in 1 .. n : seq[i] \in LineSet
  OBVIOUS
<1>2. StepsOn(step, RunState, n)
  BY <1>1, TxType DEF StepsOn
<1>3. PICK h : Iterates(h, n, RunState, base, step)
  <2> HIDE DEF n, step, Eq, f
  <2>1. QED  BY <1>1, <1>2, Iteration
<1>4. ASSUME NEW i \in 1 .. n PROVE h[i] = serial_tx(h[i - 1], seq[i])
  <2>1. i - 1 \in 0 .. n /\ h[i - 1] \in RunState
    BY <1>1, <1>3 DEF Iterates
  <2>2. step[<<h[i - 1], i>>] = serial_tx(h[i - 1], seq[i])
    BY <2>1
  <2>3. QED  BY <1>3, <2>2 DEF Iterates
<1>5. Eq(h)
  BY <1>3, <1>4 DEF Iterates
<1>6. Eq(f)
  BY <1>5
<1>7. Folded(serial_tx, base, seq) = f[n]
  BY DEF Folded
<1> HIDE DEF f, step, n
<1>8. f[0] = base /\ \A i \in 1 .. n : f[i] = serial_tx(f[i - 1], seq[i])
  BY <1>1, <1>6
<1>9. \A i \in 0 .. n : f[i] \in RunState
  <2> DEFINE S == {k \in 0 .. n : f[k] \in RunState}
  <2>1. 0 \in S
    BY <1>1, <1>8
  <2>2. ASSUME NEW i \in 0 .. n - 1, i \in S PROVE i + 1 \in S
    <3>1. i + 1 \in 1 .. n /\ (i + 1) - 1 = i
      BY <1>1
    <3>2. serial_tx(f[i], seq[i + 1]) \in RunState
      BY <1>1, <2>2, <3>1, TxType
    <3>3. QED  BY <1>8, <3>1, <3>2
  <2> HIDE DEF S
  <2>3. \A i \in 0 .. n : i \in S
    BY <1>1, <2>1, <2>2, UpTo
  <2>4. QED  BY <2>3 DEF S
<1>10. f \in [0 .. n -> RunState]
  <2>1. f = [i \in 0 .. n |-> f[i]]
    BY <1>6
  <2>2. QED  BY <1>9, <2>1
<1>11. QED  BY <1>7, <1>8, <1>10 DEF n

LEMMA RunFold ==
    ASSUME NEW seq \in Seq(LineSet), NEW base \in RunState
    PROVE  \E f \in [0 .. Len(seq) -> RunState] :
             /\ f[0] = base
             /\ \A i \in 1 .. Len(seq) : f[i] = RunLine(f[i - 1], seq[i])
             /\ Folded(RunLine, base, seq) = f[Len(seq)]
<1> DEFINE n == Len(seq)
           step == [p \in RunState \X (1 .. n) |-> RunLine(p[1], seq[p[2]])]
           Eq(g) == g = [i \in 0 .. n |-> IF i = 0 THEN base ELSE RunLine(g[i - 1], seq[i])]
           f == CHOOSE g : Eq(g)
<1>1. n \in Nat /\ \A i \in 1 .. n : seq[i] \in LineSet
  OBVIOUS
<1>2. StepsOn(step, RunState, n)
  BY <1>1, RunLineType DEF StepsOn
<1>3. PICK h : Iterates(h, n, RunState, base, step)
  <2> HIDE DEF n, step, Eq, f
  <2>1. QED  BY <1>1, <1>2, Iteration
<1>4. ASSUME NEW i \in 1 .. n PROVE h[i] = RunLine(h[i - 1], seq[i])
  <2>1. i - 1 \in 0 .. n /\ h[i - 1] \in RunState
    BY <1>1, <1>3 DEF Iterates
  <2>2. step[<<h[i - 1], i>>] = RunLine(h[i - 1], seq[i])
    BY <2>1
  <2>3. QED  BY <1>3, <2>2 DEF Iterates
<1>5. Eq(h)
  BY <1>3, <1>4 DEF Iterates
<1>6. Eq(f)
  BY <1>5
<1>7. Folded(RunLine, base, seq) = f[n]
  BY DEF Folded
<1> HIDE DEF f, step, n
<1>8. f[0] = base /\ \A i \in 1 .. n : f[i] = RunLine(f[i - 1], seq[i])
  BY <1>1, <1>6
<1>9. \A i \in 0 .. n : f[i] \in RunState
  <2> DEFINE S == {k \in 0 .. n : f[k] \in RunState}
  <2>1. 0 \in S
    BY <1>1, <1>8
  <2>2. ASSUME NEW i \in 0 .. n - 1, i \in S PROVE i + 1 \in S
    <3>1. i + 1 \in 1 .. n /\ (i + 1) - 1 = i
      BY <1>1
    <3>2. RunLine(f[i], seq[i + 1]) \in RunState
      BY <1>1, <2>2, <3>1, RunLineType
    <3>3. QED  BY <1>8, <3>1, <3>2
  <2> HIDE DEF S
  <2>3. \A i \in 0 .. n : i \in S
    BY <1>1, <2>1, <2>2, UpTo
  <2>4. QED  BY <2>3 DEF S
<1>10. f \in [0 .. n -> RunState]
  <2>1. f = [i \in 0 .. n |-> f[i]]
    BY <1>6
  <2>2. QED  BY <1>9, <2>1
<1>11. QED  BY <1>7, <1>8, <1>10 DEF n

LEMMA HandleFold ==
    ASSUME NEW seq \in Seq(LineSet), NEW base \in JsState
    PROVE  \E f \in [0 .. Len(seq) -> JsState] :
             /\ f[0] = base
             /\ \A i \in 1 .. Len(seq) : f[i] = handleLine(f[i - 1], seq[i])
             /\ Folded(handleLine, base, seq) = f[Len(seq)]
<1> DEFINE n == Len(seq)
           step == [p \in JsState \X (1 .. n) |-> handleLine(p[1], seq[p[2]])]
           Eq(g) == g = [i \in 0 .. n |-> IF i = 0 THEN base ELSE handleLine(g[i - 1], seq[i])]
           f == CHOOSE g : Eq(g)
<1>1. n \in Nat /\ \A i \in 1 .. n : seq[i] \in LineSet
  OBVIOUS
<1>2. StepsOn(step, JsState, n)
  BY <1>1, HandleLineType DEF StepsOn
<1>3. PICK h : Iterates(h, n, JsState, base, step)
  <2> HIDE DEF n, step, Eq, f
  <2>1. QED  BY <1>1, <1>2, Iteration
<1>4. ASSUME NEW i \in 1 .. n PROVE h[i] = handleLine(h[i - 1], seq[i])
  <2>1. i - 1 \in 0 .. n /\ h[i - 1] \in JsState
    BY <1>1, <1>3 DEF Iterates
  <2>2. step[<<h[i - 1], i>>] = handleLine(h[i - 1], seq[i])
    BY <2>1
  <2>3. QED  BY <1>3, <2>2 DEF Iterates
<1>5. Eq(h)
  BY <1>3, <1>4 DEF Iterates
<1>6. Eq(f)
  BY <1>5
<1>7. Folded(handleLine, base, seq) = f[n]
  BY DEF Folded
<1> HIDE DEF f, step, n
<1>8. f[0] = base /\ \A i \in 1 .. n : f[i] = handleLine(f[i - 1], seq[i])
  BY <1>1, <1>6
<1>9. \A i \in 0 .. n : f[i] \in JsState
  <2> DEFINE S == {k \in 0 .. n : f[k] \in JsState}
  <2>1. 0 \in S
    BY <1>1, <1>8
  <2>2. ASSUME NEW i \in 0 .. n - 1, i \in S PROVE i + 1 \in S
    <3>1. i + 1 \in 1 .. n /\ (i + 1) - 1 = i
      BY <1>1
    <3>2. handleLine(f[i], seq[i + 1]) \in JsState
      BY <1>1, <2>2, <3>1, HandleLineType
    <3>3. QED  BY <1>8, <3>1, <3>2
  <2> HIDE DEF S
  <2>3. \A i \in 0 .. n : i \in S
    BY <1>1, <2>1, <2>2, UpTo
  <2>4. QED  BY <2>3 DEF S
<1>10. f \in [0 .. n -> JsState]
  <2>1. f = [i \in 0 .. n |-> f[i]]
    BY <1>6
  <2>2. QED  BY <1>9, <2>1
<1>11. QED  BY <1>7, <1>8, <1>10 DEF n

---------------------------------------------------------------------------
(* What a batch prints of a capture.                                       *)

Absent(lines, id) == \A i \in 1 .. Len(lines) : lines[i].id # id

NoEnd(lines, id) == \A i \in 1 .. Len(lines) : ~ (lines[i].do = "end" /\ lines[i].id = id)

\* The lines of executeLuaCapture, which it sends in one go.
AskedAt(lines, p, id, of) ==
    /\ p \in 1 .. Len(lines) - 2
    /\ lines[p] = Line("begin", id, of)
    /\ lines[p + 1] = Line("ask", 0, of)
    /\ lines[p + 2] = Line("end", id, of)
    /\ \A i \in 1 .. Len(lines) : i \notin {p, p + 2} => lines[i].id # id

\* After place b come k lines of the command's output: both, or some of them
\* where the rest was cut.
OutputAt(tx, cut, of, b, k) ==
    \/ k = 0 /\ of \in cut
    \/ k = 1 /\ of \in cut /\ tx[b + 1] \in {Output(of)[1], Output(of)[2]}
    \/ k = 2 /\ tx[b + 1] = Output(of)[1] /\ tx[b + 2] = Output(of)[2]

\* What is left of them after the transmit buffer: the output may be cut, and
\* the tokens are next to it.
Whole(tx, cut, id, of, b) ==
    /\ b \in 1 .. Len(tx) /\ tx[b] = Line("begin", id, of)
    /\ \A i \in 1 .. b - 1 : tx[i].id # id
    /\ \E k \in 0 .. 2 : /\ b + k + 1 \in 1 .. Len(tx) /\ tx[b + k + 1] = Line("end", id, of)
                       /\ OutputAt(tx, cut, of, b, k)

Printed(s, id, of) == NoEnd(s.tx, id) \/ \E b : Whole(s.tx, s.cut, id, of, b)

LEMMA AppendAt ==
    ASSUME NEW lines \in Seq(LineSet), NEW l \in LineSet
    PROVE  /\ Append(lines, l) \in Seq(LineSet)
           /\ Len(lines) \in Nat /\ Len(Append(lines, l)) = Len(lines) + 1
           /\ \A i \in 1 .. Len(lines) : Append(lines, l)[i] = lines[i]
           /\ Append(lines, l)[Len(lines) + 1] = l
  OBVIOUS

LEMMA LineType ==
    ASSUME NEW do \in Said, NEW id \in Nat, NEW of \in CommandSet
    PROVE  /\ Line(do, id, of) \in LineSet
           /\ Line(do, id, of).do = do /\ Line(do, id, of).id = id /\ Line(do, id, of).of = of
  BY DEF Line, LineSet

LEMMA AppendKeeps ==
    ASSUME NEW tx \in Seq(LineSet), NEW l \in LineSet, NEW id, NEW of, NEW cut, NEW cut2,
           cut \subseteq cut2, l.id # id
    PROVE  /\ Absent(tx, id) => Absent(Append(tx, l), id)
           /\ NoEnd(tx, id) => NoEnd(Append(tx, l), id)
           /\ \A b : Whole(tx, cut, id, of, b) =>
                       Whole(tx, cut2, id, of, b) /\ Whole(Append(tx, l), cut2, id, of, b)
<1>1. /\ Len(tx) \in Nat /\ Len(Append(tx, l)) = Len(tx) + 1
      /\ \A i \in 1 .. Len(tx) : Append(tx, l)[i] = tx[i]
      /\ Append(tx, l)[Len(tx) + 1] = l
  BY AppendAt
<1>2. Absent(tx, id) => Absent(Append(tx, l), id)
  BY <1>1 DEF Absent
<1>3. NoEnd(tx, id) => NoEnd(Append(tx, l), id)
  BY <1>1 DEF NoEnd
<1>4. ASSUME NEW b, Whole(tx, cut, id, of, b)
      PROVE  Whole(tx, cut2, id, of, b) /\ Whole(Append(tx, l), cut2, id, of, b)
  <2>1. b \in 1 .. Len(Append(tx, l)) /\ Append(tx, l)[b] = tx[b]
    BY <1>1, <1>4 DEF Whole
  <2>2. \A i \in 1 .. b - 1 : Append(tx, l)[i] = tx[i]
    BY <1>1, <1>4 DEF Whole
  <2>3. PICK k \in 0 .. 2 : /\ b + k + 1 \in 1 .. Len(tx) /\ tx[b + k + 1] = Line("end", id, of)
                            /\ OutputAt(tx, cut, of, b, k)
    BY <1>4 DEF Whole
  <2>4. \A i \in 1 .. k + 1 : b + i \in 1 .. Len(tx) /\ Append(tx, l)[b + i] = tx[b + i]
    BY <1>1, <1>4, <2>3 DEF Whole
  <2>5. OutputAt(tx, cut2, of, b, k) /\ OutputAt(Append(tx, l), cut2, of, b, k)
    BY <2>3, <2>4 DEF OutputAt
  <2>6. /\ b + k + 1 \in 1 .. Len(Append(tx, l))
        /\ Append(tx, l)[b + k + 1] = Line("end", id, of)
    BY <1>1, <2>3
  <2> HIDE DEF OutputAt
  <2>7. QED  BY <1>4, <2>1, <2>2, <2>3, <2>5, <2>6 DEF Whole
<1>5. QED  BY <1>2, <1>3, <1>4

LEMMA TxStep ==
    ASSUME NEW s \in RunState, NEW l \in LineSet, NEW id, NEW of, l.id # id
    PROVE  /\ Absent(s.tx, id) => Absent(serial_tx(s, l).tx, id)
           /\ Printed(s, id, of) => Printed(serial_tx(s, l), id, of)
<1>1. s.tx \in Seq(LineSet)
  BY DEF RunState
<1>2. /\ serial_tx(s, l).tx = s.tx \/ serial_tx(s, l).tx = Append(s.tx, l)
      /\ s.cut \subseteq serial_tx(s, l).cut
  BY TxType
<1>3. /\ Absent(s.tx, id) => Absent(Append(s.tx, l), id)
      /\ NoEnd(s.tx, id) => NoEnd(Append(s.tx, l), id)
      /\ \A b : Whole(s.tx, s.cut, id, of, b) =>
                  Whole(s.tx, serial_tx(s, l).cut, id, of, b)
                  /\ Whole(Append(s.tx, l), serial_tx(s, l).cut, id, of, b)
  BY <1>1, <1>2, AppendKeeps
<1>4. QED  BY <1>2, <1>3 DEF Printed

\* What another line prints leaves the lines of a capture as they are.
LEMMA PrintStep ==
    ASSUME NEW s \in RunState, NEW l \in LineSet, NEW id, NEW of, l.id # id, id # 0
    PROVE  /\ Absent(s.tx, id) => Absent(RunLine(s, l).tx, id)
           /\ Printed(s, id, of) => Printed(RunLine(s, l), id, of)
<1>1. CASE l.do \in Words \/ s.vm.collecting
  <2>1. RunLine(s, l).tx = s.tx /\ RunLine(s, l).cut = s.cut
    <3>1. ASSUME NEW v, NEW w
          PROVE  /\ [s EXCEPT !.vm = v].tx = s.tx /\ [s EXCEPT !.vm = v].cut = s.cut
                 /\ [s EXCEPT !.vm = v, !.saved = w].tx = s.tx
                 /\ [s EXCEPT !.vm = v, !.saved = w].cut = s.cut
      BY DEF RunState
    <3>2. CASE l.do = "^^s"
      BY <3>1, <3>2, RunWord
    <3>3. CASE l.do = "^^f"
      BY <3>1, <3>3, RunWord
    <3>4. CASE l.do = "^^w"
      <4>1. RunLine(s, l) =
              [s EXCEPT !.vm = Vm(FALSE, <<>>, <<>>),
                        !.saved = s.saved \cup {[name |-> s.vm.name, text |-> s.vm.text]}]
        BY <3>4, RunWord
      <4>2. QED  BY <3>1, <4>1
    <3>5. CASE l.do \notin Words /\ s.vm.collecting
      <4>1. RunLine(s, l) = [s EXCEPT !.vm = Vm(TRUE, Append(s.vm.text, l.do), s.vm.name)]
        BY <3>5, RunOther
      <4>2. QED  BY <3>1, <4>1
    <3>6. QED  BY <1>1, <3>2, <3>3, <3>4, <3>5 DEF Words
  <2>2. QED  BY <2>1 DEF Printed
<1>2. CASE l.do \notin Words /\ ~ s.vm.collecting
  <2>1. RunLine(s, l) = Prints(s, l)
    BY <1>2, RunOther
  <2>2. CASE l.do # "ask"
    <3>1. RunLine(s, l) = serial_tx(s, l)
      BY <2>1, <2>2, PrintsAs
    <3>2. QED  BY <3>1, TxStep
  <2>3. CASE l.do = "ask"
    <3> DEFINE o1 == Output(l.of)[1]  o2 == Output(l.of)[2]  u == serial_tx(s, o1)
    <3>1. o1 \in LineSet /\ o2 \in LineSet /\ o1.id # id /\ o2.id # id
      BY <2>3, PrintsAs, OutputType
    <3>2. RunLine(s, l) = serial_tx(u, o2)
      BY <2>1, <2>3, PrintsAs
    <3> HIDE DEF o1, o2
    <3>3. u \in RunState
      BY <3>1, TxType
    <3>4. /\ Absent(s.tx, id) => Absent(u.tx, id)
          /\ Printed(s, id, of) => Printed(u, id, of)
      BY <3>1, TxStep
    <3> HIDE DEF u
    <3>5. /\ Absent(u.tx, id) => Absent(serial_tx(u, o2).tx, id)
          /\ Printed(u, id, of) => Printed(serial_tx(u, o2), id, of)
      BY <3>1, <3>3, TxStep
    <3>6. QED  BY <3>2, <3>4, <3>5
  <2>4. QED  BY <2>2, <2>3
<1>3. QED  BY <1>1, <1>2

\* What a command prints comes after what is there, and what is missing of it
\* is noted.
LEMMA OutputPrints ==
    ASSUME NEW s \in RunState, NEW l \in LineSet, l.do = "ask", NEW b, b = Len(s.tx)
    PROVE  LET p == Prints(s, l) IN
           /\ s.tx_w <= p.tx_w /\ p.tx_w \in Nat
           /\ \E k \in 0 .. 2 : /\ Len(p.tx) = b + k /\ OutputAt(p.tx, p.cut, l.of, b, k)
                              /\ \A i \in 1 .. b : p.tx[i] = s.tx[i]
<1> DEFINE o1 == Output(l.of)[1]  o2 == Output(l.of)[2]
           u == serial_tx(s, o1)  p == Prints(s, l)
<1>1. /\ o1 \in LineSet /\ o1.of = l.of /\ o1 = Output(l.of)[1]
      /\ o2 \in LineSet /\ o2.of = l.of /\ o2 = Output(l.of)[2]
  BY PrintsAs, OutputType
<1>2. p = serial_tx(u, o2)
  BY PrintsAs
<1> HIDE DEF o1, o2
<1>3. LenOf(o1) \in Nat /\ LenOf(o2) \in Nat
  <2>1. OutputLen[1] \in Nat /\ OutputLen[2] \in Nat
    BY ReplAssumption DEF ReplAssumption
  <2>2. QED  BY <2>1 DEF LenOf
<1>4. /\ u \in RunState
      /\ \/ u.tx = s.tx /\ l.of \in u.cut /\ u.tx_w = s.tx_w
         \/ u.tx = Append(s.tx, o1) /\ u.tx_w = s.tx_w + LenOf(o1)
  BY <1>1, TxType
<1> HIDE DEF u, p
<1>5. /\ p \in RunState /\ u.cut \subseteq p.cut
      /\ \/ p.tx = u.tx /\ l.of \in p.cut /\ p.tx_w = u.tx_w
         \/ p.tx = Append(u.tx, o2) /\ p.tx_w = u.tx_w + LenOf(o2)
  BY <1>1, <1>2, <1>4, TxType
<1>6. /\ s.tx \in Seq(LineSet) /\ u.tx \in Seq(LineSet) /\ p.tx \in Seq(LineSet) /\ b \in Nat
      /\ s.tx_w \in Nat /\ u.tx_w \in Nat /\ p.tx_w \in Nat
  BY <1>4, <1>5 DEF RunState
<1>7. s.tx_w <= p.tx_w
  BY <1>3, <1>4, <1>5, <1>6
<1>8. \E k \in 0 .. 2 : /\ Len(p.tx) = b + k /\ OutputAt(p.tx, p.cut, l.of, b, k)
                     /\ \A i \in 1 .. b : p.tx[i] = s.tx[i]
  <2>1. CASE p.tx = s.tx /\ l.of \in p.cut
    <3>1. Len(p.tx) = b + 0 /\ OutputAt(p.tx, p.cut, l.of, b, 0)
      BY <1>6, <2>1 DEF OutputAt
    <3>2. QED  BY <2>1, <3>1
  <2>2. ASSUME NEW o \in {o1, o2}, p.tx = Append(s.tx, o), l.of \in p.cut
        PROVE  \E k \in 0 .. 2 : /\ Len(p.tx) = b + k /\ OutputAt(p.tx, p.cut, l.of, b, k)
                              /\ \A i \in 1 .. b : p.tx[i] = s.tx[i]
    <3>1. o \in LineSet /\ o \in {Output(l.of)[1], Output(l.of)[2]}
      BY <1>1
    <3>2. Len(p.tx) = b + 1 /\ p.tx[b + 1] = o /\ \A i \in 1 .. b : p.tx[i] = s.tx[i]
      BY <1>6, <2>2, <3>1, AppendAt
    <3>3. OutputAt(p.tx, p.cut, l.of, b, 1)
      BY <2>2, <3>1, <3>2 DEF OutputAt
    <3>4. QED  BY <3>2, <3>3
  <2>3. CASE p.tx = Append(u.tx, o2) /\ u.tx = Append(s.tx, o1)
    <3>1. Len(u.tx) = b + 1 /\ u.tx[b + 1] = o1 /\ \A i \in 1 .. b : u.tx[i] = s.tx[i]
      BY <1>1, <1>6, <2>3, AppendAt
    <3>2. Len(p.tx) = b + 2 /\ p.tx[b + 2] = o2 /\ \A i \in 1 .. b + 1 : p.tx[i] = u.tx[i]
      <4>1. /\ Len(Append(u.tx, o2)) = Len(u.tx) + 1 /\ Append(u.tx, o2)[Len(u.tx) + 1] = o2
            /\ \A i \in 1 .. Len(u.tx) : Append(u.tx, o2)[i] = u.tx[i]
        BY <1>1, <1>6, AppendAt
      <4>2. QED  BY <1>6, <2>3, <3>1, <4>1
    <3>3. OutputAt(p.tx, p.cut, l.of, b, 2)
      BY <1>1, <1>6, <3>1, <3>2 DEF OutputAt
    <3>4. \A i \in 1 .. b : p.tx[i] = s.tx[i]
      BY <1>6, <3>1, <3>2
    <3>5. QED  BY <3>2, <3>3, <3>4
  <2>4. QED
    <3>1. \/ p.tx = s.tx /\ l.of \in p.cut
          \/ p.tx = Append(s.tx, o1) /\ l.of \in p.cut
          \/ p.tx = Append(s.tx, o2) /\ l.of \in p.cut
          \/ p.tx = Append(u.tx, o2) /\ u.tx = Append(s.tx, o1)
      BY <1>4, <1>5
    <3>2. QED  BY <2>1, <2>2, <2>3, <3>1
<1>9. QED  BY <1>6, <1>7, <1>8 DEF p

\* The three lines of a capture, run one after the other where its tokens are
\* new: a first token that is cut costs the second as well, and what is cut of
\* the output is noted.
LEMMA TripleRun ==
    ASSUME NEW id \in Nat \ {0}, NEW of \in CommandSet,
           NEW lb \in LineSet, lb = Line("begin", id, of),
           NEW la \in LineSet, la = Line("ask", 0, of),
           NEW le \in LineSet, le = Line("end", id, of),
           NEW s \in RunState, Absent(s.tx, id),
           NEW s1 \in RunState, s1 = RunLine(s, lb),
           NEW s2 \in RunState, s2 = RunLine(s1, la),
           NEW s3 \in RunState, s3 = RunLine(s2, le)
    PROVE  Printed(s3, id, of)
<1>1. /\ lb \in LineSet /\ lb.do = "begin" /\ lb.id = id /\ lb.of = of
      /\ la \in LineSet /\ la.do = "ask" /\ la.id = 0 /\ la.of = of
      /\ le \in LineSet /\ le.do = "end" /\ le.id = id /\ le.of = of
  BY DEF Line
<1>2. LenOf(lb) = 1 /\ LenOf(le) = 1
  BY <1>1 DEF LenOf
<1>3. s1 = RunLine(s, lb) /\ s2 = RunLine(s1, la) /\ s3 = RunLine(s2, le)
  OBVIOUS
<1>4. s1 \in RunState /\ s2 \in RunState /\ s3 \in RunState
  OBVIOUS
<1>5. lb.do \notin Words /\ la.do \notin Words /\ le.do \notin Words
  BY <1>1 DEF Words
<1>6. ASSUME NEW u \in RunState, NEW l \in LineSet, l.do \notin Words, u.vm.collecting
      PROVE  RunLine(u, l).tx = u.tx /\ RunLine(u, l).vm.collecting
  <2>1. RunLine(u, l) = [u EXCEPT !.vm = Vm(TRUE, Append(u.vm.text, l.do), u.vm.name)]
    BY <1>6, RunOther
  <2>2. Vm(TRUE, Append(u.vm.text, l.do), u.vm.name).collecting
    BY DEF Vm
  <2>3. QED  BY <2>1, <2>2 DEF RunState
<1>7. ASSUME NEW u \in RunState, NEW l \in LineSet, l.do \notin Words, ~ u.vm.collecting
      PROVE  RunLine(u, l) = Prints(u, l) /\ ~ RunLine(u, l).vm.collecting
  <2>1. RunLine(u, l) = Prints(u, l)
    BY <1>7, RunOther
  <2>2. Prints(u, l).vm = u.vm
    BY PrintsType
  <2>3. QED  BY <1>7, <2>1, <2>2
<1>8. CASE s.vm.collecting
  <2>1. s3.tx = s.tx
    BY <1>1, <1>3, <1>4, <1>5, <1>6, <1>8
  <2>2. NoEnd(s.tx, id)
    BY DEF Absent, NoEnd
  <2>3. QED  BY <2>1, <2>2 DEF Printed
<1>9. CASE ~ s.vm.collecting
  <2>1. s1 = serial_tx(s, lb) /\ s2 = Prints(s1, la) /\ s3 = serial_tx(s2, le)
    <3>1. s1 = Prints(s, lb) /\ s2 = Prints(s1, la) /\ s3 = Prints(s2, le)
      BY <1>1, <1>3, <1>4, <1>5, <1>7, <1>9
    <3>2. QED  BY <1>1, <1>4, <3>1, PrintsAs
  <2>2. /\ s.tx_w \in Nat /\ s1.tx_w \in Nat /\ s2.tx_w \in Nat /\ SERIAL_TX_BUFSIZE \in Nat
        /\ s.tx \in Seq(LineSet) /\ s1.tx \in Seq(LineSet) /\ s2.tx \in Seq(LineSet)
    BY <1>4, ReplAssumption DEF RunState, ReplAssumption
  <2>3. CASE ~ (1 + s.tx_w < SERIAL_TX_BUFSIZE)
    <3>1. s1.tx = s.tx /\ s1.tx_w = s.tx_w
      BY <1>2, <2>1, <2>3, TxCut
    <3>2. s.tx_w <= s2.tx_w
      BY <1>1, <1>4, <2>1, <3>1, OutputPrints
    <3>3. ~ (1 + s2.tx_w < SERIAL_TX_BUFSIZE)
      BY <2>2, <2>3, <3>2
    <3>4. s3.tx = s2.tx
      BY <1>2, <2>1, <3>3, TxCut
    <3>5. Absent(s2.tx, id)
      <4>1. Absent(s1.tx, id)
        BY <3>1
      <4>2. QED  BY <1>1, <1>3, <1>4, <4>1, PrintStep
    <3>6. QED  BY <3>4, <3>5 DEF Absent, NoEnd, Printed
  <2>4. CASE 1 + s.tx_w < SERIAL_TX_BUFSIZE
    <3>1. s1.tx = Append(s.tx, lb)
      BY <1>2, <2>1, <2>4, TxFits
    <3> DEFINE b == Len(s.tx) + 1
    <3>2. /\ b \in Nat \ {0} /\ Len(s1.tx) = b /\ s1.tx[b] = lb
          /\ \A i \in 1 .. b - 1 : s1.tx[i] = s.tx[i]
      BY <1>1, <2>2, <3>1, AppendAt
    <3>3. \A i \in 1 .. b - 1 : s1.tx[i].id # id
      BY <2>2, <3>2 DEF Absent
    <3> HIDE DEF b
    <3>4. PICK k \in 0 .. 2 : /\ Len(s2.tx) = b + k /\ OutputAt(s2.tx, s2.cut, of, b, k)
                              /\ \A i \in 1 .. b : s2.tx[i] = s1.tx[i]
      BY <1>1, <1>4, <2>1, <3>2, OutputPrints
    <3>5. /\ s3.tx = s2.tx \/ s3.tx = Append(s2.tx, le)
          /\ s2.cut \subseteq s3.cut
      <4>1. s2 \in RunState /\ le \in LineSet /\ s3 = serial_tx(s2, le)
        BY <1>1, <1>4, <2>1
      <4>2. s2.cut \subseteq s2.cut \cup {le.of}
        OBVIOUS
      <4>3. \/ serial_tx(s2, le).tx = s2.tx \/ serial_tx(s2, le).tx = Append(s2.tx, le)
        BY <4>1, TxFits, TxCut
      <4>4. serial_tx(s2, le).cut = s2.cut \/ serial_tx(s2, le).cut = s2.cut \cup {le.of}
        BY <4>1, TxFits, TxCut
      <4>5. QED  BY <4>1, <4>2, <4>3, <4>4
    <3>6. CASE s3.tx = s2.tx
      <4>1. ASSUME NEW i \in 1 .. b + k PROVE ~ (s2.tx[i].do = "end" /\ s2.tx[i].id = id)
        <5>1. i \in 1 .. b \/ (i = b + 1 /\ k \in {1, 2}) \/ (i = b + 2 /\ k = 2)
          BY <3>2
        <5>2. CASE i \in 1 .. b
          <6>1. CASE i = b
            BY <1>1, <3>2, <3>4, <6>1
          <6>2. CASE i \in 1 .. b - 1
            BY <3>2, <3>3, <3>4, <6>2
          <6>3. QED  BY <3>2, <5>2, <6>1, <6>2
        <5>3. CASE (i = b + 1 /\ k \in {1, 2}) \/ (i = b + 2 /\ k = 2)
          <6>1. s2.tx[i] \in {Output(of)[1], Output(of)[2]}
            BY <3>2, <3>4, <5>3 DEF OutputAt
          <6>2. s2.tx[i].id = 0
            BY <6>1, OutputType
          <6>3. QED  BY <6>2
        <5>4. QED  BY <3>2, <5>1, <5>2, <5>3
      <4>2. NoEnd(s3.tx, id)
        BY <3>4, <3>6, <4>1 DEF NoEnd
      <4>3. QED  BY <4>2 DEF Printed
    <3>7. CASE s3.tx = Append(s2.tx, le)
      <4>1. /\ Len(s3.tx) = b + k + 1 /\ s3.tx[b + k + 1] = le
            /\ \A i \in 1 .. b + k : s3.tx[i] = s2.tx[i]
        <5>1. /\ Len(Append(s2.tx, le)) = Len(s2.tx) + 1
              /\ Append(s2.tx, le)[Len(s2.tx) + 1] = le
              /\ \A i \in 1 .. Len(s2.tx) : Append(s2.tx, le)[i] = s2.tx[i]
          BY <2>2, AppendAt
        <5>2. QED  BY <3>2, <3>4, <3>7, <5>1
      <4>2. OutputAt(s3.tx, s3.cut, of, b, k)
        <5>1. /\ k \in {1, 2} => s3.tx[b + 1] = s2.tx[b + 1]
              /\ k = 2 => s3.tx[b + 2] = s2.tx[b + 2]
          <6>1. /\ k \in {1, 2} => b + 1 \in 1 .. b + k
                /\ k = 2 => b + 2 \in 1 .. b + k
            BY <3>2
          <6>2. QED  BY <4>1, <6>1
        <5>2. QED  BY <3>4, <3>5, <5>1 DEF OutputAt
      <4>3. s3.tx[b] = lb /\ \A i \in 1 .. b - 1 : s3.tx[i].id # id
        <5>1. \A i \in 1 .. b : i \in 1 .. b + k
          BY <3>2
        <5>2. \A i \in 1 .. b : s3.tx[i] = s1.tx[i]
          BY <3>4, <4>1, <5>1
        <5>3. QED  BY <3>2, <3>3, <5>2
      <4> HIDE DEF OutputAt
      <4>4. Whole(s3.tx, s3.cut, id, of, b)
        BY <3>2, <4>1, <4>2, <4>3 DEF Whole
      <4>5. QED  BY <4>4 DEF Printed
    <3>8. QED  BY <3>5, <3>6, <3>7
  <2>5. QED  BY <2>3, <2>4
<1>10. QED  BY <1>8, <1>9

\* A batch in which the lines of a capture are together, or none of them is.
LEMMA BatchPrints ==
    ASSUME NEW lines \in Seq(LineSet), NEW base \in RunState,
           NEW id \in Nat \ {0}, NEW of \in CommandSet, Absent(base.tx, id)
    PROVE  /\ Absent(lines, id) => NoEnd(Folded(RunLine, base, lines).tx, id)
           /\ (\E p : AskedAt(lines, p, id, of)) => Printed(Folded(RunLine, base, lines), id, of)
<1> DEFINE n == Len(lines)
<1>1. PICK f \in [0 .. n -> RunState] :
        /\ f[0] = base
        /\ \A i \in 1 .. n : f[i] = RunLine(f[i - 1], lines[i])
        /\ Folded(RunLine, base, lines) = f[n]
  BY RunFold
<1>2. n \in Nat /\ \A i \in 1 .. n : lines[i] \in LineSet
  OBVIOUS
<1>3. \A i \in 0 .. n : f[i] \in RunState
  OBVIOUS
<1>n. Len(lines) = n
  OBVIOUS
<1> HIDE DEF n
<1>4. ASSUME NEW m \in 0 .. n, \A i \in 1 .. m : lines[i].id # id
      PROVE  Absent(f[m].tx, id)
  <2> DEFINE S == {i \in 0 .. m : Absent(f[i].tx, id)}
  <2>1. 0 \in S
    BY <1>1, <1>2
  <2>2. ASSUME NEW i \in 0 .. m - 1, i \in S PROVE i + 1 \in S
    <3>1. i + 1 \in 1 .. m /\ i + 1 \in 1 .. n /\ (i + 1) - 1 = i /\ i \in 0 .. n
      BY <1>2
    <3>2. lines[i + 1].id # id /\ lines[i + 1] \in LineSet /\ f[i] \in RunState
      BY <1>2, <1>3, <1>4, <3>1
    <3>3. Absent(RunLine(f[i], lines[i + 1]).tx, id)
      BY <2>2, <3>2, PrintStep
    <3>4. QED  BY <1>1, <3>1, <3>3
  <2> HIDE DEF S
  <2>3. m \in Nat
    BY <1>2
  <2>4. \A i \in 0 .. m : i \in S
    BY <2>1, <2>2, <2>3, UpTo
  <2>5. m \in S
    BY <2>3, <2>4
  <2>6. QED  BY <2>5 DEF S
<1>5. ASSUME Absent(lines, id) PROVE NoEnd(f[n].tx, id)
  <2>1. Absent(f[n].tx, id)
    BY <1>2, <1>4, <1>5, <1>n DEF Absent
  <2>2. QED  BY <2>1 DEF Absent, NoEnd
<1>6. ASSUME NEW p, AskedAt(lines, p, id, of) PROVE Printed(f[n], id, of)
  <2> DEFINE lb == lines[p]  la == lines[p + 1]  le == lines[p + 2]
  <2>1. /\ p \in 1 .. n - 2 /\ p \in Nat
        /\ p \in 1 .. n /\ p + 1 \in 1 .. n /\ p + 2 \in 1 .. n
        /\ p - 1 \in 0 .. n /\ p \in 0 .. n /\ p + 1 \in 0 .. n /\ p + 2 \in 0 .. n
        /\ (p + 1) - 1 = p /\ (p + 2) - 1 = p + 1
    BY <1>2, <1>6, <1>n DEF AskedAt
  <2>2. \A i \in 1 .. n : i \notin {p, p + 2} => lines[i].id # id
    BY <1>6, <1>n DEF AskedAt
  <2>3. \A i \in 1 .. p - 1 : lines[i].id # id
    <3>1. ASSUME NEW i \in 1 .. p - 1 PROVE i \in 1 .. n /\ i \notin {p, p + 2}
      BY <1>2, <2>1
    <3>2. QED  BY <2>2, <3>1
  <2>4. Absent(f[p - 1].tx, id)
    BY <1>4, <2>1, <2>3
  <2>5. f[p] = RunLine(f[p - 1], lb) /\ f[p + 1] = RunLine(f[p], la) /\ f[p + 2] = RunLine(f[p + 1], le)
    BY <1>1, <2>1
  <2>6. /\ lb = Line("begin", id, of) /\ la = Line("ask", 0, of) /\ le = Line("end", id, of)
        /\ lb \in LineSet /\ la \in LineSet /\ le \in LineSet
    BY <1>2, <1>6, <2>1 DEF AskedAt
  <2>7. f[p - 1] \in RunState /\ f[p] \in RunState /\ f[p + 1] \in RunState /\ f[p + 2] \in RunState
    BY <1>3, <2>1
  <2> HIDE DEF lb, la, le
  <2>8. Printed(f[p + 2], id, of)
    BY <2>4, <2>5, <2>6, <2>7, TripleRun
  <2> DEFINE m == n - (p + 2)
             S == {k \in 0 .. m : Printed(f[p + 2 + k], id, of)}
  <2>9. m \in Nat /\ p + 2 + m = n /\ p + 2 + 0 = p + 2
    BY <1>2, <2>1
  <2>10. 0 \in S
    BY <2>8, <2>9
  <2>11. ASSUME NEW k \in 0 .. m - 1, k \in S PROVE k + 1 \in S
    <3> DEFINE i == p + 2 + k
    <3>1. i \in 0 .. n /\ i + 1 \in 1 .. n /\ (i + 1) - 1 = i /\ i + 1 \notin {p, p + 2}
          /\ p + 2 + (k + 1) = i + 1 /\ k + 1 \in 0 .. m
      BY <1>2, <2>1
    <3>2. lines[i + 1].id # id /\ lines[i + 1] \in LineSet /\ f[i] \in RunState
      BY <1>2, <1>3, <2>2, <3>1
    <3>3. Printed(f[i], id, of)
      BY <2>11
    <3> HIDE DEF i, m
    <3>4. Printed(RunLine(f[i], lines[i + 1]), id, of)
      BY <3>2, <3>3, PrintStep
    <3>5. QED  BY <1>1, <3>1, <3>4
  <2> HIDE DEF S, m
  <2>12. \A k \in 0 .. m : k \in S
    BY <2>9, <2>10, <2>11, UpTo
  <2>13. m \in S
    BY <2>9, <2>12
  <2>14. QED  BY <2>9, <2>13 DEF S
<1>7. QED  BY <1>1, <1>5, <1>6

\* What a batch begins with: handlers have printed, nothing has run.
BatchStart(noise) ==
    Folded(serial_tx, [vm |-> vm, tx |-> <<>>, tx_w |-> 0, cut |-> {}, saved |-> {}],
             [i \in 1 .. noise |-> Noise])

LEMMA NoisePrints ==
    ASSUME vm \in VmSet, NEW noise \in Nat
    PROVE  /\ BatchStart(noise) \in RunState
           /\ BatchStart(noise).vm = vm /\ BatchStart(noise).saved = {}
           /\ \A id \in Nat \ {0} : Absent(BatchStart(noise).tx, id)
<1> DEFINE base == [vm |-> vm, tx |-> <<>>, tx_w |-> 0, cut |-> {}, saved |-> {}]
           seq == [i \in 1 .. noise |-> Noise]
<1>1. Noise \in LineSet /\ Noise.id = 0
  <2>1. Noise = [do |-> "noise", id |-> 0, of |-> none]
    BY DEF Noise, Line
  <2>2. none \in CommandSet \cup {none}
    OBVIOUS
  <2>3. "noise" \in Said
    BY DEF Said
  <2>4. QED  BY <2>1, <2>2, <2>3 DEF LineSet
<1>2. base \in RunState /\ base.vm = vm /\ base.saved = {} /\ base.tx = <<>>
  BY NoLines DEF RunState
<1>3. seq \in Seq(LineSet) /\ Len(seq) = noise /\ \A i \in 1 .. noise : seq[i] = Noise
  BY <1>1
<1>4. BatchStart(noise) = Folded(serial_tx, base, seq)
  BY DEF BatchStart
<1> HIDE DEF base, seq
<1>5. PICK f \in [0 .. noise -> RunState] :
        /\ f[0] = base
        /\ \A i \in 1 .. noise : f[i] = serial_tx(f[i - 1], seq[i])
        /\ Folded(serial_tx, base, seq) = f[noise]
  BY <1>2, <1>3, TxFold
<1> DEFINE Quiet(s) == s.vm = vm /\ s.saved = {} /\ \A id \in Nat \ {0} : Absent(s.tx, id)
           S == {i \in 0 .. noise : Quiet(f[i])}
<1>6. 0 \in S
  BY <1>2, <1>5 DEF Absent
<1>7. ASSUME NEW i \in 0 .. noise - 1, i \in S PROVE i + 1 \in S
  <2>1. i + 1 \in 1 .. noise /\ i + 1 \in 0 .. noise /\ (i + 1) - 1 = i /\ i \in 0 .. noise
    OBVIOUS
  <2>2. f[i + 1] = serial_tx(f[i], Noise) /\ f[i] \in RunState
    BY <1>3, <1>5, <2>1
  <2>3. f[i + 1].vm = f[i].vm /\ f[i + 1].saved = f[i].saved
    BY <1>1, <2>2, TxType
  <2>4. f[i + 1].tx = f[i].tx \/ f[i + 1].tx = Append(f[i].tx, Noise)
    BY <1>1, <2>2, TxType
  <2>5. f[i].tx \in Seq(LineSet)
    BY <2>2 DEF RunState
  <2>6. Quiet(f[i])
    BY <1>7
  <2>7. ASSUME NEW id \in Nat \ {0} PROVE Absent(f[i + 1].tx, id)
    <3>1. Absent(f[i].tx, id) /\ Noise.id # id
      BY <1>1, <2>6
    <3>2. Absent(Append(f[i].tx, Noise), id)
      BY <1>1, <2>5, <3>1, AppendKeeps
    <3>3. QED  BY <2>4, <3>1, <3>2
  <2>8. Quiet(f[i + 1])
    BY <2>3, <2>6, <2>7
  <2> HIDE DEF Quiet
  <2>9. QED  BY <2>1, <2>8
<1> HIDE DEF S, Quiet
<1>8. \A i \in 0 .. noise : i \in S
  BY <1>6, <1>7, UpTo
<1>9. Quiet(f[noise]) /\ f[noise] \in RunState
  BY <1>5, <1>8 DEF S
<1>10. QED  BY <1>4, <1>5, <1>9 DEF Quiet

---------------------------------------------------------------------------
(* What handleSerialOutput makes of it.                                    *)

\* No end token, no answer.
LEMMA HeardNothing ==
    ASSUME NEW tx \in Seq(LineSet), NEW c \in CaptureSet, NoEnd(tx, c.id)
    PROVE  LET js == Folded(handleLine, [capture |-> c, resolved |-> none], tx)
           IN  /\ js \in JsState /\ js.resolved = none
               /\ js.capture = none \/ js.capture.id = c.id
<1> DEFINE n == Len(tx)
           base == [capture |-> c, resolved |-> none]
<1>1. base \in JsState /\ base.capture = c /\ base.resolved = none
  BY DEF JsState
<1> HIDE DEF base
<1>2. PICK f \in [0 .. n -> JsState] :
        /\ f[0] = base
        /\ \A i \in 1 .. n : f[i] = handleLine(f[i - 1], tx[i])
        /\ Folded(handleLine, base, tx) = f[n]
  BY <1>1, HandleFold
<1>3. n \in Nat /\ \A i \in 1 .. n : tx[i] \in LineSet /\ ~ (tx[i].do = "end" /\ tx[i].id = c.id)
  BY DEF NoEnd
<1> HIDE DEF n
<1> DEFINE Waits(js) == js.resolved = none /\ (js.capture = none \/ js.capture.id = c.id)
           S == {i \in 0 .. n : Waits(f[i])}
<1>4. 0 \in S
  BY <1>1, <1>2, <1>3
<1>5. ASSUME NEW js \in JsState, NEW l \in LineSet, ~ (l.do = "end" /\ l.id = c.id), Waits(js)
      PROVE  Waits(handleLine(js, l))
  <2>1. CASE js.capture = none
    BY <1>5, <2>1 DEF handleLine
  <2>2. CASE js.capture # none /\ js.capture \in CaptureSet
    <3>1. ASSUME NEW d, d.id = c.id PROVE Waits([js EXCEPT !.capture = d])
      BY <1>5, <3>1 DEF JsState
    <3>2. /\ [js.capture EXCEPT !.started = TRUE].id = c.id
          /\ \A lines : [js.capture EXCEPT !.lines = lines].id = c.id
      BY <1>5, <2>2 DEF CaptureSet
    <3> HIDE DEF Waits
    <3>3. CASE l.do = "begin" /\ l.id = js.capture.id
      <4>1. handleLine(js, l) = [js EXCEPT !.capture = [js.capture EXCEPT !.started = TRUE]]
        BY <2>2, <3>3 DEF handleLine
      <4>2. QED  BY <3>1, <3>2, <4>1
    <3>4. CASE ~ (l.do = "begin" /\ l.id = js.capture.id)
      <4>1. js.capture.id = c.id
        BY <1>5, <2>2 DEF Waits
      <4>2. \/ handleLine(js, l) = js
            \/ handleLine(js, l) =
                 [js EXCEPT !.capture =
                    [js.capture EXCEPT !.lines = Captured(js.capture.lines, l)]]
        BY <1>5, <2>2, <3>4, <4>1 DEF handleLine
      <4>3. QED  BY <1>5, <3>1, <3>2, <4>2
    <3>5. QED  BY <3>3, <3>4
  <2>3. QED  BY <2>1, <2>2 DEF JsState
<1>6. ASSUME NEW i \in 0 .. n - 1, i \in S PROVE i + 1 \in S
  <2>1. i + 1 \in 1 .. n /\ i + 1 \in 0 .. n /\ (i + 1) - 1 = i /\ i \in 0 .. n
    BY <1>3
  <2>2. f[i + 1] = handleLine(f[i], tx[i + 1]) /\ f[i] \in JsState /\ Waits(f[i])
    BY <1>2, <1>6, <2>1
  <2> HIDE DEF Waits
  <2>3. Waits(f[i + 1])
    BY <1>3, <1>5, <2>1, <2>2
  <2>4. QED  BY <2>1, <2>3
<1> HIDE DEF S
<1>7. \A i \in 0 .. n : i \in S
  BY <1>3, <1>4, <1>6, UpTo
<1>8. n \in S /\ f[n] \in JsState
  BY <1>2, <1>3, <1>7
<1>9. QED  BY <1>2, <1>8 DEF base, S

\* With its own output, or with some of it where the rest was cut.
OwnLines(lines, of, cut) ==
    \/ lines = Output(of)
    \/ of \in cut /\ lines \in {<<>>, <<Output(of)[1]>>, <<Output(of)[2]>>}

OwnAnswer(r, cut) == OwnLines(r.lines, r.of, cut)

LEMMA PairIs == ASSUME NEW x, NEW y PROVE Append(<<x>>, y) = <<x, y>>
<1>1. <<x>> \in Seq({x, y}) /\ <<x, y>> \in Seq({x, y}) /\ Append(<<x>>, y) \in Seq({x, y})
  OBVIOUS
<1>2. Len(<<x>>) = 1 /\ Len(<<x, y>>) = 2 /\ Len(Append(<<x>>, y)) = 2
  OBVIOUS
<1>3. Append(<<x>>, y)[1] = x /\ Append(<<x>>, y)[2] = y
  OBVIOUS
<1>4. QED
  <2>1. \A i \in 1 .. 2 : Append(<<x>>, y)[i] = <<x, y>>[i]
    BY <1>3
  <2>2. QED  BY <1>1, <1>2, <2>1, SeqEqual

LEMMA HeardWhole ==
    ASSUME NEW tx \in Seq(LineSet), NEW c \in CaptureSet, NEW cut, NEW b,
           c # none, c.started = FALSE, c.lines = <<>>, Whole(tx, cut, c.id, c.of, b)
    PROVE  LET js == Folded(handleLine, [capture |-> c, resolved |-> none], tx)
           IN  /\ js \in JsState /\ js.capture = none
               /\ js.resolved = none \/ (js.resolved.id = c.id /\ OwnAnswer(js.resolved, cut))
<1> DEFINE n == Len(tx)
           base == [capture |-> c, resolved |-> none]
           o1 == Output(c.of)[1]
           o2 == Output(c.of)[2]
           le == Line("end", c.id, c.of)
           R(d) == [capture |-> d, resolved |-> none]
           Has(lines) == [c EXCEPT !.started = TRUE, !.lines = lines]
           Settled(js) == /\ js.capture = none
                          /\ \/ js.resolved = none
                             \/ js.resolved.id = c.id /\ OwnAnswer(js.resolved, cut)
<1>1. base \in JsState /\ base.capture = c /\ base.resolved = none
  BY DEF JsState
<1>b. base = [capture |-> c, resolved |-> none]
  OBVIOUS
<1> HIDE DEF base
<1>2. PICK f \in [0 .. n -> JsState] :
        /\ f[0] = base
        /\ \A i \in 1 .. n : f[i] = handleLine(f[i - 1], tx[i])
        /\ Folded(handleLine, base, tx) = f[n]
  BY <1>1, HandleFold
<1>3. n \in Nat /\ \A i \in 1 .. n : tx[i] \in LineSet
  OBVIOUS
<1>4. /\ b \in 1 .. n /\ b \in Nat \ {0} /\ tx[b].do = "begin" /\ tx[b].id = c.id
      /\ \A i \in 1 .. b - 1 : tx[i].id # c.id
  BY <1>3 DEF Whole, Line
<1>k. PICK k \in 0 .. 2 : b + k + 1 \in 1 .. n /\ tx[b + k + 1] = le /\ OutputAt(tx, cut, c.of, b, k)
  BY <1>3 DEF Whole
<1>5. /\ le.do = "end" /\ le.id = c.id
      /\ o1.do = "out1" /\ o2.do = "out2" /\ Output(c.of) = <<o1, o2>>
      /\ o1 = Output(c.of)[1] /\ o2 = Output(c.of)[2]
  BY DEF Line, Output
<1>h. ASSUME NEW lines
      PROVE  /\ Has(lines).id = c.id /\ Has(lines).of = c.of
             /\ Has(lines).started = TRUE /\ Has(lines).lines = lines
             /\ \A more : [Has(lines) EXCEPT !.lines = more] = Has(more)
  BY DEF CaptureSet
<1> HIDE DEF n
<1>6. f[b - 1] = base
  <2> DEFINE S == {i \in 0 .. b - 1 : f[i] = base}
  <2>1. 0 \in S
    BY <1>2, <1>4
  <2>2. ASSUME NEW i \in 0 .. (b - 1) - 1, i \in S PROVE i + 1 \in S
    <3>1. i + 1 \in 1 .. b - 1 /\ i + 1 \in 0 .. b - 1 /\ i + 1 \in 1 .. n /\ (i + 1) - 1 = i
      BY <1>3, <1>4
    <3>2. tx[i + 1].id # c.id /\ f[i + 1] = handleLine(base, tx[i + 1])
      BY <1>2, <1>4, <2>2, <3>1
    <3>3. handleLine(base, tx[i + 1]) = base
      BY <1>1, <3>2 DEF handleLine
    <3>4. QED  BY <3>1, <3>2, <3>3
  <2> HIDE DEF S
  <2>3. b - 1 \in Nat
    BY <1>4
  <2>4. \A i \in 0 .. b - 1 : i \in S
    BY <2>1, <2>2, <2>3, UpTo
  <2>5. b - 1 \in S
    BY <2>3, <2>4
  <2>6. QED  BY <2>5 DEF S
<1>7. f[b] = R(Has(<<>>))
  <2>1. f[b] = handleLine(base, tx[b])
    BY <1>2, <1>4, <1>6
  <2>2. handleLine(base, tx[b]) = [base EXCEPT !.capture = [c EXCEPT !.started = TRUE]]
    BY <1>1, <1>4 DEF handleLine
  <2>3. [c EXCEPT !.started = TRUE] = Has(<<>>)
    BY DEF CaptureSet
  <2> HIDE DEF Has
  <2>4. QED  BY <1>b, <2>1, <2>2, <2>3
<1> HIDE DEF o1, o2, le, Has
<1>8. ASSUME NEW i \in b .. n - 1, NEW lines, f[i] = R(Has(lines))
      PROVE  /\ i \in 0 .. n /\ i + 1 \in 0 .. n /\ f[i + 1] = handleLine(R(Has(lines)), tx[i + 1])
             /\ R(Has(lines)).capture = Has(lines) /\ R(Has(lines)).resolved = none
             /\ Has(lines) = none => Settled(f[i])
  <2>1. i \in 0 .. n /\ i + 1 \in 0 .. n /\ i + 1 \in 1 .. n /\ (i + 1) - 1 = i
    BY <1>3, <1>4
  <2>2. QED  BY <1>2, <1>8, <2>1
\* A line of the output is taken, unless the capture is over.
<1>9. ASSUME NEW i \in b .. n - 1, NEW lines, f[i] = R(Has(lines)),
             NEW o \in {o1, o2}, tx[i + 1] = o
      PROVE  Settled(f[i]) \/ f[i + 1] = R(Has(Append(lines, o)))
  <2>1. CASE Has(lines) = none
    BY <1>8, <1>9, <2>1
  <2>2. CASE Has(lines) # none
    <3>1. Captured(lines, o) = Append(lines, o)
      BY <1>5 DEF Captured, Noise, Line
    <3>2. /\ f[i + 1] = handleLine(R(Has(lines)), o)
          /\ R(Has(lines)).capture = Has(lines)
      BY <1>8, <1>9
    <3>3. o.do # "begin" /\ o.do # "end"
      BY <1>5
    <3>4. handleLine(R(Has(lines)), o)
          = [R(Has(lines)) EXCEPT !.capture = [Has(lines) EXCEPT !.lines = Captured(Has(lines).lines, o)]]
      BY <1>h, <2>2, <3>2, <3>3 DEF handleLine
    <3>5. [Has(lines) EXCEPT !.lines = Captured(Has(lines).lines, o)] = Has(Append(lines, o))
      BY <1>h, <3>1
    <3>6. ASSUME NEW d, NEW e PROVE [R(d) EXCEPT !.capture = e] = R(e)
      OBVIOUS
    <3> HIDE DEF R
    <3>7. QED  BY <3>2, <3>4, <3>5, <3>6
  <2>3. QED  BY <2>1, <2>2
\* The end token resolves it.
<1>e. ASSUME NEW i \in b .. n - 1, NEW lines, f[i] = R(Has(lines)), tx[i + 1] = le,
             OwnLines(lines, c.of, cut)
      PROVE  Settled(f[i]) \/ Settled(f[i + 1])
  <2>1. CASE Has(lines) = none
    BY <1>8, <1>e, <2>1
  <2>2. CASE Has(lines) # none
    <3>1. /\ f[i + 1] = handleLine(R(Has(lines)), le)
          /\ R(Has(lines)).capture = Has(lines)
      BY <1>8, <1>e
    <3>2. handleLine(R(Has(lines)), le) = [capture |-> none, resolved |-> Has(lines)]
      BY <1>5, <1>h, <2>2, <3>1 DEF handleLine
    <3>3. OwnAnswer(Has(lines), cut) /\ Has(lines).id = c.id
      BY <1>h, <1>e DEF OwnAnswer
    <3>4. QED  BY <3>1, <3>2, <3>3
  <2>3. QED  BY <2>1, <2>2
<1>s. \E m \in 0 .. n : Settled(f[m])
  <2> HIDE DEF Settled, R
  <2>0. /\ \A i \in 0 .. k : b + i \in b .. n - 1 /\ b + i \in 0 .. n /\ b + i + 1 \in 0 .. n
        /\ b + 0 = b
    BY <1>3, <1>4, <1>k
  <2>1. CASE k = 0
    <3>1. OwnLines(<<>>, c.of, cut)
      BY <1>k, <2>1 DEF OutputAt, OwnLines
    <3>2. Settled(f[b]) \/ Settled(f[b + 1])
      BY <1>7, <1>e, <1>k, <2>0, <2>1, <3>1
    <3>3. QED  BY <2>0, <2>1, <3>2
  <2>2. CASE k = 1
    <3>1. PICK o \in {o1, o2} : tx[b + 1] = o /\ c.of \in cut
      BY <1>5, <1>k, <2>2 DEF OutputAt
    <3>2. Append(<<>>, o) = <<o>> /\ OwnLines(<<o>>, c.of, cut)
      BY <1>5, <3>1 DEF OwnLines
    <3>3. Settled(f[b]) \/ f[b + 1] = R(Has(<<o>>))
      <4>1. b \in b .. n - 1
        BY <1>3, <1>4, <1>k, <2>2
      <4>2. Settled(f[b]) \/ f[b + 1] = R(Has(Append(<<>>, o)))
        BY <1>7, <1>9, <3>1, <4>1
      <4>3. QED  BY <3>2, <4>2
    <3>4. b + 1 \in b .. n - 1 /\ (b + 1) + 1 = b + 1 + 1 /\ tx[(b + 1) + 1] = le
      BY <1>k, <2>0, <2>2
    <3>5. f[b + 1] = R(Has(<<o>>)) => Settled(f[b + 1]) \/ Settled(f[(b + 1) + 1])
      BY <1>e, <3>2, <3>4
    <3>6. QED  BY <2>0, <2>2, <3>3, <3>5
  <2>3. CASE k = 2
    <3>1. tx[b + 1] = o1 /\ tx[b + 2] = o2 /\ tx[b + 3] = le
      BY <1>4, <1>5, <1>k, <2>3 DEF OutputAt
    <3>2. /\ Append(<<>>, o1) = <<o1>> /\ Append(<<o1>>, o2) = <<o1, o2>>
          /\ OwnLines(<<o1, o2>>, c.of, cut)
      <4>1. Append(<<>>, o1) = <<o1>>
        OBVIOUS
      <4>2. Append(<<o1>>, o2) = <<o1, o2>>
        BY PairIs
      <4>3. OwnLines(<<o1, o2>>, c.of, cut)
        BY <1>5, Zenon DEF OwnLines
      <4>4. QED  BY <4>1, <4>2, <4>3
    <3>3. /\ b \in b .. n - 1 /\ b + 1 \in b .. n - 1 /\ b + 2 \in b .. n - 1
          /\ (b + 1) + 1 = b + 2 /\ (b + 2) + 1 = b + 3
          /\ b \in 0 .. n /\ b + 1 \in 0 .. n /\ b + 2 \in 0 .. n /\ b + 3 \in 0 .. n
      BY <1>3, <1>4, <1>k, <2>3
    <3>4. Settled(f[b]) \/ f[b + 1] = R(Has(<<o1>>))
      BY <1>7, <1>9, <3>1, <3>2, <3>3
    <3>5. f[b + 1] = R(Has(<<o1>>)) => Settled(f[b + 1]) \/ f[b + 2] = R(Has(<<o1, o2>>))
      BY <1>9, <3>1, <3>2, <3>3
    <3>6. f[b + 2] = R(Has(<<o1, o2>>)) => Settled(f[b + 2]) \/ Settled(f[b + 3])
      BY <1>e, <3>1, <3>2, <3>3
    <3>7. QED  BY <3>3, <3>4, <3>5, <3>6
  <2>4. QED  BY <2>1, <2>2, <2>3
<1>p. PICK m \in 0 .. n : Settled(f[m])
  BY <1>s
<1>10. f[n] = f[m]
  <2> DEFINE q == n - m
             S == {i \in 0 .. q : f[m + i] = f[m]}
  <2>1. q \in Nat /\ m + q = n /\ m + 0 = m
    BY <1>3
  <2>2. 0 \in S
    BY <2>1
  <2>3. ASSUME NEW i \in 0 .. q - 1, i \in S PROVE i + 1 \in S
    <3>1. m + i + 1 \in 1 .. n /\ (m + i + 1) - 1 = m + i /\ m + (i + 1) = m + i + 1 /\ i + 1 \in 0 .. q
      BY <1>3
    <3>2. f[m + i + 1] = handleLine(f[m], tx[m + i + 1])
      BY <1>2, <2>3, <3>1
    <3>3. handleLine(f[m], tx[m + i + 1]) = f[m]
      BY <1>p DEF handleLine
    <3>4. QED  BY <3>1, <3>2, <3>3
  <2> HIDE DEF S, q
  <2>4. \A i \in 0 .. q : i \in S
    BY <2>1, <2>2, <2>3, UpTo
  <2>5. q \in S
    BY <2>1, <2>4
  <2>6. QED  BY <2>1, <2>5 DEF S
<1>11. Folded(handleLine, base, tx) = f[m] /\ f[m] \in JsState
  BY <1>2, <1>10
<1>12. QED  BY <1>b, <1>p, <1>11

LEMMA HeardIdle ==
    ASSUME NEW tx \in Seq(LineSet)
    PROVE  Folded(handleLine, [capture |-> none, resolved |-> none], tx)
             = [capture |-> none, resolved |-> none]
<1> DEFINE n == Len(tx)
           base == [capture |-> none, resolved |-> none]
<1>1. base \in JsState
  BY DEF JsState
<1>2. ASSUME NEW l PROVE handleLine(base, l) = base
  BY DEF handleLine
<1> HIDE DEF base
<1>3. PICK f \in [0 .. n -> JsState] :
        /\ f[0] = base
        /\ \A i \in 1 .. n : f[i] = handleLine(f[i - 1], tx[i])
        /\ Folded(handleLine, base, tx) = f[n]
  BY <1>1, HandleFold
<1>4. n \in Nat
  OBVIOUS
<1> HIDE DEF n
<1> DEFINE S == {i \in 0 .. n : f[i] = base}
<1>5. 0 \in S
  BY <1>3, <1>4
<1>6. ASSUME NEW i \in 0 .. n - 1, i \in S PROVE i + 1 \in S
  <2>1. i + 1 \in 1 .. n /\ i + 1 \in 0 .. n /\ (i + 1) - 1 = i
    BY <1>4
  <2>2. f[i + 1] = handleLine(base, tx[i + 1])
    BY <1>3, <1>6, <2>1
  <2>3. QED  BY <1>2, <2>1, <2>2
<1> HIDE DEF S
<1>7. \A i \in 0 .. n : i \in S
  BY <1>4, <1>5, <1>6, UpTo
<1>8. n \in S
  BY <1>4, <1>7
<1>9. QED  BY <1>3, <1>8 DEF base, S

LEMMA Heard ==
    ASSUME NEW tx \in Seq(LineSet), NEW cut, NEW c \in CaptureSet \cup {none},
           c # none => \/ NoEnd(tx, c.id)
                       \/ /\ c.started = FALSE /\ c.lines = <<>>
                          /\ \E b : Whole(tx, cut, c.id, c.of, b)
    PROVE  LET js == Folded(handleLine, [capture |-> c, resolved |-> none], tx)
           IN  /\ js \in JsState
               /\ js.capture = none \/ (c # none /\ js.capture.id = c.id)
               /\ \/ js.resolved = none
                  \/ c # none /\ js.resolved.id = c.id /\ OwnAnswer(js.resolved, cut)
<1>1. CASE c = none
  <2>1. [capture |-> none, resolved |-> none] \in JsState
    BY DEF JsState
  <2>2. QED  BY <1>1, <2>1, HeardIdle
<1>2. CASE c # none /\ NoEnd(tx, c.id)
  BY <1>2, HeardNothing
<1>3. ASSUME NEW b, c # none, c.started = FALSE, c.lines = <<>>, Whole(tx, cut, c.id, c.of, b)
      PROVE  LET js == Folded(handleLine, [capture |-> c, resolved |-> none], tx)
             IN  /\ js \in JsState /\ js.capture = none
                 /\ js.resolved = none \/ (js.resolved.id = c.id /\ OwnAnswer(js.resolved, cut))
  BY <1>3, HeardWhole
<1>4. QED  BY <1>1, <1>2, <1>3

---------------------------------------------------------------------------
(* The functions of the page and what they have left.                      *)

Functions == {"refresh", "delete", "upload", "type"}

CallSet == {c \in [f : Functions \cup {none}, left : Nat, waits : Nat] :
              /\ c.left # 0 => c.f \in Functions /\ c.left <= Len(Steps(c.f))
              /\ c.waits # 0 => c.left # 0}

LEMMA UploadSteps ==
    /\ Len(uploadScript) = 10
    /\ uploadScript[1] = "ask" /\ uploadScript[2] = "^^s" /\ uploadScript[3] = "name"
    /\ uploadScript[4] = "^^f" /\ uploadScript[5] = "^^s" /\ uploadScript[6] = "text1"
    /\ uploadScript[7] = "text2" /\ uploadScript[8] = "^^w"
    /\ uploadScript[9] = "ask" /\ uploadScript[10] = "ask"
<1> DEFINE a == <<"ask", "^^s", "name", "^^f", "^^s", "text1", "text2", "^^w">>
           b == refreshFileList
<1>1. a \in Seq(Said) /\ Len(a) = 8 /\ b \in Seq(Said) /\ Len(b) = 2 /\ b[1] = "ask" /\ b[2] = "ask"
  BY DEF refreshFileList, Said
<1>2. Len(a \o b) = 10 /\ (\A i \in 1 .. 8 : (a \o b)[i] = a[i])
      /\ (a \o b)[9] = b[1] /\ (a \o b)[10] = b[2]
  <2> HIDE DEF a, b
  <2>1. /\ Len(a \o b) = Len(a) + Len(b)
        /\ \A i \in 1 .. Len(a) + Len(b) :
              (a \o b)[i] = IF i <= Len(a) THEN a[i] ELSE b[i - Len(a)]
    BY <1>1, ConcatProperties
  <2>2. (a \o b)[9] = b[9 - 8] /\ (a \o b)[10] = b[10 - 8]
    BY <1>1, <2>1
  <2>3. 9 - 8 = 1 /\ 10 - 8 = 2 /\ Len(a) + Len(b) = 10
    BY <1>1
  <2>4. \A i \in 1 .. 8 : (a \o b)[i] = a[i]
    BY <1>1, <2>1
  <2>5. QED  BY <2>1, <2>2, <2>3, <2>4
<1>3. uploadScript = a \o b
  BY DEF uploadScript
<1>4. QED  BY <1>1, <1>2, <1>3

LEMMA StepsOf ==
    ASSUME NEW f \in Functions
    PROVE  /\ Len(Steps(f)) \in Nat \ {0}
           /\ \A i \in 1 .. Len(Steps(f)) : Steps(f)[i] \in Said
<1>1. CASE f = "refresh"
  BY <1>1 DEF Steps, refreshFileList, Said
<1>2. CASE f = "delete"
  BY <1>2 DEF Steps, deleteFile, refreshFileList, Said
<1>3. CASE f = "upload"
  <2>1. Steps(f) = uploadScript
    BY <1>3 DEF Steps
  <2>2. ASSUME NEW i \in 1 .. 10 PROVE uploadScript[i] \in Said
    <3>1. i = 1 \/ i = 2 \/ i = 3 \/ i = 4 \/ i = 5 \/ i = 6 \/ i = 7 \/ i = 8 \/ i = 9 \/ i = 10
      OBVIOUS
    <3>2. QED  BY <3>1, UploadSteps DEF Said
  <2>3. QED  BY <2>1, <2>2, UploadSteps
<1>4. CASE f = "type"
  BY <1>4 DEF Steps, Said
<1>5. QED  BY <1>1, <1>2, <1>3, <1>4 DEF Functions

LEMMA CallType ==
    ASSUME NEW f \in Functions \cup {none}, NEW left \in Nat, NEW waits \in Nat,
           left # 0 => f \in Functions /\ left <= Len(Steps(f)), waits # 0 => left # 0
    PROVE  /\ Call(f, left, waits) \in CallSet
           /\ Call(f, left, waits).f = f /\ Call(f, left, waits).left = left
           /\ Call(f, left, waits).waits = waits
  BY DEF Call, CallSet

LEMMA InCall ==
    ASSUME NEW c \in CallSet
    PROVE  /\ c = Call(c.f, c.left, c.waits)
           /\ c.f \in Functions \cup {none} /\ c.left \in Nat /\ c.waits \in Nat
           /\ c.left # 0 => c.f \in Functions /\ c.left <= Len(Steps(c.f))
           /\ c.waits # 0 => c.left # 0
  BY DEF Call, CallSet

---------------------------------------------------------------------------
(* The invariant of the captures.                                          *)

ReplTypes ==
    /\ rx \in Seq(LineSet) /\ vm \in VmSet
    /\ tasks \in [Task -> CallSet]
    /\ pendingCapture \in CaptureSet \cup {none} /\ captureSeq \in Nat

\* The lines of the pending capture wait together, and nothing was heard of
\* it, or they are gone and nothing that comes will answer it.
CaptureInv ==
    /\ \A i \in 1 .. Len(rx) : rx[i].id <= captureSeq
    /\ pendingCapture # none =>
         /\ pendingCapture.id \in 1 .. captureSeq
         /\ \/ Absent(rx, pendingCapture.id)
            \/ /\ pendingCapture.started = FALSE /\ pendingCapture.lines = <<>>
               /\ \E p : AskedAt(rx, p, pendingCapture.id, pendingCapture.of)

LEMMA FunctionType == ASSUME NEW f \in Functions PROVE Function(f) \in CallSet
<1>1. Len(Steps(f)) \in Nat \ {0}
  BY StepsOf
<1>2. Call(f, Len(Steps(f)), 0) \in CallSet
  BY <1>1, CallType
<1>3. QED  BY <1>2 DEF Function

LEMMA TypesInit == Init => ReplTypes /\ CaptureInv
<1> SUFFICES ASSUME Init PROVE ReplTypes /\ CaptureInv
  OBVIOUS
<1>1. rx = <<>> /\ pendingCapture = none /\ captureSeq = 0 /\ vm = Vm(FALSE, <<>>, <<>>)
  BY DEF Init
<1>2. tasks \in [Task -> CallSet]
  <2>1. PICK starts :
          /\ \A u \in User : starts[u] \in MayStart[u]
          /\ tasks = [t \in Task |-> IF t \in User THEN Function(starts[t]) ELSE
                                     IF t = "boot" THEN Function("refresh") ELSE Idle]
    BY DEF Init
  <2>2. Idle \in CallSet
    <3>1. none \in Functions \cup {none}
      OBVIOUS
    <3>2. Call(none, 0, 0) \in CallSet
      BY <3>1, CallType
    <3>3. QED  BY <3>2 DEF Idle
  <2>3. Function("refresh") \in CallSet
    BY FunctionType DEF Functions
  <2>4. ASSUME NEW u \in User PROVE Function(starts[u]) \in CallSet
    <3>1. starts[u] \in Functions
      BY <2>1, ReplAssumption DEF ReplAssumption, User, Functions
    <3>2. QED  BY <3>1, FunctionType
  <2>5. QED  BY <2>1, <2>2, <2>3, <2>4
<1>3. vm \in VmSet
  BY <1>1, VmType, NoLines
<1>4. ReplTypes
  BY <1>1, <1>2, <1>3, NoLines DEF ReplTypes
<1>5. \A i \in 1 .. Len(rx) : rx[i].id <= captureSeq
  BY <1>1
<1>6. QED  BY <1>1, <1>4, <1>5 DEF CaptureInv

LEMMA ReadyStep ==
    ASSUME ReplTypes, NEW t \in Task, Ready(t)
    PROVE  /\ Doing(t) \in Said /\ Command(t) \in CommandSet
           /\ tasks[t] \in CallSet /\ tasks[t].f \in Functions
           /\ tasks[t].left \in Nat \ {0} /\ tasks[t].waits = 0
           /\ tasks[t].left <= Len(Steps(tasks[t].f)) /\ Len(Steps(tasks[t].f)) \in Nat
<1>1. tasks[t] \in CallSet
  BY DEF ReplTypes
<1>2. /\ tasks[t].f \in Functions /\ tasks[t].left \in Nat \ {0} /\ tasks[t].waits = 0
      /\ tasks[t].left <= Len(Steps(tasks[t].f))
  BY <1>1, InCall DEF Ready
<1>3. Len(Steps(tasks[t].f)) \in Nat /\ \A i \in 1 .. Len(Steps(tasks[t].f)) : Steps(tasks[t].f)[i] \in Said
  BY <1>2, StepsOf
<1>4. Len(Steps(tasks[t].f)) + 1 - tasks[t].left \in 1 .. Len(Steps(tasks[t].f))
  BY <1>2, <1>3
<1>5. Doing(t) \in Said
  BY <1>3, <1>4 DEF Doing
<1>6. Command(t) \in CommandSet
  BY <1>2 DEF Command, CommandSet
<1>7. QED  BY <1>1, <1>2, <1>3, <1>5, <1>6

LEMMA EndedType ==
    ASSUME tasks \in [Task -> CallSet], NEW t \in Task
    PROVE  Ended(tasks, t) \in [Task -> CallSet]
<1>1. tasks[t].f \in Functions \cup {none}
  BY InCall
<1>2. Call(tasks[t].f, 0, 0) \in CallSet
  BY <1>1, CallType
<1>3. QED  BY <1>2 DEF Ended

\* A line that is sent leaves those of the pending capture together.
LEMMA AskedStays ==
    ASSUME NEW lines \in Seq(LineSet), NEW l \in LineSet, NEW id, NEW of, NEW p,
           l.id # id, AskedAt(lines, p, id, of)
    PROVE  AskedAt(Append(lines, l), p, id, of)
<1>1. /\ Len(lines) \in Nat /\ Len(Append(lines, l)) = Len(lines) + 1
      /\ \A i \in 1 .. Len(lines) : Append(lines, l)[i] = lines[i]
      /\ Append(lines, l)[Len(lines) + 1] = l
  BY AppendAt
<1>2. p \in 1 .. Len(lines) - 2 /\ p \in 1 .. Len(lines) /\ p + 1 \in 1 .. Len(lines)
      /\ p + 2 \in 1 .. Len(lines) /\ p \in 1 .. Len(Append(lines, l)) - 2
  BY <1>1 DEF AskedAt
<1>3. ASSUME NEW i \in 1 .. Len(Append(lines, l)), i \notin {p, p + 2}
      PROVE  Append(lines, l)[i].id # id
  <2>1. i \in 1 .. Len(lines) \/ i = Len(lines) + 1
    BY <1>1
  <2>2. QED  BY <1>1, <1>3, <2>1 DEF AskedAt
<1>4. QED  BY <1>1, <1>2, <1>3 DEF AskedAt

LEMMA SendKeeps ==
    ASSUME ReplTypes, CaptureInv, NEW t \in Task, SendLine(t)
    PROVE  ReplTypes' /\ CaptureInv'
<1> DEFINE l == Line(Doing(t), 0, Command(t))
<1>1. /\ rx' = Append(rx, l) /\ tasks' = [tasks EXCEPT ![t].left = tasks[t].left - 1]
      /\ vm' = vm /\ pendingCapture' = pendingCapture /\ captureSeq' = captureSeq /\ Ready(t)
  BY DEF SendLine, captureVars
<1>2. l \in LineSet /\ l.id = 0
  <2>1. Doing(t) \in Said /\ Command(t) \in CommandSet
    BY <1>1, ReadyStep
  <2>2. QED  BY <2>1, LineType
<1> HIDE DEF l
<1>3. rx \in Seq(LineSet) /\ captureSeq \in Nat
  BY DEF ReplTypes
<1>4. tasks' \in [Task -> CallSet]
  <2>1. /\ tasks[t].f \in Functions /\ tasks[t].left - 1 \in Nat
        /\ tasks[t].left - 1 <= Len(Steps(tasks[t].f)) /\ tasks[t] \in CallSet /\ tasks[t].waits = 0
    BY <1>1, ReadyStep
  <2>2. Call(tasks[t].f, tasks[t].left - 1, 0) \in CallSet
    BY <2>1, CallType
  <2>3. [tasks[t] EXCEPT !.left = tasks[t].left - 1] = Call(tasks[t].f, tasks[t].left - 1, 0)
    BY <2>1 DEF Call, CallSet
  <2>4. QED  BY <1>1, <2>2, <2>3 DEF ReplTypes
<1>5. rx' \in Seq(LineSet)
  BY <1>1, <1>2, <1>3, AppendAt
<1>6. ReplTypes'
  BY <1>1, <1>4, <1>5 DEF ReplTypes
<1>7. \A i \in 1 .. Len(rx') : rx'[i].id <= captureSeq'
  <2>1. /\ Len(rx') = Len(rx) + 1 /\ Len(rx) \in Nat /\ rx'[Len(rx) + 1] = l
        /\ \A i \in 1 .. Len(rx) : rx'[i] = rx[i]
    BY <1>1, <1>2, <1>3, AppendAt
  <2>2. QED  BY <1>1, <1>2, <1>3, <2>1 DEF CaptureInv
<1>8. ASSUME pendingCapture # none
      PROVE  /\ pendingCapture.id \in 1 .. captureSeq
             /\ \/ Absent(rx', pendingCapture.id)
                \/ /\ pendingCapture.started = FALSE /\ pendingCapture.lines = <<>>
                   /\ \E p : AskedAt(rx', p, pendingCapture.id, pendingCapture.of)
  <2>1. /\ pendingCapture.id \in 1 .. captureSeq
        /\ \/ Absent(rx, pendingCapture.id)
           \/ /\ pendingCapture.started = FALSE /\ pendingCapture.lines = <<>>
              /\ \E p : AskedAt(rx, p, pendingCapture.id, pendingCapture.of)
    BY <1>8 DEF CaptureInv
  <2>2. l.id # pendingCapture.id
    BY <1>2, <2>1
  <2>3. Absent(rx, pendingCapture.id) => Absent(rx', pendingCapture.id)
    BY <1>1, <1>2, <1>3, <2>2, AppendKeeps
  <2>4. \A p : AskedAt(rx, p, pendingCapture.id, pendingCapture.of)
               => AskedAt(rx', p, pendingCapture.id, pendingCapture.of)
    BY <1>1, <1>2, <1>3, <2>2, AskedStays
  <2>5. QED  BY <2>1, <2>3, <2>4
<1>9. QED  BY <1>1, <1>6, <1>7, <1>8 DEF CaptureInv

LEMMA AskKeeps ==
    ASSUME ReplTypes, CaptureInv, NEW t \in Task, executeLuaCapture(t)
    PROVE  ReplTypes' /\ CaptureInv'
<1> DEFINE id == captureSeq + 1
           of == Command(t)
           three == <<Line("begin", id, of), Line("ask", 0, of), Line("end", id, of)>>
           n == Len(rx)
<1>1. /\ pendingCapture' = Capture(t, id) /\ tasks' = [tasks EXCEPT ![t].waits = id]
      /\ rx' = rx \o three /\ vm' = vm /\ captureSeq' = id /\ Ready(t)
  BY DEF executeLuaCapture, Asks
<1>2. rx \in Seq(LineSet) /\ captureSeq \in Nat /\ n \in Nat /\ id \in Nat \ {0}
  BY DEF ReplTypes
<1>3. of \in CommandSet
  BY <1>1, ReadyStep
<1>4. three \in Seq(LineSet) /\ Len(three) = 3
  <2>1. Line("begin", id, of) \in LineSet /\ Line("ask", 0, of) \in LineSet /\ Line("end", id, of) \in LineSet
    <3>1. "begin" \in Said /\ "ask" \in Said /\ "end" \in Said
      BY DEF Said
    <3>2. QED  BY <1>2, <1>3, <3>1, LineType
  <2>2. QED  BY <2>1
<1>5. /\ rx' \in Seq(LineSet) /\ Len(rx') = n + 3
      /\ \A i \in 1 .. n + 3 : rx'[i] = IF i <= n THEN rx[i] ELSE three[i - n]
  <2> HIDE DEF three
  <2>1. /\ rx \o three \in Seq(LineSet) /\ Len(rx \o three) = Len(rx) + Len(three)
        /\ \A i \in 1 .. Len(rx) + Len(three) :
              (rx \o three)[i] = IF i <= Len(rx) THEN rx[i] ELSE three[i - Len(rx)]
    BY <1>2, <1>4, ConcatProperties
  <2>2. QED  BY <1>1, <1>4, <2>1
<1>6. /\ rx'[n + 1] = Line("begin", id, of) /\ rx'[n + 2] = Line("ask", 0, of)
      /\ rx'[n + 3] = Line("end", id, of)
  <2>1. /\ n + 1 \in 1 .. n + 3 /\ n + 2 \in 1 .. n + 3 /\ n + 3 \in 1 .. n + 3
        /\ (n + 1) - n = 1 /\ (n + 2) - n = 2 /\ (n + 3) - n = 3
        /\ ~ (n + 1 <= n) /\ ~ (n + 2 <= n) /\ ~ (n + 3 <= n)
    BY <1>2
  <2>2. three[1] = Line("begin", id, of) /\ three[2] = Line("ask", 0, of) /\ three[3] = Line("end", id, of)
    OBVIOUS
  <2> HIDE DEF three, n
  <2>3. QED  BY <1>5, <2>1, <2>2
<1>7. tasks' \in [Task -> CallSet]
  <2>1. /\ tasks[t].f \in Functions /\ tasks[t].left \in Nat \ {0}
        /\ tasks[t].left <= Len(Steps(tasks[t].f)) /\ tasks[t] \in CallSet
    BY <1>1, ReadyStep
  <2>2. Call(tasks[t].f, tasks[t].left, id) \in CallSet
    BY <1>2, <2>1, CallType
  <2>3. [tasks[t] EXCEPT !.waits = id] = Call(tasks[t].f, tasks[t].left, id)
    BY <2>1 DEF Call, CallSet
  <2>4. QED  BY <1>1, <2>2, <2>3 DEF ReplTypes
<1>8. /\ Capture(t, id) \in CaptureSet /\ Capture(t, id).id = id /\ Capture(t, id).of = of
      /\ Capture(t, id).started = FALSE /\ Capture(t, id).lines = <<>>
  BY <1>2, <1>3, NoLines DEF Capture, CaptureSet
<1>9. vm \in VmSet
  BY DEF ReplTypes
<1>10. ReplTypes'
  BY <1>1, <1>2, <1>5, <1>7, <1>8, <1>9 DEF ReplTypes
<1>11. \A i \in 1 .. n : rx'[i] = rx[i] /\ rx[i].id <= captureSeq /\ rx[i].id # id /\ rx[i].id <= id
  <2>1. ASSUME NEW i \in 1 .. n PROVE rx'[i] = rx[i] /\ rx[i].id <= captureSeq /\ rx[i].id \in Nat
    <3>1. rx[i] \in LineSet
      BY <1>2
    <3>2. QED  BY <1>2, <1>5, <3>1 DEF CaptureInv, LineSet
  <2>2. QED  BY <1>2, <2>1
<1>12. /\ Line("begin", id, of).id = id /\ Line("ask", 0, of).id = 0 /\ Line("end", id, of).id = id
  BY DEF Line
<1>13. \A i \in 1 .. n + 3 : i \in 1 .. n \/ i = n + 1 \/ i = n + 2 \/ i = n + 3
  BY <1>2
<1> HIDE DEF id, of, three, n
<1>14. \A i \in 1 .. Len(rx') : rx'[i].id <= captureSeq'
  <2>1. ASSUME NEW i \in 1 .. n + 3 PROVE rx'[i].id <= id
    <3>1. CASE i \in 1 .. n
      BY <1>11, <3>1
    <3>2. CASE i \in {n + 1, n + 2, n + 3}
      BY <1>2, <1>6, <1>12, <3>2
    <3>3. QED  BY <1>13, <3>1, <3>2
  <2>2. QED  BY <1>1, <1>5, <2>1
<1>15. AskedAt(rx', n + 1, id, of)
  <2>1. n + 1 \in 1 .. Len(rx') - 2 /\ (n + 1) + 1 = n + 2 /\ (n + 1) + 2 = n + 3
    BY <1>2, <1>5
  <2>2. ASSUME NEW i \in 1 .. Len(rx'), i \notin {n + 1, n + 3} PROVE rx'[i].id # id
    BY <1>2, <1>5, <1>6, <1>11, <1>12, <1>13, <2>2
  <2>3. QED  BY <1>6, <2>1, <2>2 DEF AskedAt
<1>16. QED  BY <1>1, <1>2, <1>8, <1>10, <1>14, <1>15 DEF CaptureInv

\* The batch and what is heard of it, from any state the invariant allows.
LEMMA LoopHears ==
    ASSUME ReplTypes, CaptureInv, NEW noise \in 0 .. MaxNoise, NEW out, NEW js,
           out = serial_task(noise), js = handleSerialOutput(out.tx)
    PROVE  /\ out \in RunState /\ js \in JsState
           /\ \/ js.capture = none
              \/ pendingCapture # none /\ js.capture.id = pendingCapture.id
           /\ \/ js.resolved = none
              \/ pendingCapture # none /\ js.resolved.id = pendingCapture.id
                 /\ OwnAnswer(js.resolved, out.cut)
<1>1. noise \in Nat
  BY ReplAssumption DEF ReplAssumption
<1>2. out = Folded(RunLine, BatchStart(noise), rx)
  BY DEF serial_task, BatchStart
<1>3. js = Folded(handleLine, [capture |-> pendingCapture, resolved |-> none], out.tx)
  BY DEF handleSerialOutput
<1>4. rx \in Seq(LineSet) /\ pendingCapture \in CaptureSet \cup {none} /\ vm \in VmSet
      /\ captureSeq \in Nat
  BY DEF ReplTypes
<1>5. /\ BatchStart(noise) \in RunState
      /\ \A id \in Nat \ {0} : Absent(BatchStart(noise).tx, id)
  BY <1>1, <1>4, NoisePrints
<1>6. out \in RunState
  <2>1. PICK f \in [0 .. Len(rx) -> RunState] : Folded(RunLine, BatchStart(noise), rx) = f[Len(rx)]
    BY <1>4, <1>5, RunFold
  <2>2. Len(rx) \in 0 .. Len(rx)
    BY <1>4
  <2>3. QED  BY <1>2, <2>1, <2>2
<1>7. out.tx \in Seq(LineSet)
  BY <1>6 DEF RunState
<1>8. ASSUME pendingCapture # none
      PROVE  \/ NoEnd(out.tx, pendingCapture.id)
             \/ /\ pendingCapture.started = FALSE /\ pendingCapture.lines = <<>>
                /\ \E b : Whole(out.tx, out.cut, pendingCapture.id, pendingCapture.of, b)
  <2>1. pendingCapture.id \in Nat \ {0} /\ pendingCapture.of \in CommandSet
    BY <1>4, <1>8 DEF CaptureInv, CaptureSet
  <2>2. Absent(BatchStart(noise).tx, pendingCapture.id)
    BY <1>5, <2>1
  <2>3. CASE Absent(rx, pendingCapture.id)
    BY <1>2, <1>4, <1>5, <2>1, <2>2, <2>3, BatchPrints
  <2>4. CASE /\ pendingCapture.started = FALSE /\ pendingCapture.lines = <<>>
             /\ \E p : AskedAt(rx, p, pendingCapture.id, pendingCapture.of)
    <3>1. Printed(out, pendingCapture.id, pendingCapture.of)
      BY <1>2, <1>4, <1>5, <2>1, <2>2, <2>4, BatchPrints
    <3>2. QED  BY <2>4, <3>1 DEF Printed
  <2>5. QED  BY <1>8, <2>3, <2>4 DEF CaptureInv
<1>9. LET heard == Folded(handleLine, [capture |-> pendingCapture, resolved |-> none], out.tx)
      IN  /\ heard \in JsState
          /\ \/ heard.capture = none
             \/ pendingCapture # none /\ heard.capture.id = pendingCapture.id
          /\ \/ heard.resolved = none
             \/ pendingCapture # none /\ heard.resolved.id = pendingCapture.id
                /\ OwnAnswer(heard.resolved, out.cut)
  BY <1>4, <1>7, <1>8, Heard
<1>10. QED  BY <1>3, <1>6, <1>9

LEMMA ResolvedType ==
    ASSUME tasks \in [Task -> CallSet], NEW id \in Nat \ {0}, Resolved(id)
    PROVE  tasks' \in [Task -> CallSet]
<1>1. ASSUME NEW t \in Task, tasks[t].waits = id
      PROVE  Call(tasks[t].f, tasks[t].left - 1, 0) \in CallSet
  <2>1. /\ tasks[t].f \in Functions /\ tasks[t].left \in Nat \ {0}
        /\ tasks[t].left <= Len(Steps(tasks[t].f))
    BY <1>1, InCall
  <2>2. Len(Steps(tasks[t].f)) \in Nat
    BY <2>1, StepsOf
  <2>3. QED  BY <2>1, <2>2, CallType
<1>2. QED  BY <1>1 DEF Resolved

LEMMA LoopKeeps ==
    ASSUME ReplTypes, CaptureInv, viii_loop
    PROVE  ReplTypes' /\ CaptureInv' /\ AnswerIsOwn'
<1>1. PICK noise \in 0 .. MaxNoise :
        LET out == serial_task(noise)
            js == handleSerialOutput(out.tx)
        IN  /\ rx' = <<>> /\ vm' = out.vm /\ pendingCapture' = js.capture
            /\ IF js.resolved = none
               THEN answer' = none /\ UNCHANGED <<timers, tasks>>
               ELSE /\ answer' = [of |-> js.resolved.of, lines |-> js.resolved.lines,
                                  fitted |-> js.resolved.of \notin out.cut]
                    /\ Resolved(js.resolved.id)
  BY DEF viii_loop
<1> DEFINE out == serial_task(noise)
           js == handleSerialOutput(out.tx)
<1>2. captureSeq' = captureSeq
  BY DEF viii_loop
<1>3. /\ out \in RunState /\ js \in JsState
      /\ \/ js.capture = none
         \/ pendingCapture # none /\ js.capture.id = pendingCapture.id
      /\ \/ js.resolved = none
         \/ pendingCapture # none /\ js.resolved.id = pendingCapture.id
            /\ OwnAnswer(js.resolved, out.cut)
  <2> DEFINE o == out  j == js
  <2>1. o = serial_task(noise) /\ j = handleSerialOutput(o.tx)
    OBVIOUS
  <2> HIDE DEF o, j
  <2>2. /\ o \in RunState /\ j \in JsState
        /\ \/ j.capture = none
           \/ pendingCapture # none /\ j.capture.id = pendingCapture.id
        /\ \/ j.resolved = none
           \/ pendingCapture # none /\ j.resolved.id = pendingCapture.id
              /\ OwnAnswer(j.resolved, o.cut)
    BY <2>1, LoopHears
  <2>3. QED  BY <2>2 DEF o, j
<1>4. /\ rx' = <<>> /\ vm' = out.vm /\ pendingCapture' = js.capture
      /\ js.resolved = none => answer' = none /\ tasks' = tasks
      /\ js.resolved # none =>
           /\ answer' = [of |-> js.resolved.of, lines |-> js.resolved.lines,
                         fitted |-> js.resolved.of \notin out.cut]
           /\ Resolved(js.resolved.id)
  BY <1>1
<1> HIDE DEF out, js
<1>5. vm' \in VmSet /\ pendingCapture' \in CaptureSet \cup {none}
  BY <1>3, <1>4 DEF RunState, JsState
<1>6. tasks' \in [Task -> CallSet]
  <2>1. CASE js.resolved = none
    BY <1>4, <2>1 DEF ReplTypes
  <2>2. CASE js.resolved # none
    <3>1. js.resolved.id \in Nat \ {0}
      BY <1>3, <2>2 DEF CaptureInv, ReplTypes
    <3>2. QED  BY <1>4, <2>2, <3>1, ResolvedType DEF ReplTypes
  <2>3. QED  BY <2>1, <2>2
<1>7. ReplTypes'
  BY <1>2, <1>4, <1>5, <1>6, NoLines DEF ReplTypes
<1>8. CaptureInv'
  <2>1. \A i \in 1 .. Len(rx') : rx'[i].id <= captureSeq'
    BY <1>4
  <2>2. ASSUME pendingCapture' # none
        PROVE  pendingCapture'.id \in 1 .. captureSeq' /\ Absent(rx', pendingCapture'.id)
    <3>1. pendingCapture'.id \in 1 .. captureSeq'
      BY <1>2, <1>3, <1>4, <2>2 DEF CaptureInv
    <3>2. Absent(rx', pendingCapture'.id)
      BY <1>4 DEF Absent
    <3>3. QED  BY <3>1, <3>2
  <2>3. QED  BY <2>1, <2>2 DEF CaptureInv
<1>9. AnswerIsOwn'
  <2>1. CASE js.resolved = none
    BY <1>4, <2>1 DEF AnswerIsOwn
  <2>2. CASE js.resolved # none
    <3>1. /\ answer'.of = js.resolved.of /\ answer'.lines = js.resolved.lines
          /\ answer'.fitted = (js.resolved.of \notin out.cut)
      BY <1>4, <2>2
    <3>2. OwnAnswer(js.resolved, out.cut)
      BY <1>3, <2>2
    <3>3. QED  BY <3>1, <3>2 DEF AnswerIsOwn, OwnAnswer, OwnLines
  <2>3. QED  BY <2>1, <2>2
<1>10. QED  BY <1>7, <1>8, <1>9

LEMMA NextKeeps ==
    ASSUME ReplTypes, CaptureInv, AnswerIsOwn, [Next]_vars
    PROVE  ReplTypes' /\ CaptureInv' /\ AnswerIsOwn'
<1>1. ASSUME NoTick PROVE AnswerIsOwn'
  BY <1>1 DEF NoTick, AnswerIsOwn
<1>2. ASSUME UNCHANGED <<rx, vm, captureSeq>>, tasks' \in [Task -> CallSet],
             pendingCapture' \in {pendingCapture, none}
      PROVE  ReplTypes' /\ CaptureInv'
  BY <1>2 DEF ReplTypes, CaptureInv
<1>3. tasks \in [Task -> CallSet]
  BY DEF ReplTypes
<1>4. ASSUME NEW t \in Task, SendLine(t) PROVE ReplTypes' /\ CaptureInv' /\ AnswerIsOwn'
  BY <1>1, <1>4, SendKeeps DEF SendLine
<1>5. ASSUME NEW t \in Task, CaptureBusy(t) PROVE ReplTypes' /\ CaptureInv' /\ AnswerIsOwn'
  BY <1>1, <1>2, <1>3, <1>5, EndedType DEF CaptureBusy, captureVars
<1>6. ASSUME NEW t \in Task, executeLuaCapture(t) PROVE ReplTypes' /\ CaptureInv' /\ AnswerIsOwn'
  <2>1. NoTick
    BY <1>6 DEF executeLuaCapture, Asks
  <2>2. QED  BY <1>1, <1>6, <2>1, AskKeeps
<1>7. ASSUME NEW id \in timers, CaptureTimesOut(id) PROVE ReplTypes' /\ CaptureInv' /\ AnswerIsOwn'
  BY <1>1, <1>2, <1>3, <1>7, EndedType DEF CaptureTimesOut
<1>8. CASE viii_loop
  BY <1>8, LoopKeeps
<1>9. CASE FirstListSettles
  BY <1>1, <1>2, <1>3, <1>9 DEF FirstListSettles, captureVars
<1>10. CASE ensureAudioKeepalive
  <2>1. PICK context : Keepalive(context, context = "suspended")
    BY <1>10 DEF ensureAudioKeepalive
  <2>2. Function("refresh") \in CallSet
    BY FunctionType DEF Functions
  <2>3. tasks' \in [Task -> CallSet]
    BY <1>3, <2>1, <2>2 DEF Keepalive
  <2>4. QED  BY <1>1, <1>2, <2>1, <2>3 DEF Keepalive, captureVars
<1>11. CASE ContextResumes
  BY <1>1, <1>2, <1>3, <1>11 DEF ContextResumes, captureVars
<1>12. CASE ContextSuspended
  BY <1>1, <1>2, <1>3, <1>12 DEF ContextSuspended, captureVars
<1>13. CASE UNCHANGED vars
  BY <1>2, <1>3, <1>13 DEF vars, captureVars, AnswerIsOwn
<1>14. QED
  BY <1>4, <1>5, <1>6, <1>7, <1>8, <1>9, <1>10, <1>11, <1>12, <1>13 DEF Next, Continues

\* A capture gets the answer to its own command, or nothing of it where the
\* transmit buffer cut it off: never a line of a handler, of a line that was
\* typed or of a capture that gave up before (bridge.js executeLuaCapture,
\* handleSerialOutput; serial_web.c serial_tx).
THEOREM AnswersAreOwn == Spec => []AnswerIsOwn
<1> DEFINE Inv == ReplTypes /\ CaptureInv /\ AnswerIsOwn
<1>1. Init => Inv
  BY TypesInit DEF Init, AnswerIsOwn
<1>2. Inv /\ [Next]_vars => Inv'
  BY NextKeeps
<1>3. QED  BY <1>1, <1>2, PTL DEF Spec

---------------------------------------------------------------------------
(* The timers of the captures.                                             *)

\* Who waits has a timer that will end it, whatever becomes of the answer.
WaitHasTimer == \A t \in Task : tasks[t].waits # 0 => tasks[t].waits \in timers

\* A timer that is left belongs to a capture that is awaited: none can fire
\* late and discard the capture of another function.
TimerHasWaiter == \A id \in timers : \E t \in Task : tasks[t].waits = id

AudioSet == [context : {"none", "suspended", "running"}, resumed : BOOLEAN, node : BOOLEAN,
             started : BOOLEAN, suspensions : Nat]

TimerInv ==
    /\ audio \in AudioSet
    /\ WaitHasTimer /\ TimerHasWaiter
    /\ timers \subseteq 1 .. captureSeq
    /\ \A t, u \in Task : tasks[t].waits = tasks[u].waits /\ tasks[t].waits # 0 => t = u
    /\ ~ audio.started => tasks["gesture"].left = 0

\* The list of the first gesture is asked for once.
LEMMA AudioKeeps ==
    ASSUME audio \in AudioSet, [Next]_vars
    PROVE  audio' \in AudioSet /\ (audio.started => audio'.started)
<1>1. CASE audio' = audio
  BY <1>1
<1>2. CASE FirstListSettles
  BY <1>2 DEF FirstListSettles, AudioSet
<1>3. CASE ensureAudioKeepalive
  <2>1. PICK context \in Contexts : Keepalive(context, context = "suspended")
    BY <1>3 DEF ensureAudioKeepalive
  <2>2. context \in {"none", "suspended", "running"}
    BY DEF Contexts, AudioSet
  <2>3. ASSUME NEW resumed \in BOOLEAN, NEW starts \in BOOLEAN
        PROVE  LET a == [audio EXCEPT !.context = context, !.resumed = resumed,
                                      !.node = audio.node \/ starts,
                                      !.started = audio.started \/ starts]
               IN  a \in AudioSet /\ (audio.started => a.started)
    BY <2>2 DEF AudioSet
  <2>4. (context = "suspended") \in BOOLEAN /\ startAudioTimer(context) \in BOOLEAN
    BY DEF startAudioTimer
  <2>5. audio' = [audio EXCEPT !.context = context, !.resumed = (context = "suspended"),
                               !.node = audio.node \/ startAudioTimer(context),
                               !.started = audio.started \/ startAudioTimer(context)]
    BY <2>1 DEF Keepalive
  <2>6. QED  BY <2>3, <2>4, <2>5
<1>4. CASE ContextResumes
  BY <1>4 DEF ContextResumes, AudioSet
<1>5. CASE ContextSuspended
  <2>1. audio' = [audio EXCEPT !.context = "suspended", !.suspensions = audio.suspensions + 1]
    BY <1>5 DEF ContextSuspended
  <2>2. audio.suspensions + 1 \in Nat
    BY DEF AudioSet
  <2>3. ASSUME NEW n \in Nat
        PROVE  LET a == [audio EXCEPT !.context = "suspended", !.suspensions = n]
               IN  a \in AudioSet /\ (audio.started => a.started)
    BY DEF AudioSet
  <2>4. QED  BY <2>1, <2>2, <2>3
<1>6. QED
  BY <1>1, <1>2, <1>3, <1>4, <1>5 DEF Next, Continues, SendLine, CaptureBusy,
     executeLuaCapture, Asks, CaptureTimesOut, viii_loop, vars

LEMMA FunctionWaits == ASSUME NEW f PROVE Function(f).waits = 0
  BY DEF Function, Call

LEMMA TimerInit == Init => TimerInv
<1> SUFFICES ASSUME Init PROVE TimerInv
  OBVIOUS
<1>1. PICK starts :
        tasks = [t \in Task |-> IF t \in User THEN Function(starts[t]) ELSE
                               IF t = "boot" THEN Function("refresh") ELSE Idle]
  BY DEF Init
<1>2. Idle.waits = 0 /\ Idle.left = 0
  BY DEF Idle, Call
<1>3. \A t \in Task : tasks[t].waits = 0
  BY <1>1, <1>2, FunctionWaits
<1>4. tasks["gesture"] = Idle
  BY <1>1, ReplAssumption DEF ReplAssumption, Task, User
<1>5. timers = {} /\ captureSeq = 0
  BY DEF Init
<1>6. audio \in AudioSet
  BY DEF Init, AudioSet
<1>7. QED  BY <1>2, <1>3, <1>4, <1>5, <1>6 DEF TimerInv, WaitHasTimer, TimerHasWaiter

\* Steps that change no timer and nobody's waiting.
LEMMA TimersStay ==
    ASSUME TimerInv, audio' \in AudioSet, UNCHANGED <<timers, captureSeq>>,
           \A t \in Task : tasks'[t].waits = tasks[t].waits,
           ~ audio'.started => tasks'["gesture"].left = 0
    PROVE  TimerInv'
  BY DEF TimerInv, WaitHasTimer, TimerHasWaiter

\* A timer goes, and with it the waiting of those who waited for it.
LEMMA TimerGoes ==
    ASSUME TimerInv, audio' \in AudioSet, NEW id \in Nat \ {0}, timers' = timers \ {id}, UNCHANGED captureSeq,
           \A t \in Task : tasks'[t].waits = IF tasks[t].waits = id THEN 0 ELSE tasks[t].waits,
           ~ audio'.started => tasks'["gesture"].left = 0
    PROVE  TimerInv'
<1>1. ASSUME NEW t \in Task, tasks'[t].waits # 0
      PROVE  tasks[t].waits # id /\ tasks'[t].waits = tasks[t].waits
  BY <1>1
<1>2. WaitHasTimer'
  BY <1>1 DEF TimerInv, WaitHasTimer
<1>3. ASSUME NEW d \in timers' PROVE \E t \in Task : tasks'[t].waits = d
  <2>1. PICK t \in Task : tasks[t].waits = d
    BY DEF TimerInv, TimerHasWaiter
  <2>2. QED  BY <2>1
<1>4. TimerHasWaiter'
  BY <1>3 DEF TimerHasWaiter
<1>5. \A t, u \in Task : tasks'[t].waits = tasks'[u].waits /\ tasks'[t].waits # 0 => t = u
  BY <1>1 DEF TimerInv
<1>6. timers' \subseteq 1 .. captureSeq'
  BY DEF TimerInv
<1>7. QED  BY <1>2, <1>4, <1>5, <1>6 DEF TimerInv

LEMMA TimerKeeps ==
    ASSUME ReplTypes, CaptureInv, TimerInv, [Next]_vars
    PROVE  TimerInv'
<1>1. tasks \in [Task -> CallSet] /\ "gesture" \in Task
  BY DEF ReplTypes, Task
<1>a. audio' \in AudioSet /\ (audio.started => audio'.started)
  BY AudioKeeps DEF TimerInv
<1>2. ASSUME UNCHANGED <<tasks, captureVars>> PROVE TimerInv'
  BY <1>2, <1>a, TimersStay DEF captureVars, TimerInv
<1>3. ASSUME NEW t \in Task, tasks' = Ended(tasks, t)
      PROVE  /\ tasks'[t].waits = 0 /\ tasks'[t].left = 0
             /\ \A u \in Task : u # t => tasks'[u] = tasks[u]
  BY <1>1, <1>3 DEF Ended, Call
<1>4. ASSUME NEW t \in Task, SendLine(t) PROVE TimerInv'
  <2>1. /\ tasks' = [tasks EXCEPT ![t].left = tasks[t].left - 1] /\ Ready(t)
        /\ UNCHANGED <<timers, captureSeq, audio>>
    BY <1>4 DEF SendLine, captureVars
  <2>2. tasks[t] \in CallSet /\ tasks[t].left # 0
    BY <1>1, <2>1 DEF Ready
  <2>3. /\ tasks'[t].waits = tasks[t].waits
        /\ \A u \in Task : u # t => tasks'[u] = tasks[u]
    BY <1>1, <2>1, <2>2 DEF CallSet
  <2>4. ~ audio'.started => tasks'["gesture"].left = 0
    BY <1>1, <2>1, <2>2, <2>3 DEF TimerInv
  <2>5. QED  BY <2>1, <2>3, <2>4, <1>a, TimersStay
<1>5. ASSUME NEW t \in Task, CaptureBusy(t) PROVE TimerInv'
  <2>1. /\ tasks' = Ended(tasks, t) /\ tasks[t].waits = 0
        /\ UNCHANGED <<timers, captureSeq, audio>>
    BY <1>5 DEF CaptureBusy, captureVars, Ready
  <2>2. \A u \in Task : tasks'[u].waits = tasks[u].waits
    BY <1>3, <2>1
  <2>3. ~ audio'.started => tasks'["gesture"].left = 0
    BY <1>1, <1>3, <2>1 DEF TimerInv
  <2>4. QED  BY <2>1, <2>2, <2>3, <1>a, TimersStay
<1>6. ASSUME NEW t \in Task, executeLuaCapture(t) PROVE TimerInv'
  <2> DEFINE id == captureSeq + 1
  <2>1. /\ tasks' = [tasks EXCEPT ![t].waits = id] /\ Ready(t) /\ UNCHANGED audio
        /\ captureSeq' = id /\ timers' = timers \cup {id}
    BY <1>6 DEF executeLuaCapture, Asks
  <2>2. captureSeq \in Nat /\ timers \subseteq 1 .. captureSeq /\ tasks[t] \in CallSet
    BY <1>1 DEF ReplTypes, TimerInv
  <2>3. id \notin timers /\ id # 0 /\ timers' \subseteq 1 .. captureSeq'
    BY <2>1, <2>2
  <2> HIDE DEF id
  <2>4. tasks[t].waits = 0 /\ tasks[t].left # 0
    BY <2>1 DEF Ready
  <2>5. /\ tasks'[t].waits = id /\ tasks'[t].left = tasks[t].left
        /\ \A u \in Task : u # t => tasks'[u] = tasks[u]
    BY <1>1, <2>1, <2>2 DEF CallSet
  <2>6. WaitHasTimer'
    BY <2>1, <2>5 DEF TimerInv, WaitHasTimer
  <2>7. ASSUME NEW d \in timers' PROVE \E u \in Task : tasks'[u].waits = d
    <3>1. CASE d = id
      BY <2>5, <3>1
    <3>2. CASE d # id
      <4>1. d \in timers /\ d # 0
        BY <2>1, <2>2, <3>2
      <4>2. PICK u \in Task : tasks[u].waits = d
        BY <4>1 DEF TimerInv, TimerHasWaiter
      <4>3. u # t
        BY <2>4, <4>1, <4>2
      <4>4. QED  BY <2>5, <4>2, <4>3
    <3>3. QED  BY <3>1, <3>2
  <2>8. ASSUME NEW u \in Task, NEW w \in Task, tasks'[u].waits = tasks'[w].waits, tasks'[u].waits # 0
        PROVE  u = w
    <3>1. \A x \in Task : x # t => tasks'[x].waits # id
      BY <2>3, <2>5 DEF TimerInv, WaitHasTimer
    <3>2. QED  BY <2>5, <2>8, <3>1 DEF TimerInv
  <2>9. ~ audio'.started => tasks'["gesture"].left = 0
    BY <1>1, <2>1, <2>4, <2>5 DEF TimerInv
  <2>10. QED  BY <1>a, <2>3, <2>6, <2>7, <2>8, <2>9 DEF TimerInv, TimerHasWaiter
<1>7. ASSUME NEW id \in timers, CaptureTimesOut(id) PROVE TimerInv'
  <2>1. PICK t \in Task : tasks[t].waits = id /\ tasks' = Ended(tasks, t)
    BY <1>7 DEF CaptureTimesOut
  <2>2. timers' = timers \ {id} /\ UNCHANGED <<captureSeq, audio>>
    BY <1>7 DEF CaptureTimesOut
  <2>3. id \in Nat \ {0}
    BY DEF TimerInv, ReplTypes
  <2>4. \A u \in Task : tasks[u].waits = id => u = t
    BY <2>1, <2>3 DEF TimerInv
  <2>5. \A u \in Task : tasks'[u].waits = IF tasks[u].waits = id THEN 0 ELSE tasks[u].waits
    BY <1>3, <2>1, <2>4
  <2>6. ~ audio'.started => tasks'["gesture"].left = 0
    BY <1>1, <1>3, <2>1, <2>2 DEF TimerInv
  <2>7. QED  BY <2>2, <2>3, <2>5, <2>6, <1>a, TimerGoes
<1>8. CASE viii_loop
  <2>1. PICK noise \in 0 .. MaxNoise :
          LET js == handleSerialOutput(serial_task(noise).tx)
          IN  IF js.resolved = none
              THEN UNCHANGED <<timers, tasks>>
              ELSE timers' = timers \ {js.resolved.id} /\ Resolved(js.resolved.id)
    BY <1>8 DEF viii_loop
  <2> DEFINE out == serial_task(noise)
             js == handleSerialOutput(out.tx)
             id == js.resolved.id
  <2>2. \/ js.resolved = none
        \/ pendingCapture # none /\ id = pendingCapture.id
    <3> DEFINE o == out  j == js
    <3>1. o = serial_task(noise) /\ j = handleSerialOutput(o.tx)
      OBVIOUS
    <3> HIDE DEF o, j
    <3>2. \/ j.resolved = none
          \/ pendingCapture # none /\ j.resolved.id = pendingCapture.id
      BY <3>1, LoopHears
    <3>3. QED  BY <3>2 DEF o, j
  <2>3. js.resolved = none \/ id \in Nat \ {0}
    BY <2>2 DEF CaptureInv, ReplTypes
  <2>4. UNCHANGED <<captureSeq, audio>>
    BY <1>8 DEF viii_loop
  <2>5. \/ UNCHANGED <<timers, tasks>>
        \/ id \in Nat \ {0} /\ timers' = timers \ {id} /\ Resolved(id)
    BY <2>1, <2>3
  <2> HIDE DEF out, js, id
  <2>6. CASE UNCHANGED <<timers, tasks>>
    BY <2>4, <2>6, <1>a, TimersStay DEF TimerInv
  <2>7. CASE id \in Nat \ {0} /\ timers' = timers \ {id} /\ Resolved(id)
    <3>1. ASSUME NEW t \in Task
          PROVE  /\ tasks'[t].waits = IF tasks[t].waits = id THEN 0 ELSE tasks[t].waits
                 /\ tasks[t].waits # id => tasks'[t] = tasks[t]
      BY <2>7 DEF Resolved, Call
    <3>2. ~ audio'.started => tasks'["gesture"].left = 0
      <4>1. SUFFICES ASSUME ~ audio.started PROVE tasks'["gesture"].left = 0
        BY <2>4
      <4>2. tasks["gesture"].left = 0 /\ tasks["gesture"] \in CallSet
        BY <1>1, <4>1 DEF TimerInv
      <4>3. tasks["gesture"].waits # id
        BY <2>7, <4>2, InCall
      <4>4. QED  BY <1>1, <3>1, <4>2, <4>3
    <3>3. QED  BY <2>4, <2>7, <3>1, <3>2, <1>a, TimerGoes
  <2>8. QED  BY <2>5, <2>6, <2>7
<1>9. CASE FirstListSettles
  BY <1>2, <1>9 DEF FirstListSettles
<1>10. CASE ensureAudioKeepalive
  <2>1. PICK context : Keepalive(context, context = "suspended")
    BY <1>10 DEF ensureAudioKeepalive
  <2>2. UNCHANGED <<timers, captureSeq>>
    BY <2>1 DEF Keepalive, captureVars
  <2>3. CASE tasks' = tasks
    BY <1>a, <2>2, <2>3, TimersStay DEF TimerInv
  <2>4. CASE /\ startAudioTimer(context) /\ ~ audio.started
             /\ tasks' = [tasks EXCEPT !["gesture"] = Function("refresh")]
    <3>1. audio' = [audio EXCEPT !.context = context, !.resumed = (context = "suspended"),
                                 !.node = audio.node \/ startAudioTimer(context),
                                 !.started = audio.started \/ startAudioTimer(context)]
      BY <2>1 DEF Keepalive
    <3>2. audio'.started = (audio.started \/ startAudioTimer(context))
      BY <3>1 DEF TimerInv, AudioSet
    <3>3. audio'.started
      BY <2>4, <3>2
    <3>4. tasks["gesture"].waits = 0
      BY <1>1, <2>4, InCall DEF TimerInv
    <3>5. \A t \in Task : tasks'[t].waits = tasks[t].waits
      BY <1>1, <2>4, <3>4, FunctionWaits
    <3>6. QED  BY <1>a, <2>2, <3>3, <3>5, TimersStay
  <2>5. QED  BY <2>1, <2>3, <2>4 DEF Keepalive
<1>11. CASE ContextResumes
  BY <1>2, <1>11 DEF ContextResumes
<1>12. CASE ContextSuspended
  BY <1>2, <1>12 DEF ContextSuspended
<1>13. CASE UNCHANGED vars
  BY <1>2, <1>13 DEF vars, captureVars
<1>14. QED
  BY <1>4, <1>5, <1>6, <1>7, <1>8, <1>9, <1>10, <1>11, <1>12, <1>13 DEF Next, Continues

\* A function that waits for an answer has the timeout that ends it, whatever
\* becomes of the answer, and each timeout that is set has its waiter: the
\* clearTimeout of a resolved capture never takes another's (bridge.js
\* executeLuaCapture, handleSerialOutput).
THEOREM WaitsAreTimed == Spec => [](WaitHasTimer /\ TimerHasWaiter)
<1> DEFINE Inv == ReplTypes /\ CaptureInv /\ AnswerIsOwn /\ TimerInv
<1>1. Init => Inv
  BY TypesInit, TimerInit DEF Init, AnswerIsOwn
<1>2. Inv /\ [Next]_vars => Inv'
  BY NextKeeps, TimerKeeps
<1>3. Inv => WaitHasTimer /\ TimerHasWaiter
  BY DEF TimerInv
<1>4. QED  BY <1>1, <1>2, <1>3, PTL DEF Spec

---------------------------------------------------------------------------
(* The invariant of an upload.                                             *)

\* What an upload sends for the core, by how many steps are left with it.
Protocol == {"^^s", "^^f", "^^w", "name", "text1", "text2"}
Word(n) == uploadScript[11 - n]
Number(l) == l.of[2]

\* After line i wait the upload's lines from number s down to lo, in order.
Pending(lines, i, lo, s) ==
    /\ \A j \in i + 1 .. Len(lines) : lines[j].do \in Protocol =>
         /\ Number(lines[j]) \in lo .. s /\ lines[j].do = Word(Number(lines[j]))
         /\ \A k \in i + 1 .. j - 1 :
              lines[k].do \in Protocol => Number(lines[k]) > Number(lines[j])
    /\ \A n \in lo .. s : \E j \in i + 1 .. Len(lines) :
         lines[j].do \in Protocol /\ Number(lines[j]) = n

Begins(text) == \E i \in DOMAIN text : Own(text) = {i} /\ text[i] = "text1"

\* The core where the upload's line s is the next.
VmAt(v, s) ==
    /\ v.collecting <=> s \in {8, 7, 5, 4, 3}
    /\ s \in {8, 5} => Own(v.text) = {}
    /\ s = 7 => Named(v.text)
    /\ s \in 3 .. 6 => Named(v.name)
    /\ s = 4 => Begins(v.text)
    /\ s = 3 => Written(v.text)

AllWhole(files) == \A file \in files : Written(file.text) /\ Named(file.name)

LEMMA OwnAppend ==
    ASSUME NEW text \in Seq(Said), NEW w
    PROVE  /\ w \notin {"name", "text1", "text2"} =>
                /\ Own(Append(text, w)) = Own(text)
                /\ Named(text) => Named(Append(text, w))
                /\ Begins(text) => Begins(Append(text, w))
                /\ Written(text) => Written(Append(text, w))
           /\ w = "name" /\ Own(text) = {} => Named(Append(text, w))
           /\ w = "text1" /\ Own(text) = {} => Begins(Append(text, w))
           /\ w = "text2" /\ Begins(text) => Written(Append(text, w))
<1> DEFINE n == Len(text)
           longer == Append(text, w)
<1>1. /\ n \in Nat /\ DOMAIN text = 1 .. n /\ DOMAIN longer = 1 .. n + 1
      /\ longer[n + 1] = w /\ \A i \in 1 .. n : longer[i] = text[i]
  OBVIOUS
<1> HIDE DEF n, longer
<1>2. Own(text) \subseteq 1 .. n
  BY <1>1 DEF Own
<1>3. w \notin {"name", "text1", "text2"} => Own(longer) = Own(text)
  <2> SUFFICES ASSUME w \notin {"name", "text1", "text2"} PROVE Own(longer) = Own(text)
    OBVIOUS
  <2>1. ASSUME NEW i \in 1 .. n + 1 PROVE i \in Own(longer) <=> i \in Own(text)
    <3>1. i \in 1 .. n \/ i = n + 1
      BY <1>1
    <3>2. n + 1 \notin 1 .. n
      BY <1>1
    <3>3. QED  BY <1>1, <3>1, <3>2 DEF Own
  <2>2. Own(longer) \subseteq 1 .. n + 1 /\ Own(text) \subseteq 1 .. n + 1
    BY <1>1, <1>2 DEF Own
  <2>3. QED  BY <2>1, <2>2
<1>4. w \in {"name", "text1", "text2"} => Own(longer) = Own(text) \cup {n + 1}
  <2> SUFFICES ASSUME w \in {"name", "text1", "text2"} PROVE Own(longer) = Own(text) \cup {n + 1}
    OBVIOUS
  <2>1. ASSUME NEW i \in 1 .. n + 1 PROVE i \in Own(longer) <=> i \in Own(text) \cup {n + 1}
    <3>1. i \in 1 .. n \/ i = n + 1
      BY <1>1
    <3>2. n + 1 \in Own(longer)
      BY <1>1 DEF Own
    <3>3. QED  BY <1>1, <3>1, <3>2 DEF Own
  <2>2. Own(longer) \subseteq 1 .. n + 1 /\ Own(text) \cup {n + 1} \subseteq 1 .. n + 1
    BY <1>1, <1>2 DEF Own
  <2>3. QED  BY <2>1, <2>2
<1>5. ASSUME w \notin {"name", "text1", "text2"}
      PROVE  /\ Named(text) => Named(longer)
             /\ Begins(text) => Begins(longer)
             /\ Written(text) => Written(longer)
  <2>1. DOMAIN text \subseteq DOMAIN longer /\ \A i \in DOMAIN text : longer[i] = text[i]
    BY <1>1
  <2>2. Own(longer) = Own(text)
    BY <1>3, <1>5
  <2>3. Named(text) => Named(longer)
    BY <2>1, <2>2 DEF Named
  <2>4. Begins(text) => Begins(longer)
    BY <2>1, <2>2 DEF Begins
  <2>5. Written(text) => Written(longer)
    BY <2>1, <2>2 DEF Written
  <2>6. QED  BY <2>3, <2>4, <2>5
<1>6. ASSUME w \in {"name", "text1"}, Own(text) = {}
      PROVE  n + 1 \in DOMAIN longer /\ Own(longer) = {n + 1} /\ longer[n + 1] = w
  BY <1>1, <1>4, <1>6
<1>7. ASSUME w = "text2", Begins(text) PROVE Written(longer)
  <2>1. PICK i \in DOMAIN text : Own(text) = {i} /\ text[i] = "text1"
    BY <1>7 DEF Begins
  <2>2. /\ i \in DOMAIN longer /\ n + 1 \in DOMAIN longer /\ i < n + 1
        /\ longer[i] = "text1" /\ longer[n + 1] = "text2"
    BY <1>1, <1>7, <2>1
  <2>3. Own(longer) = {i, n + 1}
    BY <1>4, <1>7, <2>1
  <2>4. QED  BY <2>2, <2>3 DEF Written
<1>8. QED  BY <1>3, <1>5, <1>6, <1>7 DEF longer, Named, Begins

LEMMA WordIs ==
    /\ Word(10) = "ask" /\ Word(9) = "^^s" /\ Word(8) = "name" /\ Word(7) = "^^f"
    /\ Word(6) = "^^s" /\ Word(5) = "text1" /\ Word(4) = "text2" /\ Word(3) = "^^w"
    /\ Word(2) = "ask" /\ Word(1) = "ask"
<1>1. /\ 11 - 10 = 1 /\ 11 - 9 = 2 /\ 11 - 8 = 3 /\ 11 - 7 = 4 /\ 11 - 6 = 5
      /\ 11 - 5 = 6 /\ 11 - 4 = 7 /\ 11 - 3 = 8 /\ 11 - 2 = 9 /\ 11 - 1 = 10
  OBVIOUS
<1>2. QED  BY <1>1, UploadSteps DEF Word

\* A line of another function leaves the upload where it is.
LEMMA RunBetween ==
    ASSUME NEW s \in RunState, NEW l \in LineSet, l.do \notin Protocol,
           NEW k, VmAt(s.vm, k)
    PROVE  VmAt(RunLine(s, l).vm, k) /\ RunLine(s, l).saved = s.saved
<1>1. l.do \notin Words
  BY DEF Words, Protocol
<1>2. CASE ~ s.vm.collecting
  <2>1. RunLine(s, l) = Prints(s, l)
    BY <1>1, <1>2, RunOther
  <2>2. Prints(s, l).vm = s.vm /\ Prints(s, l).saved = s.saved
    BY PrintsType
  <2>3. QED  BY <2>1, <2>2
<1>3. CASE s.vm.collecting
  <2> DEFINE v == Vm(TRUE, Append(s.vm.text, l.do), s.vm.name)
  <2>1. RunLine(s, l) = [s EXCEPT !.vm = v]
    BY <1>1, <1>3, RunOther
  <2>2. RunLine(s, l).vm = v /\ RunLine(s, l).saved = s.saved
    BY <2>1 DEF RunState
  <2>3. v.collecting = TRUE /\ v.text = Append(s.vm.text, l.do) /\ v.name = s.vm.name
    BY DEF Vm
  <2>4. s.vm.text \in Seq(Said)
    BY DEF RunState, VmSet
  <2>5. l.do \notin {"name", "text1", "text2"}
    BY DEF Protocol
  <2>6. /\ Own(v.text) = Own(s.vm.text)
        /\ Named(s.vm.text) => Named(v.text)
        /\ Begins(s.vm.text) => Begins(v.text)
        /\ Written(s.vm.text) => Written(v.text)
    BY <2>3, <2>4, <2>5, OwnAppend
  <2> HIDE DEF v
  <2>7. VmAt(v, k)
    BY <1>3, <2>3, <2>6 DEF VmAt
  <2>8. QED  BY <2>2, <2>7
<1>4. QED  BY <1>2, <1>3

\* The upload's own next line takes it one further.
LEMMA RunOwn ==
    ASSUME NEW s \in RunState, NEW l \in LineSet, NEW k \in 3 .. 9,
           l.do = Word(k), VmAt(s.vm, k), AllWhole(s.saved)
    PROVE  VmAt(RunLine(s, l).vm, k - 1) /\ AllWhole(RunLine(s, l).saved)
<1>1. s.vm \in VmSet /\ s.vm.text \in Seq(Said)
  BY DEF RunState, VmSet
<1>2. ASSUME NEW v
      PROVE  [s EXCEPT !.vm = v].vm = v /\ [s EXCEPT !.vm = v].saved = s.saved
  BY DEF RunState
<1>3. ASSUME NEW v, NEW files
      PROVE  /\ [s EXCEPT !.vm = v, !.saved = files].vm = v
             /\ [s EXCEPT !.vm = v, !.saved = files].saved = files
  BY DEF RunState
<1>4. Own(<<>>) = {}
  BY DEF Own
<1>6. CASE k \in {9, 6}
  <2>0. l.do = "^^s"
    BY <1>6, WordIs
  <2>1. RunLine(s, l) = [s EXCEPT !.vm = Vm(TRUE, <<>>, s.vm.name)]
    BY <2>0, RunWord
  <2>2. VmAt(Vm(TRUE, <<>>, s.vm.name), k - 1)
    BY <1>4, <1>6 DEF VmAt, Vm
  <2>3. QED  BY <1>2, <2>1, <2>2
<1>7. CASE k = 7
  <2>1. RunLine(s, l) = [s EXCEPT !.vm = Vm(FALSE, <<>>, s.vm.text)]
    BY <1>7, WordIs, RunWord
  <2>2. VmAt(Vm(FALSE, <<>>, s.vm.text), k - 1)
    BY <1>7 DEF VmAt, Vm
  <2>3. QED  BY <1>2, <2>1, <2>2
<1>8. CASE k = 3
  <2>1. RunLine(s, l) =
          [s EXCEPT !.vm = Vm(FALSE, <<>>, <<>>),
                    !.saved = s.saved \cup {[name |-> s.vm.name, text |-> s.vm.text]}]
    BY <1>8, WordIs, RunWord
  <2>2. Named(s.vm.name) /\ Written(s.vm.text)
    BY <1>8 DEF VmAt
  <2>3. AllWhole(s.saved \cup {[name |-> s.vm.name, text |-> s.vm.text]})
    BY <2>2 DEF AllWhole
  <2>4. VmAt(Vm(FALSE, <<>>, <<>>), k - 1)
    BY <1>8 DEF VmAt, Vm
  <2>5. /\ RunLine(s, l).vm = Vm(FALSE, <<>>, <<>>)
        /\ RunLine(s, l).saved = s.saved \cup {[name |-> s.vm.name, text |-> s.vm.text]}
    BY <1>3, <2>1
  <2>6. QED  BY <2>3, <2>4, <2>5
<1>9. CASE k \in {8, 5, 4}
  <2> DEFINE v == Vm(TRUE, Append(s.vm.text, l.do), s.vm.name)
  <2>1. l.do \notin Words /\ s.vm.collecting
    BY <1>9, WordIs DEF Words, VmAt
  <2>2. RunLine(s, l) = [s EXCEPT !.vm = v]
    BY <2>1, RunOther
  <2>3. v.collecting = TRUE /\ v.text = Append(s.vm.text, l.do) /\ v.name = s.vm.name
    BY DEF Vm
  <2> HIDE DEF v
  <2>4. CASE k = 8
    <3>1. l.do = "name" /\ Own(s.vm.text) = {}
      BY <2>4, WordIs DEF VmAt
    <3>2. Named(v.text)
      BY <1>1, <2>3, <3>1, OwnAppend
    <3>3. VmAt(v, 7)
      BY <2>3, <3>2 DEF VmAt
    <3>4. QED  BY <1>2, <2>2, <2>4, <3>3
  <2>5. CASE k = 5
    <3>1. l.do = "text1" /\ Own(s.vm.text) = {} /\ Named(s.vm.name)
      BY <2>5, WordIs DEF VmAt
    <3>2. Begins(v.text)
      BY <1>1, <2>3, <3>1, OwnAppend
    <3>3. VmAt(v, 4)
      BY <2>3, <3>1, <3>2 DEF VmAt
    <3>4. QED  BY <1>2, <2>2, <2>5, <3>3
  <2>6. CASE k = 4
    <3>1. l.do = "text2" /\ Begins(s.vm.text) /\ Named(s.vm.name)
      BY <2>6, WordIs DEF VmAt
    <3>2. Written(v.text)
      BY <1>1, <2>3, <3>1, OwnAppend
    <3>3. VmAt(v, 3)
      BY <2>3, <3>1, <3>2 DEF VmAt
    <3>4. QED  BY <1>2, <2>2, <2>6, <3>3
  <2>7. QED  BY <1>9, <2>4, <2>5, <2>6
<1>10. QED  BY <1>6, <1>7, <1>8, <1>9

LEMMA PendingSkips ==
    ASSUME NEW lines \in Seq(LineSet), NEW i \in 0 .. Len(lines) - 1, NEW lo \in Int, NEW s \in Int,
           Pending(lines, i, lo, s), lines[i + 1].do \notin Protocol
    PROVE  Pending(lines, i + 1, lo, s)
<1>1. Len(lines) \in Nat
  OBVIOUS
<1>2. ASSUME NEW n \in lo .. s
      PROVE  \E j \in (i + 1) + 1 .. Len(lines) : lines[j].do \in Protocol /\ Number(lines[j]) = n
  <2>1. PICK j \in i + 1 .. Len(lines) : lines[j].do \in Protocol /\ Number(lines[j]) = n
    BY DEF Pending
  <2>2. j # i + 1
    BY <2>1
  <2>3. j \in (i + 1) + 1 .. Len(lines)
    BY <1>1, <2>2
  <2>4. QED  BY <2>1, <2>3
<1>3. ASSUME NEW j \in (i + 1) + 1 .. Len(lines), lines[j].do \in Protocol
      PROVE  /\ Number(lines[j]) \in lo .. s /\ lines[j].do = Word(Number(lines[j]))
             /\ \A k \in (i + 1) + 1 .. j - 1 :
                  lines[k].do \in Protocol => Number(lines[k]) > Number(lines[j])
  <2>1. j \in i + 1 .. Len(lines) /\ \A k \in (i + 1) + 1 .. j - 1 : k \in i + 1 .. j - 1
    BY <1>1
  <2>2. QED  BY <1>3, <2>1 DEF Pending
<1>4. QED  BY <1>2, <1>3 DEF Pending

\* The upload's first line that waits is the one the core is at.
LEMMA PendingTakes ==
    ASSUME NEW lines \in Seq(LineSet), NEW i \in 0 .. Len(lines) - 1, NEW lo \in Int, NEW s \in Int,
           Pending(lines, i, lo, s), lines[i + 1].do \in Protocol
    PROVE  s >= lo /\ lines[i + 1].do = Word(s) /\ Pending(lines, i + 1, lo, s - 1)
<1> DEFINE first == Number(lines[i + 1])
<1>1. Len(lines) \in Nat /\ i + 1 \in i + 1 .. Len(lines)
  OBVIOUS
<1>2. first \in lo .. s /\ lines[i + 1].do = Word(first)
  BY <1>1 DEF Pending
<1>3. \A j \in (i + 1) + 1 .. Len(lines) : lines[j].do \in Protocol =>
         /\ Number(lines[j]) \in lo .. s /\ first > Number(lines[j])
  <2>1. ASSUME NEW j \in (i + 1) + 1 .. Len(lines), lines[j].do \in Protocol
        PROVE  Number(lines[j]) \in lo .. s /\ first > Number(lines[j])
    <3>1. j \in i + 1 .. Len(lines) /\ i + 1 \in i + 1 .. j - 1
      BY <1>1
    <3>2. QED  BY <2>1, <3>1 DEF Pending
  <2>2. QED  BY <2>1
<1>4. first = s
  <2>1. s \in lo .. s
    BY <1>2
  <2>2. PICK j \in i + 1 .. Len(lines) : lines[j].do \in Protocol /\ Number(lines[j]) = s
    BY <2>1 DEF Pending
  <2>3. j = i + 1 \/ j \in (i + 1) + 1 .. Len(lines)
    BY <1>1
  <2>4. CASE j \in (i + 1) + 1 .. Len(lines)
    BY <1>2, <1>3, <2>2, <2>4
  <2>5. QED  BY <2>2, <2>3, <2>4
<1>5. ASSUME NEW n \in lo .. s - 1
      PROVE  \E j \in (i + 1) + 1 .. Len(lines) : lines[j].do \in Protocol /\ Number(lines[j]) = n
  <2>1. n \in lo .. s /\ n # s
    OBVIOUS
  <2>2. PICK j \in i + 1 .. Len(lines) : lines[j].do \in Protocol /\ Number(lines[j]) = n
    BY <2>1 DEF Pending
  <2>3. j # i + 1
    BY <1>4, <2>1, <2>2
  <2>4. j \in (i + 1) + 1 .. Len(lines)
    BY <1>1, <2>3
  <2>5. QED  BY <2>2, <2>4
<1>6. ASSUME NEW j \in (i + 1) + 1 .. Len(lines), lines[j].do \in Protocol
      PROVE  /\ Number(lines[j]) \in lo .. s - 1 /\ lines[j].do = Word(Number(lines[j]))
             /\ \A k \in (i + 1) + 1 .. j - 1 :
                  lines[k].do \in Protocol => Number(lines[k]) > Number(lines[j])
  <2>1. j \in i + 1 .. Len(lines) /\ \A k \in (i + 1) + 1 .. j - 1 : k \in i + 1 .. j - 1
    BY <1>1
  <2>2. Number(lines[j]) \in lo .. s - 1
    BY <1>3, <1>4, <1>6
  <2>3. /\ lines[j].do = Word(Number(lines[j]))
        /\ \A k \in i + 1 .. j - 1 :
             lines[k].do \in Protocol => Number(lines[k]) > Number(lines[j])
    BY <1>6, <2>1 DEF Pending
  <2>4. QED  BY <2>1, <2>2, <2>3
<1>7. Pending(lines, i + 1, lo, s - 1)
  BY <1>5, <1>6 DEF Pending
<1>8. QED  BY <1>2, <1>4, <1>7

\* Lines that are sent after those that wait.
LEMMA PendingGrows ==
    ASSUME NEW lines \in Seq(LineSet), NEW more \in Seq(LineSet), NEW lo \in Int, NEW s \in Int,
           Len(more) >= Len(lines), \A i \in 1 .. Len(lines) : more[i] = lines[i],
           \A i \in Len(lines) + 1 .. Len(more) : more[i].do \notin Protocol,
           Pending(lines, 0, lo, s)
    PROVE  Pending(more, 0, lo, s)
<1>1. Len(lines) \in Nat /\ Len(more) \in Nat
  OBVIOUS
<1>2. ASSUME NEW j \in 1 .. Len(more), more[j].do \in Protocol
      PROVE  /\ Number(more[j]) \in lo .. s /\ more[j].do = Word(Number(more[j]))
             /\ \A k \in 1 .. j - 1 : more[k].do \in Protocol => Number(more[k]) > Number(more[j])
  <2>1. j \in 1 .. Len(lines) /\ 0 + 1 = 1
    BY <1>1, <1>2
  <2>2. more[j] = lines[j] /\ \A k \in 1 .. j - 1 : more[k] = lines[k]
    BY <1>1, <2>1
  <2>3. /\ Number(lines[j]) \in lo .. s /\ lines[j].do = Word(Number(lines[j]))
        /\ \A k \in 1 .. j - 1 : lines[k].do \in Protocol => Number(lines[k]) > Number(lines[j])
    BY <1>2, <2>1, <2>2 DEF Pending
  <2>4. QED  BY <2>2, <2>3
<1>3. ASSUME NEW n \in lo .. s
      PROVE  \E j \in 1 .. Len(more) : more[j].do \in Protocol /\ Number(more[j]) = n
  <2>1. PICK j \in 0 + 1 .. Len(lines) : lines[j].do \in Protocol /\ Number(lines[j]) = n
    BY DEF Pending
  <2>2. j \in 1 .. Len(more) /\ more[j] = lines[j]
    BY <1>1
  <2>3. QED  BY <2>1, <2>2
<1>4. 0 + 1 = 1
  OBVIOUS
<1>5. QED  BY <1>2, <1>3, <1>4 DEF Pending

LEMMA PendingSends ==
    ASSUME NEW lines \in Seq(LineSet), NEW l \in LineSet, NEW lo \in Int, NEW s \in Int, lo <= s + 1,
           l.do = Word(lo - 1), l.do \in Protocol, Number(l) = lo - 1, Pending(lines, 0, lo, s)
    PROVE  Pending(Append(lines, l), 0, lo - 1, s)
<1> DEFINE more == Append(lines, l)
           n == Len(lines)
<1>1. n \in Nat /\ Len(more) = n + 1 /\ more[n + 1] = l /\ \A i \in 1 .. n : more[i] = lines[i]
  BY AppendAt
<1>2. \A j \in 1 .. n : lines[j].do \in Protocol =>
         /\ Number(lines[j]) \in lo .. s /\ lines[j].do = Word(Number(lines[j]))
         /\ \A k \in 1 .. j - 1 : lines[k].do \in Protocol => Number(lines[k]) > Number(lines[j])
  <2>1. 0 + 1 = 1
    OBVIOUS
  <2>2. QED  BY <2>1 DEF Pending
<1>3. \A m \in lo .. s : \E j \in 1 .. n : lines[j].do \in Protocol /\ Number(lines[j]) = m
  <2>1. 0 + 1 = 1
    OBVIOUS
  <2>2. QED  BY <2>1 DEF Pending
<1> HIDE DEF more, n
<1>4. ASSUME NEW j \in 1 .. n + 1, more[j].do \in Protocol
      PROVE  /\ Number(more[j]) \in lo - 1 .. s /\ more[j].do = Word(Number(more[j]))
             /\ \A k \in 1 .. j - 1 : more[k].do \in Protocol => Number(more[k]) > Number(more[j])
  <2>1. CASE j \in 1 .. n
    <3>1. more[j] = lines[j] /\ \A k \in 1 .. j - 1 : more[k] = lines[k]
      BY <1>1, <2>1
    <3>2. /\ Number(lines[j]) \in lo .. s /\ lines[j].do = Word(Number(lines[j]))
          /\ \A k \in 1 .. j - 1 : lines[k].do \in Protocol => Number(lines[k]) > Number(lines[j])
      BY <1>2, <1>4, <2>1, <3>1
    <3>3. Number(lines[j]) \in lo - 1 .. s
      BY <3>2
    <3>4. QED  BY <3>1, <3>2, <3>3
  <2>2. CASE j = n + 1
    <3>1. more[j] = l /\ Number(l) \in lo - 1 .. s
      BY <1>1, <2>2
    <3>2. ASSUME NEW k \in 1 .. j - 1, more[k].do \in Protocol PROVE Number(more[k]) > Number(more[j])
      <4>1. k \in 1 .. n /\ more[k] = lines[k]
        BY <1>1, <2>2
      <4>2. Number(lines[k]) \in lo .. s
        BY <1>2, <3>2, <4>1
      <4>3. QED  BY <3>1, <4>1, <4>2
    <3>3. QED  BY <3>1, <3>2
  <2>3. QED  BY <1>1, <2>1, <2>2
<1>5. ASSUME NEW m \in lo - 1 .. s
      PROVE  \E j \in 1 .. n + 1 : more[j].do \in Protocol /\ Number(more[j]) = m
  <2>1. CASE m = lo - 1
    <3>1. n + 1 \in 1 .. n + 1
      BY <1>1
    <3>2. QED  BY <1>1, <2>1, <3>1
  <2>2. CASE m # lo - 1
    <3>1. m \in lo .. s
      BY <2>2
    <3>2. PICK j \in 1 .. n : lines[j].do \in Protocol /\ Number(lines[j]) = m
      BY <1>3, <3>1
    <3>3. j \in 1 .. n + 1 /\ more[j] = lines[j]
      BY <1>1
    <3>4. QED  BY <3>2, <3>3
  <2>3. QED  BY <2>1, <2>2
<1>6. 0 + 1 = 1
  OBVIOUS
<1>7. QED  BY <1>1, <1>4, <1>5, <1>6 DEF Pending, more

\* A batch runs all of the upload's lines that wait.
LEMMA BatchUploads ==
    ASSUME NEW lines \in Seq(LineSet), NEW base \in RunState, NEW lo \in 3 .. 10, NEW s \in 2 .. 9,
           lo <= s + 1, VmAt(base.vm, s), Pending(lines, 0, lo, s), AllWhole(base.saved)
    PROVE  /\ VmAt(Folded(RunLine, base, lines).vm, lo - 1)
           /\ AllWhole(Folded(RunLine, base, lines).saved)
<1> DEFINE n == Len(lines)
<1>1. PICK f \in [0 .. n -> RunState] :
        /\ f[0] = base
        /\ \A i \in 1 .. n : f[i] = RunLine(f[i - 1], lines[i])
        /\ Folded(RunLine, base, lines) = f[n]
  BY RunFold
<1>2. n \in Nat /\ Len(lines) = n /\ \A i \in 1 .. n : lines[i] \in LineSet
  OBVIOUS
<1> HIDE DEF n
<1> DEFINE At(i, k) == /\ lo <= k + 1 /\ VmAt(f[i].vm, k) /\ Pending(lines, i, lo, k)
                       /\ AllWhole(f[i].saved)
           S == {i \in 0 .. n : \E k \in 2 .. 9 : At(i, k)}
<1>3. 0 \in S
  <2>1. At(0, s)
    BY <1>1
  <2> HIDE DEF At
  <2>2. QED  BY <1>2, <2>1
<1>4. ASSUME NEW i \in 0 .. n - 1, i \in S PROVE i + 1 \in S
  <2>1. i + 1 \in 1 .. n /\ i + 1 \in 0 .. n /\ (i + 1) - 1 = i /\ i \in 0 .. Len(lines) - 1 /\ i \in 0 .. n
    BY <1>2
  <2>2. f[i + 1] = RunLine(f[i], lines[i + 1]) /\ f[i] \in RunState /\ lines[i + 1] \in LineSet
    BY <1>1, <1>2, <2>1
  <2>3. PICK k \in 2 .. 9 : At(i, k)
    BY <1>4
  <2>4. CASE lines[i + 1].do \notin Protocol
    <3>1. VmAt(f[i + 1].vm, k) /\ f[i + 1].saved = f[i].saved
      BY <2>2, <2>3, <2>4, RunBetween
    <3>2. Pending(lines, i + 1, lo, k)
      BY <2>1, <2>3, <2>4, PendingSkips
    <3>3. At(i + 1, k)
      BY <2>3, <3>1, <3>2
    <3> HIDE DEF At
    <3>4. QED  BY <2>1, <3>3
  <2>5. CASE lines[i + 1].do \in Protocol
    <3>1. k >= lo /\ lines[i + 1].do = Word(k) /\ Pending(lines, i + 1, lo, k - 1)
      BY <2>1, <2>3, <2>5, PendingTakes
    <3>2. k \in 3 .. 9 /\ k - 1 \in 2 .. 9 /\ lo <= (k - 1) + 1
      BY <3>1
    <3>3. VmAt(f[i + 1].vm, k - 1) /\ AllWhole(f[i + 1].saved)
      BY <2>2, <2>3, <3>1, <3>2, RunOwn
    <3>4. At(i + 1, k - 1)
      BY <3>1, <3>2, <3>3
    <3> HIDE DEF At
    <3>5. QED  BY <2>1, <3>2, <3>4
  <2>6. QED  BY <2>4, <2>5
<1> HIDE DEF S, At
<1>5. \A i \in 0 .. n : i \in S
  BY <1>2, <1>3, <1>4, UpTo
<1>6. n \in S
  BY <1>2, <1>5
<1>7. PICK k \in 2 .. 9 : At(n, k)
  BY <1>6 DEF S
<1>8. lo <= k + 1 /\ VmAt(f[n].vm, k) /\ Pending(lines, n, lo, k) /\ AllWhole(f[n].saved)
  BY <1>7 DEF At
<1>9. k = lo - 1
  <2>1. SUFFICES ASSUME lo <= k PROVE FALSE
    BY <1>8
  <2>2. k \in lo .. k
    BY <2>1
  <2>3. PICK j \in n + 1 .. Len(lines) : Number(lines[j]) = k
    BY <1>8, <2>2 DEF Pending
  <2>4. QED  BY <1>2, <2>3
<1>10. QED  BY <1>1, <1>8, <1>9

\* The page does not keep a user from starting a second upload beside the
\* first, whose lines would mix with its own: there is at most one.
OneUpload ==
    \A u, v \in User : "upload" \in MayStart[u] /\ "upload" \in MayStart[v] => u = v

\* The number of the upload's last line that was sent.
Sent(left) == IF left = 10 THEN 10 ELSE left + 1

UploadTask(c, t) ==
    c.f = "upload" /\ c.left # 0 => /\ t \in User /\ "upload" \in MayStart[t]
                                    /\ c.waits # 0 => c.left \in {1, 2, 10}

\* All of the upload's lines that were sent have run or wait, in order, and
\* what the core holds of it is what has run.
UploadAt(lo, s) ==
    /\ lo <= s + 1 /\ VmAt(vm, s) /\ Pending(rx, 0, lo, s)
    /\ \A t \in Task : tasks[t].f = "upload" /\ tasks[t].left \in 2 .. 10
                        => lo = Sent(tasks[t].left)

UploadInv ==
    /\ \A t \in Task : UploadTask(tasks[t], t)
    /\ \E lo \in 3 .. 10, s \in 2 .. 9 : UploadAt(lo, s)
    /\ AllWhole(saved)

LEMMA FunctionOf ==
    ASSUME NEW f \in Functions
    PROVE  /\ Function(f).f = f /\ Function(f).waits = 0
           /\ f = "upload" => Function(f).left = 10
<1>1. f = "upload" => Len(Steps(f)) = 10
  BY UploadSteps DEF Steps
<1>2. QED  BY <1>1 DEF Function, Call

LEMMA UploadInit == Init => UploadInv
<1> SUFFICES ASSUME Init PROVE UploadInv
  OBVIOUS
<1>1. PICK starts :
        /\ \A u \in User : starts[u] \in MayStart[u]
        /\ tasks = [t \in Task |-> IF t \in User THEN Function(starts[t]) ELSE
                                   IF t = "boot" THEN Function("refresh") ELSE Idle]
  BY DEF Init
<1>2. /\ rx = <<>> /\ saved = {} /\ vm = Vm(FALSE, <<>>, <<>>)
  BY DEF Init
<1>3. ASSUME NEW t \in Task
      PROVE  /\ UploadTask(tasks[t], t)
             /\ tasks[t].f = "upload" /\ tasks[t].left \in 2 .. 10 => tasks[t].left = 10
  <2>1. CASE t \in User
    <3>1. starts[t] \in Functions /\ starts[t] \in MayStart[t] /\ tasks[t] = Function(starts[t])
      BY <1>1, <2>1, ReplAssumption DEF ReplAssumption, User, Functions
    <3>2. /\ tasks[t].f = starts[t] /\ tasks[t].waits = 0
          /\ starts[t] = "upload" => tasks[t].left = 10
      BY <3>1, FunctionOf
    <3>3. QED  BY <2>1, <3>1, <3>2 DEF UploadTask
  <2>2. CASE t \notin User
    <3>1. tasks[t] = Function("refresh") \/ tasks[t] = Idle
      BY <1>1, <2>2
    <3>2. CASE tasks[t] = Function("refresh")
      <4>1. tasks[t].f = "refresh"
        BY <3>2, FunctionOf DEF Functions
      <4>2. QED  BY <4>1 DEF UploadTask
    <3>3. CASE tasks[t] = Idle
      BY <3>3 DEF Idle, Call, UploadTask
    <3>4. QED  BY <3>1, <3>2, <3>3
  <2>3. QED  BY <2>1, <2>2
<1>4. UploadAt(10, 9)
  <2>1. VmAt(vm, 9)
    BY <1>2 DEF VmAt, Vm
  <2>2. Pending(rx, 0, 10, 9)
    BY <1>2 DEF Pending
  <2>3. QED  BY <1>3, <2>1, <2>2 DEF UploadAt, Sent
<1>5. AllWhole(saved)
  BY <1>2 DEF AllWhole
<1>6. QED  BY <1>3, <1>4, <1>5 DEF UploadInv

\* Who is about to do what: a line of the protocol is an upload's.
LEMMA UploadDoing ==
    ASSUME ReplTypes, UploadInv, NEW t \in Task, Ready(t)
    PROVE  /\ tasks[t].f # "upload" => Doing(t) \notin Protocol
           /\ tasks[t].f = "upload" =>
                /\ tasks[t].left \in 1 .. 10 /\ Doing(t) = Word(tasks[t].left)
                /\ Doing(t) = "ask" => tasks[t].left \in {1, 2, 10}
                /\ Doing(t) # "ask" => tasks[t].left \in 3 .. 9 /\ Doing(t) \in Protocol
<1> DEFINE f == tasks[t].f
           left == tasks[t].left
<1>1. f \in Functions /\ left \in Nat \ {0} /\ left <= Len(Steps(f)) /\ Len(Steps(f)) \in Nat
  BY ReadyStep
<1>2. Doing(t) = Steps(f)[Len(Steps(f)) + 1 - left]
  BY DEF Doing
<1> HIDE DEF f, left
<1>3. Len(Steps(f)) + 1 - left \in 1 .. Len(Steps(f))
  BY <1>1
<1>4. CASE f = "refresh"
  BY <1>1, <1>2, <1>3, <1>4 DEF f, Steps, refreshFileList, Protocol
<1>5. CASE f = "delete"
  <2>1. Len(Steps(f)) = 3 /\ Steps(f)[1] = "ask" /\ Steps(f)[2] = "ask" /\ Steps(f)[3] = "ask"
    BY <1>5 DEF Steps, deleteFile, refreshFileList
  <2>2. Doing(t) = "ask"
    BY <1>1, <1>2, <1>3, <2>1
  <2>3. QED  BY <1>5, <2>2 DEF f, Protocol
<1>6. CASE f = "type"
  <2>1. Len(Steps(f)) = 1 /\ Steps(f)[1] = "line"
    BY <1>6 DEF Steps
  <2>2. Doing(t) = "line"
    BY <1>1, <1>2, <1>3, <2>1
  <2>3. QED  BY <1>6, <2>2 DEF f, Protocol
<1>7. CASE f = "upload"
  <2>1. Steps(f) = uploadScript /\ Len(Steps(f)) = 10
    BY <1>7, UploadSteps DEF Steps
  <2>2. left \in 1 .. 10 /\ Len(Steps(f)) + 1 - left = 11 - left
    BY <1>1, <2>1
  <2>3. Doing(t) = Word(left)
    BY <1>2, <2>1, <2>2 DEF Word
  <2>4. left = 1 \/ left = 2 \/ left = 10 \/ left \in 3 .. 9
    BY <2>2
  <2>5. ASSUME left \in 3 .. 9 PROVE Doing(t) # "ask" /\ Doing(t) \in Protocol
    <3>1. left = 3 \/ left = 4 \/ left = 5 \/ left = 6 \/ left = 7 \/ left = 8 \/ left = 9
      BY <2>5
    <3>2. QED  BY <2>3, <3>1, WordIs DEF Protocol
  <2>6. left \in {1, 2, 10} => Doing(t) = "ask"
    BY <2>3, WordIs
  <2>7. QED  BY <1>7, <2>2, <2>3, <2>4, <2>5, <2>6 DEF f, left
<1>8. QED  BY <1>1, <1>4, <1>5, <1>6, <1>7 DEF Functions

LEMMA UploadSends ==
    ASSUME OneUpload, ReplTypes, UploadInv, NEW t \in Task, SendLine(t)
    PROVE  UploadInv'
<1> DEFINE l == Line(Doing(t), 0, Command(t))
           left == tasks[t].left
<1>1. /\ rx' = Append(rx, l) /\ tasks' = [tasks EXCEPT ![t].left = left - 1]
      /\ vm' = vm /\ saved' = {} /\ Ready(t) /\ Doing(t) # "ask"
  BY DEF SendLine, NoTick
<1>2. Doing(t) \in Said /\ Command(t) \in CommandSet /\ left \in Nat \ {0} /\ tasks[t].waits = 0
      /\ tasks[t] \in CallSet
  BY <1>1, ReadyStep
<1>3. l \in LineSet /\ l.do = Doing(t) /\ Number(l) = left
  <2>1. l \in LineSet /\ l.do = Doing(t) /\ l.of = Command(t)
    BY <1>2, LineType
  <2>2. QED  BY <2>1 DEF Number, Command
<1>4. /\ tasks'[t].f = tasks[t].f /\ tasks'[t].waits = 0 /\ tasks'[t].left = left - 1
      /\ \A u \in Task : u # t => tasks'[u] = tasks[u]
  <2>1. tasks \in [Task -> CallSet]
    BY DEF ReplTypes
  <2>2. tasks'[t] = [tasks[t] EXCEPT !.left = left - 1] /\ \A u \in Task : u # t => tasks'[u] = tasks[u]
    BY <1>1, <2>1
  <2>3. QED  BY <1>2, <2>2 DEF CallSet
<1> HIDE DEF l, left
<1>5. rx \in Seq(LineSet)
  BY DEF ReplTypes
<1>6. \A u \in Task : UploadTask(tasks'[u], u)
  <2>1. \A u \in Task : UploadTask(tasks[u], u)
    BY DEF UploadInv
  <2>2. UploadTask(tasks'[t], t)
    BY <1>2, <1>4, <2>1 DEF UploadTask, left
  <2>3. QED  BY <1>4, <2>1, <2>2
<1>7. PICK lo \in 3 .. 10, s \in 2 .. 9 : UploadAt(lo, s)
  BY DEF UploadInv
<1>8. /\ lo <= s + 1 /\ VmAt(vm, s) /\ Pending(rx, 0, lo, s)
      /\ \A u \in Task : tasks[u].f = "upload" /\ tasks[u].left \in 2 .. 10 => lo = Sent(tasks[u].left)
  BY <1>7 DEF UploadAt
<1>9. CASE tasks[t].f # "upload"
  <2>1. l.do \notin Protocol
    BY <1>1, <1>3, <1>9, UploadDoing
  <2>2. /\ rx' \in Seq(LineSet) /\ Len(rx) \in Nat /\ Len(rx') = Len(rx) + 1
        /\ rx'[Len(rx) + 1] = l /\ \A i \in 1 .. Len(rx) : rx'[i] = rx[i]
    BY <1>1, <1>3, <1>5, AppendAt
  <2>3. \A i \in Len(rx) + 1 .. Len(rx') : rx'[i].do \notin Protocol
    BY <2>1, <2>2
  <2>4. Pending(rx', 0, lo, s)
    BY <1>5, <1>8, <2>2, <2>3, PendingGrows
  <2>5. ASSUME NEW u \in Task, tasks'[u].f = "upload", tasks'[u].left \in 2 .. 10
        PROVE  lo = Sent(tasks'[u].left)
    BY <1>4, <1>8, <1>9, <2>5
  <2>6. UploadAt(lo, s)'
    BY <1>1, <1>8, <2>4, <2>5 DEF UploadAt
  <2>7. QED  BY <1>1, <1>6, <2>6 DEF UploadInv, AllWhole
<1>10. CASE tasks[t].f = "upload"
  <2>1. left \in 3 .. 9 /\ l.do = Word(left) /\ l.do \in Protocol
    BY <1>1, <1>3, <1>10, UploadDoing DEF left
  <2>2. lo = left + 1 /\ lo - 1 = left /\ lo - 1 \in 3 .. 10 /\ lo - 1 <= s + 1
    BY <1>8, <1>10, <2>1 DEF left, Sent
  <2>3. Pending(rx', 0, lo - 1, s)
    BY <1>1, <1>3, <1>5, <1>8, <2>1, <2>2, PendingSends
  <2>4. ASSUME NEW u \in Task, tasks'[u].f = "upload", tasks'[u].left \in 2 .. 10
        PROVE  lo - 1 = Sent(tasks'[u].left)
    <3>1. u = t
      <4>1. SUFFICES ASSUME u # t PROVE FALSE
        OBVIOUS
      <4>2. tasks[u].f = "upload" /\ tasks[u].left # 0 /\ tasks[t].left # 0
        BY <1>4, <2>1, <2>4, <4>1 DEF left
      <4>3. u \in User /\ "upload" \in MayStart[u] /\ t \in User /\ "upload" \in MayStart[t]
        BY <1>10, <4>2 DEF UploadInv, UploadTask
      <4>4. QED  BY <4>1, <4>3 DEF OneUpload
    <3>2. tasks'[u].left = left - 1
      BY <1>4, <3>1
    <3>3. QED  BY <2>1, <2>2, <3>2 DEF Sent
  <2>5. UploadAt(lo - 1, s)'
    BY <1>1, <1>8, <2>2, <2>3, <2>4 DEF UploadAt
  <2>6. QED  BY <1>1, <1>6, <2>2, <2>5 DEF UploadInv, AllWhole
<1>11. QED  BY <1>9, <1>10

\* Steps after which what has run and what waits of the upload is the same.
LEMMA UploadStays ==
    ASSUME UploadInv, vm' = vm, NEW lo \in 3 .. 10, NEW s \in 2 .. 9, UploadAt(lo, s),
           Pending(rx', 0, lo, s), saved' = {},
           \A t \in Task : \/ tasks'[t] = tasks[t] \/ tasks'[t].left = 0
                           \/ tasks'[t].f # "upload"
    PROVE  UploadInv'
<1>1. ASSUME NEW t \in Task
      PROVE  /\ UploadTask(tasks'[t], t)
             /\ tasks'[t].f = "upload" /\ tasks'[t].left \in 2 .. 10 => lo = Sent(tasks'[t].left)
  BY DEF UploadInv, UploadTask, UploadAt
<1>2. UploadAt(lo, s)'
  BY <1>1 DEF UploadAt
<1>3. QED  BY <1>1, <1>2 DEF UploadInv, AllWhole

LEMMA UploadAsks ==
    ASSUME ReplTypes, UploadInv, NEW t \in Task, executeLuaCapture(t)
    PROVE  UploadInv'
<1> DEFINE id == captureSeq + 1
           of == Command(t)
           three == <<Line("begin", id, of), Line("ask", 0, of), Line("end", id, of)>>
           left == tasks[t].left
<1>1. /\ tasks' = [tasks EXCEPT ![t].waits = id] /\ rx' = rx \o three
      /\ vm' = vm /\ saved' = {} /\ Ready(t) /\ Doing(t) = "ask"
  BY DEF executeLuaCapture, Asks, NoTick
<1>2. rx \in Seq(LineSet) /\ Len(rx) \in Nat /\ id \in Nat
  BY DEF ReplTypes
<1>3. of \in CommandSet /\ tasks[t] \in CallSet
  BY <1>1, ReadyStep
<1>4. three \in Seq(LineSet) /\ Len(three) = 3
  <2>1. Line("begin", id, of) \in LineSet /\ Line("ask", 0, of) \in LineSet /\ Line("end", id, of) \in LineSet
    <3>1. "begin" \in Said /\ "ask" \in Said /\ "end" \in Said
      BY DEF Said
    <3>2. QED  BY <1>2, <1>3, <3>1, LineType
  <2>2. QED  BY <2>1
<1>5. \A i \in 1 .. 3 : three[i].do \notin Protocol
  BY DEF Line, Protocol
<1>6. /\ tasks'[t].f = tasks[t].f /\ tasks'[t].left = left
      /\ \A u \in Task : u # t => tasks'[u] = tasks[u]
  <2>1. tasks \in [Task -> CallSet]
    BY DEF ReplTypes
  <2>2. tasks'[t] = [tasks[t] EXCEPT !.waits = id] /\ \A u \in Task : u # t => tasks'[u] = tasks[u]
    BY <1>1, <2>1
  <2>3. QED  BY <1>3, <2>2 DEF CallSet
<1> HIDE DEF id, of, three, left
<1>7. /\ rx' \in Seq(LineSet) /\ Len(rx') = Len(rx) + 3
      /\ \A i \in 1 .. Len(rx) : rx'[i] = rx[i]
      /\ \A i \in Len(rx) + 1 .. Len(rx') : rx'[i] = three[i - Len(rx)]
  <2>1. /\ rx \o three \in Seq(LineSet) /\ Len(rx \o three) = Len(rx) + Len(three)
        /\ \A i \in 1 .. Len(rx) + Len(three) :
              (rx \o three)[i] = IF i <= Len(rx) THEN rx[i] ELSE three[i - Len(rx)]
    BY <1>2, <1>4, ConcatProperties
  <2>2. QED  BY <1>1, <1>2, <1>4, <2>1
<1>8. PICK lo \in 3 .. 10, s \in 2 .. 9 : UploadAt(lo, s)
  BY DEF UploadInv
<1>9. \A i \in Len(rx) + 1 .. Len(rx') : rx'[i].do \notin Protocol
  <2>1. \A i \in Len(rx) + 1 .. Len(rx') : i - Len(rx) \in 1 .. 3
    BY <1>2, <1>7
  <2>2. QED  BY <1>5, <1>7, <2>1
<1>10. Pending(rx', 0, lo, s)
  <2>1. Pending(rx, 0, lo, s) /\ Len(rx') >= Len(rx)
    BY <1>2, <1>7, <1>8 DEF UploadAt
  <2>2. QED  BY <1>2, <1>7, <1>9, <2>1, PendingGrows
<1>11. ASSUME NEW u \in Task
       PROVE  /\ UploadTask(tasks'[u], u)
              /\ tasks'[u].f = "upload" /\ tasks'[u].left \in 2 .. 10 => lo = Sent(tasks'[u].left)
  <2>1. /\ UploadTask(tasks[u], u)
        /\ tasks[u].f = "upload" /\ tasks[u].left \in 2 .. 10 => lo = Sent(tasks[u].left)
    BY <1>8 DEF UploadInv, UploadAt
  <2>2. CASE u # t
    BY <1>6, <2>1, <2>2
  <2>3. CASE u = t
    <3>1. tasks[t].f = "upload" => left \in {1, 2, 10}
      BY <1>1, UploadDoing DEF left
    <3>2. QED  BY <1>6, <2>1, <2>3, <3>1 DEF UploadTask, left
  <2>4. QED  BY <2>2, <2>3
<1>12. UploadAt(lo, s)'
  BY <1>1, <1>8, <1>10, <1>11 DEF UploadAt
<1>13. QED  BY <1>1, <1>11, <1>12 DEF UploadInv, AllWhole

LEMMA UploadLoops ==
    ASSUME ReplTypes, CaptureInv, UploadInv, viii_loop
    PROVE  UploadInv'
<1>1. PICK noise \in 0 .. MaxNoise :
        LET out == serial_task(noise)
            js == handleSerialOutput(out.tx)
        IN  /\ rx' = <<>> /\ vm' = out.vm /\ saved' = out.saved
            /\ IF js.resolved = none
               THEN answer' = none /\ UNCHANGED <<timers, tasks>>
               ELSE Resolved(js.resolved.id)
  BY DEF viii_loop
<1> DEFINE out == serial_task(noise)
           js == handleSerialOutput(out.tx)
           id == js.resolved.id
<1>2. js.resolved = none \/ id \in Nat \ {0}
  <2> DEFINE o == out  j == js
  <2>1. o = serial_task(noise) /\ j = handleSerialOutput(o.tx)
    OBVIOUS
  <2> HIDE DEF o, j
  <2>2. \/ j.resolved = none
        \/ pendingCapture # none /\ j.resolved.id = pendingCapture.id
    BY <2>1, LoopHears
  <2>3. pendingCapture # none => pendingCapture.id \in Nat \ {0}
    BY DEF CaptureInv, ReplTypes
  <2>4. QED  BY <2>2, <2>3 DEF o, j
<1>3. /\ rx' = <<>> /\ vm' = out.vm /\ saved' = out.saved
      /\ tasks' = tasks \/ (id \in Nat \ {0} /\ Resolved(id))
  BY <1>1, <1>2
<1>4. noise \in Nat /\ rx \in Seq(LineSet) /\ vm \in VmSet
  BY ReplAssumption DEF ReplAssumption, ReplTypes
<1>5. /\ BatchStart(noise) \in RunState /\ BatchStart(noise).vm = vm
      /\ BatchStart(noise).saved = {} /\ out = Folded(RunLine, BatchStart(noise), rx)
  BY <1>4, NoisePrints DEF serial_task, BatchStart
<1> HIDE DEF out, js, id
<1>6. PICK lo \in 3 .. 10, s \in 2 .. 9 : UploadAt(lo, s)
  BY DEF UploadInv
<1>7. /\ lo <= s + 1 /\ VmAt(vm, s) /\ Pending(rx, 0, lo, s)
      /\ \A t \in Task : tasks[t].f = "upload" /\ tasks[t].left \in 2 .. 10 => lo = Sent(tasks[t].left)
  BY <1>6 DEF UploadAt
<1>8. VmAt(out.vm, lo - 1) /\ AllWhole(out.saved)
  <2>1. VmAt(BatchStart(noise).vm, s) /\ AllWhole(BatchStart(noise).saved)
    BY <1>5, <1>7 DEF AllWhole
  <2>2. /\ VmAt(Folded(RunLine, BatchStart(noise), rx).vm, lo - 1)
        /\ AllWhole(Folded(RunLine, BatchStart(noise), rx).saved)
    BY <1>4, <1>5, <1>7, <2>1, BatchUploads
  <2>3. QED  BY <1>5, <2>2
<1>9. Pending(rx', 0, lo, lo - 1)
  BY <1>3 DEF Pending
<1>10. ASSUME NEW t \in Task
       PROVE  /\ UploadTask(tasks'[t], t)
              /\ tasks'[t].f = "upload" /\ tasks'[t].left \in 2 .. 10 => lo = Sent(tasks'[t].left)
  <2>1. UploadTask(tasks[t], t)
    BY DEF UploadInv
  <2>2. CASE tasks'[t] = tasks[t]
    BY <1>7, <2>1, <2>2
  <2>3. CASE tasks'[t] # tasks[t]
    <3>1. /\ id \in Nat \ {0} /\ tasks[t].waits = id
          /\ tasks'[t] = Call(tasks[t].f, tasks[t].left - 1, 0)
      BY <1>3, <2>3 DEF Resolved
    <3>2. tasks[t] \in CallSet
      BY DEF ReplTypes
    <3>3. tasks[t].left \in Nat \ {0}
      BY <3>1, <3>2, InCall
    <3>4. /\ tasks'[t].f = tasks[t].f /\ tasks'[t].left = tasks[t].left - 1 /\ tasks'[t].waits = 0
      BY <3>1 DEF Call
    <3>5. CASE tasks[t].f = "upload"
      <4>1. tasks[t].left \in {1, 2, 10} /\ t \in User /\ "upload" \in MayStart[t]
        BY <2>1, <3>1, <3>3, <3>5 DEF UploadTask
      <4>2. UploadTask(tasks'[t], t)
        BY <3>4, <4>1 DEF UploadTask
      <4>3. ASSUME tasks'[t].left \in 2 .. 10 PROVE lo = Sent(tasks'[t].left)
        <5>1. tasks[t].left = 10 /\ tasks'[t].left = 9
          BY <3>4, <4>1, <4>3
        <5>2. lo = 10
          BY <1>7, <3>5, <5>1 DEF Sent
        <5>3. QED  BY <5>1, <5>2 DEF Sent
      <4>4. QED  BY <4>2, <4>3
    <3>6. CASE tasks[t].f # "upload"
      BY <3>4, <3>6 DEF UploadTask
    <3>7. QED  BY <3>5, <3>6
  <2>4. QED  BY <2>2, <2>3
<1>11. UploadAt(lo, lo - 1)'
  BY <1>3, <1>8, <1>9, <1>10 DEF UploadAt
<1>12. lo - 1 \in 2 .. 9
  OBVIOUS
<1>13. QED  BY <1>3, <1>8, <1>10, <1>11, <1>12 DEF UploadInv

LEMMA UploadKeeps ==
    ASSUME OneUpload, ReplTypes, CaptureInv, UploadInv, [Next]_vars
    PROVE  UploadInv'
<1>1. PICK lo \in 3 .. 10, s \in 2 .. 9 : UploadAt(lo, s)
  BY DEF UploadInv
<1>2. Pending(rx, 0, lo, s)
  BY <1>1 DEF UploadAt
<1>3. ASSUME rx' = rx, vm' = vm, NoTick,
             \A t \in Task : \/ tasks'[t] = tasks[t] \/ tasks'[t].left = 0
                             \/ tasks'[t].f # "upload"
      PROVE  UploadInv'
  BY <1>1, <1>2, <1>3, UploadStays DEF NoTick
<1>4. ASSUME NEW t \in Task, tasks' = Ended(tasks, t)
      PROVE  \A u \in Task : tasks'[u] = tasks[u] \/ tasks'[u].left = 0
  <2>1. tasks \in [Task -> CallSet]
    BY DEF ReplTypes
  <2>2. ASSUME NEW u \in Task PROVE tasks'[u] = tasks[u] \/ tasks'[u] = Call(tasks[t].f, 0, 0)
    BY <1>4, <2>1 DEF Ended
  <2>3. QED  BY <2>2 DEF Call
<1>5. ASSUME NEW t \in Task, SendLine(t) PROVE UploadInv'
  BY <1>5, UploadSends
<1>6. ASSUME NEW t \in Task, CaptureBusy(t) PROVE UploadInv'
  BY <1>3, <1>4, <1>6 DEF CaptureBusy
<1>7. ASSUME NEW t \in Task, executeLuaCapture(t) PROVE UploadInv'
  BY <1>7, UploadAsks
<1>8. ASSUME NEW id \in timers, CaptureTimesOut(id) PROVE UploadInv'
  <2>1. PICK t \in Task : tasks' = Ended(tasks, t)
    BY <1>8 DEF CaptureTimesOut
  <2>2. QED  BY <1>3, <1>4, <1>8, <2>1 DEF CaptureTimesOut
<1>9. CASE viii_loop
  BY <1>9, UploadLoops
<1>10. CASE FirstListSettles
  BY <1>3, <1>10 DEF FirstListSettles
<1>11. CASE ensureAudioKeepalive
  <2>1. PICK context : Keepalive(context, context = "suspended")
    BY <1>11 DEF ensureAudioKeepalive
  <2>2. tasks' = tasks \/ tasks' = [tasks EXCEPT !["gesture"] = Function("refresh")]
    BY <2>1 DEF Keepalive
  <2>3. Function("refresh").f # "upload"
    BY FunctionOf DEF Functions
  <2>4. tasks \in [Task -> CallSet]
    BY DEF ReplTypes
  <2>5. \A t \in Task : tasks'[t] = tasks[t] \/ tasks'[t].f # "upload"
    BY <2>2, <2>3, <2>4
  <2>6. QED  BY <1>3, <2>1, <2>5 DEF Keepalive
<1>12. CASE ContextResumes
  BY <1>3, <1>12 DEF ContextResumes
<1>13. CASE ContextSuspended
  BY <1>3, <1>13 DEF ContextSuspended
<1>14. CASE UNCHANGED vars
  BY <1>14 DEF vars, UploadInv, UploadAt, UploadTask, AllWhole, VmAt, Pending
<1>15. QED
  BY <1>5, <1>6, <1>7, <1>8, <1>9, <1>10, <1>11, <1>12, <1>13, <1>14 DEF Next, Continues

\* Whatever is typed, asked and cut off while an upload awaits, a file that is
\* saved has both its chunks, in order, and was named by the line that named
\* it (bridge.js uploadScript; the core as it relies on it).
THEOREM UploadsAreSaved == OneUpload /\ Spec => []UploadSaved
<1> SUFFICES ASSUME OneUpload PROVE Spec => []UploadSaved
  OBVIOUS
<1> DEFINE Inv == ReplTypes /\ CaptureInv /\ AnswerIsOwn /\ UploadInv
<1>1. Init => Inv
  BY TypesInit, UploadInit DEF Init, AnswerIsOwn
<1>2. Inv /\ [Next]_vars => Inv'
  BY NextKeeps, UploadKeeps
<1>3. Inv => UploadSaved
  BY DEF UploadInv, AllWhole, UploadSaved
<1>4. QED  BY <1>1, <1>2, <1>3, PTL DEF Spec
=============================================================================
