--------------------------- MODULE EmuControlProofs ---------------------------
(***************************************************************************)
(* Proofs about EmuControl, for any number of instances.                   *)
(***************************************************************************)
EXTENDS EmuControl, WellFoundedInduction, TLAPS

(* The strengthening of Accounted.                                         *)

\* Every step a thread has yet to do is one of a call: it names an instance, what it sends is
\* a message, and it is only there if the uses offer it.
CallSteps == [do : {"send", "wait", "waitall", "create", "return", "join"}, inst : Insts,
           what : Messages \cup {"none"}, n : Nat]

Usual(s) ==
    /\ s.do = "send" => s.what # "none"
    /\ s.what = "step" => Stepped
    /\ s.do = "create" => "borrow" \in use.menu \cup use.keys

Todos ==
    /\ todo \in [Threads -> Seq(CallSteps)]
    /\ \A t \in Threads : \A k \in 1 .. Len(todo[t]) : Usual(todo[t][k])

\* Without frame steps no instance is told to step, and a console that is there and paused
\* has a pause counted for it, behind which it goes on with something else.
Resumable(st, pr, sk, ac) ==
    /\ st # "FrameStep" /\ pr # "FrameStep"
    /\ ac /\ st = "Paused" => sk > 0
    /\ ac /\ sk > 0 => pr # "Paused"

Pauses ==
    ~Stepped => \A i \in Insts :
        /\ \A k \in 1 .. Len(queue[i]) : queue[i][k][1] # "step"
        /\ Resumable(status[i], prev[i], stack[i], active[i])

\* Only menus are used, and no frame is stepped.
Alone == use.hot = {} /\ ~Stepped

\* What may follow what in a call.
Follows(s, k) ==
    LET a == s[k]
    IN  /\ a.do = "send" /\ a.what = "saved" =>
              /\ k < Len(s) /\ s[k + 1] = Wait(2, a.inst)
              /\ k + 1 < Len(s) => s[k + 2].do # "create"
        /\ a.do = "send" /\ a.what = "exit" => k + 1 < Len(s) /\ s[k + 1] = WaitAll(a.inst)
        /\ a.do = "send" /\ a.what \notin {"saved", "exit"} =>
              /\ k < Len(s) /\ s[k + 1] \in {Wait(1, a.inst), Send("saved", a.inst)}
              /\ k + 1 < Len(s) /\ s[k + 2].do = "create" =>
                     s[k + 1] = Wait(1, a.inst) /\ a.what = "borrow"
        /\ a.do = "wait" /\ k < Len(s) =>
              \/ s[k + 1].do = "send" /\ s[k + 1].what # "saved"
              \/ s[k + 1] = Do("create", a.inst)
        /\ a.do = "waitall" => k + 1 = Len(s) /\ s[k + 1] = Do("join", a.inst)
        /\ a.do = "create"  => k + 1 = Len(s) /\ s[k + 1] = Do("return", a.inst)
        /\ a.do \in {"join", "return"} => k = Len(s)

Regular(s) == \A k \in 1 .. Len(s) : Follows(s, k)

Stays(i)   == at[i] # "gone" /\ status[i] # "Exit" /\ prev[i] # "Exit"
Quiet(i)   == queue[i] = <<>> /\ (at[i] # "gone" => tokens[i] = 0 /\ Stays(i))
Owes(i, n) ==
    /\ Stays(i) /\ tokens[i] + Len(queue[i]) = n
    /\ \A k \in 1 .. Len(queue[i]) : queue[i][k][1] # "exit"
Leaves(i)  == queue[i] = <<>> \/ (Len(queue[i]) = 1 /\ queue[i][1][1] = "exit" /\ at[i] # "gone")
Lent(i)    == ~current[i] /\ ((at[i] = "handle" /\ lend[i]) \/ at[i] = "lent")

\* Where a call of the UI thread has got to.
Call(s) ==
    LET a == s[1] i == a.inst
    IN  /\ \A j \in Insts \ {i} : Quiet(j)
        /\ a.do = "send" /\ a.what = "saved" => Owes(i, 1)
        /\ a.do = "send" /\ a.what # "saved" => Quiet(i)
        /\ a.do = "wait" => Owes(i, a.n)
        /\ a.do = "wait" /\ Len(s) > 1 /\ s[2].do = "create" =>
              Lent(i) \/ (Len(queue[i]) = 1 /\ queue[i][1][1] = "borrow")
        /\ a.do = "waitall" => Leaves(i)
        /\ a.do = "join"    => queue[i] = <<>>
        /\ a.do \in {"create", "return"} => Quiet(i) /\ Lent(i)

\* Where the UI thread is in what it does.
Called(s) ==
    /\ Regular(s)
    /\ \A k \in 1 .. Len(s) : s[k].do = "send" => at[s[k].inst] # "gone"
    /\ IF s = <<>> THEN \A i \in Insts : Quiet(i) ELSE Call(s)

Calls == Alone => Called(todo[UI]) /\ \A i \in Insts : todo[i] = <<>>

IInv == TypeOK /\ Todos /\ Pauses /\ Calls

-----------------------------------------------------------------------------
(* Induction over the numbers.                                             *)

\* A set of numbers that is not empty has a least one.
LEMMA Least ==
  ASSUME NEW S, S \subseteq Nat, S # {}
  PROVE  \E x \in S : \A y \in S : x <= y
<1>1. PICK x \in S : \A y \in S : <<y, x>> \notin OpToRel(<, Nat)
  BY NatLessThanWellFounded, WFMin
<1>2. ASSUME NEW y \in S, y < x PROVE FALSE
  <2>1. <<y, x>> \in Nat \X Nat /\ <<y, x>>[1] < <<y, x>>[2]
    BY <1>2
  <2> QED BY <1>1, <2>1 DEF OpToRel
<1>3. \A y \in S : x <= y
  BY <1>2
<1> QED BY <1>3

\* A set that holds 0, and the successor of each number it holds, holds all.
LEMMA Induction ==
  ASSUME NEW T, 0 \in T, \A n \in Nat : n \in T => n + 1 \in T
  PROVE  \A n \in Nat : n \in T
<1> SUFFICES ASSUME NEW n \in Nat, n \notin T PROVE FALSE
  OBVIOUS
<1>1. PICK x \in Nat \ T : \A y \in Nat \ T : x <= y
  BY Least
<1> QED BY <1>1

\* The function FlattenSeq is defined by exists.
LEMMA FlattenExists ==
  ASSUME NEW s, NEW n \in Nat
  PROVE  \E f : f = [i \in 1 .. n |-> IF i = 1 THEN s[i] ELSE f[i - 1] \o s[i]]
<1> DEFINE Is(f, m) == f = [i \in 1 .. m |-> IF i = 1 THEN s[i] ELSE f[i - 1] \o s[i]]
           T == {m \in Nat : \E f : Is(f, m)}
<1>1. 0 \in T
  <2>1. Is([i \in 1 .. 0 |-> 0], 0)
    OBVIOUS
  <2> QED BY <2>1
<1>2. ASSUME NEW m \in Nat, m \in T
      PROVE  m + 1 \in T
  <2>1. PICK f : Is(f, m)
    BY <1>2
  <2> DEFINE g == [i \in 1 .. m + 1 |->
                     IF i = 1 THEN s[i] ELSE IF i = m + 1 THEN f[m] \o s[i] ELSE f[i]]
  <2>2. ASSUME NEW i \in 1 .. m + 1
        PROVE  g[i] = IF i = 1 THEN s[i] ELSE g[i - 1] \o s[i]
    <3>1. \A k \in 1 .. m : f[k] = IF k = 1 THEN s[k] ELSE f[k - 1] \o s[k]
      BY <2>1
    <3>2. \A k \in 1 .. m : g[k] = f[k]
      BY <3>1
    <3>3. CASE i = 1
      BY <3>3
    <3>4. CASE i = m + 1 /\ i # 1
      <4>1. i - 1 = m /\ m \in 1 .. m
        BY <3>4
      <4> QED BY <3>2, <3>4, <4>1
    <3>5. CASE i \in 1 .. m /\ i # 1
      <4>1. i - 1 \in 1 .. m
        BY <3>5
      <4>2. g[i] = f[i] /\ g[i - 1] = f[i - 1]
        BY <3>2, <3>5, <4>1
      <4> HIDE DEF g
      <4> QED BY <3>1, <3>5, <4>2
    <3> QED BY <3>3, <3>4, <3>5
  <2>3. Is(g, m + 1)
    <3>1. g = [i \in 1 .. m + 1 |-> g[i]]
      OBVIOUS
    <3> HIDE DEF g
    <3> QED BY <2>2, <3>1
  <2> HIDE DEF g, Is
  <2> QED BY <2>3
<1> HIDE DEF T
<1>3. n \in T
  BY <1>1, <1>2, Induction
<1> QED BY <1>3 DEF T

\* What holds of sequences and of their concatenation holds when many are flattened.
LEMMA FlattenClosed ==
  ASSUME NEW S, \A a, b \in S : a \o b \in S,
         NEW n \in Nat \ {0}, NEW s \in [1 .. n -> S], Len(s) = n
  PROVE  FlattenSeq(s) \in S
<1>1. PICK f : f = [i \in 1 .. Len(s) |-> IF i = 1 THEN s[i] ELSE f[i - 1] \o s[i]]
  BY FlattenExists
<1>2. PICK g : /\ g = [i \in 1 .. Len(s) |-> IF i = 1 THEN s[i] ELSE g[i - 1] \o s[i]]
               /\ FlattenSeq(s) = g[Len(s)]
  BY <1>1 DEF FlattenSeq
<1> DEFINE T == {m \in Nat : m + 1 \in 1 .. n => g[m + 1] \in S}
<1>3. \A i \in 1 .. n : g[i] = IF i = 1 THEN s[i] ELSE g[i - 1] \o s[i]
  BY <1>2
<1>4. 0 \in T
  BY <1>3
<1>5. ASSUME NEW m \in Nat, m \in T
      PROVE  m + 1 \in T
  <2>1. CASE m + 2 \in 1 .. n
    <3>1. g[m + 2] = g[m + 1] \o s[m + 2]
      <4>1. m + 2 # 1 /\ (m + 2) - 1 = m + 1
        OBVIOUS
      <4> QED BY <1>3, <2>1, <4>1
    <3>2. g[m + 1] \in S /\ s[m + 2] \in S
      BY <1>5, <2>1
    <3>3. g[m + 2] \in S /\ (m + 1) + 1 = m + 2
      BY <3>1, <3>2
    <3> QED BY <3>3
  <2>2. CASE m + 2 \notin 1 .. n
    BY <2>2
  <2> QED BY <2>1, <2>2
<1> HIDE DEF T
<1>6. n - 1 \in T
  BY <1>4, <1>5, Induction
<1>7. g[n] \in S
  <2>1. (n - 1) + 1 = n
    OBVIOUS
  <2> QED BY <1>6, <2>1 DEF T
<1> QED BY <1>2, <1>7

-----------------------------------------------------------------------------
(* The steps of a call.                                                    *)

\* The parts of a step.
LEMMA Parts ==
  /\ \A m, i : Send(m, i).do = "send" /\ Send(m, i).inst = i /\ Send(m, i).what = m
  /\ \A n, i : Wait(n, i).do = "wait" /\ Wait(n, i).inst = i /\ Wait(n, i).what = "none"
               /\ Wait(n, i).n = n
  /\ \A i : WaitAll(i).do = "waitall" /\ WaitAll(i).inst = i /\ WaitAll(i).what = "none"
  /\ \A d, i : Do(d, i).do = d /\ Do(d, i).inst = i /\ Do(d, i).what = "none"
  BY DEF Send, Wait, WaitAll, Do

\* What a pause is passed on with: pairs of a message to an instance that is there and the
\* wait for it.
Passes(e, op) ==
    /\ e \in Seq(CallSteps)
    /\ Len(e) > 0 => e[1].do = "send"
    /\ \A k \in 1 .. Len(e) :
          /\ at[e[k].inst] # "gone"
          /\ \/ /\ e[k] = Send(op, e[k].inst)
                /\ k < Len(e) /\ e[k + 1] = Wait(1, e[k].inst)
             \/ /\ e[k] = Wait(1, e[k].inst)
                /\ k < Len(e) => e[k + 1].do = "send"

\* Where the steps of two parts of a call are in the whole.
LEMMA Together ==
  ASSUME NEW a \in Seq(CallSteps), NEW b \in Seq(CallSteps)
  PROVE  /\ a \o b \in Seq(CallSteps) /\ Len(a \o b) = Len(a) + Len(b)
         /\ \A k \in 1 .. Len(a) : (a \o b)[k] = a[k]
         /\ \A k \in 1 .. Len(b) : (a \o b)[Len(a) + k] = b[k]
  OBVIOUS

\* Two such sequences make one.
LEMMA PassesOn ==
  ASSUME NEW op, NEW a, NEW b, Passes(a, op), Passes(b, op)
  PROVE  Passes(a \o b, op)
<1> DEFINE c == a \o b
<1>1. a \in Seq(CallSteps) /\ b \in Seq(CallSteps)
  BY DEF Passes
<1>2. /\ c \in Seq(CallSteps) /\ Len(c) = Len(a) + Len(b)
      /\ \A k \in 1 .. Len(a) : c[k] = a[k]
      /\ \A k \in 1 .. Len(b) : c[Len(a) + k] = b[k]
  BY <1>1
<1>3. Len(a) \in Nat /\ Len(b) \in Nat
  BY <1>1
<1> HIDE DEF c
<1>4. Len(c) > 0 => c[1].do = "send"
  <2>1. CASE Len(a) > 0
    BY <1>2, <1>3, <2>1 DEF Passes
  <2>2. CASE Len(a) = 0
    <3>1. Len(b) > 0 => c[1] = b[1]
      BY <1>2, <1>3, <2>2
    <3> QED BY <1>2, <1>3, <2>2, <3>1 DEF Passes
  <2> QED BY <1>3, <2>1, <2>2
<1>5. ASSUME NEW k \in 1 .. Len(c)
      PROVE  /\ at[c[k].inst] # "gone"
             /\ \/ /\ c[k] = Send(op, c[k].inst)
                   /\ k < Len(c) /\ c[k + 1] = Wait(1, c[k].inst)
                \/ /\ c[k] = Wait(1, c[k].inst)
                   /\ k < Len(c) => c[k + 1].do = "send"
  <2>1. CASE k < Len(a)
    <3>1. c[k] = a[k] /\ c[k + 1] = a[k + 1] /\ k < Len(c) /\ k \in 1 .. Len(a)
      BY <1>2, <1>3, <2>1
    <3> QED BY <2>1, <3>1 DEF Passes
  <2>2. CASE k = Len(a)
    <3>1. c[k] = a[k] /\ k \in 1 .. Len(a) /\ ~(k < Len(a))
      BY <1>2, <1>3, <2>2
    <3>2. /\ at[a[k].inst] # "gone"
          /\ a[k] = Wait(1, a[k].inst)
      BY <3>1 DEF Passes
    <3>3. k < Len(c) => c[k + 1] = b[1] /\ Len(b) > 0
      BY <1>2, <1>3, <2>2
    <3>4. k < Len(c) => c[k + 1].do = "send"
      BY <3>3 DEF Passes
    <3> QED BY <3>1, <3>2, <3>4
  <2>3. CASE k > Len(a)
    <3>1. PICK m \in 1 .. Len(b) : k = Len(a) + m
      <4>1. k - Len(a) \in 1 .. Len(b) /\ k = Len(a) + (k - Len(a))
        BY <1>2, <1>3, <2>3
      <4> QED BY <4>1
    <3>2. c[k] = b[m] /\ (m < Len(b) <=> k < Len(c)) /\ (m < Len(b) => c[k + 1] = b[m + 1])
      <4>1. m < Len(b) => k + 1 = Len(a) + (m + 1) /\ m + 1 \in 1 .. Len(b)
        BY <1>3, <3>1
      <4> QED BY <1>2, <1>3, <3>1, <4>1
    <3> QED BY <3>1, <3>2 DEF Passes
  <2> QED BY <1>2, <1>3, <2>1, <2>2, <2>3
<1> QED BY <1>2, <1>4, <1>5 DEF Passes, c

\* A pause is passed on in that way, whichever instances there are.
LEMMA EveryonePasses ==
  ASSUME EmuControlAssumption, NEW op \in {"pause", "unpause"}, NEW i
  PROVE  Passes(Everyone(op, i), op)
<1> DEFINE S == {e \in Seq(CallSteps) : Passes(e, op)}
           part == [k \in 1 .. MaxInsts |->
                      IF k - 1 \in Insts \ {i} /\ at[k - 1] # "gone"
                      THEN <<Send(op, k - 1), Wait(1, k - 1)>> ELSE <<>>]
<1>1. \A a, b \in S : a \o b \in S
  BY PassesOn
<1>2. ASSUME NEW k \in 1 .. MaxInsts
      PROVE  part[k] \in S
  <2>1. CASE k - 1 \in Insts \ {i} /\ at[k - 1] # "gone"
    <3> DEFINE e == <<Send(op, k - 1), Wait(1, k - 1)>>
    <3>1. Send(op, k - 1) \in CallSteps /\ Wait(1, k - 1) \in CallSteps
      BY <2>1 DEF Send, Wait, CallSteps, Messages, Ops
    <3>2. e \in Seq(CallSteps) /\ Len(e) = 2 /\ e[1] = Send(op, k - 1) /\ e[2] = Wait(1, k - 1)
      BY <3>1
    <3>3. part[k] = e
      BY <2>1
    <3> HIDE DEF e, part
    <3>4. e[1].do = "send" /\ e[1].inst = k - 1 /\ e[2].inst = k - 1
      BY <3>2, Parts
    <3>5. Passes(e, op)
      BY <2>1, <3>2, <3>4 DEF Passes
    <3> QED BY <3>2, <3>3, <3>5
  <2>2. CASE ~(k - 1 \in Insts \ {i} /\ at[k - 1] # "gone")
    <3>1. part[k] = <<>>
      BY <2>2
    <3>2. Passes(<<>>, op)
      BY DEF Passes
    <3> HIDE DEF part
    <3> QED BY <3>1, <3>2
  <2> QED BY <2>1, <2>2
<1>3. MaxInsts \in Nat \ {0}
  BY DEF EmuControlAssumption
<1>4. part \in [1 .. MaxInsts -> S] /\ Len(part) = MaxInsts
  BY <1>2, <1>3
<1>5. Everyone(op, i) = FlattenSeq(part)
  BY DEF Everyone
<1> HIDE DEF part
<1>6. FlattenSeq(part) \in S
  <2> HIDE DEF S
  <2> QED BY <1>1, <1>3, <1>4, FlattenClosed
<1> QED BY <1>5, <1>6

\* So are two parts of a call together.
LEMMA UsualTogether ==
  ASSUME NEW a \in Seq(CallSteps), NEW b \in Seq(CallSteps),
         \A k \in 1 .. Len(a) : Usual(a[k]), \A k \in 1 .. Len(b) : Usual(b[k])
  PROVE  a \o b \in Seq(CallSteps) /\ \A k \in 1 .. Len(a \o b) : Usual((a \o b)[k])
<1>1. \A k \in 1 .. Len(a \o b) : \/ k \in 1 .. Len(a) /\ (a \o b)[k] = a[k]
                                  \/ k - Len(a) \in 1 .. Len(b) /\ (a \o b)[k] = b[k - Len(a)]
  OBVIOUS
<1> QED BY <1>1

\* A call is steps of its kind.
LEMMA StepsTyped ==
  ASSUME EmuControlAssumption, NEW op \in Ops, NEW i \in Insts,
         op \in use.menu \cup use.keys
  PROVE  /\ Steps(op, i) \in Seq(CallSteps)
         /\ \A k \in 1 .. Len(Steps(op, i)) : Usual(Steps(op, i)[k])
<1> DEFINE Fine(s) == s \in CallSteps /\ Usual(s)
<1>1. \A m \in Messages : m # "step" \/ Stepped => Fine(Send(m, i))
  BY DEF Send, CallSteps, Usual, Messages, Ops
<1>2. \A n \in Nat : Fine(Wait(n, i))
  BY DEF Wait, CallSteps, Usual
<1>3. Fine(WaitAll(i)) /\ Fine(Do("join", i)) /\ Fine(Do("return", i))
  BY DEF WaitAll, Do, CallSteps, Usual
<1>4. CASE op \in {"pause", "unpause"}
  <2> DEFINE a == <<Send(op, i), Wait(1, i)>>
             b == Everyone(op, i)
  <2>1. Passes(b, op)
    BY <1>4, EveryonePasses
  <2>2. b \in Seq(CallSteps) /\ \A k \in 1 .. Len(b) : Usual(b[k])
    BY <1>4, <2>1, Parts DEF Passes, Usual
  <2>3. a \in Seq(CallSteps) /\ \A k \in 1 .. Len(a) : Usual(a[k])
    BY <1>1, <1>2, <1>4 DEF Messages, Ops
  <2>4. Steps(op, i) = a \o b
    BY <1>4 DEF Steps
  <2> HIDE DEF a, b
  <2> QED BY <2>2, <2>3, <2>4, UsualTogether
<1>5. CASE op = "step"
  <2>1. Stepped
    BY <1>5 DEF Stepped
  <2>2. Fine(Send("pause", i)) /\ Fine(Send("step", i))
    BY <1>1, <2>1 DEF Messages, Ops
  <2> DEFINE a == IF stack[i] < 1 THEN <<Send("pause", i)>> ELSE <<>>
             b == <<Send("step", i), WaitAll(i)>>
  <2>3. Steps(op, i) = a \o b
    BY <1>5 DEF Steps
  <2>4. a \in Seq(CallSteps) /\ \A k \in 1 .. Len(a) : Usual(a[k])
    BY <2>2
  <2>5. b \in Seq(CallSteps) /\ \A k \in 1 .. Len(b) : Usual(b[k])
    BY <1>3, <2>2
  <2> HIDE DEF a, b
  <2> QED BY <2>3, <2>4, <2>5, UsualTogether
<1>6. CASE op = "import"
  <2>1. Steps(op, i) = <<Send("reset", i), Send("saved", i), Wait(2, i)>>
    BY <1>6 DEF Steps
  <2>2. Fine(Send("reset", i)) /\ Fine(Send("saved", i)) /\ Fine(Wait(2, i))
    BY <1>1, <1>2 DEF Messages, Ops
  <2> QED BY <2>1, <2>2
<1>7. CASE op = "borrow"
  <2>1. Steps(op, i) = <<Send(op, i), Wait(1, i), Do("create", i), Do("return", i)>>
    BY <1>7 DEF Steps
  <2>2. Fine(Send(op, i)) /\ Fine(Wait(1, i))
    BY <1>1, <1>2, <1>7 DEF Messages, Ops
  <2>3. Fine(Do("create", i))
    BY <1>7 DEF Do, CallSteps, Usual
  <2> QED BY <1>3, <2>1, <2>2, <2>3
<1>8. CASE op = "exit"
  <2>1. Steps(op, i) = <<Send(op, i), WaitAll(i), Do("join", i)>>
    BY <1>8 DEF Steps
  <2>2. Fine(Send(op, i))
    BY <1>1, <1>8 DEF Messages, Ops
  <2> QED BY <1>3, <2>1, <2>2
<1>9. CASE op \in {"run", "stop", "reset"}
  <2>1. Steps(op, i) = <<Send(op, i), Wait(1, i)>>
    BY <1>9 DEF Steps
  <2>2. Fine(Send(op, i)) /\ Fine(Wait(1, i))
    BY <1>1, <1>2, <1>9 DEF Messages, Ops
  <2> QED BY <2>1, <2>2
<1> QED BY <1>4, <1>5, <1>6, <1>7, <1>8, <1>9 DEF Ops

\* A call begins with a message, and no step of it is out of turn.
LEMMA StepsRegular ==
  ASSUME EmuControlAssumption, NEW op \in Ops \ {"step"}, NEW i \in Insts, at[i] # "gone"
  PROVE  LET s == Steps(op, i)
         IN  /\ Regular(s) /\ Len(s) > 0 /\ s[1].do = "send" /\ s[1].what # "saved"
             /\ \A k \in 1 .. Len(s) : s[k].do = "send" => at[s[k].inst] # "gone"
<1>4. CASE op \in {"pause", "unpause"}
  <2> DEFINE a == <<Send(op, i), Wait(1, i)>>
             b == Everyone(op, i)
             c == a \o b
  <2>1. Passes(b, op) /\ b \in Seq(CallSteps)
    BY <1>4, EveryonePasses DEF Passes
  <2>2. Steps(op, i) = c
    BY <1>4 DEF Steps
  <2>3. /\ Len(c) = Len(b) + 2 /\ c[1] = Send(op, i) /\ c[2] = Wait(1, i)
        /\ \A k \in 1 .. Len(b) : c[k + 2] = b[k]
    <3>1. Send(op, i) \in CallSteps /\ Wait(1, i) \in CallSteps
      BY <1>4 DEF Send, Wait, CallSteps, Messages, Ops
    <3>2. a \in Seq(CallSteps) /\ Len(a) = 2 /\ a[1] = Send(op, i) /\ a[2] = Wait(1, i)
      BY <3>1
    <3> HIDE DEF a, b
    <3>8. a \in Seq(CallSteps) /\ b \in Seq(CallSteps)
      BY <2>1, <3>2
    <3>9. /\ Len(c) = Len(a) + Len(b) /\ \A k \in 1 .. Len(a) : c[k] = a[k]
          /\ \A k \in 1 .. Len(b) : c[Len(a) + k] = b[k]
      BY <3>8, Together
    <3> HIDE DEF c
    <3>3. Len(c) = 2 + Len(b) /\ c[1] = a[1] /\ c[2] = a[2]
      BY <3>2, <3>9
    <3>4. \A k \in 1 .. Len(b) : c[2 + k] = b[k]
      BY <3>2, <3>9
    <3>5. Len(b) \in Nat
      BY <2>1
    <3>6. \A k \in 1 .. Len(b) : c[k + 2] = b[k]
      BY <3>4, <3>5
    <3>7. Len(c) = Len(b) + 2
      BY <3>3, <3>5
    <3> QED BY <3>2, <3>3, <3>6, <3>7
  <2>4. Len(b) \in Nat
    BY <2>1
  <2> HIDE DEF a, b, c
  <2>5. c[1].do = "send" /\ c[1].what = op /\ c[1].inst = i /\ c[2].do = "wait"
    BY <2>3, Parts
  <2>6. ASSUME NEW k \in 1 .. Len(b)
        PROVE  /\ at[c[k + 2].inst] # "gone"
               /\ \/ /\ c[k + 2] = Send(op, c[k + 2].inst)
                     /\ k + 2 < Len(c) /\ c[k + 3] = Wait(1, c[k + 2].inst)
                  \/ /\ c[k + 2] = Wait(1, c[k + 2].inst)
                     /\ k + 2 < Len(c) => c[k + 3] = Send(op, c[k + 3].inst)
    <3>1. /\ at[b[k].inst] # "gone"
          /\ \/ /\ b[k] = Send(op, b[k].inst)
                /\ k < Len(b) /\ b[k + 1] = Wait(1, b[k].inst)
             \/ /\ b[k] = Wait(1, b[k].inst)
                /\ k < Len(b) => b[k + 1].do = "send"
      BY <2>1 DEF Passes
    <3>2. c[k + 2] = b[k] /\ (k < Len(b) <=> k + 2 < Len(c))
      BY <2>3, <2>4
    <3>3. k < Len(b) => c[k + 3] = b[k + 1] /\ k + 1 \in 1 .. Len(b)
      <4>1. k < Len(b) => k + 1 \in 1 .. Len(b) /\ (k + 1) + 2 = k + 3
        BY <2>4
      <4> QED BY <2>3, <4>1
    <3>4. k < Len(b) /\ b[k + 1].do = "send" => b[k + 1] = Send(op, b[k + 1].inst)
      BY <2>1, <3>3, Parts DEF Passes
    <3> QED BY <3>1, <3>2, <3>3, <3>4
  <2>7. Len(b) > 0 => c[3] = Send(op, c[3].inst)
    <3>1. Len(b) > 0 => 1 \in 1 .. Len(b) /\ 1 + 2 = 3 /\ c[3] = b[1] /\ b[1].do = "send"
      BY <2>1, <2>3, <2>4 DEF Passes
    <3>2. Len(b) > 0 => b[1] # Wait(1, b[1].inst)
      BY <3>1, Parts
    <3> QED BY <2>1, <3>1, <3>2 DEF Passes
  <2>8. ASSUME NEW k \in 1 .. Len(c)
        PROVE  /\ at[c[k].inst] # "gone"
               /\ \/ /\ c[k] = Send(op, c[k].inst)
                     /\ k < Len(c) /\ c[k + 1] = Wait(1, c[k].inst)
                  \/ /\ c[k] = Wait(1, c[k].inst)
                     /\ k < Len(c) => c[k + 1] = Send(op, c[k + 1].inst)
    <3>1. CASE k = 1
      BY <2>3, <2>4, <2>5, <3>1
    <3>2. CASE k = 2
      <4>1. c[2].inst = i
        BY <2>3, Parts
      <4> QED BY <2>3, <2>4, <2>7, <3>2, <4>1
    <3>3. CASE k > 2
      <4>1. k - 2 \in 1 .. Len(b) /\ (k - 2) + 2 = k /\ (k - 2) + 3 = k + 1
        BY <2>3, <2>4, <3>3
      <4> QED BY <2>6, <4>1
    <3> QED BY <3>1, <3>2, <3>3
  <2>9. ASSUME NEW k \in 1 .. Len(c)
        PROVE  Follows(c, k)
    <3>1. CASE c[k] = Send(op, c[k].inst) /\ k < Len(c) /\ c[k + 1] = Wait(1, c[k].inst)
      <4>1. c[k].do = "send" /\ c[k].what = op
        BY <3>1, Parts
      <4>2. k + 1 < Len(c) => c[k + 2].do = "send"
        <5>1. k + 1 < Len(c) => k + 1 \in 1 .. Len(c) /\ (k + 1) + 1 = k + 2
          BY <2>3, <2>4
        <5>2. c[k + 1].do = "wait"
          BY <3>1, Parts
        <5> QED BY <2>8, <5>1, <5>2, Parts
      <4> QED BY <1>4, <3>1, <4>1, <4>2 DEF Follows
    <3>2. CASE c[k] = Wait(1, c[k].inst) /\ (k < Len(c) => c[k + 1] = Send(op, c[k + 1].inst))
      <4>1. c[k].do = "wait" /\ (k < Len(c) => c[k + 1].do = "send" /\ c[k + 1].what = op)
        BY <3>2, Parts
      <4> QED BY <1>4, <4>1 DEF Follows
    <3> QED BY <2>8, <3>1, <3>2
  <2> QED BY <1>4, <2>2, <2>3, <2>4, <2>5, <2>8, <2>9 DEF Regular
<1>6. CASE op = "import"
  <2>1. Steps(op, i) = <<Send("reset", i), Send("saved", i), Wait(2, i)>>
    BY <1>6 DEF Steps
  <2> QED BY <2>1, Parts DEF Regular, Follows
<1>7. CASE op = "borrow"
  <2>1. Steps(op, i) = <<Send(op, i), Wait(1, i), Do("create", i), Do("return", i)>>
    BY <1>7 DEF Steps
  <2> DEFINE s == Steps(op, i)
  <2>2. /\ Len(s) = 4 /\ s[1] = Send("borrow", i) /\ s[2] = Wait(1, i)
        /\ s[3] = Do("create", i) /\ s[4] = Do("return", i)
    BY <1>7, <2>1
  <2> HIDE DEF s
  <2>3. Follows(s, 1) /\ Follows(s, 2)
    BY <2>2, Parts DEF Follows
  <2>4. Follows(s, 3) /\ Follows(s, 4)
    BY <2>2, Parts DEF Follows
  <2>5. \A k \in 1 .. Len(s) : k \in {1, 2, 3, 4}
    BY <2>2
  <2>6. Regular(s)
    BY <2>3, <2>4, <2>5 DEF Regular
  <2>7. \A k \in 1 .. Len(s) : s[k].inst = i
    BY <2>2, <2>5, Parts
  <2>8. s[1].do = "send" /\ s[1].what # "saved"
    BY <2>2, Parts
  <2> QED BY <2>2, <2>6, <2>7, <2>8 DEF s
<1>8. CASE op = "exit"
  <2>1. Steps(op, i) = <<Send(op, i), WaitAll(i), Do("join", i)>>
    BY <1>8 DEF Steps
  <2> DEFINE s == Steps(op, i)
  <2>2. /\ Len(s) = 3 /\ s[1] = Send("exit", i) /\ s[2] = WaitAll(i) /\ s[3] = Do("join", i)
    BY <1>8, <2>1
  <2> HIDE DEF s
  <2>3. Follows(s, 1) /\ Follows(s, 2) /\ Follows(s, 3)
    BY <2>2, Parts DEF Follows
  <2>4. \A k \in 1 .. Len(s) : k \in {1, 2, 3}
    BY <2>2
  <2>5. Regular(s)
    BY <2>3, <2>4 DEF Regular
  <2>6. \A k \in 1 .. Len(s) : s[k].inst = i
    BY <2>2, <2>4, Parts
  <2>7. s[1].do = "send" /\ s[1].what # "saved"
    BY <2>2, Parts
  <2> QED BY <2>2, <2>5, <2>6, <2>7 DEF s
<1>9. CASE op \in {"run", "stop", "reset"}
  <2>1. Steps(op, i) = <<Send(op, i), Wait(1, i)>>
    BY <1>9 DEF Steps
  <2> QED BY <1>9, <2>1, Parts DEF Regular, Follows
<1> QED BY <1>4, <1>6, <1>7, <1>8, <1>9 DEF Ops

\* What is left of a call is in turn as well.
LEMMA TailRegular ==
  ASSUME NEW s \in Seq(CallSteps), s # <<>>, Regular(s)
  PROVE  Regular(Tail(s))
<1>1. PICK u : u = Tail(s)
  OBVIOUS
<1>2. Len(u) = Len(s) - 1 /\ Len(s) \in Nat /\ Len(s) > 0
  BY <1>1
<1>3. \A k \in 1 .. Len(u) : u[k] = s[k + 1]
  BY <1>1
<1>4. ASSUME NEW k \in 1 .. Len(u)
      PROVE  Follows(u, k)
  <2>1. PICK m \in 1 .. Len(s) : m = k + 1
    BY <1>2
  <2>2. Follows(s, m)
    BY DEF Regular
  <2>3. u[k] = s[m]
    BY <1>3, <2>1
  <2>4. k < Len(u) => u[k + 1] = s[m + 1]
    BY <1>2, <1>3, <2>1
  <2>5. k + 1 < Len(u) => u[k + 2] = s[m + 2]
    <3>1. k + 1 < Len(u) => k + 2 \in 1 .. Len(u) /\ (k + 2) + 1 = m + 2
      BY <1>2, <2>1
    <3> QED BY <1>3, <3>1
  <2>6. /\ k < Len(u) <=> m < Len(s)
        /\ k + 1 < Len(u) <=> m + 1 < Len(s)
        /\ k + 1 = Len(u) <=> m + 1 = Len(s)
        /\ k = Len(u) <=> m = Len(s)
    BY <1>2, <2>1
  <2>7. k + 1 = Len(u) => k < Len(u)
    BY <1>2
  <2> QED BY <2>2, <2>3, <2>4, <2>5, <2>6, <2>7 DEF Follows
<1> QED BY <1>1, <1>4 DEF Regular

-----------------------------------------------------------------------------
(* What the steps have in common.                                          *)

\* A step of a call that is due is one of it, and so is what is left then.
LEMMA DueTyped ==
  ASSUME Todos, NEW t \in Threads, todo[t] # <<>>
  PROVE  /\ Head(todo[t]) = todo[t][1] /\ todo[t][1] \in CallSteps /\ Usual(todo[t][1])
         /\ Len(todo[t]) \in Nat \ {0}
         /\ Tail(todo[t]) \in Seq(CallSteps) /\ Len(Tail(todo[t])) = Len(todo[t]) - 1
         /\ \A k \in 1 .. Len(Tail(todo[t])) :
               Tail(todo[t])[k] = todo[t][k + 1] /\ Usual(Tail(todo[t])[k])
<1>1. todo[t] \in Seq(CallSteps) /\ \A k \in 1 .. Len(todo[t]) : Usual(todo[t][k])
  BY DEF Todos
<1> DEFINE s == todo[t]
<1>2. s \in Seq(CallSteps) /\ s # <<>> /\ \A k \in 1 .. Len(s) : Usual(s[k])
  BY <1>1
<1> HIDE DEF s
<1>3. Len(s) \in Nat \ {0} /\ Head(s) = s[1] /\ s[1] \in CallSteps
  BY <1>2
<1>4. /\ Tail(s) \in Seq(CallSteps) /\ Len(Tail(s)) = Len(s) - 1
      /\ \A k \in 1 .. Len(Tail(s)) : Tail(s)[k] = s[k + 1]
  BY <1>2
<1>5. Usual(s[1])
  BY <1>2, <1>3
<1>6. \A k \in 1 .. Len(Tail(s)) : k + 1 \in 1 .. Len(s)
  BY <1>3, <1>4
<1>7. \A k \in 1 .. Len(Tail(s)) : Tail(s)[k] = s[k + 1] /\ Usual(Tail(s)[k])
  BY <1>2, <1>4, <1>6
<1> QED BY <1>3, <1>4, <1>5, <1>7 DEF s

\* What a message does to the instance: without an exit it stays, and without a frame step
\* a pause can be taken back.
LEMMA Effects ==
  ASSUME TypeOK, NEW i \in Insts, NEW m \in Messages, Effect(i, m)
  PROVE  \E st \in Statuses, pr \in Statuses, sk \in Nat, ac \in BOOLEAN :
            /\ Set(i, st, pr, sk, ac)
            /\ m # "exit" /\ status[i] # "Exit" /\ prev[i] # "Exit" => st # "Exit" /\ pr # "Exit"
            /\ m # "step" /\ Resumable(status[i], prev[i], stack[i], active[i])
                  => Resumable(st, pr, sk, ac)
<1>1. /\ status[i] \in Statuses /\ prev[i] \in Statuses
      /\ stack[i] \in Nat /\ active[i] \in BOOLEAN
  BY DEF TypeOK
<1> DEFINE Good(st, pr, sk, ac) ==
       /\ st \in Statuses /\ pr \in Statuses /\ sk \in Nat /\ ac \in BOOLEAN
       /\ Set(i, st, pr, sk, ac)
       /\ m # "exit" /\ status[i] # "Exit" /\ prev[i] # "Exit" => st # "Exit" /\ pr # "Exit"
       /\ m # "step" /\ Resumable(status[i], prev[i], stack[i], active[i])
             => Resumable(st, pr, sk, ac)
<1> SUFFICES \E st, pr, sk, ac : Good(st, pr, sk, ac)
  OBVIOUS
<1>2. CASE m = "exit"
  <2>1. Set(i, "Exit", prev[i], 0, active[i])
    BY <1>2 DEF Effect
  <2>2. Good("Exit", prev[i], 0, active[i])
    BY <1>1, <1>2, <2>1 DEF Statuses, Resumable
  <2> QED BY <2>2
<1>3. CASE m \in {"run", "reset"}
  <2>1. Set(i, "Running", prev[i], 0, TRUE)
    BY <1>3 DEF Effect
  <2>2. /\ "Running" \in Statuses /\ 0 \in Nat /\ TRUE \in BOOLEAN
        /\ prev[i] # "FrameStep" => Resumable("Running", prev[i], 0, TRUE)
        /\ Resumable(status[i], prev[i], stack[i], active[i]) => prev[i] # "FrameStep"
    BY <1>1 DEF Statuses, Resumable
  <2>3. Good("Running", prev[i], 0, TRUE)
    BY <1>1, <2>1, <2>2
  <2> QED BY <2>3
<1>4. CASE m = "pause" /\ stack[i] = 0
  <2>1. Set(i, "Paused", status[i], 1, active[i])
    BY <1>4 DEF Effect
  <2>2. Good("Paused", status[i], 1, active[i])
    BY <1>1, <1>4, <2>1 DEF Statuses, Resumable
  <2> QED BY <2>2
<1>5. CASE m = "pause" /\ stack[i] > 0
  <2>1. Set(i, status[i], prev[i], stack[i] + 1, active[i])
    BY <1>1, <1>5 DEF Effect
  <2>2. Good(status[i], prev[i], stack[i] + 1, active[i])
    BY <1>1, <1>5, <2>1 DEF Resumable
  <2> QED BY <2>2
<1>6. CASE m = "unpause" /\ stack[i] = 1
  <2>1. Set(i, prev[i], prev[i], 0, active[i])
    BY <1>6 DEF Effect
  <2>2. Good(prev[i], prev[i], 0, active[i])
    BY <1>1, <1>6, <2>1 DEF Resumable
  <2> QED BY <2>2
<1>7. CASE m = "unpause" /\ stack[i] > 1
  <2>1. Set(i, status[i], prev[i], stack[i] - 1, active[i])
    BY <1>1, <1>7 DEF Effect
  <2>2. Good(status[i], prev[i], stack[i] - 1, active[i])
    BY <1>1, <1>7, <2>1 DEF Resumable
  <2> QED BY <2>2
<1>8. CASE m = "stop"
  <2>1. Set(i, "Paused", prev[i], stack[i], FALSE)
    BY <1>8 DEF Effect
  <2>2. Good("Paused", prev[i], stack[i], FALSE)
    BY <1>1, <2>1 DEF Statuses, Resumable
  <2> QED BY <2>2
<1>9. CASE m = "step"
  <2>1. Set(i, "FrameStep", prev[i], stack[i], active[i])
    BY <1>9 DEF Effect
  <2>2. Good("FrameStep", prev[i], stack[i], active[i])
    BY <1>1, <1>9, <2>1 DEF Statuses
  <2> QED BY <2>2
<1>10. CASE m \notin {"exit", "run", "reset", "stop", "step", "pause", "unpause"}
            \/ (m = "unpause" /\ stack[i] = 0)
  <2>0. /\ m # "exit" /\ m \notin {"run", "reset"} /\ m # "stop" /\ m # "step"
        /\ ~(m = "pause" /\ stack[i] = 0) /\ ~(m = "pause" /\ stack[i] > 0)
        /\ ~(m = "unpause" /\ stack[i] = 1) /\ ~(m = "unpause" /\ stack[i] > 1)
    BY <1>1, <1>10
  <2>1. UNCHANGED control
    BY <2>0, Zenon DEF Effect
  <2>2. Set(i, status[i], prev[i], stack[i], active[i])
    BY <2>1 DEF Set, control, TypeOK
  <2>3. Good(status[i], prev[i], stack[i], active[i])
    BY <1>1, <2>2
  <2> QED BY <2>3
<1> QED BY <1>1, <1>2, <1>3, <1>4, <1>5, <1>6, <1>7, <1>8, <1>9, <1>10

-----------------------------------------------------------------------------
(* The types.                                                              *)

\* A step keeps every variable in its range: no semaphore and no pause stack is taken below zero.
LEMMA TypeStep ==
  ASSUME EmuControlAssumption, TypeOK, Todos, [Next]_vars
  PROVE  TypeOK'
<1>1. ASSUME NEW i \in Insts, NEW op \in Ops, Menu(op, i)
      PROVE  TypeOK'
  BY SMTT(40), <1>1 DEF Menu, control, TypeOK, EmuControlAssumption
<1>2. ASSUME NEW i \in Insts, NEW op \in Ops, Key(op, i)
      PROVE  TypeOK'
  BY SMTT(40), <1>2 DEF Key, control, TypeOK, EmuControlAssumption
<1>3. ASSUME NEW i \in Insts, Frame(i)
      PROVE  TypeOK'
  <2>1. status' \in [Insts -> Statuses] /\ at' \in [Insts -> {"top", "framed", "handle", "lent", "gone"}]
    BY <1>3 DEF Frame, TypeOK, Statuses
  <2>2. current' \in [Insts -> BOOLEAN]
    BY <1>3 DEF Frame, TypeOK, Emulates
  <2> QED BY <1>3, <2>1, <2>2 DEF Frame, TypeOK
<1>4. ASSUME NEW i \in Insts, PowerOff(i)
      PROVE  TypeOK'
  BY SMTT(40), <1>4 DEF PowerOff, control, TypeOK, EmuControlAssumption
<1>5. ASSUME NEW i \in Insts, Lock(i)
      PROVE  TypeOK'
  BY <1>5 DEF Lock, control, TypeOK
<1>6. ASSUME NEW i \in Insts, Handle(i)
      PROVE  TypeOK'
  <2>1. queue[i] \in Seq(Messages \X Threads) /\ queue[i] # <<>>
    BY <1>6 DEF Handle, TypeOK
  <2>2. Head(queue[i])[1] \in Messages /\ Tail(queue[i]) \in Seq(Messages \X Threads)
    <3> DEFINE q == queue[i]
    <3>1. q \in Seq(Messages \X Threads) /\ q # <<>>
      BY <2>1
    <3> HIDE DEF q
    <3>2. Head(q) \in Messages \X Threads /\ Tail(q) \in Seq(Messages \X Threads)
      BY <3>1
    <3> QED BY <3>2 DEF q
  <2>3. /\ status' \in [Insts -> Statuses] /\ prev' \in [Insts -> Statuses]
        /\ stack' \in [Insts -> Nat] /\ active' \in [Insts -> BOOLEAN]
    <3>1. Effect(i, Head(queue[i])[1])
      BY <1>6 DEF Handle
    <3>2. PICK st \in Statuses, pr \in Statuses, sk \in Nat, ac \in BOOLEAN : Set(i, st, pr, sk, ac)
      BY <2>2, <3>1, Effects
    <3> QED BY <3>2 DEF Set, TypeOK
  <2>4. queue' \in [Insts -> Seq(Messages \X Threads)] /\ tokens' \in [Insts -> Nat]
    BY <1>6, <2>2 DEF Handle, TypeOK
  <2>5. current' \in [Insts -> BOOLEAN] /\ lend' \in [Insts -> BOOLEAN]
    BY <1>6 DEF Handle, TypeOK
  <2> QED BY <1>6, <2>3, <2>4, <2>5 DEF Handle, TypeOK
<1>7. ASSUME NEW i \in Insts, Unlock(i)
      PROVE  TypeOK'
  BY <1>7 DEF Unlock, control, TypeOK
<1>8. ASSUME NEW t \in Threads, SendMessage(t)
      PROVE  TypeOK'
  <2>1. todo[t] # <<>> /\ Head(todo[t]).do = "send"
    BY <1>8 DEF SendMessage, Due
  <2>2. Head(todo[t]) \in CallSteps /\ Usual(Head(todo[t]))
    BY <2>1, DueTyped
  <2>3. Head(todo[t]).inst \in Insts /\ Head(todo[t]).what \in Messages
    BY <2>1, <2>2 DEF CallSteps, Usual
  <2>4. queue' = [queue EXCEPT ![Head(todo[t]).inst] = Append(@, <<Head(todo[t]).what, t>>)]
    BY <1>8 DEF SendMessage
  <2>5. queue' \in [Insts -> Seq(Messages \X Threads)]
    <3>1. <<Head(todo[t]).what, t>> \in Messages \X Threads
      BY <2>3
    <3>2. \A q \in Seq(Messages \X Threads) :
             Append(q, <<Head(todo[t]).what, t>>) \in Seq(Messages \X Threads)
      BY <3>1
    <3>3. queue \in [Insts -> Seq(Messages \X Threads)]
      BY DEF TypeOK
    <3> QED BY <2>3, <2>4, <3>2, <3>3
  <2> QED BY <1>8, <2>5 DEF SendMessage, control, TypeOK
<1>9. ASSUME NEW t \in Threads, WaitMessage(t)
      PROVE  TypeOK'
  <2>1. todo[t] # <<>>
    BY <1>9 DEF WaitMessage, Due
  <2>2. Head(todo[t]) \in CallSteps
    BY <2>1, DueTyped
  <2>3. Head(todo[t]).inst \in Insts /\ Head(todo[t]).n \in Nat
    BY <2>2 DEF CallSteps
  <2>4. tokens' \in [Insts -> Nat]
    BY <1>9, <2>3 DEF WaitMessage, TypeOK
  <2> QED BY <1>9, <2>4 DEF WaitMessage, control, TypeOK
<1>10. ASSUME NEW t \in Threads, WaitAllMessages(t)
       PROVE  TypeOK'
  <2>1. todo[t] # <<>>
    BY <1>10 DEF WaitAllMessages, Due
  <2>2. Head(todo[t]) \in CallSteps
    BY <2>1, DueTyped
  <2>3. Head(todo[t]).inst \in Insts
    BY <2>2 DEF CallSteps
  <2>4. tokens' \in [Insts -> Nat]
    BY <1>10, <2>3 DEF WaitAllMessages, TypeOK
  <2> QED BY <1>10, <2>4 DEF WaitAllMessages, control, TypeOK
<1>11. ASSUME NEW t \in Threads, UseContext(t)
       PROVE  TypeOK'
  BY <1>11 DEF UseContext, control, TypeOK
<1>12. ASSUME NEW t \in Threads, ReturnGL(t)
       PROVE  TypeOK'
  BY <1>12 DEF ReturnGL, control, TypeOK
<1>13. ASSUME NEW t \in Threads, Join(t)
       PROVE  TypeOK'
  BY <1>13 DEF Join, control, TypeOK
<1>14. CASE UNCHANGED vars
  BY <1>14 DEF vars, control, TypeOK
<1> QED BY <1>1, <1>2, <1>3, <1>4, <1>5, <1>6, <1>7, <1>8, <1>9, <1>10, <1>11, <1>12, <1>13,
           <1>14 DEF Next, Loop, Step

-----------------------------------------------------------------------------
(* The calls are made of their steps.                                      *)

\* A call is begun, a step of it done, or no call is touched.
LEMMA TodoStep ==
  ASSUME EmuControlAssumption, Todos, [Next]_vars
  PROVE  /\ use' = use
         /\ \/ todo' = todo
            \/ \E t \in Threads, i \in Insts, op \in Ops :
                  /\ op \in use.menu \cup use.keys
                  /\ todo' = [todo EXCEPT ![t] = Steps(op, i)]
            \/ \E t \in Threads : todo[t] # <<>> /\ todo' = [todo EXCEPT ![t] = Tail(@)]
<1>1. ASSUME NEW i \in Insts, NEW op \in Ops, Menu(op, i) \/ Key(op, i)
      PROVE  /\ use' = use /\ op \in use.menu \cup use.keys
             /\ \E t \in Threads : todo' = [todo EXCEPT ![t] = Steps(op, i)]
  BY <1>1 DEF Menu, Key, Threads
<1>2. ASSUME NEW i \in Insts, PowerOff(i)
      PROVE  /\ use' = use /\ "stop" \in Ops /\ "stop" \in use.menu \cup use.keys
             /\ i \in Threads /\ todo' = [todo EXCEPT ![i] = Steps("stop", i)]
  BY <1>2 DEF PowerOff, Threads, Ops
<1>3. ASSUME NEW i \in Insts, Loop(i)
      PROVE  use' = use /\ todo' = todo
  BY <1>3 DEF Loop, Frame, Lock, Handle, Unlock
<1>4. ASSUME NEW t \in Threads, Step(t)
      PROVE  /\ use' = use
             /\ todo' = todo \/ (todo[t] # <<>> /\ todo' = [todo EXCEPT ![t] = Tail(@)])
  BY <1>4 DEF Step, SendMessage, WaitMessage, WaitAllMessages, UseContext, ReturnGL, Join,
              Due, Advance
<1>5. CASE UNCHANGED vars
  BY <1>5 DEF vars
<1> QED BY <1>1, <1>2, <1>3, <1>4, <1>5 DEF Next

\* What a thread has yet to do stays made of steps that the uses offer.
LEMMA TodosStep ==
  ASSUME EmuControlAssumption, Todos, [Next]_vars
  PROVE  Todos'
<1>1. use' = use
  BY TodoStep
<1>3. todo \in [Threads -> Seq(CallSteps)]
  BY DEF Todos
<1>4. CASE todo' = todo
  BY <1>1, <1>4 DEF Todos, Usual, Stepped
<1>5. ASSUME NEW t \in Threads, NEW s \in Seq(CallSteps), \A k \in 1 .. Len(s) : Usual(s[k]),
             todo' = [todo EXCEPT ![t] = s]
      PROVE  Todos'
  <2>1. todo' \in [Threads -> Seq(CallSteps)]
    BY <1>3, <1>5
  <2>2. ASSUME NEW u \in Threads, NEW k \in 1 .. Len(todo'[u])
        PROVE  Usual(todo'[u][k])
    BY <1>3, <1>5 DEF Todos
  <2> QED BY <1>1, <2>1, <2>2 DEF Todos, Usual, Stepped
<1>6. ASSUME NEW t \in Threads, NEW i \in Insts, NEW op \in Ops,
             op \in use.menu \cup use.keys, todo' = [todo EXCEPT ![t] = Steps(op, i)]
      PROVE  Todos'
  BY <1>5, <1>6, StepsTyped
<1>7. ASSUME NEW t \in Threads, todo[t] # <<>>, todo' = [todo EXCEPT ![t] = Tail(@)]
      PROVE  Todos'
  <2>1. todo' = [todo EXCEPT ![t] = Tail(todo[t])]
    BY <1>7
  <2> QED BY <1>5, <1>7, <2>1, DueTyped
<1> QED BY <1>4, <1>6, <1>7, TodoStep

-----------------------------------------------------------------------------
(* The pauses.                                                             *)

\* A step that pauses a console counts the pause, and one that takes the last pause back lets the
\* console go on: no message leaves it paused with nothing counted.
LEMMA PausesStep ==
  ASSUME EmuControlAssumption, TypeOK, Todos, Pauses, [Next]_vars
  PROVE  Pauses'
<1>1. use' = use
  BY TodoStep
<1> SUFFICES ASSUME ~Stepped, NEW j \in Insts
             PROVE  /\ \A k \in 1 .. Len(queue'[j]) : queue'[j][k][1] # "step"
                    /\ Resumable(status'[j], prev'[j], stack'[j], active'[j])
  BY <1>1 DEF Pauses, Stepped, Resumable
<1>2. \A i \in Insts : /\ \A k \in 1 .. Len(queue[i]) : queue[i][k][1] # "step"
                       /\ Resumable(status[i], prev[i], stack[i], active[i])
  BY DEF Pauses
<1>3. CASE UNCHANGED <<queue, control>>
  BY <1>2, <1>3 DEF control
<1>4. ASSUME NEW i \in Insts, Frame(i)
      PROVE  /\ \A k \in 1 .. Len(queue'[j]) : queue'[j][k][1] # "step"
             /\ Resumable(status'[j], prev'[j], stack'[j], active'[j])
  <2>1. status[i] # "FrameStep" /\ status \in [Insts -> Statuses]
    BY <1>2 DEF Resumable, TypeOK
  <2>2. status' = status
    BY <1>4, <2>1 DEF Frame
  <2> QED BY <1>2, <1>4, <2>2 DEF Frame
<1>5. ASSUME NEW i \in Insts, Handle(i)
      PROVE  /\ \A k \in 1 .. Len(queue'[j]) : queue'[j][k][1] # "step"
             /\ Resumable(status'[j], prev'[j], stack'[j], active'[j])
  <2> DEFINE q == queue[i]
  <2>1. q \in Seq(Messages \X Threads) /\ q # <<>>
    BY <1>5 DEF Handle, TypeOK
  <2>2. \A k \in 1 .. Len(q) : q[k][1] # "step"
    BY <1>2
  <2>3. queue' = [queue EXCEPT ![i] = Tail(q)] /\ Effect(i, Head(q)[1])
    BY <1>5 DEF Handle
  <2> HIDE DEF q
  <2>4. /\ Head(q) = q[1] /\ q[1] \in Messages \X Threads /\ 1 \in 1 .. Len(q)
        /\ \A k \in 1 .. Len(Tail(q)) : Tail(q)[k] = q[k + 1] /\ k + 1 \in 1 .. Len(q)
    BY <2>1
  <2>5. Head(q)[1] # "step" /\ Head(q)[1] \in Messages
    BY <2>2, <2>4
  <2>6. PICK st \in Statuses, pr \in Statuses, sk \in Nat, ac \in BOOLEAN :
           /\ Set(i, st, pr, sk, ac)
           /\ Resumable(status[i], prev[i], stack[i], active[i]) => Resumable(st, pr, sk, ac)
    BY <2>3, <2>5, Effects
  <2>7. \A k \in 1 .. Len(queue'[j]) : queue'[j][k][1] # "step"
    <3>1. queue'[j] = IF j = i THEN Tail(q) ELSE queue[j]
      BY <2>3 DEF TypeOK
    <3> QED BY <1>2, <2>2, <2>4, <3>1
  <2>8. Resumable(status'[j], prev'[j], stack'[j], active'[j])
    <3>1. Resumable(st, pr, sk, ac)
      BY <1>2, <2>6
    <3>2. CASE j = i
      <4>1. status'[j] = st /\ prev'[j] = pr /\ stack'[j] = sk /\ active'[j] = ac
        BY <2>6, <3>2 DEF Set, TypeOK
      <4> QED BY <3>1, <4>1
    <3>3. CASE j # i
      <4>1. /\ status'[j] = status[j] /\ prev'[j] = prev[j]
            /\ stack'[j] = stack[j] /\ active'[j] = active[j]
        BY <2>6, <3>3 DEF Set, TypeOK
      <4> QED BY <1>2, <4>1
    <3> QED BY <3>2, <3>3
  <2> QED BY <2>7, <2>8
<1>6. ASSUME NEW t \in Threads, SendMessage(t)
      PROVE  /\ \A k \in 1 .. Len(queue'[j]) : queue'[j][k][1] # "step"
             /\ Resumable(status'[j], prev'[j], stack'[j], active'[j])
  <2> DEFINE a == Head(todo[t])
  <2>1. todo[t] # <<>>
    BY <1>6 DEF SendMessage, Due
  <2>2. a \in CallSteps /\ a.what # "step"
    BY <2>1, DueTyped DEF Usual
  <2>3. a.inst \in Insts
    BY <2>2 DEF CallSteps
  <2>4. queue' = [queue EXCEPT ![a.inst] = Append(@, <<a.what, t>>)] /\ UNCHANGED control
    BY <1>6 DEF SendMessage
  <2> HIDE DEF a
  <2>5. queue'[j] = IF j = a.inst THEN Append(queue[j], <<a.what, t>>) ELSE queue[j]
    BY <2>3, <2>4 DEF TypeOK
  <2>6. queue[j] \in Seq(Messages \X Threads)
    BY DEF TypeOK
  <2>7. \A k \in 1 .. Len(queue'[j]) : \/ queue'[j][k] = queue[j][k] /\ k \in 1 .. Len(queue[j])
                                       \/ queue'[j][k] = <<a.what, t>>
    BY <2>5, <2>6
  <2> QED BY <1>2, <2>2, <2>4, <2>7 DEF control
<1>7. CASE /\ [Next]_vars
           /\ ~\E i \in Insts : Frame(i) \/ Handle(i)
           /\ ~\E t \in Threads : SendMessage(t)
  <2>1. UNCHANGED <<queue, control>>
    BY <1>7 DEF Next, Menu, Key, Loop, Lock, Unlock, PowerOff, Step, WaitMessage,
                WaitAllMessages, UseContext, ReturnGL, Join, vars
  <2> QED BY <1>3, <2>1
<1> QED BY <1>4, <1>5, <1>6, <1>7

-----------------------------------------------------------------------------
(* The calls of the menus, when only menus are used and no frame is        *)
(* stepped.                                                                *)

\* What is left of a call when its first step is done.
LEMMA Rest ==
  ASSUME NEW s \in Seq(CallSteps), s # <<>>, Called(s)
  PROVE  /\ Regular(Tail(s)) /\ Follows(s, 1) /\ Call(s)
         /\ \A k \in 1 .. Len(Tail(s)) : Tail(s)[k].do = "send" => at[Tail(s)[k].inst] # "gone"
         /\ Len(s) \in Nat \ {0} /\ Len(Tail(s)) = Len(s) - 1
         /\ Tail(s) = <<>> <=> Len(s) = 1
         /\ Len(s) > 1 => Tail(s)[1] = s[2] /\ s[2] \in CallSteps
         /\ Len(s) > 2 => Tail(s)[2] = s[3]
<1>1. Len(s) \in Nat \ {0} /\ Len(Tail(s)) = Len(s) - 1 /\ Tail(s) \in Seq(CallSteps)
  OBVIOUS
<1>2. \A k \in 1 .. Len(Tail(s)) : Tail(s)[k] = s[k + 1]
  OBVIOUS
<1>3. Regular(Tail(s))
  BY TailRegular DEF Called
<1>4. Follows(s, 1) /\ Call(s)
  BY <1>1 DEF Called, Regular
<1>5. ASSUME NEW k \in 1 .. Len(Tail(s)), Tail(s)[k].do = "send"
      PROVE  at[Tail(s)[k].inst] # "gone"
  <2>1. k + 1 \in 1 .. Len(s)
    BY <1>1
  <2> QED BY <1>2, <1>5, <2>1 DEF Called
<1>6. Len(s) > 1 => Tail(s)[1] = s[2] /\ s[2] \in CallSteps
  BY <1>1, <1>2
<1>7. Len(s) > 2 => Tail(s)[2] = s[3]
  BY <1>1, <1>2
<1>8. Tail(s) = <<>> <=> Len(s) = 1
  BY <1>1
<1> QED BY <1>1, <1>3, <1>4, <1>5, <1>6, <1>7, <1>8

\* A step that does not touch what is said of an instance.
Same(i) ==
    /\ queue'[i] = queue[i] /\ tokens'[i] = tokens[i]
    /\ at'[i] = "gone" <=> at[i] = "gone"
    /\ status'[i] = status[i] /\ prev'[i] = prev[i]

\* An instance a step does not touch is as quiet, and owes as much, as before.
LEMMA SameQuiet ==
  ASSUME NEW i \in Insts, Same(i)
  PROVE  /\ Quiet(i) => Quiet(i)'
         /\ \A n : Owes(i, n) => Owes(i, n)'
         /\ Leaves(i) => Leaves(i)'
  BY DEF Same, Quiet, Owes, Leaves, Stays

\* What is to be shown of the steps left in the next state.
LEMMA CalledNext ==
  ASSUME NEW s, todo'[UI] = s, Regular(s),
         \A k \in 1 .. Len(s) : s[k].do = "send" => at'[s[k].inst] # "gone",
         s = <<>> => \A i \in Insts : Quiet(i)',
         s # <<>> => Call(s)'
  PROVE  Called(todo[UI])'
<1>1. Regular(todo[UI])'
  BY DEF Regular, Follows
<1>2. s # <<>> => Call(todo[UI])'
  BY DEF Call, Quiet, Owes, Stays, Leaves, Lent
<1>3. s = <<>> => \A i \in Insts : Quiet(i)'
  OBVIOUS
<1> QED BY <1>1, <1>2, <1>3 DEF Called

\* A menu calls: it is quiet.
LEMMA MenuCalls ==
  ASSUME EmuControlAssumption, Alone, Todos, Called(todo[UI]), NEW i \in Insts, NEW op \in Ops,
         Menu(op, i)
  PROVE  Called(todo[UI])'
<1>0. PICK s : s = Steps(op, i)
  OBVIOUS
<1>1. /\ todo[UI] = <<>> /\ at[i] # "gone" /\ op \in Ops \ {"step"}
      /\ UNCHANGED <<queue, tokens, control, at, current, lend, use>>
      /\ todo' = [todo EXCEPT ![UI] = s]
  BY <1>0 DEF Menu, Alone, Stepped
<1>2. todo'[UI] = s
  BY <1>1 DEF Todos, Threads
<1>3. /\ Regular(s) /\ Len(s) > 0 /\ s[1].do = "send" /\ s[1].what # "saved"
      /\ \A k \in 1 .. Len(s) : s[k].do = "send" => at[s[k].inst] # "gone"
  BY <1>0, <1>1, StepsRegular
<1>4. s \in Seq(CallSteps) /\ op \in use.menu
  BY <1>0, StepsTyped DEF Menu
<1>5. s # <<>> /\ s[1].inst \in Insts
  <2>1. s[1] \in CallSteps
    BY <1>3, <1>4
  <2> QED BY <1>3, <1>4, <2>1 DEF CallSteps
<1>6. \A j \in Insts : Quiet(j)'
  BY <1>1 DEF Called, Quiet, Stays, control
<1>7. Call(s)'
  <2>1. Quiet(s[1].inst)' /\ \A j \in Insts \ {s[1].inst} : Quiet(j)'
    BY <1>5, <1>6
  <2> QED BY <1>3, <2>1 DEF Call
<1>8. \A k \in 1 .. Len(s) : s[k].do = "send" => at'[s[k].inst] # "gone"
  BY <1>1, <1>3
<1> QED BY <1>2, <1>3, <1>5, <1>7, <1>8, CalledNext

\* What is known of the UI thread's call when a step of it is due.
LEMMA UIDue ==
  ASSUME Todos, Called(todo[UI]), todo[UI] # <<>>
  PROVE  \E s, u, a, i :
            /\ s = todo[UI] /\ u = Tail(todo[UI]) /\ a = s[1] /\ a = Head(todo[UI]) /\ i = a.inst
            /\ a \in CallSteps /\ i \in Insts /\ a.n \in Nat /\ Usual(a)
            /\ Regular(u) /\ Follows(s, 1) /\ Call(s)
            /\ \A k \in 1 .. Len(u) : u[k].do = "send" => at[u[k].inst] # "gone"
            /\ a.do = "send" => at[i] # "gone"
            /\ Len(s) \in Nat \ {0} /\ Len(u) = Len(s) - 1
            /\ u = <<>> <=> Len(s) = 1
            /\ Len(s) > 1 => u[1] = s[2] /\ s[2] \in CallSteps
            /\ Len(s) > 2 => u[2] = s[3]
<1>1. UI \in Threads
  BY DEF Threads
<1>2. PICK s : s = todo[UI]
  OBVIOUS
<1>3. s \in Seq(CallSteps) /\ s # <<>> /\ Called(s)
  BY <1>1, <1>2 DEF Todos
<1>4. PICK u : u = Tail(s)
  OBVIOUS
<1>5. PICK a : a = s[1]
  OBVIOUS
<1>6. a = Head(todo[UI]) /\ a \in CallSteps /\ Usual(a)
  BY <1>1, <1>2, <1>5, DueTyped
<1>7. a.inst \in Insts /\ a.n \in Nat
  BY <1>6 DEF CallSteps
<1>8. /\ Regular(u) /\ Follows(s, 1) /\ Call(s)
      /\ \A k \in 1 .. Len(u) : u[k].do = "send" => at[u[k].inst] # "gone"
      /\ Len(s) \in Nat \ {0} /\ Len(u) = Len(s) - 1
      /\ u = <<>> <=> Len(s) = 1
      /\ Len(s) > 1 => u[1] = s[2] /\ s[2] \in CallSteps
      /\ Len(s) > 2 => u[2] = s[3]
  BY <1>3, <1>4, Rest
<1>9. a.do = "send" => at[a.inst] # "gone"
  BY <1>3, <1>5, <1>8 DEF Called
<1> QED BY <1>2, <1>4, <1>5, <1>6, <1>7, <1>8, <1>9

\* When a call has only quiet instances to do with, whatever comes next finds it so.
LEMMA AllQuiet ==
  ASSUME NEW u, u # <<>>, u[1] \in CallSteps, u[1].do = "send", u[1].what # "saved",
         \A j \in Insts : Quiet(j)'
  PROVE  Call(u)'
<1>1. u[1].inst \in Insts
  BY DEF CallSteps
<1> QED BY <1>1 DEF Call

\* The UI thread sends what its call sends next: the instance owes it the token for that
\* message, and for the one sent before it if that was a reset for an import.
LEMMA SendCalls ==
  ASSUME TypeOK, Todos, Alone, Called(todo[UI]), SendMessage(UI)
  PROVE  Called(todo[UI])'
<1>1. todo[UI] # <<>> /\ Head(todo[UI]).do = "send"
  BY DEF SendMessage, Due
<1>2. PICK s, u, a, i :
         /\ s = todo[UI] /\ u = Tail(todo[UI]) /\ a = s[1] /\ a = Head(todo[UI]) /\ i = a.inst
         /\ a \in CallSteps /\ i \in Insts /\ a.n \in Nat /\ Usual(a)
         /\ Regular(u) /\ Follows(s, 1) /\ Call(s)
         /\ \A k \in 1 .. Len(u) : u[k].do = "send" => at[u[k].inst] # "gone"
         /\ a.do = "send" => at[i] # "gone"
         /\ Len(s) \in Nat \ {0} /\ Len(u) = Len(s) - 1
         /\ u = <<>> <=> Len(s) = 1
         /\ Len(s) > 1 => u[1] = s[2] /\ s[2] \in CallSteps
         /\ Len(s) > 2 => u[2] = s[3]
  BY <1>1, UIDue
<1>3. a.do = "send" /\ at[i] # "gone"
  BY <1>1, <1>2
<1>4. /\ queue' = [queue EXCEPT ![i] = Append(@, <<a.what, UI>>)]
      /\ todo' = [todo EXCEPT ![UI] = Tail(@)]
      /\ UNCHANGED <<tokens, control, at, current, lend>>
  BY <1>2 DEF SendMessage, Advance
<1>5. todo'[UI] = u
  BY <1>2, <1>4 DEF Todos, Threads
<1>6. \A j \in Insts \ {i} : Quiet(j)'
  <2>1. \A j \in Insts \ {i} : Quiet(j)
    BY <1>2 DEF Call
  <2>2. \A j \in Insts \ {i} : Same(j)
    BY <1>4 DEF Same, control, TypeOK
  <2> QED BY <2>1, <2>2, SameQuiet
<1>7. queue[i] \in Seq(Messages \X Threads) /\ tokens[i] \in Nat
  BY <1>2 DEF TypeOK
<1>8. queue'[i] = Append(queue[i], <<a.what, UI>>)
  BY <1>2, <1>4 DEF TypeOK
<1>9. \A n \in Nat : Owes(i, n) /\ a.what # "exit" => Owes(i, n + 1)'
  <2>1. ASSUME NEW n \in Nat, Owes(i, n), a.what # "exit"
        PROVE  Owes(i, n + 1)'
    <3>1. tokens'[i] + Len(queue'[i]) = n + 1
      BY <1>4, <1>7, <1>8, <2>1 DEF Owes
    <3>2. \A k \in 1 .. Len(queue'[i]) :
             queue'[i][k] = <<a.what, UI>> \/ (k \in 1 .. Len(queue[i]) /\ queue'[i][k] = queue[i][k])
      BY <1>7, <1>8
    <3>3. \A k \in 1 .. Len(queue'[i]) : queue'[i][k][1] # "exit"
      BY <2>1, <3>2 DEF Owes
    <3>4. Stays(i)'
      BY <1>4, <2>1 DEF Owes, Stays, control
    <3> QED BY <3>1, <3>3, <3>4 DEF Owes
  <2> QED BY <2>1
<1>10. \A k \in 1 .. Len(u) : u[k].do = "send" => at'[u[k].inst] # "gone"
  BY <1>2, <1>4
<1>11. CASE a.what = "saved"
  <2>1. Owes(i, 1)
    BY <1>2, <1>3, <1>11 DEF Call
  <2>2. Owes(i, 2)'
    <3>1. Owes(i, 1 + 1)'
      BY <1>9, <1>11, <2>1
    <3> QED BY <3>1
  <2>3. /\ Len(s) > 1 /\ s[2] = Wait(2, i)
        /\ Len(s) > 2 => s[3].do # "create"
    BY <1>2, <1>3, <1>11 DEF Follows
  <2>4. u # <<>> /\ u[1].do = "wait" /\ u[1].inst = i /\ u[1].n = 2
    BY <1>2, <2>3, Parts
  <2>5. Len(u) > 1 => u[2].do # "create"
    BY <1>2, <2>3
  <2>6. Call(u)'
    BY <1>6, <2>2, <2>4, <2>5 DEF Call
  <2> QED BY <1>2, <1>5, <1>10, <2>4, <2>6, CalledNext
<1>12. CASE a.what = "exit"
  <2>1. Quiet(i)
    BY <1>2, <1>3, <1>12 DEF Call
  <2>2. queue'[i] = <<<<"exit", UI>>>>
    BY <1>8, <1>12, <2>1 DEF Quiet
  <2>3. Leaves(i)'
    <3>1. Len(queue'[i]) = 1 /\ queue'[i][1][1] = "exit"
      BY <2>2
    <3> QED BY <1>3, <1>4, <3>1 DEF Leaves
  <2>4. Len(s) > 1 /\ s[2] = WaitAll(i)
    BY <1>2, <1>3, <1>12 DEF Follows
  <2>5. u # <<>> /\ u[1].do = "waitall" /\ u[1].inst = i
    BY <1>2, <2>4, Parts
  <2>6. Call(u)'
    BY <1>6, <2>3, <2>5 DEF Call
  <2> QED BY <1>2, <1>5, <1>10, <2>5, <2>6, CalledNext
<1>13. CASE a.what \notin {"saved", "exit"}
  <2>1. Quiet(i)
    BY <1>2, <1>3, <1>13 DEF Call
  <2>2. Owes(i, 0)
    <3>1. tokens[i] = 0 /\ Stays(i) /\ queue[i] = <<>>
      BY <1>3, <2>1 DEF Quiet
    <3> QED BY <3>1 DEF Owes
  <2>3. Owes(i, 1)'
    <3>1. Owes(i, 0 + 1)'
      BY <1>9, <1>13, <2>2
    <3> QED BY <3>1
  <2>4. /\ Len(s) > 1 /\ s[2] \in {Wait(1, i), Send("saved", i)}
        /\ Len(s) > 2 /\ s[3].do = "create" => s[2] = Wait(1, i) /\ a.what = "borrow"
    BY <1>2, <1>3, <1>13 DEF Follows
  <2>5. u # <<>> /\ u[1] = s[2] /\ (Len(u) > 1 => Len(s) > 2 /\ u[2] = s[3])
    BY <1>2, <2>4
  <2>6. CASE s[2] = Send("saved", i)
    <3>1. u[1].do = "send" /\ u[1].what = "saved" /\ u[1].inst = i
      BY <2>5, <2>6, Parts
    <3>2. Call(u)'
      BY <1>6, <2>3, <3>1 DEF Call
    <3> QED BY <1>2, <1>5, <1>10, <2>5, <3>2, CalledNext
  <2>7. CASE s[2] = Wait(1, i)
    <3>1. u[1].do = "wait" /\ u[1].n = 1 /\ u[1].inst = i
      BY <2>5, <2>7, Parts
    <3>2. Len(u) > 1 /\ u[2].do = "create" => a.what = "borrow"
      BY <2>4, <2>5
    <3>3. queue'[i] = <<<<a.what, UI>>>>
      BY <1>8, <2>1 DEF Quiet
    <3>4. Len(queue'[i]) = 1 /\ queue'[i][1][1] = a.what
      BY <3>3
    <3>5. Call(u)'
      BY <1>6, <2>3, <3>1, <3>2, <3>4 DEF Call
    <3> QED BY <1>2, <1>5, <1>10, <2>5, <3>5, CalledNext
  <2> QED BY <2>4, <2>6, <2>7
<1> QED BY <1>11, <1>12, <1>13

\* The UI thread takes its tokens: the instance has handled all it was sent, so that it is quiet
\* when the next message is sent, or its context is lent.
LEMMA WaitCalls ==
  ASSUME EmuControlAssumption, TypeOK, Todos, Alone, Called(todo[UI]), WaitMessage(UI)
  PROVE  Called(todo[UI])'
<1>1. todo[UI] # <<>> /\ Head(todo[UI]).do = "wait"
  BY DEF WaitMessage, Due
<1>2. PICK s, u, a, i :
         /\ s = todo[UI] /\ u = Tail(todo[UI]) /\ a = s[1] /\ a = Head(todo[UI]) /\ i = a.inst
         /\ a \in CallSteps /\ i \in Insts /\ a.n \in Nat /\ Usual(a)
         /\ Regular(u) /\ Follows(s, 1) /\ Call(s)
         /\ \A k \in 1 .. Len(u) : u[k].do = "send" => at[u[k].inst] # "gone"
         /\ a.do = "send" => at[i] # "gone"
         /\ Len(s) \in Nat \ {0} /\ Len(u) = Len(s) - 1
         /\ u = <<>> <=> Len(s) = 1
         /\ Len(s) > 1 => u[1] = s[2] /\ s[2] \in CallSteps
         /\ Len(s) > 2 => u[2] = s[3]
  BY <1>1, UIDue
<1>3. /\ a.do = "wait" /\ UI # i
      /\ tokens[i] >= a.n /\ tokens' = [tokens EXCEPT ![i] = @ - a.n]
      /\ todo' = [todo EXCEPT ![UI] = Tail(@)]
      /\ UNCHANGED <<queue, control, at, current, lend>>
  BY <1>1, <1>2 DEF WaitMessage, Advance, EmuControlAssumption
<1>4. todo'[UI] = u
  BY <1>2, <1>3 DEF Todos, Threads
<1>5. queue[i] \in Seq(Messages \X Threads) /\ tokens[i] \in Nat
  BY <1>2 DEF TypeOK
<1>6. Owes(i, a.n)
  BY <1>2, <1>3 DEF Call
<1>7. queue[i] = <<>> /\ tokens[i] = a.n /\ Stays(i)
  BY <1>2, <1>3, <1>5, <1>6 DEF Owes
<1>8. Quiet(i)'
  <2>1. tokens'[i] = 0
    BY <1>2, <1>3, <1>7 DEF TypeOK
  <2> QED BY <1>3, <1>7, <2>1 DEF Quiet, Stays, control
<1>9. \A j \in Insts : Quiet(j)'
  <2>1. \A j \in Insts \ {i} : Quiet(j)
    BY <1>2 DEF Call
  <2>2. \A j \in Insts \ {i} : Same(j)
    BY <1>3 DEF Same, control, TypeOK
  <2>3. \A j \in Insts \ {i} : Quiet(j)'
    BY <2>1, <2>2, SameQuiet
  <2> QED BY <1>8, <2>3
<1>10. \A k \in 1 .. Len(u) : u[k].do = "send" => at'[u[k].inst] # "gone"
  BY <1>2, <1>3
<1>11. CASE u = <<>>
  BY <1>2, <1>4, <1>9, <1>10, <1>11, CalledNext
<1>12. CASE u # <<>> /\ u[1].do = "send" /\ u[1].what # "saved"
  <2>1. u[1] \in CallSteps
    BY <1>2, <1>12
  <2>2. Call(u)'
    BY <1>9, <1>12, <2>1, AllQuiet
  <2> QED BY <1>2, <1>4, <1>10, <1>12, <2>2, CalledNext
<1>13. CASE u # <<>> /\ u[1] = Do("create", i)
  <2>1. Len(s) > 1 /\ s[2].do = "create"
    BY <1>2, <1>13, Parts
  <2>2. Lent(i)
    <3>1. Lent(i) \/ (Len(queue[i]) = 1 /\ queue[i][1][1] = "borrow")
      BY <1>2, <1>3, <2>1 DEF Call
    <3>2. Len(queue[i]) = 0
      BY <1>7
    <3> QED BY <3>1, <3>2
  <2>3. Lent(i)'
    BY <1>3, <2>2 DEF Lent
  <2>4. u[1].do = "create" /\ u[1].inst = i
    BY <1>13, Parts
  <2>5. Call(u)'
    BY <1>9, <1>8, <2>3, <2>4 DEF Call
  <2> QED BY <1>2, <1>4, <1>10, <1>13, <2>5, CalledNext
<1>14. u # <<>> => \/ u[1].do = "send" /\ u[1].what # "saved"
                   \/ u[1] = Do("create", i)
  <2>1. u # <<>> => 1 < Len(s) /\ u[1] = s[2]
    BY <1>2
  <2>2. 1 < Len(s) => (s[2].do = "send" /\ s[2].what # "saved") \/ s[2] = Do("create", i)
    BY <1>2, <1>3 DEF Follows
  <2> QED BY <2>1, <2>2
<1> QED BY <1>11, <1>12, <1>13, <1>14

\* The UI thread waits for an instance that leaves, deletes it, or uses the lent context and
\* gives it back: all instances are quiet when the call returns.
LEMMA OtherCalls ==
  ASSUME EmuControlAssumption, TypeOK, Todos, Alone, Called(todo[UI]),
         WaitAllMessages(UI) \/ UseContext(UI) \/ ReturnGL(UI) \/ Join(UI)
  PROVE  Called(todo[UI])'
<1>1. todo[UI] # <<>>
  BY DEF WaitAllMessages, UseContext, ReturnGL, Join, Due
<1>2. PICK s, u, a, i :
         /\ s = todo[UI] /\ u = Tail(todo[UI]) /\ a = s[1] /\ a = Head(todo[UI]) /\ i = a.inst
         /\ a \in CallSteps /\ i \in Insts /\ a.n \in Nat /\ Usual(a)
         /\ Regular(u) /\ Follows(s, 1) /\ Call(s)
         /\ \A k \in 1 .. Len(u) : u[k].do = "send" => at[u[k].inst] # "gone"
         /\ a.do = "send" => at[i] # "gone"
         /\ Len(s) \in Nat \ {0} /\ Len(u) = Len(s) - 1
         /\ u = <<>> <=> Len(s) = 1
         /\ Len(s) > 1 => u[1] = s[2] /\ s[2] \in CallSteps
         /\ Len(s) > 2 => u[2] = s[3]
  BY <1>1, UIDue
<1>3. UI # i /\ \A j \in Insts \ {i} : Quiet(j)
  BY <1>2 DEF Call, EmuControlAssumption
<1>4. CASE WaitAllMessages(UI)
  <2>1. a.do = "waitall" /\ UNCHANGED <<queue, control, at, current, lend>>
    BY <1>2, <1>4 DEF WaitAllMessages, Due
  <2>2. \/ queue[i] = <<>> /\ todo' = [todo EXCEPT ![UI] = Tail(@)] /\ tokens' = tokens
        \/ todo' = todo /\ tokens' = [tokens EXCEPT ![i] = @ - 1]
    BY <1>2, <1>3, <1>4 DEF WaitAllMessages, Advance
  <2>3. \A j \in Insts \ {i} : Quiet(j)'
    <3>1. \A j \in Insts \ {i} : Same(j)
      BY <1>2, <2>1, <2>2 DEF Same, control, TypeOK
    <3> QED BY <1>3, <3>1, SameQuiet
  <2>4. Leaves(i) /\ Leaves(i)'
    BY <1>2, <2>1 DEF Call, Leaves
  <2>5. CASE queue[i] = <<>> /\ todo' = [todo EXCEPT ![UI] = Tail(@)]
    <3>1. todo'[UI] = u
      BY <1>2, <2>5 DEF Todos, Threads
    <3>2. Len(s) = 2 /\ s[2] = Do("join", i)
      BY <1>2, <2>1 DEF Follows
    <3>3. u # <<>> /\ u[1].do = "join" /\ u[1].inst = i
      BY <1>2, <3>2, Parts
    <3>4. queue'[i] = <<>>
      BY <2>1, <2>5
    <3>5. Call(u)'
      BY <2>3, <3>3, <3>4 DEF Call
    <3>6. \A k \in 1 .. Len(u) : u[k].do = "send" => at'[u[k].inst] # "gone"
      BY <1>2, <2>1
    <3> QED BY <1>2, <3>1, <3>3, <3>5, <3>6, CalledNext
  <2>6. CASE todo' = todo
    <3>1. todo'[UI] = s /\ s # <<>>
      BY <1>1, <1>2, <2>6
    <3>2. Call(s)'
      BY <1>2, <2>1, <2>3, <2>4 DEF Call
    <3>3. Regular(s) /\ \A k \in 1 .. Len(s) : s[k].do = "send" => at'[s[k].inst] # "gone"
      BY <1>2, <2>1 DEF Called
    <3> QED BY <3>1, <3>2, <3>3, CalledNext
  <2> QED BY <2>2, <2>5, <2>6
<1>5. CASE UseContext(UI)
  <2>1. /\ a.do = "create" /\ UNCHANGED <<queue, tokens, control, at, current, lend>>
        /\ todo' = [todo EXCEPT ![UI] = Tail(@)]
    BY <1>2, <1>5 DEF UseContext, Due, Advance
  <2>2. todo'[UI] = u
    BY <1>2, <2>1 DEF Todos, Threads
  <2>3. Quiet(i) /\ Lent(i)
    BY <1>2, <2>1 DEF Call
  <2>4. \A j \in Insts : Quiet(j)'
    <3>1. \A j \in Insts : Same(j) /\ Quiet(j)
      BY <1>3, <2>1, <2>3 DEF Same, control
    <3> QED BY <3>1, SameQuiet
  <2>5. Lent(i)'
    BY <2>1, <2>3 DEF Lent
  <2>6. Len(s) = 2 /\ s[2] = Do("return", i)
    BY <1>2, <2>1 DEF Follows
  <2>7. u # <<>> /\ u[1].do = "return" /\ u[1].inst = i
    BY <1>2, <2>6, Parts
  <2>8. Call(u)'
    <3>1. Quiet(i)' /\ \A j \in Insts \ {i} : Quiet(j)'
      BY <1>2, <2>4
    <3> QED BY <2>5, <2>7, <3>1 DEF Call
  <2>9. \A k \in 1 .. Len(u) : u[k].do = "send" => at'[u[k].inst] # "gone"
    BY <1>2, <2>1
  <2> QED BY <1>2, <2>2, <2>7, <2>8, <2>9, CalledNext
<1>6. CASE ReturnGL(UI) \/ Join(UI)
  <2>1. /\ a.do \in {"return", "join"} /\ UNCHANGED <<queue, tokens, control>>
        /\ todo' = [todo EXCEPT ![UI] = Tail(@)]
        /\ a.do = "join" => at[i] = "gone" /\ at' = at
        /\ a.do = "return" => at' = [at EXCEPT ![i] = IF @ = "lent" THEN "top" ELSE @]
    BY <1>2, <1>6 DEF ReturnGL, Join, Due, Advance
  <2>2. todo'[UI] = u
    BY <1>2, <2>1 DEF Todos, Threads
  <2>3. Len(s) = 1
    BY <1>2, <2>1 DEF Follows
  <2>4. u = <<>>
    BY <1>2, <2>3
  <2>5. \A j \in Insts : Same(j)
    <3>1. \A j \in Insts : at'[j] = "gone" <=> at[j] = "gone"
      BY <1>2, <2>1 DEF TypeOK
    <3> QED BY <2>1, <3>1 DEF Same, control
  <2>6. Quiet(i)
    <3>1. a.do = "return" => Quiet(i)
      BY <1>2 DEF Call
    <3>2. a.do = "join" => queue[i] = <<>> /\ at[i] = "gone"
      BY <1>2, <2>1 DEF Call
    <3> QED BY <2>1, <3>1, <3>2 DEF Quiet
  <2>7. \A j \in Insts : Quiet(j)'
    BY <1>3, <2>5, <2>6, SameQuiet
  <2>8. Regular(u) /\ \A k \in 1 .. Len(u) : u[k].do = "send" => at'[u[k].inst] # "gone"
    BY <1>2, <2>4
  <2> QED BY <2>2, <2>4, <2>7, <2>8, CalledNext
<1> QED BY <1>4, <1>5, <1>6

\* A step of an emulation thread that takes no message: it is still as the call finds it.
LEMMA LoopCalls ==
  ASSUME TypeOK, Todos, Called(todo[UI]), NEW i \in Insts, Frame(i) \/ Lock(i) \/ Unlock(i)
  PROVE  Called(todo[UI])'
<1>1. PICK s : s = todo[UI]
  OBVIOUS
<1>2. Called(s) /\ s \in Seq(CallSteps) /\ todo'[UI] = s
  BY <1>1 DEF Frame, Lock, Unlock, Todos, Threads
<1>3. UNCHANGED <<queue, tokens, prev>>
  BY DEF Frame, Lock, Unlock, control
<1>4. /\ \A j \in Insts \ {i} : status'[j] = status[j] /\ at'[j] = at[j]
      /\ \A j \in Insts \ {i} : current'[j] = current[j] /\ lend'[j] = lend[j]
  BY DEF Frame, Lock, Unlock, control, TypeOK
<1>5. \A j \in Insts \ {i} : Same(j)
  BY <1>3, <1>4 DEF Same
<1>6. at[i] # "gone" /\ (status[i] # "Exit" => at'[i] # "gone" /\ status'[i] # "Exit")
  BY DEF Frame, Lock, Unlock, control, TypeOK
<1>7. /\ Quiet(i) => Quiet(i)'
      /\ \A n : Owes(i, n) => Owes(i, n)'
  BY <1>3, <1>6 DEF Quiet, Owes, Stays
<1>8. Leaves(i) => Leaves(i)'
  <2>1. queue[i] = <<>> \/ at'[i] # "gone"
    BY DEF Frame, Lock, Unlock, TypeOK
  <2> QED BY <1>3, <2>1 DEF Leaves
<1>9. Lent(i) => Lent(i)'
  <2>1. CASE Frame(i)
    BY <2>1 DEF Frame, Lent
  <2>2. CASE Lock(i)
    BY <2>2 DEF Lock, Lent
  <2>3. CASE Unlock(i)
    BY <2>3 DEF Unlock, Lent, TypeOK
  <2> QED BY <2>1, <2>2, <2>3
<1>10. \A j \in Insts : /\ Quiet(j) => Quiet(j)'
                        /\ \A n : Owes(j, n) => Owes(j, n)'
                        /\ Leaves(j) => Leaves(j)'
                        /\ Lent(j) => Lent(j)'
  <2>1. \A j \in Insts \ {i} : Lent(j) => Lent(j)'
    BY <1>4 DEF Lent
  <2>2. \A j \in Insts \ {i} : /\ Quiet(j) => Quiet(j)'
                               /\ \A n : Owes(j, n) => Owes(j, n)'
                               /\ Leaves(j) => Leaves(j)'
    BY <1>5, SameQuiet
  <2> QED BY <1>7, <1>8, <1>9, <2>1, <2>2
<1>11. CASE s = <<>>
  <2>1. \A j \in Insts : Quiet(j)'
    BY <1>2, <1>10, <1>11 DEF Called
  <2>2. Regular(s) /\ \A k \in 1 .. Len(s) : s[k].do = "send" => at'[s[k].inst] # "gone"
    BY <1>2, <1>11 DEF Called
  <2> QED BY <1>2, <1>11, <2>1, <2>2, CalledNext
<1>12. CASE s # <<>>
  <2>1. PICK a : a = s[1]
    OBVIOUS
  <2>2. a \in CallSteps /\ a.inst \in Insts /\ Len(s) \in Nat \ {0}
    <3>1. a \in CallSteps /\ Len(s) \in Nat \ {0}
      BY <1>2, <1>12, <2>1
    <3> QED BY <3>1 DEF CallSteps
  <2>3. Regular(s) /\ Follows(s, 1) /\ Call(s)
    BY <1>2, <1>12, <2>2 DEF Called, Regular
  <2>4. Call(s)'
    <3>1. \A j \in Insts \ {a.inst} : Quiet(j)'
      BY <1>10, <2>1, <2>3 DEF Call
    <3>2. /\ a.do = "send" /\ a.what = "saved" => Owes(a.inst, 1)'
          /\ a.do = "send" /\ a.what # "saved" => Quiet(a.inst)'
          /\ a.do = "wait" => Owes(a.inst, a.n)'
          /\ a.do = "waitall" => Leaves(a.inst)'
          /\ a.do = "join" => queue'[a.inst] = <<>>
          /\ a.do \in {"create", "return"} => Quiet(a.inst)' /\ Lent(a.inst)'
      BY <1>3, <1>10, <2>1, <2>2, <2>3 DEF Call
    <3>3. a.do = "wait" /\ Len(s) > 1 /\ s[2].do = "create" =>
             Lent(a.inst)' \/ (Len(queue'[a.inst]) = 1 /\ queue'[a.inst][1][1] = "borrow")
      BY <1>3, <1>10, <2>1, <2>2, <2>3 DEF Call
    <3> QED BY <2>1, <3>1, <3>2, <3>3 DEF Call
  <2>5. ASSUME NEW k \in 1 .. Len(s), s[k].do = "send"
        PROVE  at'[s[k].inst] # "gone"
    <3>1. at[s[k].inst] # "gone" /\ s[k].inst \in Insts
      <4>1. s[k] \in CallSteps
        BY <1>2
      <4> QED BY <1>2, <2>5, <4>1 DEF Called, CallSteps
    <3>2. CASE s[k].inst # i
      BY <1>4, <3>1, <3>2
    <3>3. CASE s[k].inst = i
      <4>1. a.do \notin {"waitall", "join"}
        <5>1. ASSUME a.do = "join" PROVE FALSE
          <6>1. Len(s) = 1
            BY <2>1, <2>3, <5>1 DEF Follows
          <6>2. k = 1
            BY <6>1
          <6> QED BY <2>1, <2>5, <5>1, <6>2
        <5>2. ASSUME a.do = "waitall" PROVE FALSE
          <6>1. Len(s) = 2 /\ s[2].do = "join"
            BY <2>1, <2>3, <5>2, Parts DEF Follows
          <6>2. k \in {1, 2}
            BY <6>1
          <6> QED BY <2>1, <2>5, <5>2, <6>1, <6>2
        <5> QED BY <5>1, <5>2
      <4>2. Stays(i)
        <5>1. i # a.inst => Stays(i)
          BY <1>6, <2>1, <2>3 DEF Call, Quiet
        <5>2. a.do \in {"send", "wait", "create", "return"}
          BY <2>2, <4>1 DEF CallSteps
        <5>3. i = a.inst => Stays(i)
          BY <1>6, <2>1, <2>3, <5>2 DEF Call, Quiet, Owes
        <5> QED BY <5>1, <5>3
      <4> QED BY <1>6, <3>3, <4>2 DEF Stays
    <3> QED BY <3>2, <3>3
  <2> QED BY <1>2, <1>12, <2>3, <2>4, <2>5, CalledNext
<1> QED BY <1>11, <1>12

\* A message is handled: it is one of the call, which waits for it.
LEMMA HandleCalls ==
  ASSUME TypeOK, Todos, Called(todo[UI]), NEW i \in Insts, Handle(i)
  PROVE  Called(todo[UI])'
<1>1. PICK s : s = todo[UI]
  OBVIOUS
<1>2. Called(s) /\ s \in Seq(CallSteps) /\ todo'[UI] = s
  BY <1>1 DEF Handle, Todos, Threads
<1>3. PICK q : q = queue[i]
  OBVIOUS
<1>4. q \in Seq(Messages \X Threads) /\ q # <<>>
  BY <1>3 DEF Handle, TypeOK
<1>5. /\ queue' = [queue EXCEPT ![i] = Tail(q)] /\ tokens' = [tokens EXCEPT ![i] = @ + 1]
      /\ Effect(i, Head(q)[1]) /\ at[i] = "handle" /\ at' = at
      /\ current' = [current EXCEPT ![i] = @ /\ Head(q)[1] # "borrow"]
      /\ lend' = [lend EXCEPT ![i] = @ \/ Head(q)[1] = "borrow"]
  BY <1>3 DEF Handle
<1>6. /\ Head(q) = q[1] /\ q[1] \in Messages \X Threads /\ Len(q) \in Nat \ {0}
      /\ Tail(q) \in Seq(Messages \X Threads) /\ Len(Tail(q)) = Len(q) - 1
      /\ \A k \in 1 .. Len(Tail(q)) : Tail(q)[k] = q[k + 1]
  BY <1>4
<1>7. PICK m : m = q[1][1]
  OBVIOUS
<1>8. m \in Messages /\ Head(q)[1] = m
  BY <1>6, <1>7
<1>9. PICK st \in Statuses, pr \in Statuses, sk \in Nat, ac \in BOOLEAN :
         /\ Set(i, st, pr, sk, ac)
         /\ m # "exit" /\ status[i] # "Exit" /\ prev[i] # "Exit" => st # "Exit" /\ pr # "Exit"
  BY <1>5, <1>8, Effects
<1>10. \A j \in Insts \ {i} : Same(j) /\ (Lent(j) => Lent(j)')
  <2>1. \A j \in Insts \ {i} : status'[j] = status[j] /\ prev'[j] = prev[j]
    BY <1>9 DEF Set, TypeOK
  <2>2. \A j \in Insts \ {i} : queue'[j] = queue[j] /\ tokens'[j] = tokens[j]
    BY <1>5 DEF TypeOK
  <2>3. \A j \in Insts \ {i} : current'[j] = current[j] /\ lend'[j] = lend[j]
    BY <1>5 DEF TypeOK
  <2> QED BY <1>5, <2>1, <2>2, <2>3 DEF Same, Lent
<1>11. s # <<>> /\ ~Quiet(i)
  <2>1. ~Quiet(i)
    BY <1>3, <1>4 DEF Quiet
  <2> QED BY <1>2, <2>1 DEF Called
<1>12. PICK a : a = s[1]
  OBVIOUS
<1>13. a \in CallSteps /\ a.inst \in Insts /\ a.n \in Nat /\ Len(s) \in Nat \ {0}
  <2>1. a \in CallSteps /\ Len(s) \in Nat \ {0}
    BY <1>2, <1>11, <1>12
  <2> QED BY <2>1 DEF CallSteps
<1>14. Regular(s) /\ Call(s)
  BY <1>2, <1>11 DEF Called
<1>15. a.inst = i
  BY <1>11, <1>12, <1>14 DEF Call
<1>16. \A j \in Insts \ {i} : Quiet(j)'
  <2>1. \A j \in Insts \ {i} : Quiet(j)
    BY <1>12, <1>14, <1>15 DEF Call
  <2> QED BY <1>10, <2>1, SameQuiet
<1>17. \A n : Owes(i, n) => Owes(i, n)'
  <2>1. ASSUME NEW n, Owes(i, n)
        PROVE  Owes(i, n)'
    <3>1. /\ Stays(i) /\ tokens[i] + Len(q) = n
          /\ \A k \in 1 .. Len(q) : q[k][1] # "exit"
      BY <1>3, <2>1 DEF Owes
    <3>2. m # "exit"
      BY <1>6, <1>7, <3>1
    <3>3. st # "Exit" /\ pr # "Exit"
      BY <1>9, <3>1, <3>2 DEF Stays
    <3>4. Stays(i)'
      <4>1. status'[i] = st /\ prev'[i] = pr
        BY <1>9 DEF Set, TypeOK
      <4> QED BY <1>5, <3>3, <4>1 DEF Stays
    <3>5. queue'[i] = Tail(q) /\ tokens'[i] = tokens[i] + 1 /\ tokens[i] \in Nat
      BY <1>5 DEF TypeOK
    <3>6. tokens'[i] + Len(queue'[i]) = n
      BY <1>6, <3>1, <3>5
    <3>7. \A k \in 1 .. Len(queue'[i]) : queue'[i][k][1] # "exit"
      <4>1. \A k \in 1 .. Len(Tail(q)) : k + 1 \in 1 .. Len(q)
        BY <1>6
      <4> QED BY <1>6, <3>1, <3>5, <4>1
    <3> QED BY <3>4, <3>6, <3>7 DEF Owes
  <2> QED BY <2>1
<1>18. queue'[i] = Tail(q)
  BY <1>5 DEF TypeOK
<1>19. Leaves(i) => Leaves(i)'
  <2>1. Leaves(i) => Len(q) = 1
    BY <1>3, <1>4 DEF Leaves
  <2>2. Len(q) = 1 => queue'[i] = <<>>
    BY <1>6, <1>18
  <2> QED BY <2>1, <2>2 DEF Leaves
<1>20. (Lent(i) \/ m = "borrow") => Lent(i)'
  <2>1. current'[i] = (current[i] /\ m # "borrow") /\ lend'[i] = (lend[i] \/ m = "borrow")
    BY <1>5, <1>8 DEF TypeOK
  <2> QED BY <1>5, <2>1 DEF Lent
<1>21. a.do \in {"send", "wait", "waitall"} /\ (a.do = "send" => a.what = "saved")
  <2>1. a.do \in {"create", "return"} => Quiet(i)
    BY <1>12, <1>14, <1>15 DEF Call
  <2>2. a.do = "join" => q = <<>>
    BY <1>3, <1>12, <1>14, <1>15 DEF Call
  <2>3. a.do = "send" /\ a.what # "saved" => Quiet(i)
    BY <1>12, <1>14, <1>15 DEF Call
  <2> QED BY <1>4, <1>11, <1>13, <2>1, <2>2, <2>3 DEF CallSteps
<1>22. Call(s)'
  <2>1. /\ a.do = "send" /\ a.what = "saved" => Owes(i, 1)'
        /\ a.do = "wait" => Owes(i, a.n)'
        /\ a.do = "waitall" => Leaves(i)'
    BY <1>12, <1>14, <1>15, <1>17, <1>19 DEF Call
  <2>2. a.do = "wait" /\ Len(s) > 1 /\ s[2].do = "create" => Lent(i)'
    <3>1. a.do = "wait" /\ Len(s) > 1 /\ s[2].do = "create" => Lent(i) \/ q[1][1] = "borrow"
      BY <1>3, <1>12, <1>14, <1>15 DEF Call
    <3> QED BY <1>7, <1>20, <3>1
  <2> QED BY <1>12, <1>15, <1>16, <1>21, <2>1, <2>2 DEF Call
<1>23. \A k \in 1 .. Len(s) : s[k].do = "send" => at'[s[k].inst] # "gone"
  BY <1>2, <1>5 DEF Called
<1> QED BY <1>2, <1>11, <1>14, <1>22, <1>23, CalledNext

\* Every step of every thread leaves the call of the UI thread where it should be, and no
\* emulation thread begins one.
LEMMA CallsStep ==
  ASSUME EmuControlAssumption, TypeOK, Todos, Calls, [Next]_vars
  PROVE  Calls'
<1>1. use' = use
  BY TodoStep
<1> SUFFICES ASSUME Alone
             PROVE  Called(todo[UI])' /\ \A i \in Insts : todo'[i] = <<>>
  BY <1>1 DEF Calls, Alone, Stepped
<1>2. Called(todo[UI]) /\ \A i \in Insts : todo[i] = <<>>
  BY DEF Calls
<1>3. use.hot = {} /\ UI \notin Insts
  BY DEF Alone, EmuControlAssumption
<1>4. CASE UNCHANGED vars
  <2>1. /\ UNCHANGED <<queue, tokens, at, current, lend, todo>> /\ status' = status /\ prev' = prev
    BY <1>4 DEF vars, control
  <2>2. Called(todo[UI])'
    BY <1>2, <2>1 DEF Called, Regular, Follows, Call, Quiet, Owes, Leaves, Lent, Stays
  <2> QED BY <1>2, <2>1, <2>2
<1>5. ASSUME NEW i \in Insts, NEW op \in Ops, Menu(op, i)
      PROVE  Called(todo[UI])' /\ \A j \in Insts : todo'[j] = <<>>
  <2>1. Called(todo[UI])'
    BY <1>2, <1>5, MenuCalls
  <2> QED BY <1>2, <1>3, <1>5, <2>1 DEF Menu
<1>6. \A i \in Insts : ~PowerOff(i) /\ \A op \in Ops : ~Key(op, i)
  BY <1>3 DEF Key, PowerOff
<1>7. ASSUME NEW i \in Insts, Loop(i)
      PROVE  Called(todo[UI])' /\ \A j \in Insts : todo'[j] = <<>>
  <2>1. Called(todo[UI])'
    BY <1>2, <1>7, LoopCalls, HandleCalls DEF Loop
  <2>2. todo' = todo
    BY <1>7 DEF Loop, Frame, Lock, Handle, Unlock
  <2> QED BY <1>2, <2>1, <2>2
<1>8. ASSUME NEW t \in Threads, Step(t)
      PROVE  Called(todo[UI])' /\ \A j \in Insts : todo'[j] = <<>>
  <2>1. t = UI
    BY <1>2, <1>8 DEF Step, SendMessage, WaitMessage, WaitAllMessages, UseContext, ReturnGL,
                      Join, Due, Threads
  <2>2. Called(todo[UI])'
    BY <1>2, <1>8, <2>1, SendCalls, WaitCalls, OtherCalls DEF Step
  <2>3. \A j \in Insts : todo'[j] = todo[j]
    <3>1. todo' = todo \/ todo' = [todo EXCEPT ![UI] = Tail(@)]
      BY <1>8, <2>1 DEF Step, SendMessage, WaitMessage, WaitAllMessages, UseContext, ReturnGL,
                        Join, Advance
    <3> QED BY <1>3, <3>1 DEF Todos, Threads
  <2> QED BY <1>2, <2>2, <2>3
<1> QED BY <1>4, <1>5, <1>6, <1>7, <1>8 DEF Next

-----------------------------------------------------------------------------
(* The theorems.                                                           *)

\* The strengthening holds throughout.
THEOREM Invariance ==
  ASSUME EmuControlAssumption
  PROVE  Spec => []IInv
<1>1. ASSUME Init PROVE IInv
  <2>1. TypeOK
    BY <1>1 DEF Init, TypeOK, Statuses, EmuControlAssumption
  <2>2. Todos
    BY <1>1 DEF Init, Todos
  <2>3. Pauses
    BY <1>1 DEF Init, Pauses, Resumable
  <2>4. Calls
    <3>1. \A i \in Insts : Quiet(i)
      BY <1>1 DEF Init, Quiet, Stays
    <3>2. todo[UI] = <<>> /\ \A i \in Insts : todo[i] = <<>>
      BY <1>1 DEF Init, Threads
    <3> QED BY <3>1, <3>2 DEF Calls, Called, Regular
  <2> QED BY <2>1, <2>2, <2>3, <2>4 DEF IInv
<1>2. IInv /\ [Next]_vars => IInv'
  BY TypeStep, TodosStep, PausesStep, CallsStep DEF IInv
<1> QED BY <1>1, <1>2, PTL DEF Spec

\* The type invariant: messages queued are messages, no semaphore or pause stack is taken
\* below zero (EmuThread::handleMessages, waitMessage).
THEOREM TypesHold ==
  ASSUME EmuControlAssumption
  PROVE  Spec => []TypeOK
<1>1. IInv => TypeOK
  BY DEF IInv
<1> QED BY <1>1, Invariance, PTL

\* A call of the menus that has returned has been carried out, whatever number of instances
\* there are and in whichever order they handle a pause passed on to them
\* (EmuThread::waitMessage, broadcastInstanceCommand).
THEOREM CallsServed ==
  ASSUME EmuControlAssumption
  PROVE  Spec => []Served
<1>1. IInv => Served
  BY DEF IInv, Calls, Called, Alone, Served, Quiet
<1> QED BY <1>1, Invariance, PTL

\* A console that stands still can be resumed, however menus and hotkeys of any number of
\* instances pause and resume each other (msg_EmuPause, msg_EmuUnpause).
THEOREM PausesCounted ==
  ASSUME EmuControlAssumption
  PROVE  Spec => []PausedIsCounted
<1>1. IInv => PausedIsCounted
  BY DEF IInv, Pauses, PausedIsCounted, Resumable
<1> QED BY <1>1, Invariance, PTL

\* Where contexts are lent there are no hotkeys and no frame is stepped: with either of them
\* GLFree fails, for a token of another call is taken (EmuControl_lending.cfg).
LendsAlone ==
    \A u \in Uses : "borrow" \in u.menu \cup u.keys => u.hot = {} /\ "step" \notin u.menu \cup u.keys

\* The calls of the menus are carried out, their pauses can be taken back, and a window's
\* context is created only while the emulation thread's is not current (EmuThread::borrowGL,
\* MainWindow::createScreenPanel).
THEOREM AccountedHolds ==
  ASSUME EmuControlAssumption, LendsAlone
  PROVE  Spec => []Accounted
<1>1. IInv => Accounted
  <2> SUFFICES ASSUME IInv PROVE Accounted
    OBVIOUS
  <2>1. Served
    BY DEF IInv, Calls, Called, Alone, Served, Quiet
  <2>2. PausedIsCounted
    BY DEF IInv, Pauses, PausedIsCounted, Resumable
  <2>3. GLFree
    <3> SUFFICES ASSUME NEW i \in Insts, todo[UI] # <<>>, Head(todo[UI]) = Do("create", i)
                 PROVE  ~current[i]
      BY DEF GLFree
    <3>1. Todos /\ UI \in Threads
      BY DEF IInv, Threads
    <3>2. PICK a : a = todo[UI][1]
      OBVIOUS
    <3>3. a = Do("create", i) /\ Usual(a)
      BY <3>1, <3>2, DueTyped
    <3>4. a.do = "create" /\ a.inst = i
      BY <3>3, Parts
    <3>5. Alone
      BY <3>3, <3>4 DEF Usual, LendsAlone, Alone, Stepped, IInv, TypeOK
    <3>6. Call(todo[UI])
      BY <3>5 DEF IInv, Calls, Called
    <3>7. Lent(i)
      BY <3>2, <3>4, <3>6 DEF Call
    <3> QED BY <3>7 DEF Lent
  <2> QED BY <2>1, <2>2, <2>3 DEF Accounted
<1> QED BY <1>1, Invariance, PTL
============
