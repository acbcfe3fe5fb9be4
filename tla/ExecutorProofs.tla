--------------------------- MODULE ExecutorProofs ---------------------------
(***************************************************************************)
(* collective_rpc returns the answers to its own call, for any number of   *)
(* workers, calls and deaths.  Answers carry no name: a future takes the   *)
(* next one of each queue.  The invariant is that what a worker has still  *)
(* to answer, or has answered, is exactly what is waited for, both in the  *)
(* order of the calls.                                                     *)
(***************************************************************************)
EXTENDS Executor, TLAPS

\* The futures pair answers with calls by order alone, which is right as long as
\* every answer is waited for: no deadline passes, and a call of all workers, of
\* which the first failure ends the wait, does not fail.
AnswersAwaited == config.timeouts = {} /\ "utility" \notin config.fails

Call == [kind : {"step", "utility"}, non_block : BOOLEAN,
         status : {"sent", "ok", "error"}, answers : Seq(Nat)]
Response == [call : Nat, ok : BOOLEAN]

TypeOK ==
    /\ config \in Configs
    /\ calls \in Seq(Call)
    /\ futures \in Seq(Nat)
    /\ engine \in [pc : {"run", "enqueue", "register", "wait", "raised", "terminate",
                         "close", "exit"},
                   call : Nat, future : Nat, at : Nat]
    /\ monitor \in {"watch", "shutdown", "terminate", "close", "callback", "end"}
    /\ is_failed \in BOOLEAN /\ shutting_down \in BOOLEAN /\ closed \in BOOLEAN
    /\ inbox \in [Worker -> Seq(Nat)]
    /\ executing \in [Worker -> Nat]
    /\ output \in [Worker -> Seq(Response)]
    /\ outbox \in [Worker -> Seq(Response)]
    /\ proc \in [Worker -> {"alive", "dead"}]

\* The engine's thread still makes calls.
Live == engine.pc \in {"run", "enqueue", "register", "wait"}

\* While the engine makes calls only the monitor shuts down, and it closes the
\* queues when all workers are dead.
ShutdownInOrder ==
    /\ Live /\ shutting_down => monitor \in {"terminate", "close", "callback", "end"}
    /\ monitor \in {"terminate", "close", "callback"} => shutting_down
    /\ Live /\ (closed \/ monitor \in {"close", "callback"}) => AllDead
    /\ Live /\ closed => shutting_down

Increasing(s) == \A i, j \in 1..Len(s) : i < j => s[i] < s[j]
Elements(s) == {s[i] : i \in 1..Len(s)}

\* The calls of a queue of answers, as a queue of calls and as a set.
Named(s) == [i \in 1..Len(s) |-> s[i].call]
CallsIn(s) == Elements(Named(s))

Sent(c) == calls[c].status = "sent"

\* The future being waited for, with the answers it has so far.
FutureInOrder ==
    LET f == engine.future
    IN  f # 0 =>
        /\ At("wait") /\ f \in 1..Len(calls) /\ Sent(f)
        /\ \A c \in Elements(futures) : f < c
        /\ engine.at \in Repliers(f)
        /\ Len(calls[f].answers) = IF calls[f].kind = "step" THEN 0 ELSE engine.at
        /\ \A i \in 1..Len(calls[f].answers) : calls[f].answers[i] = f

\* The call being made is the last one.
CallInOrder ==
    engine.pc \in {"enqueue", "register"} =>
        /\ engine.call = Len(calls) /\ Len(calls) > 0
        /\ Sent(engine.call) /\ calls[engine.call].answers = << >>
        /\ engine.future = 0 /\ \A c \in Elements(futures) : c < engine.call

\* futures_queue holds the calls without a result in the order they were made, and
\* a call of all workers is waited for before another one is made.
FuturesInOrder ==
    /\ Increasing(futures)
    /\ \A c \in Elements(futures) :
         c \in 1..Len(calls) /\ Sent(c) /\ calls[c].answers = << >>
    /\ \A c \in 1..Len(calls) :
         /\ calls[c].kind = "utility" => ~ calls[c].non_block
         /\ Sent(c) => \/ c \in Elements(futures) \/ c = engine.future
                       \/ engine.pc \in {"enqueue", "register"} /\ c = engine.call
         /\ Sent(c) /\ calls[c].kind = "utility" =>
              c = engine.call /\ c = Len(calls) /\ ~ At("run")
    /\ At("wait") => engine.call \in 1..Len(calls)
    /\ At("run") => engine.future = 0
    /\ FutureInOrder /\ CallInOrder

\* The calls on their way to a worker, in it, or answered by it and not read, given
\* its outbox, its output, the call it is at and its inbox.
InLine(ob, op, at, ib) ==
    CallsIn(ob) \union CallsIn(op) \union ({at} \ {0}) \union Elements(ib)

Line(w) == InLine(outbox[w], output[w], executing[w], inbox[w])

Before(S, T) == \A x \in S, y \in T : x < y

\* A worker's answers: to calls it replies to, and a failure only where it may be.
AnswersRight(w, s) ==
    /\ Increasing(Named(s))
    /\ \A i \in 1..Len(s) : s[i].call \in 1..Len(calls) =>
         w \in Repliers(s[i].call) /\ (s[i].ok \/ calls[s[i].call].kind \in config.fails)

\* The calls move through the worker in order.
LineRight(w, ob, op, at, ib) ==
    /\ AnswersRight(w, ob) /\ AnswersRight(w, op) /\ Increasing(ib)
    /\ Before(CallsIn(ob), CallsIn(op) \union ({at} \ {0}) \union Elements(ib))
    /\ Before(CallsIn(op), ({at} \ {0}) \union Elements(ib))
    /\ Before({at} \ {0}, Elements(ib))
    /\ InLine(ob, op, at, ib) \subseteq 1..Len(calls)

LineInOrder(w) ==
    /\ LineRight(w, outbox[w], output[w], executing[w], inbox[w])
    /\ At("enqueue") => engine.call \notin Line(w)

\* The calls whose answer by w is still to be read.
Awaited(w) ==
    {c \in 1..Len(calls) :
       /\ w \in Repliers(c)
       /\ \/ c \in Elements(futures)
          \/ c = engine.future /\ engine.at <= w
          \/ At("register") /\ c = engine.call}

\* What w has still to answer, or has answered, is what is waited for.
Matched(w) == {c \in Line(w) : w \in Repliers(c)} = Awaited(w)

\* The answers of w that were not read start where the wait is.
MatchedSoFar(w) ==
    \A c \in Awaited(w), x \in CallsIn(outbox[w]) :
        (x < c => x \in Awaited(w)) /\ (c < x => c \in CallsIn(outbox[w]))

AnswersInOrder ==
    IF closed /\ engine.pc \in {"run", "wait"} THEN \A w \in Worker : MatchedSoFar(w)
    ELSE \A w \in Worker : Matched(w)

\* The inductive invariant.
Inv ==
    /\ TypeOK /\ AnswersAwaited /\ ShutdownInOrder
    /\ Live => FuturesInOrder /\ AnswersInOrder
    /\ \A w \in Worker : LineInOrder(w)
    /\ ResultsAreOwn

-----------------------------------------------------------------------------
(* Queues of calls and of answers *)

\* A sequence as a function.
LEMMA SeqFunction ==
  ASSUME NEW X, NEW s \in Seq(X)
  PROVE  s \in [1..Len(s) -> X]
OBVIOUS

\* A call is put behind the others.
LEMMA AppendCall ==
  ASSUME NEW s \in Seq(Nat), NEW x \in Nat
  PROVE  /\ Append(s, x) \in Seq(Nat)
         /\ Elements(Append(s, x)) = Elements(s) \union {x}
         /\ Increasing(s) /\ (\A y \in Elements(s) : y < x) => Increasing(Append(s, x))
<1>1. /\ Append(s, x) \in Seq(Nat) /\ Len(Append(s, x)) = Len(s) + 1 /\ Len(s) \in Nat
      /\ \A i \in 1..Len(s) : Append(s, x)[i] = s[i]
      /\ Append(s, x)[Len(s) + 1] = x
  OBVIOUS
<1>2. Elements(Append(s, x)) = Elements(s) \union {x}
  BY ONLY <1>1 DEF Elements
<1>3. ASSUME Increasing(s), \A y \in Elements(s) : y < x,
             NEW i \in 1..(Len(s) + 1), NEW j \in 1..(Len(s) + 1), i < j
      PROVE  Append(s, x)[i] < Append(s, x)[j]
  <2>1. i \in 1..Len(s) /\ s[i] \in Elements(s)
    BY ONLY <1>1, <1>3 DEF Elements
  <2>2. CASE j = Len(s) + 1
    BY Zenon, <1>1, <1>3, <2>1, <2>2
  <2>3. CASE j \in 1..Len(s)
    BY Zenon, <1>1, <1>3, <2>1, <2>3 DEF Increasing
  <2> QED BY ONLY <1>1, <2>2, <2>3
<1> QED BY Zenon, <1>1, <1>2, <1>3 DEF Increasing

\* The first call is taken: the least one.
LEMMA TailCall ==
  ASSUME NEW s \in Seq(Nat), s # << >>, Increasing(s)
  PROVE  /\ Head(s) \in Nat /\ Tail(s) \in Seq(Nat) /\ Increasing(Tail(s))
         /\ Head(s) \in Elements(s)
         /\ Elements(Tail(s)) = Elements(s) \ {Head(s)}
         /\ \A y \in Elements(Tail(s)) : Head(s) < y
<1>1. /\ Head(s) = s[1] /\ Tail(s) \in Seq(Nat) /\ Len(Tail(s)) = Len(s) - 1
      /\ Len(s) \in Nat /\ Len(s) > 0 /\ \A i \in 1..Len(s) : s[i] \in Nat
      /\ \A i \in 1..(Len(s) - 1) : Tail(s)[i] = s[i + 1]
  OBVIOUS
<1>2. Head(s) \in Elements(s) BY ONLY <1>1 DEF Elements
<1>3. \A y \in Elements(Tail(s)) : y \in Elements(s) /\ Head(s) < y
  BY <1>1 DEF Elements, Increasing
<1>4. ASSUME NEW y \in Elements(s), y # Head(s) PROVE y \in Elements(Tail(s))
  <2>1. PICK i \in 1..Len(s) : y = s[i] BY Zenon DEF Elements
  <2>2. i - 1 \in 1..(Len(s) - 1) /\ Tail(s)[i - 1] = s[(i - 1) + 1] /\ (i - 1) + 1 = i
    BY ONLY <1>1, <1>4, <2>1
  <2> QED BY Zenon, <1>1, <2>1, <2>2 DEF Elements
<1>5. Head(s) \notin Elements(Tail(s)) BY ONLY <1>1, <1>3
<1>6. Increasing(Tail(s)) BY <1>1 DEF Increasing
<1> QED BY ONLY <1>1, <1>2, <1>3, <1>4, <1>5, <1>6

\* The calls of a queue of answers.
LEMMA NamedCalls ==
  ASSUME NEW s \in Seq(Response)
  PROVE  /\ Named(s) \in Seq(Nat) /\ Len(Named(s)) = Len(s)
         /\ \A i \in 1..Len(s) : Named(s)[i] = s[i].call /\ s[i] \in Response
<1>1. Len(s) \in Nat /\ \A i \in 1..Len(s) : s[i].call \in Nat
  <2>1. Len(s) \in Nat /\ \A i \in 1..Len(s) : s[i] \in Response
    OBVIOUS
  <2> QED BY Zenon, <2>1 DEF Response
<1>2. Named(s) \in Seq(Nat) /\ Len(Named(s)) = Len(s)
  BY ONLY <1>1 DEF Named
<1>3. \A i \in 1..Len(s) : Named(s)[i] = s[i].call /\ s[i] \in Response
  BY DEF Named
<1> QED BY Zenon, <1>2, <1>3

\* An answer is put behind the others.
LEMMA AppendAnswer ==
  ASSUME NEW s \in Seq(Response), NEW x \in Response
  PROVE  /\ Append(s, x) \in Seq(Response)
         /\ Named(Append(s, x)) = Append(Named(s), x.call)
<1>1. Len(s) \in Nat /\ x.call \in Nat /\ Named(s) \in Seq(Nat) /\ Len(Named(s)) = Len(s)
  BY ONLY NamedCalls DEF Response
<1>2. Append(s, x) \in Seq(Response) /\ Len(Append(s, x)) = Len(s) + 1
  OBVIOUS
<1>3. ASSUME NEW i \in 1..(Len(s) + 1)
      PROVE  Append(s, x)[i].call = Append(Named(s), x.call)[i]
  <2>1. CASE i = Len(s) + 1
    BY ONLY <1>1, <2>1
  <2>2. CASE i \in 1..Len(s)
    <3>1. Append(s, x)[i] = s[i] /\ Append(Named(s), x.call)[i] = Named(s)[i]
      BY ONLY <1>1, <2>2
    <3> QED BY Zenon, <2>2, <3>1 DEF Named
  <2> QED BY ONLY <1>1, <2>1, <2>2
<1>4. Append(Named(s), x.call) \in [1..(Len(s) + 1) -> Nat]
  <2>1. /\ Append(Named(s), x.call) \in Seq(Nat)
        /\ Len(Append(Named(s), x.call)) = Len(s) + 1
    BY ONLY <1>1
  <2> QED BY Zenon, <2>1, SeqFunction
<1>5. Named(Append(s, x)) = [i \in 1..(Len(s) + 1) |-> Append(s, x)[i].call]
  BY Zenon, <1>2 DEF Named
<1> QED BY Zenon, <1>2, <1>3, <1>4, <1>5

\* The first answer is taken.
LEMMA TailAnswer ==
  ASSUME NEW s \in Seq(Response), s # << >>
  PROVE  /\ Head(s) \in Response /\ Tail(s) \in Seq(Response)
         /\ Named(s) # << >> /\ Head(Named(s)) = Head(s).call
         /\ Named(Tail(s)) = Tail(Named(s))
<1>1. /\ Len(s) \in Nat /\ Len(s) > 0 /\ Named(s) \in Seq(Nat) /\ Len(Named(s)) = Len(s)
  BY NamedCalls
<1>2. /\ Head(s) = s[1] /\ s[1] \in Response /\ Tail(s) \in Seq(Response)
      /\ Len(Tail(s)) = Len(s) - 1
      /\ \A i \in 1..(Len(s) - 1) : Tail(s)[i] = s[i + 1]
  OBVIOUS
<1>3. Named(s) # << >> /\ Head(Named(s)) = Named(s)[1] /\ Named(s)[1] = s[1].call
  <2>1. Named(s) # << >> /\ Head(Named(s)) = Named(s)[1] BY ONLY <1>1
  <2>2. 1 \in 1..Len(s) BY ONLY <1>1
  <2> QED BY Zenon, <2>1, <2>2 DEF Named
<1>4. Tail(Named(s)) \in [1..(Len(s) - 1) -> Nat]
      /\ \A i \in 1..(Len(s) - 1) : Tail(Named(s))[i] = Named(s)[i + 1]
  <2>1. /\ Tail(Named(s)) \in Seq(Nat) /\ Len(Tail(Named(s))) = Len(s) - 1
        /\ \A i \in 1..(Len(s) - 1) : Tail(Named(s))[i] = Named(s)[i + 1]
    BY ONLY <1>1, <1>3
  <2> QED BY Zenon, <2>1, SeqFunction
<1>5. \A i \in 1..(Len(s) - 1) : Named(s)[i + 1] = s[i + 1].call
  BY ONLY <1>1 DEF Named
<1>6. Named(Tail(s)) = [i \in 1..(Len(s) - 1) |-> Tail(s)[i].call]
  BY Zenon, <1>2 DEF Named
<1>7. Named(Tail(s)) = Tail(Named(s)) BY ONLY <1>2, <1>4, <1>5, <1>6
<1> QED BY Zenon, <1>1, <1>2, <1>3, <1>7

\* An answer is put behind earlier ones of the worker.
LEMMA AppendRight ==
  ASSUME NEW w \in Worker, NEW s \in Seq(Response), NEW x \in Response,
         AnswersRight(w, s), \A y \in CallsIn(s) : y < x.call,
         w \in Repliers(x.call), x.ok \/ calls[x.call].kind \in config.fails
  PROVE  /\ Append(s, x) \in Seq(Response) /\ AnswersRight(w, Append(s, x))
         /\ CallsIn(Append(s, x)) = CallsIn(s) \union {x.call}
<1>1. /\ Append(s, x) \in Seq(Response) /\ Len(Append(s, x)) = Len(s) + 1 /\ Len(s) \in Nat
      /\ \A i \in 1..Len(s) : Append(s, x)[i] = s[i]
      /\ Append(s, x)[Len(s) + 1] = x
  OBVIOUS
<1>2. Named(Append(s, x)) = Append(Named(s), x.call) BY Zenon, AppendAnswer
<1>3. Named(s) \in Seq(Nat) /\ x.call \in Nat BY Zenon, NamedCalls DEF Response
<1>4. Increasing(Named(Append(s, x))) BY Zenon, <1>2, <1>3, AppendCall DEF AnswersRight, CallsIn
<1>5. CallsIn(Append(s, x)) = CallsIn(s) \union {x.call}
  BY Zenon, <1>2, <1>3, AppendCall DEF CallsIn
<1>6. ASSUME NEW i \in 1..(Len(s) + 1), Append(s, x)[i].call \in 1..Len(calls)
      PROVE  /\ w \in Repliers(Append(s, x)[i].call)
             /\ Append(s, x)[i].ok \/ calls[Append(s, x)[i].call].kind \in config.fails
  <2>1. CASE i = Len(s) + 1 BY Zenon, <1>1, <2>1
  <2>2. CASE i \in 1..Len(s) BY Zenon, <1>1, <1>6, <2>2 DEF AnswersRight
  <2> QED BY ONLY <1>1, <2>1, <2>2
<1> QED BY Zenon, <1>1, <1>4, <1>5, <1>6 DEF AnswersRight

\* The oldest answer of a worker is taken.
LEMMA TailRight ==
  ASSUME NEW w \in Worker, NEW s \in Seq(Response), s # << >>, AnswersRight(w, s),
         CallsIn(s) \subseteq 1..Len(calls)
  PROVE  /\ Head(s) \in Response /\ Tail(s) \in Seq(Response) /\ AnswersRight(w, Tail(s))
         /\ Head(s).call \in CallsIn(s)
         /\ CallsIn(Tail(s)) = CallsIn(s) \ {Head(s).call}
         /\ \A y \in CallsIn(Tail(s)) : Head(s).call < y
         /\ w \in Repliers(Head(s).call)
         /\ Head(s).ok \/ calls[Head(s).call].kind \in config.fails
<1>1. /\ Head(s) = s[1] /\ Len(Tail(s)) = Len(s) - 1
      /\ Len(s) \in Nat /\ Len(s) > 0
      /\ \A i \in 1..(Len(s) - 1) : Tail(s)[i] = s[i + 1]
  OBVIOUS
<1>2. /\ Head(s) \in Response /\ Tail(s) \in Seq(Response)
      /\ Named(s) # << >> /\ Head(Named(s)) = Head(s).call
      /\ Named(Tail(s)) = Tail(Named(s)) /\ Named(s) \in Seq(Nat)
  BY Zenon, TailAnswer, NamedCalls
<1>3. /\ Increasing(Named(Tail(s))) /\ Head(s).call \in CallsIn(s)
      /\ CallsIn(Tail(s)) = CallsIn(s) \ {Head(s).call}
      /\ \A y \in CallsIn(Tail(s)) : Head(s).call < y
  <2> DEFINE q == Named(s)
  <2>1. q \in Seq(Nat) /\ q # << >> /\ Increasing(q) BY Zenon, <1>2 DEF AnswersRight
  <2> HIDE DEF q
  <2>2. /\ Increasing(Tail(q)) /\ Head(q) \in Elements(q)
        /\ Elements(Tail(q)) = Elements(q) \ {Head(q)}
        /\ \A y \in Elements(Tail(q)) : Head(q) < y
    BY Zenon, <2>1, TailCall
  <2> QED BY Zenon, <1>2, <2>2 DEF q, CallsIn
<1>4. AnswersRight(w, Tail(s)) BY <1>1, <1>3 DEF AnswersRight
<1>5. Head(s).call \in 1..Len(calls) /\ 1 \in 1..Len(s) BY <1>1, <1>3
<1>6. /\ w \in Repliers(Head(s).call)
      /\ Head(s).ok \/ calls[Head(s).call].kind \in config.fails
  BY Zenon, <1>1, <1>5 DEF AnswersRight
<1> QED BY Zenon, <1>2, <1>3, <1>4, <1>6

-----------------------------------------------------------------------------
(* The steps of a worker *)

\* A worker takes the next call from its inbox.
LEMMA TakeRight ==
  ASSUME NEW w \in Worker, NEW ob \in Seq(Response), NEW op \in Seq(Response),
         NEW ib \in Seq(Nat), ib # << >>, LineRight(w, ob, op, 0, ib)
  PROVE  /\ Head(ib) \in Nat /\ Tail(ib) \in Seq(Nat)
         /\ LineRight(w, ob, op, Head(ib), Tail(ib))
         /\ InLine(ob, op, Head(ib), Tail(ib)) = InLine(ob, op, 0, ib)
<1>1. /\ Head(ib) \in Nat /\ Tail(ib) \in Seq(Nat) /\ Increasing(Tail(ib))
      /\ Head(ib) \in Elements(ib)
      /\ Elements(Tail(ib)) = Elements(ib) \ {Head(ib)}
      /\ \A y \in Elements(Tail(ib)) : Head(ib) < y
  BY Zenon, TailCall DEF LineRight
<1>2. Head(ib) # 0 BY <1>1 DEF LineRight, InLine
<1>3. Elements(ib) = ({Head(ib)} \ {0}) \union Elements(Tail(ib)) BY Zenon, <1>1, <1>2
<1>4. InLine(ob, op, Head(ib), Tail(ib)) = InLine(ob, op, 0, ib) BY Zenon, <1>3 DEF InLine
<1> QED BY Zenon, <1>1, <1>3, <1>4 DEF LineRight, Before

\* The method returns, and the worker answers if it replies to the call.
LEMMA ExecuteRight ==
  ASSUME NEW w \in Worker, NEW ob \in Seq(Response), NEW op \in Seq(Response),
         NEW c \in Nat \ {0}, NEW ib \in Seq(Nat), LineRight(w, ob, op, c, ib),
         NEW x \in Response, x.call = c, x.ok \/ calls[c].kind \in config.fails,
         NEW new, new = IF w \in Repliers(c) THEN Append(op, x) ELSE op
  PROVE  /\ new \in Seq(Response) /\ LineRight(w, ob, new, 0, ib)
         /\ InLine(ob, new, 0, ib) \subseteq InLine(ob, op, c, ib)
         /\ \A y \in InLine(ob, op, c, ib) : w \in Repliers(y) => y \in InLine(ob, new, 0, ib)
<1>1. CASE w \in Repliers(c)
  <2>2. \A y \in CallsIn(op) : y < c BY Zenon DEF LineRight, Before
  <2>3. AnswersRight(w, op) BY Zenon DEF LineRight
  <2>4. /\ Append(op, x) \in Seq(Response) /\ AnswersRight(w, Append(op, x))
        /\ CallsIn(Append(op, x)) = CallsIn(op) \union {c}
    BY Zenon, <1>1, <2>2, <2>3, AppendRight
  <2>5. new = Append(op, x) BY Zenon, <1>1
  <2>6. CallsIn(new) = CallsIn(op) \union ({c} \ {0}) /\ {0} \ {0} = {} BY Zenon, <2>4, <2>5
  <2>7. InLine(ob, new, 0, ib) = InLine(ob, op, c, ib) BY Zenon, <2>6 DEF InLine
  <2>8. LineRight(w, ob, new, 0, ib) BY Zenon, <2>4, <2>5, <2>6, <2>7 DEF LineRight, Before
  <2> QED BY Zenon, <2>4, <2>5, <2>7, <2>8
<1>2. CASE w \notin Repliers(c)
  <2>1. InLine(ob, op, c, ib) = InLine(ob, op, 0, ib) \union {c} BY Zenon DEF InLine
  <2>2. LineRight(w, ob, op, 0, ib) BY Zenon, <2>1 DEF LineRight, Before
  <2> QED BY Zenon, <1>2, <2>1, <2>2
<1> QED BY Zenon, <1>1, <1>2

\* An answer moves on to the worker's queue.
LEMMA EnqueueRight ==
  ASSUME NEW w \in Worker, NEW ob \in Seq(Response), NEW op \in Seq(Response), op # << >>,
         NEW at \in Nat, NEW ib \in Seq(Nat), LineRight(w, ob, op, at, ib)
  PROVE  /\ Append(ob, Head(op)) \in Seq(Response) /\ Tail(op) \in Seq(Response)
         /\ LineRight(w, Append(ob, Head(op)), Tail(op), at, ib)
         /\ InLine(Append(ob, Head(op)), Tail(op), at, ib) = InLine(ob, op, at, ib)
<1> DEFINE x == Head(op)
<1>0. CallsIn(op) \subseteq 1..Len(calls) /\ AnswersRight(w, op) /\ AnswersRight(w, ob)
  BY Zenon DEF LineRight, InLine
<1>1. /\ x \in Response /\ Tail(op) \in Seq(Response) /\ AnswersRight(w, Tail(op))
      /\ x.call \in CallsIn(op)
      /\ CallsIn(Tail(op)) = CallsIn(op) \ {x.call}
      /\ \A y \in CallsIn(Tail(op)) : x.call < y
      /\ w \in Repliers(x.call)
      /\ x.ok \/ calls[x.call].kind \in config.fails
  BY Zenon, <1>0, TailRight
<1> HIDE DEF x
<1>2. \A y \in CallsIn(ob) : y < x.call BY Zenon, <1>1 DEF LineRight, Before
<1>3. /\ Append(ob, x) \in Seq(Response) /\ AnswersRight(w, Append(ob, x))
      /\ CallsIn(Append(ob, x)) = CallsIn(ob) \union {x.call}
  BY Zenon, <1>0, <1>1, <1>2, AppendRight
<1>4. InLine(Append(ob, x), Tail(op), at, ib) = InLine(ob, op, at, ib)
  BY Zenon, <1>1, <1>3 DEF InLine
<1>5. LineRight(w, Append(ob, x), Tail(op), at, ib)
  BY Zenon, <1>1, <1>3, <1>4 DEF LineRight, Before
<1> QED BY Zenon, <1>1, <1>3, <1>4, <1>5 DEF x

\* A step of a worker that leaves what it owes as it is keeps the invariant.  It is
\* alive, so the queues are not closed while the engine makes calls.
LEMMA WorkerStep ==
  ASSUME Inv, NEW w \in Worker, Alive(w), TypeOK',
         UNCHANGED <<config, executor, engine, monitor, flags, proc>>,
         \A v \in Worker \ {w} : /\ outbox'[v] = outbox[v] /\ output'[v] = output[v]
                                 /\ executing'[v] = executing[v] /\ inbox'[v] = inbox[v],
         LineRight(w, outbox'[w], output'[w], executing'[w], inbox'[w]),
         InLine(outbox'[w], output'[w], executing'[w], inbox'[w]) \subseteq Line(w),
         \A x \in Line(w) : w \in Repliers(x) =>
            x \in InLine(outbox'[w], output'[w], executing'[w], inbox'[w])
  PROVE  Inv'
<1>0. UNCHANGED <<config, calls, futures, engine, monitor, is_failed, shutting_down, closed,
                  callbacks, proc>>
  BY Zenon DEF executor, flags
<1>1. AnswersAwaited' /\ ShutdownInOrder'
  BY Zenon, <1>0 DEF Inv, AnswersAwaited, ShutdownInOrder, Live, AllDead
<1>2. ResultsAreOwn' BY <1>0 DEF Inv, ResultsAreOwn, Repliers, NumRepliers
<1>3. Live' => FuturesInOrder'
  BY <1>0 DEF Inv, Live, FuturesInOrder, FutureInOrder, CallInOrder, Sent, At, Repliers
<1>5. ASSUME NEW v \in Worker PROVE LineInOrder(v)'
  <2>1. CASE v = w
    <3>1. LineRight(w, outbox[w], output[w], executing[w], inbox[w])'
      BY Zenon, <1>0 DEF LineRight, AnswersRight, Repliers
    <3>2. At("enqueue")' => engine'.call \notin Line(w)'
      BY Zenon, <1>0 DEF Inv, LineInOrder, At, Line
    <3> QED BY Zenon, <2>1, <3>1, <3>2 DEF LineInOrder
  <2>2. CASE v # w
    <3>1. /\ outbox'[v] = outbox[v] /\ output'[v] = output[v]
          /\ executing'[v] = executing[v] /\ inbox'[v] = inbox[v]
      BY Zenon, <2>2
    <3>2. LineRight(v, outbox[v], output[v], executing[v], inbox[v]) BY Zenon DEF Inv, LineInOrder
    <3>3. LineRight(v, outbox[v], output[v], executing[v], inbox[v])'
      BY Zenon, <1>0, <3>1, <3>2 DEF LineRight, AnswersRight, Repliers
    <3>4. Line(v)' = Line(v) BY Zenon, <3>1 DEF Line
    <3> QED BY Zenon, <1>0, <3>3, <3>4 DEF Inv, LineInOrder, At
  <2> QED BY Zenon, <2>1, <2>2
<1>6. ASSUME Live PROVE AnswersInOrder'
  <2>1. ~ closed BY Zenon, <1>6 DEF Inv, ShutdownInOrder, AllDead, Alive
  <2>2. \A v \in Worker : Matched(v) BY Zenon, <1>6, <2>1 DEF Inv, AnswersInOrder
  <2>3. \A v \in Worker : Awaited(v)' = Awaited(v)
    BY Zenon, <1>0 DEF Awaited, Repliers, At
  <2>4. \A x : \A v \in Worker : (v \in Repliers(x))' <=> v \in Repliers(x)
    BY Zenon, <1>0 DEF Repliers
  <2>5. \A v \in Worker : {c \in Line(v)' : v \in Repliers(c)'} = {c \in Line(v) : v \in Repliers(c)}
    <3>1. \A v \in Worker \ {w} : Line(v)' = Line(v) BY Zenon DEF Line
    <3> QED BY Zenon, <2>4, <3>1 DEF Line
  <2>6. \A v \in Worker : Matched(v)' BY Zenon, <2>2, <2>3, <2>5 DEF Matched
  <2> QED BY Zenon, <1>0, <2>1, <2>6 DEF AnswersInOrder
<1>7. Live' <=> Live BY Zenon, <1>0 DEF Live
<1> QED BY Zenon, <1>1, <1>2, <1>3, <1>5, <1>6, <1>7 DEF Inv

\* A worker takes the next call from its queue.
LEMMA TakeInv ==
  ASSUME Inv, NEW w \in Worker, Take(w)
  PROVE  Inv'
<1>0. /\ outbox[w] \in Seq(Response) /\ output[w] \in Seq(Response) /\ inbox[w] \in Seq(Nat)
      /\ inbox[w] # << >> /\ executing[w] = 0
      /\ LineRight(w, outbox[w], output[w], 0, inbox[w])
  BY Zenon DEF Inv, TypeOK, LineInOrder, Take
<1>1. /\ Head(inbox[w]) \in Nat /\ Tail(inbox[w]) \in Seq(Nat)
      /\ LineRight(w, outbox[w], output[w], Head(inbox[w]), Tail(inbox[w]))
      /\ InLine(outbox[w], output[w], Head(inbox[w]), Tail(inbox[w]))
           = InLine(outbox[w], output[w], 0, inbox[w])
  BY ONLY <1>0, TakeRight
<1>2. /\ outbox' = outbox /\ output' = output
      /\ executing' = [executing EXCEPT ![w] = Head(inbox[w])]
      /\ inbox' = [inbox EXCEPT ![w] = Tail(inbox[w])]
      /\ UNCHANGED <<config, executor, engine, monitor, flags, proc>>
      /\ Alive(w)
  BY Zenon DEF Take
<1>3. TypeOK' BY Zenon, <1>1, <1>2 DEF Inv, TypeOK, executor, flags
<1>4. executing'[w] = Head(inbox[w]) /\ inbox'[w] = Tail(inbox[w]) BY Zenon, <1>2 DEF Inv, TypeOK
<1>5. \A v \in Worker \ {w} : /\ outbox'[v] = outbox[v] /\ output'[v] = output[v]
                              /\ executing'[v] = executing[v] /\ inbox'[v] = inbox[v]
  BY Zenon, <1>2 DEF Inv, TypeOK
<1>6. InLine(outbox'[w], output'[w], executing'[w], inbox'[w]) = Line(w)
  BY Zenon, <1>0, <1>1, <1>2, <1>4 DEF Line
<1>7. LineRight(w, outbox'[w], output'[w], executing'[w], inbox'[w])
  BY Zenon, <1>1, <1>2, <1>4
<1> QED BY Zenon, <1>2, <1>3, <1>5, <1>6, <1>7, WorkerStep

\* A worker executes the call it took and hands the response to its output thread.
LEMMA ExecuteInv ==
  ASSUME Inv, NEW w \in Worker, Execute(w)
  PROVE  Inv'
<1> DEFINE c == executing[w]
           answered(ok) == IF w \in Repliers(c) THEN Append(output[w], [call |-> c, ok |-> ok])
                           ELSE output[w]
<1>0. /\ outbox[w] \in Seq(Response) /\ output[w] \in Seq(Response) /\ inbox[w] \in Seq(Nat)
      /\ c \in Nat \ {0} /\ LineRight(w, outbox[w], output[w], c, inbox[w])
  BY Zenon DEF Inv, TypeOK, LineInOrder, Execute
<1>1. PICK ok \in BOOLEAN : /\ ok \/ calls[c].kind \in config.fails
                            /\ output' = [output EXCEPT ![w] = answered(ok)]
  BY Zenon DEF Execute
<1> DEFINE new == answered(ok)
<1>2. /\ new \in Seq(Response) /\ LineRight(w, outbox[w], new, 0, inbox[w])
      /\ InLine(outbox[w], new, 0, inbox[w]) \subseteq InLine(outbox[w], output[w], c, inbox[w])
      /\ \A x \in InLine(outbox[w], output[w], c, inbox[w]) :
           w \in Repliers(x) => x \in InLine(outbox[w], new, 0, inbox[w])
  <2> DEFINE answer == [call |-> c, ok |-> ok]
  <2>1. new = IF w \in Repliers(c) THEN Append(output[w], answer) ELSE output[w] BY Zenon
  <2>2. answer \in Response /\ answer.call = c BY Zenon, <1>0 DEF Response
  <2>3. answer.ok \/ calls[c].kind \in config.fails BY Zenon, <1>1
  <2> HIDE DEF new, c, answered, answer
  <2> QED BY Zenon, <1>0, <2>1, <2>2, <2>3, ExecuteRight
<1>3. /\ outbox' = outbox /\ inbox' = inbox
      /\ executing' = [executing EXCEPT ![w] = 0]
      /\ output' = [output EXCEPT ![w] = new]
      /\ UNCHANGED <<config, executor, engine, monitor, flags, proc>>
      /\ Alive(w)
  BY Zenon, <1>1 DEF Execute
<1> HIDE DEF new, c, answered
<1>4. TypeOK' BY Zenon, <1>2, <1>3 DEF Inv, TypeOK, executor, flags
<1>5. executing'[w] = 0 /\ output'[w] = new BY Zenon, <1>3 DEF Inv, TypeOK
<1>6. \A v \in Worker \ {w} : /\ outbox'[v] = outbox[v] /\ output'[v] = output[v]
                              /\ executing'[v] = executing[v] /\ inbox'[v] = inbox[v]
  BY Zenon, <1>3 DEF Inv, TypeOK
<1>7. Line(w) = InLine(outbox[w], output[w], c, inbox[w]) BY Zenon DEF Line, c
<1>8. InLine(outbox'[w], output'[w], executing'[w], inbox'[w])
        = InLine(outbox[w], new, 0, inbox[w])
  BY Zenon, <1>3, <1>5
<1>9. LineRight(w, outbox'[w], output'[w], executing'[w], inbox'[w])
  BY Zenon, <1>2, <1>3, <1>5
<1> QED BY Zenon, <1>2, <1>3, <1>4, <1>6, <1>7, <1>8, <1>9, WorkerStep

\* The output thread sends the next response.
LEMMA EnqueueOutputInv ==
  ASSUME Inv, NEW w \in Worker, EnqueueOutput(w)
  PROVE  Inv'
<1> DEFINE ob == Append(outbox[w], Head(output[w]))
           op == Tail(output[w])
<1>0. /\ outbox[w] \in Seq(Response) /\ output[w] \in Seq(Response) /\ inbox[w] \in Seq(Nat)
      /\ executing[w] \in Nat /\ output[w] # << >>
      /\ LineRight(w, outbox[w], output[w], executing[w], inbox[w])
  BY Zenon DEF Inv, TypeOK, LineInOrder, EnqueueOutput
<1>1. /\ ob \in Seq(Response) /\ op \in Seq(Response)
      /\ LineRight(w, ob, op, executing[w], inbox[w])
      /\ InLine(ob, op, executing[w], inbox[w]) = Line(w)
  BY ONLY <1>0, EnqueueRight DEF Line
<1>2. /\ executing' = executing /\ inbox' = inbox
      /\ outbox' = [outbox EXCEPT ![w] = ob] /\ output' = [output EXCEPT ![w] = op]
      /\ UNCHANGED <<config, executor, engine, monitor, flags, proc>>
      /\ Alive(w)
  BY Zenon DEF EnqueueOutput
<1> HIDE DEF ob, op
<1>3. TypeOK' BY Zenon, <1>1, <1>2 DEF Inv, TypeOK, executor, flags
<1>4. outbox'[w] = ob /\ output'[w] = op BY Zenon, <1>2 DEF Inv, TypeOK
<1>5. \A v \in Worker \ {w} : /\ outbox'[v] = outbox[v] /\ output'[v] = output[v]
                              /\ executing'[v] = executing[v] /\ inbox'[v] = inbox[v]
  BY Zenon, <1>2 DEF Inv, TypeOK
<1>6. /\ InLine(outbox'[w], output'[w], executing'[w], inbox'[w]) = Line(w)
      /\ LineRight(w, outbox'[w], output'[w], executing'[w], inbox'[w])
  BY Zenon, <1>1, <1>2, <1>4
<1> QED BY Zenon, <1>2, <1>3, <1>5, <1>6, WorkerStep

-----------------------------------------------------------------------------
(* Deaths, the monitor and the end of the engine *)

\* The queues of the workers and the calls stay as they are, and the engine with
\* them or it ends: what is in the queues stays in order.
LEMMA FrameInv ==
  ASSUME Inv, TypeOK', ShutdownInOrder',
         UNCHANGED <<config, executor, inbox, executing, output, outbox>>,
         shutting_down => shutting_down', closed => closed',
         engine' = engine \/ ~ Live',
         Live' /\ closed' /\ engine.pc \in {"run", "wait"} /\ ~ closed =>
            \A w \in Worker : MatchedSoFar(w)
  PROVE  Inv'
<1>0. UNCHANGED <<config, calls, futures, inbox, executing, output, outbox>>
  BY Zenon DEF executor
<1>1. AnswersAwaited' BY Zenon, <1>0 DEF Inv, AnswersAwaited
<1>2. ResultsAreOwn' BY Zenon, <1>0 DEF Inv, ResultsAreOwn, Repliers, NumRepliers
<1>3. \A w \in Worker : LineInOrder(w)'
  <2>1. At("enqueue")' => engine' = engine BY Zenon DEF Live, At
  <2>2. ASSUME NEW w \in Worker
        PROVE  LineRight(w, outbox[w], output[w], executing[w], inbox[w])'
    BY Zenon, <1>0 DEF Inv, LineInOrder, LineRight, AnswersRight, Repliers
  <2> QED BY Zenon, <1>0, <2>1, <2>2 DEF Inv, LineInOrder, At, Line
<1>4. ASSUME Live' PROVE FuturesInOrder' /\ AnswersInOrder'
  <2>1. engine' = engine /\ Live BY Zenon, <1>4 DEF Live
  <2>2. FuturesInOrder'
    BY Zenon, <1>0, <2>1 DEF Inv, FuturesInOrder, FutureInOrder, CallInOrder, Sent, At, Repliers
  <2>3. \A w \in Worker : Awaited(w)' = Awaited(w)
    BY Zenon, <1>0, <2>1 DEF Awaited, Repliers, At
  <2>4. \A w \in Worker : (Matched(w)' <=> Matched(w)) /\ (MatchedSoFar(w)' <=> MatchedSoFar(w))
    BY Zenon, <1>0, <2>3 DEF Matched, MatchedSoFar, Line, Repliers
  <2>5. AnswersInOrder BY Zenon, <2>1 DEF Inv
  <2> QED BY Zenon, <1>4, <2>1, <2>2, <2>4, <2>5 DEF AnswersInOrder
<1> QED BY Zenon, <1>1, <1>2, <1>3, <1>4 DEF Inv

\* A worker dies: what is in its queues stays.
LEMMA DieInv ==
  ASSUME Inv, NEW w \in Worker, Die(w)
  PROVE  Inv'
<1>1. TypeOK' BY DEF Inv, TypeOK, Die, executor, flags
<1>2. AllDead => AllDead' BY Zenon DEF Inv, TypeOK, Die, AllDead
<1>3. ShutdownInOrder' BY Zenon, <1>2 DEF Inv, ShutdownInOrder, Die, Live, flags
<1> QED BY Zenon, <1>1, <1>3, FrameInv DEF Die, flags

\* As long as all answers are in line, those that have come start where the wait is.
LEMMA MatchedWhole ==
  ASSUME Inv, NEW w \in Worker, Matched(w)
  PROVE  MatchedSoFar(w)
<1>1. LineRight(w, outbox[w], output[w], executing[w], inbox[w]) BY Zenon DEF Inv, LineInOrder
<1>2. outbox[w] \in Seq(Response) BY Zenon DEF Inv, TypeOK
<1> SUFFICES ASSUME NEW c \in Awaited(w), NEW x \in CallsIn(outbox[w])
             PROVE  (x < c => x \in Awaited(w)) /\ (c < x => c \in CallsIn(outbox[w]))
  BY Zenon DEF MatchedSoFar
<1>3. PICK i \in 1..Len(outbox[w]) : x = outbox[w][i].call
  BY Zenon, <1>2, NamedCalls DEF CallsIn, Elements, Named
<1>4. x \in Line(w) /\ x \in 1..Len(calls) BY Zenon, <1>1 DEF Line, InLine, LineRight
<1>5. w \in Repliers(x) BY Zenon, <1>1, <1>3, <1>4 DEF LineRight, AnswersRight
<1>6. x \in Awaited(w) BY Zenon, <1>4, <1>5 DEF Matched
<1>7. c \in Line(w) /\ c \in 1..Len(calls) BY Zenon DEF Matched, Awaited
<1>8. c \in CallsIn(outbox[w]) \/ x < c BY Zenon, <1>1, <1>7 DEF Line, InLine, LineRight, Before
<1>9. x < c => ~ (c < x) BY ONLY <1>4, <1>7
<1> QED BY Zenon, <1>6, <1>8, <1>9

\* The monitor thread shuts the executor down after a death.
LEMMA MonitorInv ==
  ASSUME Inv, Monitor
  PROVE  Inv'
<1>1. CASE MonitorWorkers
  <2>1. TypeOK' BY Zenon, <1>1 DEF Inv, TypeOK, MonitorWorkers, executor, workers
  <2>2. ShutdownInOrder'
    BY Zenon, <1>1 DEF Inv, ShutdownInOrder, MonitorWorkers, Live, AllDead, workers
  <2> QED BY Zenon, <1>1, <2>1, <2>2, FrameInv DEF MonitorWorkers, workers
<1>2. CASE MonitorShutdown
  <2>1. TypeOK' BY Zenon, <1>2 DEF Inv, TypeOK, MonitorShutdown, StopWorkers, executor
  <2>2. ShutdownInOrder'
    BY Zenon, <1>2 DEF Inv, ShutdownInOrder, MonitorShutdown, StopWorkers, Live, AllDead
  <2> QED BY Zenon, <1>2, <2>1, <2>2, FrameInv DEF MonitorShutdown, StopWorkers
<1>3. CASE MonitorTerminated
  <2>1. TypeOK' BY Zenon, <1>3 DEF Inv, TypeOK, MonitorTerminated, executor, flags, workers
  <2>2. ShutdownInOrder'
    BY Zenon, <1>3 DEF Inv, ShutdownInOrder, MonitorTerminated, Live, AllDead, flags, workers
  <2> QED BY Zenon, <1>3, <2>1, <2>2, FrameInv DEF MonitorTerminated, flags, workers
<1>4. CASE MonitorClose
  <2>1. TypeOK' BY Zenon, <1>4 DEF Inv, TypeOK, MonitorClose, CloseQueues, executor, workers
  <2>2. ShutdownInOrder'
    BY Zenon, <1>4 DEF Inv, ShutdownInOrder, MonitorClose, CloseQueues, Live, AllDead, workers
  <2>3. Live /\ ~ closed => \A w \in Worker : MatchedSoFar(w)
    BY Zenon, MatchedWhole DEF Inv, AnswersInOrder
  <2>4. Live' <=> Live BY Zenon, <1>4 DEF MonitorClose, Live
  <2> QED BY Zenon, <1>4, <2>1, <2>2, <2>3, <2>4, FrameInv DEF MonitorClose, CloseQueues, workers
<1>5. CASE MonitorCallback
  <2>1. TypeOK' BY Zenon, <1>5 DEF Inv, TypeOK, MonitorCallback, executor, workers
  <2>2. ShutdownInOrder'
    BY Zenon, <1>5 DEF Inv, ShutdownInOrder, MonitorCallback, Live, AllDead, workers
  <2> QED BY Zenon, <1>5, <2>1, <2>2, FrameInv DEF MonitorCallback, workers
<1> QED BY Zenon, <1>1, <1>2, <1>3, <1>4, <1>5 DEF Monitor

\* The engine raises, shuts down or is killed.
LEMMA EngineEndsInv ==
  ASSUME Inv,
         ExecutorFailed \/ EngineShutdown \/ EngineTerminated \/ EngineExit \/ EngineKilled
  PROVE  Inv'
<1> USE DEF Running
<1>1. CASE ExecutorFailed
  <2>1. TypeOK' /\ ~ Live'
    BY Zenon, <1>1 DEF Inv, TypeOK, Live, ExecutorFailed, executor, flags, workers
  <2>2. ShutdownInOrder'
    BY Zenon, <1>1, <2>1 DEF Inv, ShutdownInOrder, ExecutorFailed, flags, workers
  <2> QED BY Zenon, <1>1, <2>1, <2>2, FrameInv DEF ExecutorFailed, flags, workers
<1>2. CASE EngineShutdown
  <2>1. TypeOK' /\ ~ Live'
    BY Zenon, <1>2 DEF Inv, TypeOK, Live, EngineShutdown, StopWorkers, executor
  <2>2. ShutdownInOrder'
    BY Zenon, <1>2, <2>1 DEF Inv, ShutdownInOrder, EngineShutdown, StopWorkers
  <2> QED BY Zenon, <1>2, <2>1, <2>2, FrameInv DEF EngineShutdown, StopWorkers
<1>3. CASE EngineTerminated
  <2>1. TypeOK' /\ ~ Live'
    BY Zenon, <1>3 DEF Inv, TypeOK, Live, EngineTerminated, executor, flags, workers
  <2>2. ShutdownInOrder'
    BY Zenon, <1>3, <2>1 DEF Inv, ShutdownInOrder, EngineTerminated, flags, workers
  <2> QED BY Zenon, <1>3, <2>1, <2>2, FrameInv DEF EngineTerminated, flags, workers
<1>4. CASE EngineExit
  <2>1. TypeOK' /\ ~ Live'
    BY Zenon, <1>4 DEF Inv, TypeOK, Live, EngineExit, executor
  <2>2. ShutdownInOrder' BY Zenon, <1>4, <2>1 DEF Inv, ShutdownInOrder, EngineExit
  <2> QED BY Zenon, <1>4, <2>1, <2>2, FrameInv DEF EngineExit
<1>5. CASE EngineKilled
  <2>1. TypeOK' /\ ~ Live'
    BY Zenon, <1>5 DEF Inv, TypeOK, Live, EngineKilled, executor, flags
  <2>2. ShutdownInOrder' BY Zenon, <1>5, <2>1 DEF Inv, ShutdownInOrder, EngineKilled, flags
  <2> QED BY Zenon, <1>5, <2>1, <2>2, FrameInv DEF EngineKilled, flags
<1> QED BY Zenon, <1>1, <1>2, <1>3, <1>4, <1>5

-----------------------------------------------------------------------------
(* Calls and futures *)

\* A call that is made or changes its status leaves the lines of the workers as
\* they are.
LEMMA LineKept ==
  ASSUME Inv, NEW w \in Worker, UNCHANGED <<config, inbox, executing, output, outbox>>,
         TypeOK', Len(calls) <= Len(calls'),
         \A c \in 1..Len(calls) : calls'[c].kind = calls[c].kind
  PROVE  /\ LineRight(w, outbox[w], output[w], executing[w], inbox[w])'
         /\ Line(w)' = Line(w) /\ Line(w) \subseteq 1..Len(calls)
<1>1. LineRight(w, outbox[w], output[w], executing[w], inbox[w]) BY Zenon DEF Inv, LineInOrder
<1>2. outbox[w] \in Seq(Response) /\ output[w] \in Seq(Response) BY Zenon DEF Inv, TypeOK
<1>3. CallsIn(outbox[w]) \subseteq 1..Len(calls) /\ CallsIn(output[w]) \subseteq 1..Len(calls)
  BY Zenon, <1>1 DEF LineRight, InLine
<1>4. \A c \in 1..Len(calls) : Repliers(c)' = Repliers(c) BY Zenon DEF Repliers
<1>5. ASSUME NEW s \in Seq(Response), CallsIn(s) \subseteq 1..Len(calls), AnswersRight(w, s)
      PROVE  AnswersRight(w, s)'
  <2>1. \A i \in 1..Len(s) : s[i].call \in 1..Len(calls)
    BY ONLY <1>5 DEF CallsIn, Named, Elements
  <2> QED BY Zenon, <1>4, <1>5, <2>1 DEF AnswersRight
<1>6. AnswersRight(w, outbox[w])' /\ AnswersRight(w, output[w])'
  BY Zenon, <1>1, <1>2, <1>3, <1>5 DEF LineRight
<1>7. Len(calls) \in Nat /\ Len(calls') \in Nat BY DEF Inv, TypeOK
<1>8. Line(w)' = Line(w) /\ Line(w) \subseteq 1..Len(calls) BY Zenon, <1>1 DEF Line, LineRight
<1> QED BY <1>1, <1>6, <1>7, <1>8 DEF LineRight, InLine, Line

\* The engine turns to a future, or from one that is done, and no call of all
\* workers is open, or it is the one the engine turns to.
LEMMA TurnInv ==
  ASSUME Inv, UNCHANGED <<config, executor, monitor, flags, workers>>, TypeOK',
         engine.pc \in {"run", "wait"}, engine.future = 0, engine'.future = 0,
         engine'.pc \in {"run", "wait", "raised"},
         At("wait")' => engine'.call \in 1..Len(calls),
         \A c \in 1..Len(calls) : ~ (Sent(c) /\ calls[c].kind = "utility")
  PROVE  Inv'
<1>0. /\ UNCHANGED <<config, calls, futures, monitor, is_failed, shutting_down, closed>>
      /\ UNCHANGED <<inbox, executing, output, outbox, proc>>
      /\ Live
  BY Zenon DEF executor, flags, workers, Live
<1>1. AnswersAwaited' /\ ShutdownInOrder' /\ ResultsAreOwn'
  BY Zenon, <1>0 DEF Inv, AnswersAwaited, ShutdownInOrder, AllDead, Live, ResultsAreOwn, Repliers, NumRepliers
<1>2. \A w \in Worker : LineInOrder(w)'
  <2>1. Len(calls) <= Len(calls') BY ONLY <1>0 DEF Inv, TypeOK
  <2>2. ~ At("enqueue")' BY Zenon DEF At
  <2> QED BY Zenon, <1>0, <2>1, <2>2, LineKept DEF LineInOrder
<1>3. FuturesInOrder'
  <2>1. FuturesInOrder BY Zenon, <1>0 DEF Inv
  <2>2. CallInOrder' /\ FutureInOrder' BY Zenon DEF CallInOrder, FutureInOrder
  <2>3. \A c \in 1..Len(calls) : Sent(c) => c \in Elements(futures)
    BY <2>1 DEF FuturesInOrder
  <2> QED BY Zenon, <1>0, <2>1, <2>2, <2>3 DEF FuturesInOrder, Sent
<1>4. ASSUME Live' PROVE AnswersInOrder'
  <2>0. engine'.pc \in {"run", "wait"} BY Zenon, <1>4 DEF Live
  <2>1. AnswersInOrder BY Zenon, <1>0 DEF Inv
  <2>2. \A w \in Worker : Awaited(w)' = Awaited(w)
    BY <1>0 DEF Awaited, Repliers, At
  <2>3. \A w \in Worker : (Matched(w)' <=> Matched(w)) /\ (MatchedSoFar(w)' <=> MatchedSoFar(w))
    BY ONLY <1>0, <2>2 DEF Matched, MatchedSoFar, Line, Repliers
  <2> QED BY Zenon, <1>0, <2>0, <2>1, <2>3 DEF AnswersInOrder
<1> QED BY Zenon, <1>1, <1>2, <1>3, <1>4 DEF Inv

\* result() of a future begins to wait for its answers.
LEMMA ResultInv ==
  ASSUME Inv, NEW c \in Nat, Result(c)
  PROVE  Inv'
<1>1. Live /\ FuturesInOrder /\ engine.pc = "run" /\ c \in 1..Len(calls)
  BY DEF Inv, TypeOK, Result, At, Live
<1>2. /\ engine' = [pc |-> "wait", call |-> c, future |-> 0, at |-> 0]
      /\ UNCHANGED <<config, executor, monitor, flags, workers>>
  BY Zenon DEF Result, Running
<1>3. TypeOK' BY Zenon, <1>2 DEF Inv, TypeOK, executor, flags, workers
<1>4. \A d \in 1..Len(calls) : ~ (Sent(d) /\ calls[d].kind = "utility")
  BY Zenon, <1>1 DEF FuturesInOrder, At
<1>5. engine.future = 0 BY Zenon, <1>1 DEF FuturesInOrder, At
<1> QED BY Zenon, <1>1, <1>2, <1>3, <1>4, <1>5, TurnInv

\* A wait that has all its answers ends the call.
LEMMA ReturnInv ==
  ASSUME Inv, Return
  PROVE  Inv'
<1>1. Live /\ FuturesInOrder /\ engine.pc = "wait" /\ engine.future = 0 /\ Done(engine.call)
  BY Zenon DEF Inv, Return, At, Live
<1>2. /\ engine'.pc \in {"run", "raised"} /\ engine'.future = 0
      /\ engine' \in [pc : {"run", "raised"}, call : Nat, future : Nat, at : Nat]
      /\ UNCHANGED <<config, executor, monitor, flags, workers>>
  BY Zenon DEF Return, Running, Raise
<1>3. TypeOK' BY <1>2 DEF Inv, TypeOK, executor, flags, workers
<1>4. \A d \in 1..Len(calls) : ~ (Sent(d) /\ calls[d].kind = "utility")
  BY Zenon, <1>1 DEF FuturesInOrder, Done, Sent
<1> QED BY Zenon, <1>1, <1>2, <1>3, <1>4, TurnInv DEF At

\* The wait goes on to the oldest future.
LEMMA DrainInv ==
  ASSUME Inv, Drain
  PROVE  Inv'
<1> DEFINE f == Head(futures)
<1>0. /\ Live /\ FuturesInOrder /\ engine.pc = "wait" /\ engine.future = 0
      /\ ~ Done(engine.call) /\ TypeOK
  BY Zenon DEF Inv, Drain, At, Live
<1>1. engine.call \in 1..Len(calls) /\ Sent(engine.call) /\ engine.call \in Elements(futures)
  <2>1. engine.call \in 1..Len(calls) BY Zenon, <1>0 DEF FuturesInOrder, At
  <2> DEFINE i == engine.call
  <2>a. calls \in Seq(Call) /\ i \in 1..Len(calls) BY Zenon, <1>0, <2>1 DEF TypeOK
  <2> HIDE DEF i
  <2>b. calls[i] \in Call BY ONLY <2>a
  <2>2. calls[engine.call].status \in {"sent", "ok", "error"} BY Zenon, <2>b DEF Call, i
  <2>3. Sent(engine.call) BY Zenon, <1>0, <2>2 DEF Done, Sent
  <2> QED BY ONLY <1>0, <2>1, <2>3 DEF FuturesInOrder
<1>2. futures \in Seq(Nat) /\ futures # << >> BY ONLY <1>0, <1>1 DEF TypeOK, Elements
<1>3. /\ f \in Nat /\ Tail(futures) \in Seq(Nat) /\ Increasing(Tail(futures))
      /\ f \in Elements(futures)
      /\ Elements(Tail(futures)) = Elements(futures) \ {f}
      /\ \A y \in Elements(Tail(futures)) : f < y
  BY Zenon, <1>0, <1>2, TailCall DEF FuturesInOrder
<1>a. OutputRank \in Nat BY ONLY ExecutorAssumption DEF Worker
<1>4. /\ engine'.pc = "wait" /\ engine'.call = engine.call /\ engine'.future = f
      /\ engine'.at = IF calls[f].kind = "step" THEN OutputRank ELSE 0
      /\ engine' \in [pc : {"wait"}, call : Nat, future : Nat, at : Nat]
      /\ futures' = Tail(futures)
      /\ UNCHANGED <<config, calls, monitor, is_failed, shutting_down, closed, callbacks>>
      /\ UNCHANGED <<inbox, executing, output, outbox, proc>>
  BY Zenon, <1>0, <1>3, <1>a DEF Drain, NextFuture, TypeOK, flags, workers
<1>5. /\ f \in 1..Len(calls) /\ Sent(f) /\ calls[f].answers = << >> /\ f # 0
      /\ engine'.at \in Repliers(f)
  BY ONLY <1>0, <1>3, <1>4, ExecutorAssumption DEF FuturesInOrder, Repliers, Worker
<1> HIDE DEF f
<1>6. TypeOK' BY Zenon, <1>0, <1>3, <1>4 DEF TypeOK
<1>7. AnswersAwaited' /\ ShutdownInOrder' /\ ResultsAreOwn' /\ Live'
  BY <1>0, <1>4 DEF Inv, AnswersAwaited, ShutdownInOrder, AllDead, Live, ResultsAreOwn, Repliers, NumRepliers
<1>8. \A w \in Worker : LineInOrder(w)'
  <2>1. Len(calls) <= Len(calls') BY ONLY <1>0, <1>4 DEF TypeOK
  <2>2. ~ At("enqueue")' BY Zenon, <1>4 DEF At
  <2> QED BY Zenon, <1>4, <1>6, <2>1, <2>2, LineKept DEF LineInOrder
<1>9. FuturesInOrder'
  <2>1. FutureInOrder'
    <3>1. Len(<< >>) = 0 BY Zenon
    <3>2. engine'.at \in IF calls'[f].kind = "step" THEN {OutputRank} ELSE Worker
      BY Zenon, <1>4, <1>5 DEF Repliers
    <3>3. Len(calls[f].answers) = IF calls[f].kind = "step" THEN 0 ELSE engine'.at
      BY ONLY <1>4, <1>5, <3>1
    <3>4. \A i \in 1..Len(calls[f].answers) : calls[f].answers[i] = f
      <4>1. \A i \in 1..0 : calls[f].answers[i] = f BY ONLY <1>5
      <4> QED BY Zenon, <1>5, <3>1, <4>1
    <3> QED BY Zenon, <1>3, <1>4, <1>5, <3>2, <3>3, <3>4 DEF FutureInOrder, At, Sent, Repliers
  <2>2. CallInOrder' BY Zenon, <1>4 DEF CallInOrder
  <2> QED BY ONLY <1>0, <1>3, <1>4, <2>1, <2>2 DEF FuturesInOrder, Sent, At
<1>10. AnswersInOrder'
  <2>1. AnswersInOrder BY Zenon, <1>0 DEF Inv
  <2>2. ASSUME NEW w \in Worker PROVE Awaited(w)' = Awaited(w)
    <3>1. w \in Repliers(f) => engine'.at <= w
      BY ONLY <1>4, ExecutorAssumption DEF Repliers, Worker
    <3>2. \A c : Repliers(c)' = Repliers(c) BY Zenon, <1>4 DEF Repliers
    <3>3. Elements(futures) = Elements(futures') \union {f} BY Zenon, <1>3, <1>4
    <3> QED BY ONLY <1>0, <1>4, <3>1, <3>2, <3>3 DEF Awaited, At
  <2>3. \A w \in Worker : (Matched(w)' <=> Matched(w)) /\ (MatchedSoFar(w)' <=> MatchedSoFar(w))
    BY ONLY <1>4, <2>2 DEF Matched, MatchedSoFar, Line, Repliers
  <2> QED BY Zenon, <1>0, <1>4, <2>1, <2>3 DEF AnswersInOrder
<1> QED BY Zenon, <1>6, <1>7, <1>8, <1>9, <1>10 DEF Inv

\* The oldest answer in the queue a future waits at is its own.
LEMMA OwnAnswer ==
  ASSUME Inv, Live, At("wait"), engine.future # 0, outbox[engine.at] # << >>
  PROVE  /\ engine.at \in Worker /\ engine.future \in Awaited(engine.at)
         /\ Head(outbox[engine.at]).call = engine.future
<1> DEFINE f == engine.future
           a == engine.at
           x == Head(outbox[a]).call
<1>1. FutureInOrder /\ FuturesInOrder BY Zenon DEF Inv, FuturesInOrder
<1>2. a \in Repliers(f) /\ f \in 1..Len(calls) /\ \A c \in Elements(futures) : f < c
  BY Zenon, <1>1 DEF FutureInOrder
<1>3. a \in Worker /\ a <= a
  BY ONLY <1>2, ExecutorAssumption DEF Repliers, Worker
<1>4. f \in Awaited(a) /\ \A c \in Awaited(a) : c = f \/ f < c
  BY Zenon, <1>2, <1>3 DEF Awaited, At
<1>5. MatchedSoFar(a) BY Zenon, <1>3, MatchedWhole DEF Inv, AnswersInOrder
<1>6. LineRight(a, outbox[a], output[a], executing[a], inbox[a]) /\ outbox[a] \in Seq(Response)
  BY Zenon, <1>3 DEF Inv, LineInOrder, TypeOK
<1> HIDE DEF f, a
<1>7. outbox[a] # << >> BY Zenon DEF a
<1>8. CallsIn(outbox[a]) \subseteq 1..Len(calls) /\ AnswersRight(a, outbox[a])
  BY Zenon, <1>6 DEF LineRight, InLine
<1>9. /\ x \in CallsIn(outbox[a]) /\ \A y \in CallsIn(Tail(outbox[a])) : x < y
      /\ CallsIn(Tail(outbox[a])) = CallsIn(outbox[a]) \ {x}
  BY Zenon, <1>3, <1>6, <1>7, <1>8, TailRight
<1> HIDE DEF x
<1>10. (x < f => x \in Awaited(a)) /\ (f < x => f \in CallsIn(outbox[a]))
  BY Zenon, <1>4, <1>5, <1>9 DEF MatchedSoFar
<1>11. x \in Nat /\ f \in Nat /\ Len(calls) \in Nat
  BY ONLY <1>2, <1>8, <1>9 DEF Inv, TypeOK
<1>12. ~ (x < f) BY ONLY <1>4, <1>10, <1>11
<1>13. ~ (f < x) BY ONLY <1>9, <1>10, <1>11
<1>14. x = f BY ONLY <1>11, <1>12, <1>13
<1> QED BY Zenon, <1>3, <1>4, <1>14 DEF x, f, a

\* A future ends or goes on to its next queue: what is changed of the calls is its
\* status and its answers, and what w has still to answer is less this call where
\* its answer is read.
LEMMA FutureStep ==
  ASSUME Inv, Live, At("wait"), engine.future # 0, TypeOK',
         UNCHANGED <<config, futures, monitor, flags, inbox, executing, output, proc>>,
         Len(calls') = Len(calls),
         \A c \in 1..Len(calls) : c # engine.future => calls'[c] = calls[c],
         calls'[engine.future].kind = calls[engine.future].kind,
         calls'[engine.future].non_block = calls[engine.future].non_block,
         engine'.pc = "wait", engine'.call = engine.call,
         \/ engine'.future = 0 /\ calls'[engine.future].status # "sent"
         \/ engine'.future = engine.future /\ FutureInOrder',
         calls'[engine.future].status = "ok" => ResultsAreOwn'
  PROVE  /\ AnswersAwaited' /\ ShutdownInOrder' /\ FuturesInOrder' /\ Live'
         /\ ResultsAreOwn'
<1> DEFINE f == engine.future
<1>0. UNCHANGED <<config, futures, monitor, is_failed, shutting_down, closed, callbacks>>
  BY Zenon DEF flags
<1>1. AnswersAwaited' /\ ShutdownInOrder' /\ Live'
  BY Zenon, <1>0 DEF Inv, AnswersAwaited, ShutdownInOrder, AllDead, Live
<1>2. FuturesInOrder /\ FutureInOrder BY Zenon DEF Inv, FuturesInOrder
<1>3. f \in 1..Len(calls) /\ Sent(f) /\ \A c \in Elements(futures) : c # f
  <2>1. Elements(futures) \subseteq 1..Len(calls) BY Zenon, <1>2 DEF FuturesInOrder
  <2>2. Len(calls) \in Nat BY DEF Inv, TypeOK
  <2> QED BY <1>2, <2>1, <2>2 DEF FutureInOrder
<1>4. FuturesInOrder'
  <2>1. FutureInOrder' BY Zenon DEF FutureInOrder
  <2>2. CallInOrder' BY Zenon DEF CallInOrder
  <2>3. \A c \in Elements(futures) :
          c \in 1..Len(calls') /\ calls'[c].status = "sent" /\ calls'[c].answers = << >>
    BY Zenon, <1>2, <1>3 DEF FuturesInOrder, Sent
  <2>4. ASSUME NEW c \in 1..Len(calls')
        PROVE  /\ calls'[c].kind = "utility" => ~ calls'[c].non_block
               /\ calls'[c].status = "sent" => c \in Elements(futures) \/ c = engine'.future
               /\ calls'[c].status = "sent" /\ calls'[c].kind = "utility" =>
                    c = engine'.call /\ c = Len(calls')
    <3>1. CASE c = f
      <4>1. calls[f].kind = "utility" => f = engine.call /\ f = Len(calls)
        BY Zenon, <1>2, <1>3 DEF FuturesInOrder
      <4>2. calls[f].kind = "utility" => ~ calls[f].non_block
        BY Zenon, <1>2, <1>3 DEF FuturesInOrder
      <4> QED BY Zenon, <3>1, <4>1, <4>2 DEF Sent
    <3>2. CASE c # f
      <4>1. calls'[c] = calls[c] /\ c \in 1..Len(calls) BY Zenon, <3>2
      <4> QED BY Zenon, <1>2, <3>2, <4>1 DEF FuturesInOrder, Sent, At
    <3> QED BY Zenon, <3>1, <3>2
  <2>5. engine.call \in 1..Len(calls') BY Zenon, <1>2 DEF FuturesInOrder
  <2> QED BY Zenon, <1>0, <1>2, <2>1, <2>2, <2>3, <2>4, <2>5 DEF FuturesInOrder, Sent, At
<1>5. ASSUME calls'[f].status # "ok" PROVE ResultsAreOwn'
  <2>1. ASSUME NEW c \in DOMAIN calls', calls'[c].status = "ok"
        PROVE  /\ \A i \in DOMAIN calls'[c].answers : calls'[c].answers[i] = c
               /\ \/ Len(calls'[c].answers) = NumRepliers(c)'
                  \/ shutting_down'
    <3>1. c # f BY Zenon, <1>5, <2>1
    <3>2. DOMAIN calls' = 1..Len(calls') /\ DOMAIN calls = 1..Len(calls)
      BY DEF Inv, TypeOK
    <3>3. calls'[c] = calls[c] /\ c \in DOMAIN calls BY Zenon, <3>1, <3>2
    <3>4. NumRepliers(c)' = NumRepliers(c) BY Zenon, <3>3 DEF NumRepliers
    <3> QED BY <1>0, <2>1, <3>3, <3>4 DEF Inv, ResultsAreOwn
  <2> QED BY Zenon, <2>1 DEF ResultsAreOwn
<1> QED BY Zenon, <1>1, <1>4, <1>5

\* A wait ends without an answer: the queues were closed.
LEMMA UnansweredInv ==
  ASSUME Inv, Unanswered
  PROVE  Inv'
<1> DEFINE f == engine.future
           a == engine.at
<1>0. /\ Live /\ At("wait") /\ f # 0 /\ TypeOK /\ outbox[a] = << >>
      /\ FuturesInOrder /\ FutureInOrder
  BY Zenon DEF Inv, Unanswered, At, Live, FuturesInOrder
<1>1. f \in 1..Len(calls) /\ Sent(f) /\ a \in Repliers(f) BY Zenon, <1>0 DEF FutureInOrder
<1>2. closed BY Zenon DEF Inv, AnswersAwaited, Unanswered
<1>3. /\ calls' = [calls EXCEPT ![f].status = "error"]
      /\ engine' = [engine EXCEPT !.future = 0, !.at = 0]
      /\ UNCHANGED <<config, futures, monitor, flags, workers>>
  BY Zenon DEF Unanswered
<1>4. calls \in Seq(Call) /\ DOMAIN calls = 1..Len(calls) BY ONLY <1>0 DEF TypeOK
<1>5. calls[f] \in Call BY ONLY <1>1, <1>4
<1> DEFINE new == [calls[f] EXCEPT !.status = "error"]
<1>6. /\ new \in Call /\ new.status = "error" /\ new.kind = calls[f].kind
      /\ new.non_block = calls[f].non_block
  BY Zenon, <1>5 DEF Call
<1>7. calls' = [calls EXCEPT ![f] = new] BY Zenon, <1>3
<1> HIDE DEF new, f
<1>8. /\ calls' \in Seq(Call) /\ Len(calls') = Len(calls) /\ calls'[f] = new
      /\ \A c \in 1..Len(calls) : c # f => calls'[c] = calls[c]
  BY ONLY <1>1, <1>4, <1>6, <1>7
<1>9. /\ engine'.pc = "wait" /\ engine'.future = 0 /\ engine'.call = engine.call
      /\ engine' \in [pc : {"wait"}, call : Nat, future : Nat, at : Nat]
  BY Zenon, <1>0, <1>3 DEF TypeOK, At
<1>10. TypeOK' BY Zenon, <1>0, <1>3, <1>8, <1>9 DEF TypeOK, flags, workers
<1>11. /\ UNCHANGED <<config, futures, closed, inbox, executing, output, outbox, proc>>
       /\ UNCHANGED <<config, futures, monitor, flags, inbox, executing, output, proc>>
  BY Zenon, <1>3 DEF flags, workers
<1>12. /\ AnswersAwaited' /\ ShutdownInOrder' /\ FuturesInOrder' /\ Live' /\ ResultsAreOwn'
  BY Zenon, <1>0, <1>6, <1>8, <1>9, <1>10, <1>11, FutureStep DEF f
<1>13. \A c \in 1..Len(calls) : calls'[c].kind = calls[c].kind BY Zenon, <1>6, <1>8
<1>14. \A w \in Worker : LineInOrder(w)'
  <2>1. Len(calls) <= Len(calls') BY ONLY <1>4, <1>8
  <2>2. ~ At("enqueue")' BY Zenon, <1>9 DEF At
  <2> QED BY Zenon, <1>10, <1>11, <1>13, <2>1, <2>2, LineKept DEF LineInOrder
<1>15. ASSUME NEW w \in Worker PROVE MatchedSoFar(w)'
  <2>1. MatchedSoFar(w) BY Zenon, <1>0, <1>2 DEF Inv, AnswersInOrder, At
  <2>2. \A c \in 1..Len(calls) : Repliers(c)' = Repliers(c) BY Zenon, <1>13 DEF Repliers
  <2>3. Awaited(w)' = {c \in 1..Len(calls) : w \in Repliers(c) /\ c \in Elements(futures)}
    <3>1. Awaited(w)' = {c \in 1..Len(calls') : w \in Repliers(c)' /\ c \in Elements(futures)}
      BY ONLY <1>8, <1>9, <1>11 DEF Awaited, At
    <3> QED BY Zenon, <1>8, <2>2, <3>1
  <2>4. Awaited(w)' \subseteq Awaited(w) BY Zenon, <2>3 DEF Awaited
  <2>5. CASE calls[f].kind = "step"
    <3>1. CASE w = OutputRank
      <4>1. outbox'[w] = << >> BY Zenon, <1>0, <1>1, <1>11, <2>5, <3>1 DEF Repliers
      <4>2. CallsIn(outbox'[w]) = {} BY ONLY <4>1 DEF CallsIn, Elements, Named
      <4> QED BY Zenon, <4>2 DEF MatchedSoFar
    <3>2. CASE w # OutputRank
      <4>1. Awaited(w) \subseteq Awaited(w)'
        <5>1. w \notin Repliers(f) BY Zenon, <2>5, <3>2 DEF Repliers
        <5> QED BY Zenon, <1>0, <2>3, <5>1 DEF Awaited, At, f
      <4> QED BY Zenon, <1>11, <2>1, <2>4, <4>1 DEF MatchedSoFar
    <3> QED BY Zenon, <3>1, <3>2
  <2>6. CASE calls[f].kind = "utility"
    <3>1. f = Len(calls) BY Zenon, <1>0, <1>1, <2>6 DEF FuturesInOrder
    <3>2. \A c \in Elements(futures) : f < c /\ c \in 1..Len(calls)
      BY Zenon, <1>0 DEF FuturesInOrder, FutureInOrder, f
    <3>3. Awaited(w)' = {} BY ONLY <1>1, <1>4, <2>3, <3>1, <3>2
    <3> QED BY Zenon, <3>3 DEF MatchedSoFar
  <2> QED BY Zenon, <1>5, <2>5, <2>6 DEF Call
<1>16. AnswersInOrder' BY Zenon, <1>2, <1>9, <1>11, <1>15 DEF AnswersInOrder
<1> QED BY Zenon, <1>10, <1>12, <1>14, <1>16 DEF Inv

\* Reading the answer at the head of a worker's queue takes that call out of its line.
LEMMA DequeueRight ==
  ASSUME NEW w \in Worker, NEW ob \in Seq(Response), NEW op \in Seq(Response),
         NEW at \in Nat, NEW ib \in Seq(Nat), LineRight(w, ob, op, at, ib), ob # << >>
  PROVE  /\ Head(ob) \in Response /\ Tail(ob) \in Seq(Response)
         /\ LineRight(w, Tail(ob), op, at, ib)
         /\ CallsIn(Tail(ob)) = CallsIn(ob) \ {Head(ob).call}
         /\ InLine(Tail(ob), op, at, ib) = InLine(ob, op, at, ib) \ {Head(ob).call}
         /\ Head(ob).call \in 1..Len(calls)
         /\ Head(ob).ok \/ calls[Head(ob).call].kind \in config.fails
<1> DEFINE x == Head(ob).call
<1>0. CallsIn(ob) \subseteq 1..Len(calls) /\ AnswersRight(w, ob) BY Zenon DEF LineRight, InLine
<1>1. /\ Head(ob) \in Response /\ Tail(ob) \in Seq(Response) /\ AnswersRight(w, Tail(ob))
      /\ x \in CallsIn(ob) /\ CallsIn(Tail(ob)) = CallsIn(ob) \ {x}
      /\ Head(ob).ok \/ calls[x].kind \in config.fails
  BY Zenon, <1>0, TailRight
<1> HIDE DEF x
<1>2. x \notin CallsIn(op) \union ({at} \ {0}) \union Elements(ib)
  <2>1. \A y \in CallsIn(op) \union ({at} \ {0}) \union Elements(ib) : x < y
    BY Zenon, <1>1 DEF LineRight, Before
  <2>2. ~ (x < x) BY ONLY <1>1 DEF x, Response
  <2> QED BY Zenon, <2>1, <2>2
<1>3. InLine(Tail(ob), op, at, ib) = InLine(ob, op, at, ib) \ {x} BY Zenon, <1>1, <1>2 DEF InLine
<1>4. LineRight(w, Tail(ob), op, at, ib) BY Zenon, <1>1, <1>3 DEF LineRight, Before
<1> QED BY Zenon, <1>0, <1>1, <1>3, <1>4 DEF x

\* A wait takes the next answer of the worker whose turn it is: it is the answer to
\* the call that is waited for.
LEMMA DequeueInv ==
  ASSUME Inv, Dequeue
  PROVE  Inv'
<1> DEFINE f == engine.future
           a == engine.at
           r == Head(outbox[a])
           last == calls[f].kind = "step" \/ a = N - 1
           new == [calls[f] EXCEPT !.answers = Append(@, r.call),
                                   !.status = IF ~ r.ok THEN "error"
                                              ELSE IF last THEN "ok" ELSE @]
<1>0. /\ Live /\ At("wait") /\ f # 0 /\ TypeOK /\ outbox[a] # << >>
      /\ FuturesInOrder /\ FutureInOrder
  BY Zenon DEF Inv, Dequeue, At, Live, FuturesInOrder
<1>1. f \in 1..Len(calls) /\ Sent(f) /\ a \in Repliers(f) /\ a \in Nat
  BY Zenon, <1>0 DEF FutureInOrder, TypeOK
<1>2. /\ calls' = [calls EXCEPT ![f] = new]
      /\ outbox' = [outbox EXCEPT ![a] = Tail(outbox[a])]
      /\ engine' = IF r.ok /\ ~ last THEN [engine EXCEPT !.at = a + 1]
                   ELSE [engine EXCEPT !.future = 0, !.at = 0]
      /\ UNCHANGED <<config, futures, monitor, flags, inbox, executing, output, proc>>
  <2>1. calls' = [calls EXCEPT ![f] = new] BY Zenon DEF Dequeue
  <2>2. outbox' = [outbox EXCEPT ![a] = Tail(outbox[a])] BY Zenon DEF Dequeue
  <2>3. engine' = IF r.ok /\ ~ last THEN [engine EXCEPT !.at = a + 1]
                  ELSE [engine EXCEPT !.future = 0, !.at = 0]
    BY Zenon DEF Dequeue
  <2> QED BY Zenon, <2>1, <2>2, <2>3 DEF Dequeue
<1>3. a \in Worker /\ f \in Awaited(a) /\ r.call = f BY Zenon, <1>0, OwnAnswer
<1>4. /\ outbox[a] \in Seq(Response) /\ output[a] \in Seq(Response)
      /\ executing[a] \in Nat /\ inbox[a] \in Seq(Nat)
      /\ LineRight(a, outbox[a], output[a], executing[a], inbox[a])
  BY Zenon, <1>0, <1>3 DEF TypeOK, Inv, LineInOrder
<1>5. /\ r \in Response /\ Tail(outbox[a]) \in Seq(Response)
      /\ LineRight(a, Tail(outbox[a]), output[a], executing[a], inbox[a])
      /\ CallsIn(Tail(outbox[a])) = CallsIn(outbox[a]) \ {f}
      /\ InLine(Tail(outbox[a]), output[a], executing[a], inbox[a]) = Line(a) \ {f}
      /\ r.ok \/ calls[f].kind \in config.fails
  <2> DEFINE ob == outbox[a]
  <2>1. ob # << >> /\ Head(ob).call = f BY Zenon, <1>0, <1>3
  <2> HIDE DEF ob, f, a
  <2>2. /\ Head(ob) \in Response /\ Tail(ob) \in Seq(Response)
        /\ LineRight(a, Tail(ob), output[a], executing[a], inbox[a])
        /\ CallsIn(Tail(ob)) = CallsIn(ob) \ {f}
        /\ InLine(Tail(ob), output[a], executing[a], inbox[a])
             = InLine(ob, output[a], executing[a], inbox[a]) \ {f}
        /\ Head(ob).ok \/ calls[f].kind \in config.fails
    <3>1. /\ ob \in Seq(Response) /\ LineRight(a, ob, output[a], executing[a], inbox[a])
      BY Zenon, <1>4 DEF ob
    <3> QED BY ONLY <1>3, <1>4, <2>1, <3>1, DequeueRight
  <2> QED BY Zenon, <2>2 DEF ob, Line
<1>6. calls \in Seq(Call) /\ DOMAIN calls = 1..Len(calls) BY ONLY <1>0 DEF TypeOK
<1>7. calls[f] \in Call BY ONLY <1>1, <1>6
<1> HIDE DEF r, f, a
<1>8. /\ new \in Call /\ new.kind = calls[f].kind /\ new.non_block = calls[f].non_block
      /\ new.answers = Append(calls[f].answers, f)
      /\ new.status = IF ~ r.ok THEN "error" ELSE IF last THEN "ok" ELSE calls[f].status
  <2> DEFINE answers == Append(calls[f].answers, r.call)
             status == IF ~ r.ok THEN "error" ELSE IF last THEN "ok" ELSE calls[f].status
  <2>1. status \in {"sent", "ok", "error"} BY Zenon, <1>7 DEF Call
  <2>2. answers \in Seq(Nat) /\ answers = Append(calls[f].answers, f)
    BY ONLY <1>1, <1>3, <1>6, <1>7 DEF Call
  <2>3. new = [calls[f] EXCEPT !.answers = answers, !.status = status] BY Zenon
  <2> HIDE DEF answers, status, new, last
  <2>4. new \in Call /\ new.kind = calls[f].kind /\ new.non_block = calls[f].non_block
        /\ new.answers = answers /\ new.status = status
    BY Zenon, <1>7, <2>1, <2>2, <2>3 DEF Call
  <2> QED BY Zenon, <2>2, <2>4 DEF status
<1>9. r.ok \in BOOLEAN /\ (calls[f].kind = "utility" => r.ok)
  BY Zenon, <1>5 DEF Response, Inv, AnswersAwaited
<1> HIDE DEF new, last
<1>10. /\ calls' \in Seq(Call) /\ Len(calls') = Len(calls) /\ calls'[f] = new
       /\ \A c \in 1..Len(calls) : c # f => calls'[c] = calls[c]
  BY ONLY <1>1, <1>2, <1>6, <1>8
<1>11. /\ outbox' \in [Worker -> Seq(Response)] /\ outbox'[a] = Tail(outbox[a])
       /\ \A w \in Worker \ {a} : outbox'[w] = outbox[w]
  BY Zenon, <1>0, <1>2, <1>3, <1>5 DEF TypeOK
<1>12. /\ engine'.pc = "wait" /\ engine'.call = engine.call
       /\ engine' \in [pc : {"wait"}, call : Nat, future : Nat, at : Nat]
       /\ IF r.ok /\ ~ last THEN engine'.future = f /\ engine'.at = a + 1
          ELSE engine'.future = 0
  <2>1. engine \in [pc : {"wait"}, call : Nat, future : Nat, at : Nat] /\ engine.future = f
    BY Zenon, <1>0 DEF TypeOK, At, f
  <2>2. CASE r.ok /\ ~ last
    <3>1. engine' = [engine EXCEPT !.at = a + 1] BY Zenon, <1>2, <2>2
    <3> QED BY ONLY <1>1, <2>1, <2>2, <3>1
  <2>3. CASE ~ (r.ok /\ ~ last)
    <3>1. engine' = [engine EXCEPT !.future = 0, !.at = 0] BY Zenon, <1>2, <2>3
    <3> QED BY Zenon, <2>1, <2>3, <3>1
  <2> QED BY Zenon, <2>2, <2>3
<1>13. TypeOK' BY Zenon, <1>0, <1>2, <1>10, <1>11, <1>12 DEF TypeOK, flags
<1>14. /\ calls[f].kind \in {"step", "utility"} /\ calls[f].answers \in Seq(Nat)
       /\ Len(calls[f].answers) = IF calls[f].kind = "step" THEN 0 ELSE a
       /\ \A i \in 1..Len(calls[f].answers) : calls[f].answers[i] = f
       /\ \A c \in Elements(futures) : f < c
  BY Zenon, <1>0, <1>7 DEF Call, FutureInOrder, f, a
<1>15. /\ Len(new.answers) = Len(calls[f].answers) + 1
       /\ DOMAIN new.answers = 1..Len(new.answers)
       /\ \A i \in 1..Len(new.answers) : new.answers[i] = f
  <2> DEFINE q == calls[f].answers
  <2>1. q \in Seq(Nat) /\ f \in Nat /\ \A i \in 1..Len(q) : q[i] = f BY ONLY <1>1, <1>6, <1>14
  <2>2. new.answers = Append(q, f) BY Zenon, <1>8
  <2> HIDE DEF q
  <2>3. /\ Len(Append(q, f)) = Len(q) + 1 /\ Len(q) \in Nat
        /\ DOMAIN Append(q, f) = 1..Len(Append(q, f))
        /\ Append(q, f)[Len(q) + 1] = f
        /\ \A i \in 1..Len(q) : Append(q, f)[i] = f
    BY ONLY <2>1
  <2> QED BY ONLY <2>2, <2>3 DEF q
<1>16. ASSUME r.ok /\ ~ last
       PROVE  FutureInOrder'
  <2>1. calls[f].kind = "utility" /\ a # N - 1 BY Zenon, <1>14, <1>16 DEF last
  <2>2. a + 1 \in Worker BY ONLY <1>3, <2>1, ExecutorAssumption DEF Worker
  <2>3. calls'[f].kind = "utility" /\ calls'[f].status = "sent" /\ calls'[f].answers = new.answers
    BY Zenon, <1>1, <1>8, <1>10, <1>16, <2>1 DEF Sent
  <2>4. Len(new.answers) = a + 1 BY Zenon, <1>14, <1>15, <2>1
  <2>5. engine'.future = f /\ engine'.at = a + 1 /\ engine'.pc = "wait" BY Zenon, <1>12, <1>16
  <2>6. futures' = futures /\ f \in 1..Len(calls') BY Zenon, <1>1, <1>2, <1>10
  <2> QED BY Zenon, <1>14, <1>15, <2>2, <2>3, <2>4, <2>5, <2>6 DEF FutureInOrder, Repliers, Sent, At
<1>19. \A c \in 1..Len(calls) : calls'[c].kind = calls[c].kind BY Zenon, <1>8, <1>10
<1>20. \A c \in 1..Len(calls) : /\ Repliers(c)' = Repliers(c)
                               /\ NumRepliers(c)' = NumRepliers(c)
  BY Zenon, <1>19 DEF Repliers, NumRepliers
<1>17. ASSUME new.status = "ok" PROVE ResultsAreOwn'
  <2>1. r.ok /\ last BY Zenon, <1>1, <1>8, <1>17 DEF Sent
  <2>3. Len(new.answers) = NumRepliers(f)
    BY ONLY <1>14, <1>15, <2>1, ExecutorAssumption DEF NumRepliers, last
  <2>5. ASSUME NEW c \in DOMAIN calls', calls'[c].status = "ok"
        PROVE  /\ \A i \in DOMAIN calls'[c].answers : calls'[c].answers[i] = c
               /\ Len(calls'[c].answers) = NumRepliers(c) \/ shutting_down
    <3>1. c \in 1..Len(calls) BY ONLY <1>10
    <3>2. CASE c = f BY Zenon, <1>10, <1>15, <2>3, <3>2
    <3>3. CASE c # f
      <4>1. calls'[c] = calls[c] /\ c \in DOMAIN calls BY Zenon, <1>6, <1>10, <3>1, <3>3
      <4> QED BY Zenon, <2>5, <4>1 DEF Inv, ResultsAreOwn
    <3> QED BY Zenon, <3>2, <3>3
  <2>6. \A c \in DOMAIN calls' : NumRepliers(c)' = NumRepliers(c) BY ONLY <1>10, <1>20
  <2>7. shutting_down' = shutting_down BY Zenon, <1>2 DEF flags
  <2> QED BY Zenon, <2>5, <2>6, <2>7 DEF ResultsAreOwn
<1>18. AnswersAwaited' /\ ShutdownInOrder' /\ FuturesInOrder' /\ Live' /\ ResultsAreOwn'
  <2>1. \/ engine'.future = 0 /\ calls'[f].status # "sent"
        \/ engine'.future = f /\ FutureInOrder'
    BY Zenon, <1>8, <1>9, <1>10, <1>12, <1>16
  <2>2. UNCHANGED <<config, futures, monitor, flags, inbox, executing, output, proc>>
    BY Zenon, <1>2
  <2> QED BY Zenon, <1>0, <1>8, <1>10, <1>12, <1>13, <1>17, <2>1, <2>2, FutureStep DEF f
<1>21. ASSUME NEW w \in Worker
       PROVE  LineRight(w, outbox[w], output[w], executing[w], inbox[w])'
  <2>1. LineRight(w, outbox'[w], output[w], executing[w], inbox[w])
    BY Zenon, <1>4, <1>5, <1>11 DEF Inv, LineInOrder
  <2>2. output'[w] = output[w] /\ executing'[w] = executing[w] /\ inbox'[w] = inbox[w]
        /\ config' = config
    BY Zenon, <1>2
  <2>3. AnswersRight(w, outbox'[w]) /\ AnswersRight(w, output'[w]) BY Zenon, <2>1, <2>2 DEF LineRight
  <2>4. AnswersRight(w, outbox[w])' /\ AnswersRight(w, output[w])'
    BY Zenon, <1>10, <1>19, <2>2, <2>3 DEF AnswersRight, Repliers
  <2> QED BY Zenon, <1>10, <2>1, <2>2, <2>4 DEF LineRight
<1>22. \A w \in Worker : LineInOrder(w)' BY Zenon, <1>12, <1>21 DEF LineInOrder, At
<1>23. ASSUME NEW w \in Worker
       PROVE  /\ Line(w)' = IF w = a THEN Line(w) \ {f} ELSE Line(w)
              /\ Line(w) \subseteq 1..Len(calls)
              /\ CallsIn(outbox'[w]) = IF w = a THEN CallsIn(outbox[w]) \ {f}
                                       ELSE CallsIn(outbox[w])
  BY Zenon, <1>2, <1>5, <1>11 DEF Line, Inv, LineInOrder, LineRight
<1>24. ASSUME NEW w \in Worker
       PROVE  Awaited(w)' = IF w = a THEN Awaited(w) \ {f} ELSE Awaited(w)
  <2>1. \A c : c \in Awaited(w) <=>
               /\ c \in 1..Len(calls) /\ w \in Repliers(c)
               /\ c \in Elements(futures) \/ (c = f /\ a <= w)
    BY Zenon, <1>0 DEF Awaited, At, f, a
  <2>2. \A c : c \in Awaited(w)' <=>
               /\ c \in 1..Len(calls) /\ w \in Repliers(c)
               /\ c \in Elements(futures) \/ (c = engine'.future /\ engine'.at <= w)
    <3>1. \A c : c \in Awaited(w)' <=>
               /\ c \in 1..Len(calls') /\ w \in Repliers(c)'
               /\ c \in Elements(futures) \/ (c = engine'.future /\ engine'.at <= w)
      BY Zenon, <1>2, <1>12 DEF Awaited, At
    <3> QED BY Zenon, <1>10, <1>20, <3>1
  <2>3. f \notin Elements(futures) BY ONLY <1>1, <1>6, <1>14
  <2>4. w \in Nat /\ w <= N - 1 /\ N \in Nat BY ONLY ExecutorAssumption DEF Worker
  <2>5. CASE calls[f].kind = "step"
    <3>1. engine'.future = 0 BY Zenon, <1>12, <2>5 DEF last
    <3>2. w \in Repliers(f) <=> w = a BY Zenon, <1>1, <2>5 DEF Repliers
    <3>3. \A c : c \in Awaited(w)' <=> c \in Awaited(w) /\ ~ (w = a /\ c = f)
      BY ONLY <1>1, <2>1, <2>2, <2>3, <2>4, <3>1, <3>2
    <3> QED BY Zenon, <3>3
  <2>6. CASE calls[f].kind = "utility"
    <3>1. IF a # N - 1 THEN engine'.future = f /\ engine'.at = a + 1 ELSE engine'.future = 0
      BY Zenon, <1>9, <1>12, <2>6 DEF last
    <3>2. a <= w /\ w # a <=> a + 1 <= w BY ONLY <1>1, <2>4
    <3>3. a = N - 1 /\ a <= w => w = a BY ONLY <1>1, <2>4
    <3>4. \A c : c \in Awaited(w)' <=> c \in Awaited(w) /\ ~ (w = a /\ c = f)
      BY ONLY <1>1, <2>1, <2>2, <2>3, <2>4, <3>1, <3>2, <3>3
    <3> QED BY Zenon, <3>4
  <2> QED BY Zenon, <1>14, <2>5, <2>6
<1>25. AnswersInOrder'
  <2>1. ASSUME NEW w \in Worker, Matched(w) PROVE Matched(w)'
    <3>1. \A c : c \in Line(w)' /\ w \in Repliers(c)' <=> c \in Awaited(w)'
      BY Zenon, <1>20, <1>23, <1>24, <2>1 DEF Matched
    <3> QED BY Zenon, <3>1 DEF Matched
  <2>2. ASSUME NEW w \in Worker, MatchedSoFar(w) PROVE MatchedSoFar(w)'
    BY Zenon, <1>23, <1>24, <2>2 DEF MatchedSoFar
  <2>3. closed' = closed BY Zenon, <1>2 DEF flags
  <2>4. AnswersInOrder BY Zenon, <1>0 DEF Inv
  <2> QED BY Zenon, <1>0, <1>12, <2>1, <2>2, <2>3, <2>4 DEF AnswersInOrder, At
<1> QED BY Zenon, <1>13, <1>18, <1>22, <1>25 DEF Inv

\* A new call is sent to all workers, behind all others.
LEMMA CollectiveRpcInv ==
  ASSUME Inv, NEW kind \in {"step", "utility"}, NEW non_block \in BOOLEAN,
         CollectiveRpc(kind, non_block)
  PROVE  Inv'
<1> DEFINE n == Len(calls)
           refused == closed \/ is_failed
           x == [kind |-> kind, non_block |-> non_block,
                 status |-> IF refused THEN "error" ELSE "sent", answers |-> << >>]
<1>0. /\ Live /\ engine.pc = "run" /\ TypeOK /\ FuturesInOrder /\ engine.future = 0
      /\ kind = "utility" => ~ non_block
  BY Zenon DEF Inv, CollectiveRpc, At, Live, FuturesInOrder
<1>1. /\ calls' = Append(calls, x)
      /\ engine' = IF refused THEN Raise(kind)
                   ELSE [Running EXCEPT !.pc = "enqueue", !.call = n + 1]
      /\ UNCHANGED <<config, futures, monitor, flags, workers>>
  BY Zenon DEF CollectiveRpc
<1>2. /\ UNCHANGED <<config, futures, monitor, is_failed, shutting_down, closed, callbacks>>
      /\ UNCHANGED <<inbox, executing, output, outbox, proc>>
  BY Zenon, <1>1 DEF flags, workers
<1>3. /\ x \in Call /\ x.kind = kind /\ x.non_block = non_block /\ x.answers = << >>
      /\ x.status = IF refused THEN "error" ELSE "sent"
  BY DEF Call
<1>4. calls \in Seq(Call) /\ n \in Nat /\ DOMAIN calls = 1..n BY ONLY <1>0 DEF TypeOK
<1> HIDE DEF x
<1>5. /\ calls' \in Seq(Call) /\ Len(calls') = n + 1 /\ calls'[n + 1] = x
      /\ DOMAIN calls' = 1..(n + 1)
      /\ \A c \in 1..n : calls'[c] = calls[c]
  BY ONLY <1>1, <1>3, <1>4
<1>6. /\ engine'.future = 0
      /\ engine' \in [pc : {"run", "raised", "enqueue"}, call : Nat, future : Nat, at : Nat]
      /\ IF refused THEN engine'.pc = IF kind = "step" THEN "raised" ELSE "run"
         ELSE engine'.pc = "enqueue" /\ engine'.call = n + 1
  <2>1. CASE refused
    <3>1. engine' = [pc |-> IF kind = "step" THEN "raised" ELSE "run",
                     call |-> 0, future |-> 0, at |-> 0]
      BY Zenon, <1>1, <2>1 DEF Raise, Running
    <3> QED BY Zenon, <2>1, <3>1
  <2>2. CASE ~ refused
    <3>1. engine' = [pc |-> "enqueue", call |-> n + 1, future |-> 0, at |-> 0]
      BY Zenon, <1>1, <2>2 DEF Running
    <3> QED BY ONLY <1>4, <2>2, <3>1
  <2> QED BY Zenon, <2>1, <2>2
<1>7. TypeOK' BY Zenon, <1>0, <1>2, <1>5, <1>6 DEF TypeOK
<1>8. AnswersAwaited' /\ ShutdownInOrder'
  BY Zenon, <1>0, <1>2 DEF Inv, AnswersAwaited, ShutdownInOrder, AllDead, Live
<1>9. \A c \in 1..n : Repliers(c)' = Repliers(c) /\ NumRepliers(c)' = NumRepliers(c)
  BY Zenon, <1>5 DEF Repliers, NumRepliers
<1>10. ResultsAreOwn'
  <2>1. ASSUME NEW c \in DOMAIN calls', calls'[c].status = "ok"
        PROVE  /\ \A i \in DOMAIN calls'[c].answers : calls'[c].answers[i] = c
               /\ Len(calls'[c].answers) = NumRepliers(c)' \/ shutting_down'
    <3>1. c # n + 1 BY Zenon, <1>3, <1>5, <2>1
    <3>2. c \in 1..n /\ c \in DOMAIN calls /\ calls'[c] = calls[c] BY ONLY <1>4, <1>5, <3>1
    <3> QED BY Zenon, <1>2, <1>9, <2>1, <3>2 DEF Inv, ResultsAreOwn
  <2> QED BY Zenon, <2>1 DEF ResultsAreOwn
<1>11. ASSUME NEW w \in Worker
       PROVE  /\ LineRight(w, outbox[w], output[w], executing[w], inbox[w])'
              /\ Line(w)' = Line(w) /\ Line(w) \subseteq 1..n
  BY <1>2, <1>4, <1>5, <1>7, LineKept
<1>12. \A w \in Worker : LineInOrder(w)'
  <2>1. At("enqueue")' => engine'.call = n + 1 BY Zenon, <1>6 DEF At
  <2> QED BY ONLY <1>4, <1>11, <2>1 DEF LineInOrder
<1>13. Elements(futures) \subseteq 1..n /\ Elements(futures') = Elements(futures)
  BY Zenon, <1>0, <1>2 DEF FuturesInOrder
<1>14. ASSUME Live' PROVE FuturesInOrder'
  <2>1. FutureInOrder' BY Zenon, <1>6 DEF FutureInOrder
  <2>2. CallInOrder'
    <3>1. \A c \in Elements(futures) : c < n + 1 BY ONLY <1>4, <1>13
    <3>2. engine'.pc \in {"enqueue", "register"} => ~ refused /\ engine'.call = n + 1
      BY Zenon, <1>6
    <3>3. ~ refused => calls'[n + 1].status = "sent" BY Zenon, <1>3, <1>5
    <3>4. calls'[n + 1].answers = << >> /\ n + 1 = Len(calls') /\ Len(calls') > 0
      BY ONLY <1>3, <1>4, <1>5
    <3> QED BY ONLY <1>2, <1>6, <3>1, <3>2, <3>3, <3>4 DEF CallInOrder, Sent, Elements
  <2>3. \A c \in Elements(futures') :
          c \in 1..Len(calls') /\ calls'[c].status = "sent" /\ calls'[c].answers = << >>
    <3>1. \A c \in Elements(futures) : calls[c].status = "sent" /\ calls[c].answers = << >>
      BY Zenon, <1>0 DEF FuturesInOrder, Sent
    <3>2. \A c \in 1..n : c \in 1..Len(calls') BY ONLY <1>4, <1>5
    <3> QED BY Zenon, <1>5, <1>13, <3>1, <3>2
  <2>4. ASSUME NEW c \in 1..Len(calls')
        PROVE  /\ calls'[c].kind = "utility" => ~ calls'[c].non_block
               /\ calls'[c].status = "sent" =>
                    c \in Elements(futures') \/ (engine'.pc = "enqueue" /\ c = engine'.call)
               /\ calls'[c].status = "sent" /\ calls'[c].kind = "utility" =>
                    c = engine'.call /\ c = Len(calls') /\ engine'.pc # "run"
    <3>1. CASE c = n + 1 BY Zenon, <1>0, <1>3, <1>5, <1>6, <3>1
    <3>2. CASE c # n + 1
      <4>1. c \in 1..n /\ calls'[c] = calls[c] BY ONLY <1>4, <1>5, <3>2
      <4>2. engine.pc = "run" /\ c # engine.future BY ONLY <1>0, <1>4, <4>1
      <4> QED BY Zenon, <1>0, <1>13, <4>1, <4>2 DEF FuturesInOrder, Sent, At
    <3> QED BY Zenon, <3>1, <3>2
  <2>5. engine'.pc # "wait" BY Zenon, <1>6
  <2> QED BY Zenon, <1>0, <1>2, <1>6, <2>1, <2>2, <2>3, <2>4, <2>5 DEF FuturesInOrder, Sent, At
<1>15. ASSUME Live' PROVE AnswersInOrder'
  <2>1. ASSUME NEW w \in Worker PROVE Awaited(w)' = Awaited(w)
    <3>1. \A c : c \in Awaited(w) <=>
                 c \in 1..n /\ w \in Repliers(c) /\ c \in Elements(futures)
      BY ONLY <1>0, <1>4 DEF Awaited, At
    <3>2. \A c : c \in Awaited(w)' <=>
                 c \in 1..(n + 1) /\ w \in Repliers(c)' /\ c \in Elements(futures)
      BY ONLY <1>2, <1>4, <1>5, <1>6 DEF Awaited, At
    <3>3. \A c : c \in Awaited(w)' <=> c \in Awaited(w)
      BY ONLY <1>4, <1>9, <1>13, <3>1, <3>2
    <3> QED BY Zenon, <3>3
  <2>2. ASSUME NEW w \in Worker, Matched(w) PROVE Matched(w)'
    <3>1. \A c : c \in Line(w)' /\ w \in Repliers(c)' <=> c \in Awaited(w)'
      BY Zenon, <1>9, <1>11, <2>1, <2>2 DEF Matched
    <3> QED BY Zenon, <3>1 DEF Matched
  <2>3. ASSUME NEW w \in Worker, MatchedSoFar(w) PROVE MatchedSoFar(w)'
    BY Zenon, <1>2, <2>1, <2>3 DEF MatchedSoFar
  <2>4. AnswersInOrder BY Zenon, <1>0 DEF Inv
  <2>5. closed' = closed /\ (closed => engine'.pc = "run") BY Zenon, <1>2, <1>6, <1>15 DEF Live
  <2> QED BY Zenon, <1>0, <2>2, <2>3, <2>4, <2>5 DEF AnswersInOrder
<1> QED BY Zenon, <1>7, <1>8, <1>10, <1>12, <1>14, <1>15 DEF Inv

\* The call goes to the end of every worker's line.
LEMMA EnqueueInv ==
  ASSUME Inv, Enqueue
  PROVE  Inv'
<1> DEFINE k == engine.call
<1>0. /\ Live /\ engine.pc = "enqueue" /\ TypeOK /\ FuturesInOrder /\ CallInOrder
      /\ AnswersInOrder
  BY Zenon DEF Inv, Enqueue, At, Live, FuturesInOrder
<1>1. /\ inbox' = [w \in Worker |-> Append(inbox[w], k)]
      /\ engine' = [engine EXCEPT !.pc = "register"]
      /\ UNCHANGED <<config, executor, monitor, flags, executing, output, outbox, proc>>
  BY Zenon DEF Enqueue
<1>2. /\ UNCHANGED <<config, calls, futures, monitor, is_failed, shutting_down, closed>>
      /\ UNCHANGED <<executing, output, outbox, proc>>
  BY Zenon, <1>1 DEF executor, flags
<1>3. /\ k = Len(calls) /\ k \in Nat \ {0} /\ Sent(k) /\ engine.future = 0
      /\ calls[k].answers = << >> /\ \A c \in Elements(futures) : c < k
  BY ONLY <1>0 DEF CallInOrder, TypeOK
<1>4. engine' = [pc |-> "register", call |-> k, future |-> engine.future, at |-> engine.at]
  BY Zenon, <1>0, <1>1 DEF TypeOK
<1>5. /\ engine'.pc = "register" /\ engine'.call = k /\ engine'.future = 0
      /\ engine' \in [pc : {"register"}, call : Nat, future : Nat, at : Nat]
  BY Zenon, <1>0, <1>3, <1>4 DEF TypeOK
<1> HIDE DEF k
<1>6. TypeOK' BY ONLY <1>0, <1>1, <1>2, <1>3, <1>5 DEF TypeOK
<1>7. AnswersAwaited' /\ ShutdownInOrder' /\ ResultsAreOwn'
  BY Zenon, <1>0, <1>2 DEF Inv, AnswersAwaited, ShutdownInOrder, AllDead, Live, ResultsAreOwn, Repliers, NumRepliers
<1>8. FuturesInOrder'
  <2>1. FutureInOrder' BY Zenon, <1>5 DEF FutureInOrder
  <2>2. CallInOrder' BY ONLY <1>2, <1>3, <1>5 DEF CallInOrder, Sent
  <2>3. \A c \in 1..Len(calls) : Sent(c) => c \in Elements(futures) \/ c = k
    BY ONLY <1>0, <1>3 DEF FuturesInOrder, k
  <2>4. \A c \in 1..Len(calls) : Sent(c) /\ calls[c].kind = "utility" => c = k /\ c = Len(calls)
    BY Zenon, <1>0 DEF FuturesInOrder, k
  <2>5. engine'.pc \notin {"run", "wait"} BY Zenon, <1>5
  <2> QED BY Zenon, <1>0, <1>2, <1>5, <2>1, <2>2, <2>3, <2>4, <2>5 DEF FuturesInOrder, Sent, At
<1>9. ASSUME NEW w \in Worker
      PROVE  /\ LineRight(w, outbox'[w], output'[w], executing'[w], inbox'[w])
             /\ Line(w)' = Line(w) \union {k}
  <2>1. /\ LineRight(w, outbox[w], output[w], executing[w], inbox[w])
        /\ inbox[w] \in Seq(Nat) /\ k \notin Line(w) /\ Line(w) \subseteq 1..k
    BY Zenon, <1>0, <1>3 DEF Inv, LineInOrder, TypeOK, LineRight, Line, At, k
  <2>2. \A y \in Line(w) : y < k BY ONLY <1>3, <2>1
  <2>3. \A y \in Elements(inbox[w]) : y < k BY Zenon, <2>2 DEF Line, InLine
  <2>4. /\ inbox'[w] = Append(inbox[w], k) /\ Increasing(inbox'[w])
        /\ Elements(inbox'[w]) = Elements(inbox[w]) \union {k}
    <3> DEFINE ib == inbox[w]
    <3>1. ib \in Seq(Nat) /\ k \in Nat /\ Increasing(ib) /\ \A y \in Elements(ib) : y < k
      BY Zenon, <1>3, <2>1, <2>3 DEF LineRight
    <3> HIDE DEF ib
    <3>2. Increasing(Append(ib, k)) /\ Elements(Append(ib, k)) = Elements(ib) \union {k}
      BY Zenon, <3>1, AppendCall
    <3> QED BY Zenon, <1>1, <3>2 DEF ib
  <2>5. InLine(outbox[w], output[w], executing[w], inbox'[w]) = Line(w) \union {k}
    BY Zenon, <2>4 DEF Line, InLine
  <2>6. Line(w)' = Line(w) \union {k} BY Zenon, <1>2, <2>5 DEF Line
  <2>7. LineRight(w, outbox[w], output[w], executing[w], inbox'[w])
    <3>1. InLine(outbox[w], output[w], executing[w], inbox'[w]) \subseteq 1..Len(calls)
      BY ONLY <1>3, <2>1, <2>5
    <3>2. \A y \in CallsIn(outbox[w]) \union CallsIn(output[w]) \union ({executing[w]} \ {0}) :
            y < k
      BY Zenon, <2>2 DEF Line, InLine
    <3> QED BY Zenon, <2>1, <2>4, <3>1, <3>2 DEF LineRight, Before
  <2> QED BY Zenon, <1>2, <2>6, <2>7
<1>10. \A w \in Worker : LineInOrder(w)'
  <2>1. ASSUME NEW w \in Worker
        PROVE  LineRight(w, outbox[w], output[w], executing[w], inbox[w])'
    BY Zenon, <1>2, <1>9 DEF LineRight, AnswersRight, Repliers
  <2> QED BY Zenon, <1>5, <2>1 DEF LineInOrder, At
<1>11. AnswersInOrder'
  <2>1. ASSUME NEW w \in Worker
        PROVE  \A c : c \in Awaited(w)' <=> c \in Awaited(w) \/ (c = k /\ w \in Repliers(k))
    <3>1. \A c : c \in Awaited(w) <=>
                 c \in 1..Len(calls) /\ w \in Repliers(c) /\ c \in Elements(futures)
      BY ONLY <1>0, <1>3 DEF Awaited, At
    <3>2. \A c : c \in Awaited(w)' <=>
                 c \in 1..Len(calls) /\ w \in Repliers(c) /\ (c \in Elements(futures) \/ c = k)
      BY ONLY <1>2, <1>3, <1>5 DEF Awaited, At, Repliers
    <3> QED BY ONLY <1>3, <3>1, <3>2
  <2>2. ASSUME NEW w \in Worker PROVE Matched(w)'
    <3>1. Matched(w) BY Zenon, <1>0 DEF AnswersInOrder
    <3>2. \A c : Repliers(c)' = Repliers(c) BY Zenon, <1>2 DEF Repliers
    <3>3. \A c : c \in Line(w)' /\ w \in Repliers(c)' <=> c \in Awaited(w)'
      BY ONLY <1>9, <2>1, <3>1, <3>2 DEF Matched
    <3> QED BY Zenon, <3>3 DEF Matched
  <2> QED BY Zenon, <1>5, <2>2 DEF AnswersInOrder
<1> QED BY Zenon, <1>6, <1>7, <1>8, <1>10, <1>11 DEF Inv

\* The future is queued behind the others, or, when the queues are gone, ends at once.
LEMMA RegisterInv ==
  ASSUME Inv, Register
  PROVE  Inv'
<1> DEFINE k == engine.call
<1>0. /\ Live /\ engine.pc = "register" /\ TypeOK /\ FuturesInOrder /\ CallInOrder
      /\ AnswersInOrder /\ \A w \in Worker : Matched(w)
  BY Zenon DEF Inv, Register, At, Live, FuturesInOrder, AnswersInOrder
<1>1. /\ UNCHANGED <<config, monitor, is_failed, shutting_down, closed, callbacks>>
      /\ UNCHANGED <<inbox, executing, output, outbox, proc>>
  BY Zenon DEF Register, flags, workers
<1>2. /\ k = Len(calls) /\ k \in Nat \ {0} /\ Sent(k) /\ engine.future = 0
      /\ calls[k].answers = << >> /\ \A c \in Elements(futures) : c < k
      /\ k \in 1..Len(calls)
  BY ONLY <1>0 DEF CallInOrder, TypeOK
<1>3. calls \in Seq(Call) /\ DOMAIN calls = 1..Len(calls) /\ futures \in Seq(Nat)
  BY ONLY <1>0 DEF TypeOK
<1>4. calls[k] \in Call
  <2> HIDE DEF k
  <2> QED BY ONLY <1>2, <1>3
<1>5. AnswersAwaited' BY Zenon, <1>1 DEF Inv, AnswersAwaited
<1>6. ASSUME NEW w \in Worker
      PROVE  \A c : c \in Awaited(w) <=>
                    /\ c \in 1..Len(calls) /\ w \in Repliers(c)
                    /\ c \in Elements(futures) \/ c = k
  BY ONLY <1>0, <1>2 DEF Awaited, At
<1>7. CASE ~ closed
  <2>1. /\ futures' = Append(futures, k) /\ calls' = calls
        /\ engine' = IF calls[k].non_block THEN Running ELSE [engine EXCEPT !.pc = "wait"]
    BY Zenon, <1>7 DEF Register
  <2>2. /\ futures' \in Seq(Nat) /\ Increasing(futures')
        /\ Elements(futures') = Elements(futures) \union {k}
    <3> HIDE DEF k
    <3> QED BY Zenon, <1>0, <1>2, <1>3, <2>1, AppendCall DEF FuturesInOrder
  <2>3. /\ engine'.future = 0
        /\ engine' \in [pc : {"run", "wait"}, call : Nat, future : Nat, at : Nat]
        /\ IF calls[k].non_block THEN engine'.pc = "run"
           ELSE engine'.pc = "wait" /\ engine'.call = k
    <3>1. CASE calls[k].non_block
      <4>1. engine' = Running BY Zenon, <2>1, <3>1
      <4> QED BY Zenon, <3>1, <4>1 DEF Running
    <3>2. CASE ~ calls[k].non_block
      <4>1. engine' = [engine EXCEPT !.pc = "wait"] BY Zenon, <2>1, <3>2
      <4> QED BY Zenon, <1>0, <1>2, <3>2, <4>1 DEF TypeOK
    <3> QED BY Zenon, <3>1, <3>2
  <2> HIDE DEF k
  <2>4. TypeOK' BY Zenon, <1>0, <1>1, <2>1, <2>2, <2>3 DEF TypeOK
  <2>5. ShutdownInOrder' /\ ResultsAreOwn'
    BY Zenon, <1>0, <1>1, <2>1 DEF Inv, ShutdownInOrder, AllDead, Live, ResultsAreOwn, Repliers, NumRepliers
  <2>6. \A w \in Worker : LineInOrder(w)'
    <3>1. Len(calls) <= Len(calls') BY ONLY <1>2, <2>1
    <3>2. ~ At("enqueue")' BY Zenon, <2>3 DEF At
    <3> QED BY Zenon, <1>1, <2>1, <2>4, <3>1, <3>2, LineKept DEF LineInOrder
  <2>7. FuturesInOrder'
    <3>1. FutureInOrder' /\ CallInOrder' BY Zenon, <2>3 DEF FutureInOrder, CallInOrder
    <3>2. \A c \in Elements(futures') :
            c \in 1..Len(calls) /\ Sent(c) /\ calls[c].answers = << >>
      BY Zenon, <1>0, <1>2, <2>2 DEF FuturesInOrder
    <3>3. \A c \in 1..Len(calls) : Sent(c) => c \in Elements(futures')
      BY ONLY <1>0, <1>2, <2>2 DEF FuturesInOrder, k
    <3>4. ASSUME NEW c \in 1..Len(calls), Sent(c), calls[c].kind = "utility"
          PROVE  c = engine'.call /\ c = Len(calls) /\ engine'.pc # "run"
      <4>1. c = k /\ ~ calls[c].non_block BY Zenon, <1>0, <3>4 DEF FuturesInOrder, k
      <4> QED BY Zenon, <1>2, <2>3, <4>1
    <3>5. engine'.pc = "wait" => engine'.call \in 1..Len(calls) BY Zenon, <1>2, <2>3
    <3> QED BY ONLY <1>0, <2>1, <2>2, <2>3, <3>1, <3>2, <3>3, <3>4, <3>5
            DEF FuturesInOrder, Sent, At
  <2>8. AnswersInOrder'
    <3>1. ASSUME NEW w \in Worker PROVE Matched(w)'
      <4>1. \A c : Repliers(c)' = Repliers(c) BY Zenon, <2>1 DEF Repliers
      <4>2. \A c : c \in Awaited(w)' <=>
                   c \in 1..Len(calls) /\ w \in Repliers(c) /\ c \in Elements(futures')
        BY ONLY <1>2, <2>1, <2>3, <4>1 DEF Awaited, At
      <4>3. Awaited(w)' = Awaited(w) BY Zenon, <1>6, <2>2, <4>2
      <4>4. Line(w)' = Line(w) BY Zenon, <1>1 DEF Line
      <4> QED BY Zenon, <1>0, <4>1, <4>3, <4>4 DEF Matched
    <3> QED BY Zenon, <1>1, <1>7, <3>1 DEF AnswersInOrder
  <2> QED BY Zenon, <1>5, <2>4, <2>5, <2>6, <2>7, <2>8 DEF Inv
<1>8. CASE closed
  <2> DEFINE step == calls[k].kind = "step"
             new == [calls[k] EXCEPT !.status = IF step THEN "error" ELSE "ok"]
  <2>1. /\ calls' = [calls EXCEPT ![k] = new] /\ futures' = futures
        /\ engine' = IF step THEN Raise("step") ELSE Running
    BY Zenon, <1>8 DEF Register
  <2>2. /\ new \in Call /\ new.kind = calls[k].kind /\ new.non_block = calls[k].non_block
        /\ new.answers = << >> /\ new.status = IF step THEN "error" ELSE "ok"
    BY Zenon, <1>2, <1>4 DEF Call
  <2> HIDE DEF new, k
  <2>3. /\ calls' \in Seq(Call) /\ Len(calls') = Len(calls) /\ calls'[k] = new
        /\ DOMAIN calls' = 1..Len(calls)
        /\ \A c \in 1..Len(calls) : c # k => calls'[c] = calls[c]
    BY ONLY <1>2, <1>3, <2>1, <2>2
  <2>4. /\ engine'.future = 0
        /\ engine' \in [pc : {"run", "raised"}, call : Nat, future : Nat, at : Nat]
    <3>1. CASE step BY Zenon, <2>1, <3>1 DEF Raise, Running
    <3>2. CASE ~ step BY Zenon, <2>1, <3>2 DEF Running
    <3> QED BY Zenon, <3>1, <3>2
  <2>5. TypeOK' BY Zenon, <1>0, <1>1, <2>1, <2>3, <2>4 DEF TypeOK
  <2>6. \A c \in 1..Len(calls) : calls'[c].kind = calls[c].kind BY Zenon, <2>2, <2>3
  <2>7. \A c \in 1..Len(calls) : Repliers(c)' = Repliers(c) BY Zenon, <2>6 DEF Repliers
  <2>8. ShutdownInOrder' /\ shutting_down'
    BY Zenon, <1>0, <1>1, <1>8 DEF Inv, ShutdownInOrder, AllDead, Live
  <2>9. ResultsAreOwn'
    <3>1. ASSUME NEW c \in DOMAIN calls', calls'[c].status = "ok"
          PROVE  \A i \in DOMAIN calls'[c].answers : calls'[c].answers[i] = c
      <4>1. CASE c = k BY ONLY <2>2, <2>3, <4>1
      <4>2. CASE c # k BY Zenon, <1>3, <2>3, <3>1, <4>2 DEF Inv, ResultsAreOwn
      <4> QED BY Zenon, <4>1, <4>2
    <3> QED BY Zenon, <2>8, <3>1 DEF ResultsAreOwn
  <2>10. ASSUME NEW w \in Worker
         PROVE  LineInOrder(w)' /\ Line(w)' = Line(w)
    <3>1. Len(calls) <= Len(calls') BY ONLY <1>2, <2>3
    <3>2. ~ At("enqueue")' BY Zenon, <2>4 DEF At
    <3> QED BY Zenon, <1>1, <2>5, <2>6, <3>1, <3>2, LineKept DEF LineInOrder
  <2>11. k \notin Elements(futures) BY ONLY <1>2
  <2>12. FuturesInOrder'
    <3>1. FutureInOrder' /\ CallInOrder' BY Zenon, <2>4 DEF FutureInOrder, CallInOrder
    <3>2. \A c \in Elements(futures) :
            c \in 1..Len(calls) /\ calls'[c].status = "sent" /\ calls'[c].answers = << >>
      BY Zenon, <1>0, <2>3, <2>11 DEF FuturesInOrder, Sent
    <3>3. ASSUME NEW c \in 1..Len(calls)
          PROVE  /\ calls'[c].kind = "utility" => ~ calls'[c].non_block
                 /\ calls'[c].status = "sent" =>
                      c \in Elements(futures) /\ calls'[c].kind # "utility"
      <4>1. CASE c = k BY Zenon, <1>0, <1>2, <2>2, <2>3, <4>1 DEF FuturesInOrder
      <4>2. CASE c # k
        <5>1. calls'[c] = calls[c] BY Zenon, <2>3, <4>2
        <5>2. Sent(c) => c \in Elements(futures) \/ c = engine.future \/ c = engine.call
          BY Zenon, <1>0 DEF FuturesInOrder
        <5>3. Sent(c) /\ calls[c].kind = "utility" => c = engine.call
          BY Zenon, <1>0 DEF FuturesInOrder
        <5> QED BY ONLY <1>0, <1>2, <4>2, <5>1, <5>2, <5>3 DEF FuturesInOrder, Sent, k
      <4> QED BY Zenon, <4>1, <4>2
    <3> QED BY Zenon, <1>0, <2>1, <2>3, <2>4, <3>1, <3>2, <3>3 DEF FuturesInOrder, Sent, At
  <2>13. ASSUME Live' PROVE AnswersInOrder'
    <3>1. engine'.pc = "run" BY Zenon, <2>4, <2>13 DEF Live
    <3>2. ASSUME NEW w \in Worker PROVE MatchedSoFar(w)'
      <4>1. \A c : c \in Awaited(w)' <=>
                   c \in 1..Len(calls) /\ w \in Repliers(c) /\ c \in Elements(futures)
        <5>1. \A c : c \in Awaited(w)' <=>
                     c \in 1..Len(calls) /\ w \in Repliers(c)' /\ c \in Elements(futures)
          BY ONLY <1>2, <2>1, <2>3, <2>4, <3>1 DEF Awaited, At
        <5> QED BY Zenon, <2>7, <5>1
      <4>2. MatchedSoFar(w) BY Zenon, <1>0, MatchedWhole
      <4>3. \A c \in Awaited(w)' : c \in Awaited(w) /\ c < k BY Zenon, <1>2, <1>6, <4>1
      <4>4. \A x : x \in Awaited(w) /\ x # k => x \in Awaited(w)' BY Zenon, <1>6, <4>1
      <4>5. outbox'[w] = outbox[w] BY Zenon, <1>1
      <4>6. \A c \in Awaited(w)' : c \in Nat BY ONLY <4>1
      <4> QED BY ONLY <1>2, <4>2, <4>3, <4>4, <4>5, <4>6 DEF MatchedSoFar
    <3> QED BY Zenon, <1>1, <1>8, <3>1, <3>2 DEF AnswersInOrder
  <2> QED BY Zenon, <1>5, <2>5, <2>8, <2>9, <2>10, <2>12, <2>13 DEF Inv
<1> QED BY Zenon, <1>7, <1>8

-----------------------------------------------------------------------------
(* The theorem *)

\* Nothing has been called.
LEMMA InitInv ==
  ASSUME Init, AnswersAwaited
  PROVE  Inv
<1>1. << >> \in Seq(Nat) /\ << >> \in Seq(Call) /\ << >> \in Seq(Response) OBVIOUS
<1>2. TypeOK BY Zenon, <1>1 DEF Init, TypeOK, Running
<1>3. Elements(<< >>) = {} /\ CallsIn(<< >>) = {} /\ Increasing(<< >>)
      /\ Increasing(Named(<< >>))
  BY DEF Elements, CallsIn, Named, Increasing
<1>4. ShutdownInOrder /\ ResultsAreOwn BY DEF Init, ShutdownInOrder, ResultsAreOwn
<1>5. FuturesInOrder
  BY <1>3 DEF Init, Running, FuturesInOrder, FutureInOrder, CallInOrder, At
<1>6. ASSUME NEW w \in Worker
      PROVE  /\ outbox[w] = << >> /\ output[w] = << >> /\ executing[w] = 0 /\ inbox[w] = << >>
             /\ LineInOrder(w) /\ Line(w) = {}
  <2>1. outbox[w] = << >> /\ output[w] = << >> /\ executing[w] = 0 /\ inbox[w] = << >>
    BY Zenon DEF Init
  <2>2. AnswersRight(w, << >>) BY ONLY <1>3 DEF AnswersRight
  <2>3. InLine(<< >>, << >>, 0, << >>) = {} BY Zenon, <1>3 DEF InLine
  <2>4. LineRight(w, << >>, << >>, 0, << >>) BY Zenon, <1>3, <2>2, <2>3 DEF LineRight, Before
  <2> QED BY Zenon, <2>1, <2>3, <2>4 DEF LineInOrder, Line, Init, Running, At
<1>7. AnswersInOrder
  <2>1. ASSUME NEW w \in Worker PROVE Matched(w)
    <3>1. Awaited(w) = {} BY <1>3 DEF Awaited, Init, Running, At
    <3> QED BY Zenon, <1>6, <3>1 DEF Matched
  <2> QED BY Zenon, <2>1 DEF AnswersInOrder, Init
<1> QED BY Zenon, <1>2, <1>4, <1>5, <1>6, <1>7 DEF Inv

\* Every step preserves the invariant.
LEMMA NextInv ==
  ASSUME Inv, [Next]_vars
  PROVE  Inv'
<1>1. CASE UNCHANGED vars
  <2>1. /\ UNCHANGED <<config, executor, engine, monitor, flags, workers>>
        /\ UNCHANGED <<is_failed, shutting_down, closed, inbox, executing, output, outbox, proc>>
    BY Zenon, <1>1 DEF vars, flags, workers
  <2>2. TypeOK' BY <2>1 DEF Inv, TypeOK, executor
  <2>3. ShutdownInOrder' BY Zenon, <2>1 DEF Inv, ShutdownInOrder, Live, AllDead
  <2> QED BY Zenon, <2>1, <2>2, <2>3, FrameInv
<1>2. CASE Engine
  BY Zenon, <1>2, EnqueueInv, RegisterInv, DrainInv, DequeueInv, UnansweredInv, ReturnInv, EngineEndsInv
     DEF Engine
<1>3. CASE Monitor BY Zenon, <1>3, MonitorInv
<1>4. CASE EngineKilled BY Zenon, <1>4, EngineEndsInv
<1>5. CASE \E kind \in {"step", "utility"}, non_block \in BOOLEAN : CollectiveRpc(kind, non_block)
  BY Zenon, <1>5, CollectiveRpcInv
<1>6. CASE \E c \in 1..MaxCalls : Result(c)
  <2>1. PICK c \in 1..MaxCalls : Result(c) BY Zenon, <1>6
  <2>2. c \in Nat BY DEF Inv
  <2> QED BY Zenon, <2>1, <2>2, ResultInv
<1>7. CASE \E w \in Worker : Step(w) \/ EnqueueOutput(w) \/ Kill(w) \/ Crash(w)
  BY Zenon, <1>7, TakeInv, ExecuteInv, EnqueueOutputInv, DieInv DEF Step, Exit, Kill, Crash
<1> QED BY Zenon, <1>1, <1>2, <1>3, <1>4, <1>5, <1>6, <1>7 DEF Next

\* collective_rpc returns the answers of the workers that were asked, all of them and
\* to its own call, as long as every answer is waited for: for any number of workers
\* and calls, deaths of workers and of the engine included.
THEOREM AnswersAreOwn == Spec => [](AnswersAwaited => ResultsAreOwn)
<1> DEFINE I == AnswersAwaited => Inv
<1>1. Init => I BY Zenon, InitInv
<1>2. I /\ [Next]_vars => I'
  <2> SUFFICES ASSUME I, [Next]_vars, AnswersAwaited' PROVE Inv'
    BY Zenon
  <2>1. config' = config
    BY Zenon DEF Next, vars, Engine, Monitor, Step, CollectiveRpc, Result, Enqueue, Register, Drain,
           Dequeue, Unanswered, Return, ExecutorFailed, EngineShutdown, EngineTerminated,
           EngineExit, EngineKilled, MonitorWorkers, MonitorShutdown, MonitorTerminated,
           MonitorClose, MonitorCallback, Take, Execute, EnqueueOutput, Exit, Kill, Crash, Die
  <2>2. AnswersAwaited BY Zenon, <2>1 DEF AnswersAwaited
  <2> QED BY Zenon, <2>2, NextInv
<1>3. I => (AnswersAwaited => ResultsAreOwn) BY Zenon DEF Inv
<1> QED BY <1>1, <1>2, <1>3, PTL DEF Spec

=============================================================================
