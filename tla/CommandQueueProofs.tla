------------------------- MODULE CommandQueueProofs -------------------------
(***************************************************************************)
(* For every number of threads and requests and every nesting of calls:    *)
(* one command of the flow at a time, and the next only after its time.    *)
(***************************************************************************)
EXTENDS CommandQueue, FiniteSetTheorems, TLAPS

\* The call at place i of t's stack belongs to the Notify that set processing_.
IsFlow(t, i) == i \in 1 .. Depth(t) /\ frames[t][i].flow

Typed ==
    /\ processing \in BOOLEAN
    /\ queue \subseteq Queued
    /\ default_command \in Default \cup {NoCommand}
    /\ timer \in Command \cup {NoCommand}
    /\ frames \in [Thread -> Seq(Frame)]

\* Only a command's Run calls the queue again; a call outside the flow is a
\* notification, or a command processed at once, which nothing called.
Fits(f, i) ==
    /\ f.flow => f.at # "notify"
    /\ ~f.flow => f.at = "notify" \/ (i = 1 /\ f.at \in {"process", "run", "report"})
    /\ f.at \in {"process", "run", "report", "arm"} <=> f.command # NoCommand
Shape ==
    \A t \in Thread : \A i \in 1 .. Depth(t) :
        /\ i < Depth(t) => frames[t][i].at = "run"
        /\ Fits(frames[t][i], i)

OneFlow ==
    /\ \A t, u \in Thread : \A i, j \in Nat : IsFlow(t, i) /\ IsFlow(u, j) => t = u /\ i = j
    /\ timer # NoCommand => \A t \in Thread : \A i \in Nat : ~IsFlow(t, i)
    /\ processing <=> (timer # NoCommand \/ \E t \in Thread : \E i \in Nat : IsFlow(t, i))

IInv == Typed /\ Shape /\ OneFlow

-----------------------------------------------------------------------------
(* What a step does to the stacks *)

\* The innermost call of t becomes f; t calls f; the innermost call of t ends.
Changes(t, f) ==
    /\ f \in Frame /\ Depth(t) > 0
    /\ frames' \in [Thread -> Seq(Frame)]
    /\ \A u \in Thread : Depth(u)' = Depth(u)
    /\ \A u \in Thread : \A i \in 1 .. Depth(u) :
        frames'[u][i] = IF u = t /\ i = Depth(t) THEN f ELSE frames[u][i]
Pushes(t, f) ==
    /\ f \in Frame
    /\ frames' \in [Thread -> Seq(Frame)]
    /\ Depth(t)' = Depth(t) + 1 /\ \A u \in Thread \ {t} : Depth(u)' = Depth(u)
    /\ frames'[t][Depth(t) + 1] = f
    /\ \A u \in Thread : \A i \in 1 .. Depth(u) : frames'[u][i] = frames[u][i]
Pops(t) ==
    /\ frames' \in [Thread -> Seq(Frame)] /\ Depth(t) > 0
    /\ Depth(t)' = Depth(t) - 1 /\ \A u \in Thread \ {t} : Depth(u)' = Depth(u)
    /\ \A u \in Thread : \A i \in 1 .. Depth(u)' : frames'[u][i] = frames[u][i]

LEMMA Stacks ==
    ASSUME Typed, NEW t \in Thread
    PROVE  /\ frames[t] \in Seq(Frame) /\ Depth(t) \in Nat
           /\ ~Idle(t) => Depth(t) > 0 /\ Top(t) \in Frame
           /\ Idle(t) => Depth(t) = 0
           /\ \A i \in 1 .. Depth(t) : frames[t][i] \in Frame
BY DEF Typed, Idle, Depth, Top

LEMMA ChangingTop ==
    ASSUME Typed, NEW t \in Thread, ~Idle(t), NEW f \in Frame,
           frames' = [frames EXCEPT ![t] = [@ EXCEPT ![Depth(t)] = f]]
    PROVE  Changes(t, f)
<1>1. frames[t] \in Seq(Frame) /\ Depth(t) \in Nat \ {0} /\ Depth(t) = Len(frames[t])
  BY Stacks DEF Depth
<1>2. [frames[t] EXCEPT ![Depth(t)] = f] \in Seq(Frame)
  BY <1>1
<1>3. Len([frames[t] EXCEPT ![Depth(t)] = f]) = Depth(t)
  BY <1>1
<1>4. frames' \in [Thread -> Seq(Frame)]
  BY <1>2 DEF Typed
<1>5. /\ frames'[t] = [frames[t] EXCEPT ![Depth(t)] = f]
      /\ \A u \in Thread \ {t} : frames'[u] = frames[u]
  BY <1>2 DEF Typed
<1>6. \A u \in Thread : Depth(u)' = Depth(u)
  BY <1>3, <1>5 DEF Depth
<1>7. ASSUME NEW u \in Thread, NEW i \in 1 .. Depth(u)
      PROVE  frames'[u][i] = IF u = t /\ i = Depth(t) THEN f ELSE frames[u][i]
  BY <1>1, <1>5
<1> QED BY <1>1, <1>4, <1>6, <1>7 DEF Changes

LEMMA Going ==
    ASSUME Typed, NEW t \in Thread, ~Idle(t), NEW place \in Place, Goto(t, place)
    PROVE  Changes(t, [Top(t) EXCEPT !.at = place])
<1>1. [Top(t) EXCEPT !.at = place] \in Frame
  BY Stacks DEF Frame
<1>2. frames' = [frames EXCEPT ![t] = [@ EXCEPT ![Depth(t)] = [Top(t) EXCEPT !.at = place]]]
  BY DEF Goto, Top
<1> QED BY <1>1, <1>2, ChangingTop

LEMMA Calling ==
    ASSUME Typed, NEW t \in Thread, NEW f \in Frame, Call(t, f)
    PROVE  Pushes(t, f)
<1>1. frames[t] \in Seq(Frame)
  BY DEF Typed
<1>2. /\ Append(frames[t], f) \in Seq(Frame) /\ Len(Append(frames[t], f)) = Len(frames[t]) + 1
      /\ Append(frames[t], f)[Len(frames[t]) + 1] = f
      /\ \A i \in 1 .. Len(frames[t]) : Append(frames[t], f)[i] = frames[t][i]
  BY <1>1
<1>3. /\ frames'[t] = Append(frames[t], f) /\ \A u \in Thread \ {t} : frames'[u] = frames[u]
      /\ frames' \in [Thread -> Seq(Frame)]
  BY <1>2 DEF Typed, Call
<1> QED BY <1>2, <1>3 DEF Pushes, Depth

LEMMA Returning ==
    ASSUME Typed, NEW t \in Thread, ~Idle(t), Return(t)
    PROVE  Pops(t)
<1> DEFINE rest == SubSeq(frames[t], 1, Len(frames[t]) - 1)
<1>1. frames[t] \in Seq(Frame) /\ Len(frames[t]) \in Nat \ {0}
  BY Stacks DEF Depth
<1>2. \A i \in 1 .. Len(frames[t]) - 1 : frames[t][i] \in Frame
  BY <1>1
<1>3. /\ rest \in Seq(Frame) /\ Len(rest) = Len(frames[t]) - 1
      /\ \A i \in 1 .. Len(frames[t]) - 1 : rest[i] = frames[t][i]
  BY <1>1, <1>2
<1>4. /\ frames'[t] = rest /\ \A u \in Thread \ {t} : frames'[u] = frames[u]
      /\ frames' \in [Thread -> Seq(Frame)]
  BY <1>3 DEF Typed, Return
<1>5. Depth(t) > 0 /\ Depth(t)' = Depth(t) - 1 /\ \A u \in Thread \ {t} : Depth(u)' = Depth(u)
  BY <1>1, <1>3, <1>4 DEF Depth
<1>6. ASSUME NEW u \in Thread, NEW i \in 1 .. Depth(u)' PROVE frames'[u][i] = frames[u][i]
  <2>1. CASE u = t
    BY <1>1, <1>3, <1>4, <2>1 DEF Depth
  <2>2. CASE u # t
    BY <1>4, <2>2
  <2> QED BY <2>1, <2>2
<1> QED BY <1>4, <1>5, <1>6 DEF Pops

-----------------------------------------------------------------------------
(* What each change of a stack keeps *)

\* A call that goes on within Notify or ProcessCommand keeps the flow where it is.
LEMMA ChangeKeeps ==
    ASSUME IInv, NEW t \in Thread, NEW f \in Frame, Changes(t, f), f.flow = Top(t).flow,
           Fits(f, Depth(t)), UNCHANGED <<processing, timer>>,
           queue' \subseteq Queued, default_command' \in Default \cup {NoCommand}
    PROVE  /\ IInv'
           /\ \A u \in Thread : \A i \in Nat : IsFlow(u, i)' <=> IsFlow(u, i)
<1>1. \A u \in Thread : Depth(u) \in Nat
  BY Stacks DEF IInv
<1>2. \A u \in Thread : \A i \in Nat : IsFlow(u, i)' <=> IsFlow(u, i)
  BY <1>1 DEF IsFlow, Changes, Top
<1>3. Typed'
  BY DEF IInv, Typed, Changes
<1>4. Shape'
  <2> SUFFICES ASSUME NEW u \in Thread, NEW i \in 1 .. Depth(u)'
               PROVE  /\ i < Depth(u)' => frames'[u][i].at = "run"
                      /\ Fits(frames'[u][i], i)
    BY DEF Shape, Fits
  <2>1. i \in 1 .. Depth(u) /\ Depth(u)' = Depth(u)
    BY DEF Changes
  <2> QED BY <2>1, <1>1 DEF Changes, IInv, Shape
<1>5. OneFlow'
  BY <1>2 DEF IInv, OneFlow
<1> QED BY <1>2, <1>3, <1>4, <1>5 DEF IInv

\* A call from outside, or from within a command's Run, leaves the flow where it is.
LEMMA PushKeeps ==
    ASSUME IInv, NEW t \in Thread, NEW f \in Frame, Pushes(t, f), ~f.flow,
           Fits(f, Depth(t) + 1), Idle(t) \/ At(t, "run"), UNCHANGED <<processing, timer>>,
           queue' \subseteq Queued, default_command' \in Default \cup {NoCommand}
    PROVE  /\ IInv'
           /\ \A u \in Thread : \A i \in Nat : IsFlow(u, i)' <=> IsFlow(u, i)
<1>1. \A u \in Thread : Depth(u) \in Nat
  BY Stacks DEF IInv
<1>2. \A u \in Thread : \A i \in Nat : IsFlow(u, i)' <=> IsFlow(u, i)
  <2> TAKE u \in Thread, i \in Nat
  <2>1. CASE u = t /\ i = Depth(t) + 1
    BY <1>1, <2>1 DEF IsFlow, Pushes
  <2>2. CASE i \in 1 .. Depth(u)
    <3>1. frames'[u][i] = frames[u][i] /\ i \in 1 .. Depth(u)'
      <4>1. CASE u = t
        BY <1>1, <2>2, <4>1 DEF Pushes
      <4>2. CASE u # t
        BY <1>1, <2>2, <4>2 DEF Pushes
      <4> QED BY <4>1, <4>2
    <3> QED BY <2>2, <3>1 DEF IsFlow
  <2>3. CASE i \notin 1 .. Depth(u) /\ ~(u = t /\ i = Depth(t) + 1)
    BY <1>1, <2>3 DEF IsFlow, Pushes
  <2> QED BY <2>1, <2>2, <2>3
<1>3. Typed'
  BY DEF IInv, Typed, Pushes
<1>4. Shape'
  <2> SUFFICES ASSUME NEW u \in Thread, NEW i \in 1 .. Depth(u)'
               PROVE  /\ i < Depth(u)' => frames'[u][i].at = "run"
                      /\ Fits(frames'[u][i], i)
    BY DEF Shape, Fits
  <2>1. CASE u = t /\ i = Depth(t) + 1
    BY <1>1, <2>1 DEF Pushes
  <2>2. CASE u = t /\ i # Depth(t) + 1
    <3>1. i \in 1 .. Depth(t) /\ frames'[t][i] = frames[t][i]
      BY <1>1, <2>2 DEF Pushes
    <3>2. frames[t][Depth(t)].at = "run"
      BY <1>1, <3>1, Stacks DEF At, Top, IInv
    <3> QED BY <1>1, <2>2, <3>1, <3>2 DEF IInv, Shape
  <2>3. CASE u # t
    <3>1. i \in 1 .. Depth(u) /\ frames'[u][i] = frames[u][i] /\ Depth(u)' = Depth(u)
      BY <2>3 DEF Pushes
    <3> QED BY <3>1 DEF IInv, Shape
  <2> QED BY <2>1, <2>2, <2>3
<1>5. OneFlow'
  BY <1>2 DEF IInv, OneFlow
<1> QED BY <1>2, <1>3, <1>4, <1>5 DEF IInv

\* The parts of the invariant that any return keeps, and where the flow is then.
LEMMA PopShape ==
    ASSUME IInv, NEW t \in Thread, Pops(t)
    PROVE  /\ Shape'
           /\ \A u \in Thread : \A i \in Nat :
                IsFlow(u, i)' <=> IsFlow(u, i) /\ ~(u = t /\ i = Depth(t))
<1>1. \A u \in Thread : Depth(u) \in Nat
  BY Stacks DEF IInv
<1>2. \A u \in Thread : \A i \in Nat :
          IsFlow(u, i)' <=> IsFlow(u, i) /\ ~(u = t /\ i = Depth(t))
  <2> TAKE u \in Thread, i \in Nat
  <2>1. CASE u = t
    BY <1>1, <2>1 DEF IsFlow, Pops
  <2>2. CASE u # t
    BY <1>1, <2>2 DEF IsFlow, Pops
  <2> QED BY <2>1, <2>2
<1>3. Shape'
  <2> SUFFICES ASSUME NEW u \in Thread, NEW i \in 1 .. Depth(u)'
               PROVE  /\ i < Depth(u)' => frames'[u][i].at = "run"
                      /\ Fits(frames'[u][i], i)
    BY DEF Shape, Fits
  <2>1. i \in 1 .. Depth(u) /\ frames'[u][i] = frames[u][i] /\ Depth(u)' <= Depth(u)
    BY <1>1 DEF Pops
  <2>2. i < Depth(u)' => i < Depth(u)
    BY <1>1, <2>1 DEF Pops
  <2>3. /\ i < Depth(u) => frames[u][i].at = "run"
        /\ Fits(frames[u][i], i)
    BY <2>1 DEF IInv, Shape
  <2> QED BY <2>1, <2>2, <2>3
<1> QED BY <1>2, <1>3

\* A call outside the flow that returns leaves the flow where it is.
LEMMA PopKeeps ==
    ASSUME IInv, NEW t \in Thread, Pops(t), ~Top(t).flow, UNCHANGED <<processing, timer>>,
           queue' \subseteq Queued, default_command' \in Default \cup {NoCommand}
    PROVE  /\ IInv'
           /\ \A u \in Thread : \A i \in Nat : IsFlow(u, i)' <=> IsFlow(u, i)
<1>1. \A u \in Thread : \A i \in Nat : IsFlow(u, i)' <=> IsFlow(u, i)
  BY PopShape DEF IsFlow, Top
<1>2. Typed'
  BY DEF IInv, Typed, Pops
<1>3. OneFlow'
  BY <1>1 DEF IInv, OneFlow
<1> QED BY <1>1, <1>2, <1>3, PopShape DEF IInv

\* Notify takes the flow, when nobody has it.
LEMMA FlowTaken ==
    ASSUME IInv, NEW t \in Thread, NEW f \in Frame, Changes(t, f), f.flow, Fits(f, Depth(t)),
           ~processing, processing' = TRUE, UNCHANGED <<timer, queue, default_command>>
    PROVE  /\ IInv'
           /\ \A u \in Thread : \A i \in Nat : IsFlow(u, i)' <=> u = t /\ i = Depth(t)
<1>1. \A u \in Thread : Depth(u) \in Nat
  BY Stacks DEF IInv
<1>2. \A u \in Thread : \A i \in Nat : ~IsFlow(u, i)
  BY DEF IInv, OneFlow
<1>3. \A u \in Thread : \A i \in Nat : IsFlow(u, i)' <=> u = t /\ i = Depth(t)
  BY <1>1, <1>2 DEF IsFlow, Changes
<1>4. Typed'
  BY DEF IInv, Typed, Changes
<1>5. Shape'
  <2> SUFFICES ASSUME NEW u \in Thread, NEW i \in 1 .. Depth(u)'
               PROVE  /\ i < Depth(u)' => frames'[u][i].at = "run"
                      /\ Fits(frames'[u][i], i)
    BY DEF Shape, Fits
  <2>1. i \in 1 .. Depth(u) /\ Depth(u)' = Depth(u)
    BY DEF Changes
  <2> QED BY <2>1, <1>1 DEF Changes, IInv, Shape
<1>6. OneFlow'
  BY <1>1, <1>3 DEF IInv, OneFlow
<1> QED BY <1>3, <1>4, <1>5, <1>6 DEF IInv

\* The call that has the flow returns and gives it up, or to the timer.
LEMMA FlowReturned ==
    ASSUME IInv, NEW t \in Thread, Pops(t), Top(t).flow,
           timer' \in Command \cup {NoCommand}, processing' = (timer' # NoCommand),
           UNCHANGED <<queue, default_command>>
    PROVE  /\ IInv' /\ timer = NoCommand /\ IsFlow(t, Depth(t))
           /\ \A u \in Thread : \A i \in Nat : ~IsFlow(u, i)'
<1>1. IsFlow(t, Depth(t)) /\ Depth(t) \in Nat
  BY Stacks DEF IsFlow, Pops, Top, IInv
<1>2. \A u \in Thread : \A i \in Nat : ~IsFlow(u, i)'
  BY <1>1, PopShape DEF IInv, OneFlow
<1>3. timer = NoCommand
  BY <1>1 DEF IInv, OneFlow
<1>4. Typed'
  BY DEF IInv, Typed, Pops
<1>5. OneFlow'
  BY <1>2 DEF IInv, OneFlow
<1> QED BY <1>1, <1>2, <1>3, <1>4, <1>5, PopShape DEF IInv

-----------------------------------------------------------------------------
(* The flow as the properties see it *)

\* A command processed at once, the call that has the flow and a notification: calls
\* nest no deeper than that.
LEMMA DepthBound ==
    ASSUME IInv, NEW t \in Thread
    PROVE  Depth(t) \in 0 .. 3
<1>1. Depth(t) \in Nat
  BY Stacks DEF IInv
<1>2. ASSUME Depth(t) > 3 PROVE FALSE
  <2>1. frames[t][2].at = "run" /\ frames[t][3].at = "run"
    BY <1>1, <1>2 DEF IInv, Shape
  <2>2. IsFlow(t, 2) /\ IsFlow(t, 3)
    BY <1>1, <1>2, <2>1 DEF IInv, Shape, Fits, IsFlow
  <2> QED BY <2>2 DEF IInv, OneFlow
<1> QED BY <1>1, <1>2

LEMMA InFlowIs ==
    ASSUME IInv, NEW t \in Thread, NEW i
    PROVE  <<t, i>> \in InFlow <=> IsFlow(t, i)
<1>1. Depth(t) \in 0 .. 3
  BY DepthBound
<1> QED BY <1>1 DEF InFlow, IsFlow

\* What CommandFlow sees while the timer runs, while a call has the flow, and while
\* nothing does.
Abstracted ==
    /\ timer # NoCommand => Phase = "waiting" /\ Current = timer
    /\ \A t \in Thread : \A i \in Nat : IsFlow(t, i) =>
        /\ Current = frames[t][i].command
        /\ Phase = IF frames[t][i].command = NoCommand THEN "free" ELSE "running"
    /\ (timer = NoCommand /\ \A t \in Thread : \A i \in Nat : ~IsFlow(t, i)) =>
        Phase = "free" /\ Current = NoCommand

LEMMA Abstraction == IInv => Abstracted
<1> SUFFICES ASSUME IInv PROVE Abstracted
  OBVIOUS
<1>1. timer # NoCommand => Phase = "waiting" /\ Current = timer
  BY DEF Phase, Current
<1>2. ASSUME NEW t \in Thread, NEW i \in Nat, IsFlow(t, i)
      PROVE  /\ Current = frames[t][i].command
             /\ Phase = IF frames[t][i].command = NoCommand THEN "free" ELSE "running"
  <2>1. timer = NoCommand
    BY <1>2 DEF IInv, OneFlow
  <2>2. <<t, i>> \in InFlow
    BY <1>2, InFlowIs
  <2>3. \A call \in InFlow : call = <<t, i>>
    <3> TAKE call \in InFlow
    <3>1. call \in Thread \X (1 .. 3)
      BY DEF InFlow
    <3>2. PICK u \in Thread, j \in 1 .. 3 : call = <<u, j>>
      BY <3>1
    <3>3. IsFlow(u, j)
      BY <3>2, InFlowIs
    <3> QED BY <1>2, <3>2, <3>3 DEF IInv, OneFlow
  <2>4. FlowCall = <<t, i>>
    BY <2>2, <2>3 DEF FlowCall
  <2>5. FlowCommand = frames[t][i].command
    BY <2>4 DEF FlowCommand
  <2> QED BY <2>1, <2>2, <2>5 DEF Phase, Current
<1>3. ASSUME timer = NoCommand, \A t \in Thread : \A i \in Nat : ~IsFlow(t, i)
      PROVE  Phase = "free" /\ Current = NoCommand
  <2>1. InFlow = {}
    <3> SUFFICES ASSUME NEW call \in InFlow PROVE FALSE
      OBVIOUS
    <3>1. PICK u \in Thread, j \in 1 .. 3 : call = <<u, j>>
      BY DEF InFlow
    <3> QED BY <1>3, <3>1, InFlowIs
  <2> QED BY <1>3, <2>1 DEF Phase, Current
<1> QED BY <1>1, <1>2, <1>3 DEF Abstracted

LEMMA AbstractionNext == IInv' => Abstracted'
BY Abstraction, PTL

\* A step that leaves the flow where it is, and the command it is about, is a stutter.
LEMMA SameFlow ==
    ASSUME IInv, IInv', UNCHANGED timer,
           \A u \in Thread : \A i \in Nat : IsFlow(u, i)' <=> IsFlow(u, i),
           \A u \in Thread : \A i \in Nat : IsFlow(u, i) => frames'[u][i].command = frames[u][i].command
    PROVE  UNCHANGED <<Phase, Current>>
<1>1. CASE timer # NoCommand
  BY <1>1, Abstraction, AbstractionNext DEF Abstracted
<1>2. CASE \E t \in Thread : \E i \in Nat : IsFlow(t, i)
  BY <1>2, Abstraction, AbstractionNext DEF Abstracted
<1>3. CASE timer = NoCommand /\ \A t \in Thread : \A i \in Nat : ~IsFlow(t, i)
  BY <1>3, Abstraction, AbstractionNext DEF Abstracted
<1> QED BY <1>1, <1>2, <1>3

-----------------------------------------------------------------------------
(* Steps *)

\* A step of the queue keeps the invariant and is a step of CommandFlow or a stutter.
Good == IInv' /\ [OneAtATime!Next]_<<Phase, Current>>

LEMMA TopFits ==
    ASSUME IInv, NEW t \in Thread, ~Idle(t)
    PROVE  Fits(Top(t), Depth(t)) /\ Top(t) \in Frame /\ Depth(t) \in Nat \ {0}
BY Stacks DEF IInv, Shape, Top

\* A call that goes on elsewhere within Notify or ProcessCommand.
LEMMA GoKeeps ==
    ASSUME IInv, NEW t \in Thread, ~Idle(t), NEW place \in Place, Goto(t, place),
           Fits([Top(t) EXCEPT !.at = place], Depth(t)),
           UNCHANGED <<processing, timer, queue, default_command>>
    PROVE  Good
<1> DEFINE f == [Top(t) EXCEPT !.at = place]
<1>1. /\ f \in Frame /\ f.flow = Top(t).flow /\ f.command = Top(t).command
      /\ Changes(t, f)
  BY Going, TopFits DEF IInv, Frame
<1>2. /\ IInv'
      /\ \A u \in Thread : \A i \in Nat : IsFlow(u, i)' <=> IsFlow(u, i)
  BY <1>1, ChangeKeeps DEF IInv, Typed
<1>3. \A u \in Thread : \A i \in Nat : IsFlow(u, i) => frames'[u][i].command = frames[u][i].command
  BY <1>1 DEF IsFlow, Changes, Top
<1> QED BY <1>2, <1>3, SameFlow DEF Good

\* A call outside the flow that ends.
LEMMA ReturnKeeps ==
    ASSUME IInv, NEW t \in Thread, ~Idle(t), Return(t), ~Top(t).flow,
           UNCHANGED <<processing, timer, queue, default_command>>
    PROVE  Good
<1>1. Pops(t)
  BY Returning DEF IInv
<1>2. /\ IInv'
      /\ \A u \in Thread : \A i \in Nat : IsFlow(u, i)' <=> IsFlow(u, i)
  BY <1>1, PopKeeps DEF IInv, Typed
<1>3. \A u \in Thread : \A i \in Nat : IsFlow(u, i) => frames'[u][i].command = frames[u][i].command
  BY <1>1, <1>2 DEF IsFlow, Pops
<1> QED BY <1>2, <1>3, SameFlow DEF Good

\* A call into the queue from outside the flow, or from within a command's Run.
LEMMA CallKeeps ==
    ASSUME IInv, NEW t \in Thread, Idle(t) \/ At(t, "run"), NEW f \in Frame, Call(t, f), ~f.flow,
           Fits(f, Depth(t) + 1), UNCHANGED <<processing, timer>>,
           queue' \subseteq Queued, default_command' \in Default \cup {NoCommand}
    PROVE  Good
<1>1. Pushes(t, f)
  BY Calling DEF IInv
<1>2. /\ IInv'
      /\ \A u \in Thread : \A i \in Nat : IsFlow(u, i)' <=> IsFlow(u, i)
  BY <1>1, PushKeeps
<1>3. \A u \in Thread : \A i \in Nat : IsFlow(u, i) => frames'[u][i].command = frames[u][i].command
  BY <1>1 DEF IsFlow, Pushes
<1> QED BY <1>2, <1>3, SameFlow DEF Good

\* A step that leaves the stacks, processing_ and the timer alone.
LEMMA AsideKeeps ==
    ASSUME IInv, UNCHANGED <<processing, queue, timer, frames>>,
           default_command' \in Default \cup {NoCommand}
    PROVE  Good
<1>1. \A u \in Thread : \A i \in Nat : IsFlow(u, i)' <=> IsFlow(u, i)
  BY DEF IsFlow, Depth
<1>2. Shape'
  BY DEF IInv, Shape, Depth, Fits
<1>3. OneFlow'
  BY <1>1 DEF IInv, OneFlow
<1>4. IInv'
  BY <1>2, <1>3 DEF IInv, Typed
<1> QED BY <1>1, <1>4, SameFlow DEF Good

LEMMA NotifyCalls ==
    /\ NotifyCall \in Frame /\ ~NotifyCall.flow
    /\ \A i : Fits(NotifyCall, i)
BY DEF NotifyCall, Frame, Place, Fits

LEMMA EnqueueStep ==
    ASSUME IInv, NEW t \in Thread, NEW c \in Request, EnqueueCommand(t, c)
    PROVE  Good
<1>1. CASE c \in Queued
  <2>1. queue' \subseteq Queued /\ Call(t, NotifyCall)
    BY <1>1 DEF EnqueueCommand, IInv, Typed
  <2> QED BY <2>1, CallKeeps, NotifyCalls DEF EnqueueCommand, IInv, Typed
<1>2. CASE c \notin Queued
  <2>1. ProcessCall(c) \in Frame /\ ~ProcessCall(c).flow
    BY DEF ProcessCall, Frame, Place, Command
  <2>2. Fits(ProcessCall(c), Depth(t) + 1)
    <3>1. Depth(t) = 0
      BY Stacks DEF EnqueueCommand, IInv
    <3> QED BY <3>1, QueueAssumption DEF ProcessCall, Fits, Command
  <2> QED BY <1>2, <2>1, <2>2, CallKeeps DEF EnqueueCommand, IInv, Typed
<1> QED BY <1>1, <1>2

LEMMA SetDefaultStep ==
    ASSUME IInv, NEW t \in Thread, NEW d \in Default, SetDefaultCommand(t, d)
    PROVE  Good
BY CallKeeps, NotifyCalls DEF SetDefaultCommand, IInv, Typed

LEMMA AsideSteps ==
    ASSUME IInv, NEW t \in Thread,
           \/ ClearDefaultCommand(t)
           \/ \E c \in Request : RefuseCommand(t, c)
           \/ \E cb \in callbacks : RunCallback(t, cb)
    PROVE  Good
BY AsideKeeps DEF ClearDefaultCommand, RefuseCommand, RunCallback, IInv, Typed

\* processing_ is cleared and the queue is notified: time is up.
LEMMA TimerStep ==
    ASSUME IInv, NEW t \in Thread, TimerFires(t)
    PROVE  Good
<1>1. Pushes(t, NotifyCall)
  BY Calling, NotifyCalls DEF TimerFires, IInv
<1>2. \A u \in Thread : Depth(u) \in Nat
  BY Stacks DEF IInv
<1>3. \A u \in Thread : \A i \in Nat : ~IsFlow(u, i)
  BY DEF IInv, OneFlow, TimerFires
<1>4. \A u \in Thread : \A i \in Nat : ~IsFlow(u, i)'
  <2> SUFFICES ASSUME NEW u \in Thread, NEW i \in Nat, IsFlow(u, i)' PROVE FALSE
    OBVIOUS
  <2>1. CASE u = t /\ i = Depth(t) + 1
    BY <1>1, <1>2, <2>1, NotifyCalls DEF IsFlow, Pushes
  <2>2. CASE ~(u = t /\ i = Depth(t) + 1)
    <3>1. i \in 1 .. Depth(u)
      <4>1. CASE u = t
        BY <1>1, <1>2, <2>2, <4>1 DEF IsFlow, Pushes
      <4>2. CASE u # t
        BY <1>1, <1>2, <4>2 DEF IsFlow, Pushes
      <4> QED BY <4>1, <4>2
    <3> QED BY <1>1, <1>3, <3>1 DEF IsFlow, Pushes
  <2> QED BY <2>1, <2>2
<1>5. Shape'
  <2> SUFFICES ASSUME NEW u \in Thread, NEW i \in 1 .. Depth(u)'
               PROVE  /\ i < Depth(u)' => frames'[u][i].at = "run"
                      /\ Fits(frames'[u][i], i)
    BY DEF Shape, Fits
  <2>1. CASE u = t
    <3>1. Depth(t) = 0
      BY Stacks DEF TimerFires, IInv
    <3> QED BY <1>1, <2>1, <3>1, NotifyCalls DEF Pushes
  <2>2. CASE u # t
    <3>1. i \in 1 .. Depth(u) /\ frames'[u][i] = frames[u][i] /\ Depth(u)' = Depth(u)
      BY <1>1, <2>2 DEF Pushes
    <3> QED BY <3>1 DEF IInv, Shape
  <2> QED BY <2>1, <2>2
<1>6. IInv'
  <2>1. Typed'
    BY <1>1 DEF IInv, Typed, TimerFires, Pushes
  <2>2. OneFlow'
    BY <1>4 DEF OneFlow, TimerFires
  <2> QED BY <1>5, <2>1, <2>2 DEF IInv
<1>7. OneAtATime!TimeIsUp
  <2>1. Phase = "waiting"
    BY Abstraction DEF Abstracted, TimerFires
  <2>2. Phase' = "free" /\ Current' = NoCommand
    BY <1>4, <1>6, AbstractionNext DEF Abstracted, TimerFires
  <2> QED BY <2>1, <2>2 DEF OneAtATime!TimeIsUp
<1> QED BY <1>6, <1>7 DEF Good, OneAtATime!Next

LEMMA NotifyEnterStep ==
    ASSUME IInv, NEW t \in Thread, NotifyEnter(t)
    PROVE  Good
<1>0. ~Idle(t) /\ Top(t).at = "notify" /\ ~Top(t).flow /\ Top(t).command = NoCommand
  BY TopFits DEF NotifyEnter, At, Fits, Frame
<1>1. CASE processing
  BY <1>0, <1>1, ReturnKeeps DEF NotifyEnter
<1>2. CASE ~processing
  <2> DEFINE f == [at |-> "next", command |-> NoCommand, flow |-> TRUE]
  <2>1. f \in Frame /\ Fits(f, Depth(t))
    BY DEF Frame, Place, Fits
  <2>2. frames' = [frames EXCEPT ![t] = [@ EXCEPT ![Depth(t)] = f]]
    BY <1>2 DEF NotifyEnter, HoldFlow
  <2>3. Changes(t, f)
    BY <1>0, <2>1, <2>2, ChangingTop DEF IInv
  <2>4. /\ IInv'
        /\ \A u \in Thread : \A i \in Nat : IsFlow(u, i)' <=> u = t /\ i = Depth(t)
    BY <1>2, <2>1, <2>3, FlowTaken DEF NotifyEnter
  <2>5. Phase = "free" /\ Current = NoCommand
    BY <1>2, Abstraction DEF Abstracted, IInv, OneFlow
  <2>6. Phase' = "free" /\ Current' = NoCommand
    <3>1. IsFlow(t, Depth(t))' /\ frames'[t][Depth(t)] = f /\ Depth(t) \in Nat
      BY <1>0, <2>3, <2>4, TopFits DEF Changes, IsFlow
    <3>2. \A i \in Nat : IsFlow(t, i)' =>
            /\ Current' = frames'[t][i].command
            /\ Phase' = IF frames'[t][i].command = NoCommand THEN "free" ELSE "running"
      BY <2>4, AbstractionNext DEF Abstracted
    <3> QED BY <2>4, <3>1, <3>2
  <2> QED BY <2>4, <2>5, <2>6 DEF Good
<1> QED BY <1>1, <1>2

LEMMA GetNextStep ==
    ASSUME IInv, NEW t \in Thread, GetNextCommand(t)
    PROVE  Good
<1>0. ~Idle(t) /\ Top(t).at = "next" /\ Top(t).flow /\ Top(t).command = NoCommand
  BY TopFits DEF GetNextCommand, At, Fits, Frame
<1>1. CASE queue = {} /\ default_command = NoCommand
  <2>1. Goto(t, "release") /\ UNCHANGED queue
    BY <1>1 DEF GetNextCommand
  <2>2. Fits([Top(t) EXCEPT !.at = "release"], Depth(t)) /\ "release" \in Place
    BY <1>0, TopFits DEF Fits, Frame, Place
  <2> QED BY <1>0, <2>1, <2>2, GoKeeps DEF GetNextCommand
<1>2. ASSUME NEW c \in Queued \cup Default, HoldFlow(t, "process", c), queue' \subseteq queue
      PROVE  Good
  <2> DEFINE f == [at |-> "process", command |-> c, flow |-> TRUE]
  <2>0. c \in Command /\ c # NoCommand
    BY QueueAssumption DEF Command
  <2>1. f \in Frame /\ Fits(f, Depth(t))
    BY <2>0 DEF Frame, Place, Fits
  <2>2. frames' = [frames EXCEPT ![t] = [@ EXCEPT ![Depth(t)] = f]]
    BY <1>2 DEF HoldFlow
  <2>3. Changes(t, f)
    BY <1>0, <2>1, <2>2, ChangingTop DEF IInv
  <2>4. /\ IInv'
        /\ \A u \in Thread : \A i \in Nat : IsFlow(u, i)' <=> IsFlow(u, i)
    BY <1>0, <1>2, <2>1, <2>3, ChangeKeeps DEF IInv, Typed, GetNextCommand
  <2>5. IsFlow(t, Depth(t)) /\ Depth(t) \in Nat
    BY <1>0, TopFits DEF IsFlow, Top
  <2>6. Phase = "free"
    BY <1>0, <2>5, Abstraction DEF Abstracted, Top
  <2>7. Phase' = "running" /\ Current' = c
    <3>1. frames'[t][Depth(t)] = f
      BY <2>3, <2>5 DEF Changes, IsFlow
    <3> QED BY <2>0, <2>4, <2>5, <3>1, AbstractionNext DEF Abstracted
  <2>8. OneAtATime!Start(c)
    BY <2>6, <2>7 DEF OneAtATime!Start
  <2> QED BY <2>4, <2>8 DEF Good, OneAtATime!Next
<1>3. CASE \E c \in queue : HoldFlow(t, "process", c) /\ queue' = queue \ {c}
  BY <1>2, <1>3 DEF IInv, Typed
<1>4. CASE queue = {} /\ default_command # NoCommand
  <2>1. HoldFlow(t, "process", default_command) /\ UNCHANGED queue /\ default_command \in Default
    BY <1>4 DEF GetNextCommand, IInv, Typed
  <2> QED BY <1>2, <2>1
<1> QED BY <1>1, <1>3, <1>4 DEF GetNextCommand

LEMMA NothingStep ==
    ASSUME IInv, NEW t \in Thread, NothingToDo(t)
    PROVE  Good
<1>1. ~Idle(t) /\ Top(t).flow /\ Top(t).command = NoCommand /\ Depth(t) \in Nat
  BY TopFits DEF NothingToDo, At, Fits
<1>2. Pops(t)
  BY <1>1, Returning DEF NothingToDo, IInv
<1>3. IsFlow(t, Depth(t)) /\ timer = NoCommand
  <2>1. IsFlow(t, Depth(t))
    BY <1>1, TopFits DEF IsFlow, Top
  <2> QED BY <1>1, <2>1 DEF IInv, OneFlow
<1>4. IInv' /\ \A u \in Thread : \A i \in Nat : ~IsFlow(u, i)'
  BY <1>1, <1>2, <1>3, FlowReturned DEF NothingToDo, IInv, Typed
<1>5. Phase = "free" /\ Current = NoCommand
  BY <1>1, <1>3, Abstraction DEF Abstracted, Top
<1>6. Phase' = "free" /\ Current' = NoCommand
  BY <1>3, <1>4, AbstractionNext DEF Abstracted, NothingToDo
<1> QED BY <1>4, <1>5, <1>6 DEF Good

LEMMA StartTimerStep ==
    ASSUME IInv, NEW t \in Thread, StartTimer(t)
    PROVE  Good
<1>1. /\ ~Idle(t) /\ Top(t).flow /\ Top(t).command \in Command \ {NoCommand}
      /\ Depth(t) \in Nat
  BY TopFits DEF StartTimer, At, Fits, Frame
<1>2. Pops(t)
  BY <1>1, Returning DEF StartTimer, IInv
<1>3. IsFlow(t, Depth(t)) /\ processing = TRUE
  <2>1. IsFlow(t, Depth(t))
    BY <1>1, TopFits DEF IsFlow, Top
  <2> QED BY <1>1, <2>1 DEF IInv, OneFlow, Typed
<1>4. IInv' /\ \A u \in Thread : \A i \in Nat : ~IsFlow(u, i)'
  BY <1>1, <1>2, <1>3, FlowReturned DEF StartTimer
<1>5. Phase = "running" /\ Current = Top(t).command
  BY <1>1, <1>3, Abstraction DEF Abstracted, Top
<1>6. Phase' = "waiting" /\ Current' = Top(t).command
  BY <1>1, <1>4, AbstractionNext DEF Abstracted, StartTimer
<1>7. OneAtATime!Wait
  BY <1>5, <1>6 DEF OneAtATime!Wait
<1> QED BY <1>4, <1>7 DEF Good, OneAtATime!Next

\* ProcessCommand's steps, up to its end.
LEMMA ProcessSteps ==
    ASSUME IInv, NEW t \in Thread, Refuse(t) \/ Run(t) \/ RunReturns(t)
    PROVE  Good
<1>1. ~Idle(t) /\ Top(t).at \in {"process", "run"}
  BY DEF Refuse, Run, RunReturns, At
<1>2. PICK place \in {"run", "report"} : Goto(t, place)
  BY DEF Refuse, Run, RunReturns
<1>3. Fits([Top(t) EXCEPT !.at = place], Depth(t)) /\ place \in Place
  BY <1>1, TopFits DEF Fits, Frame, Place
<1> QED BY <1>1, <1>2, <1>3, GoKeeps DEF Refuse, Run, RunReturns

LEMMA EndSteps ==
    ASSUME IInv, NEW t \in Thread, RunThrows(t) \/ Report(t)
    PROVE  Good
<1>1. /\ ~Idle(t) /\ Top(t).at \in {"run", "report"} /\ EndProcess(t)
      /\ UNCHANGED <<processing, timer, queue, default_command>>
  BY DEF RunThrows, Report, At
<1>2. CASE Top(t).flow
  <2>1. Fits([Top(t) EXCEPT !.at = "arm"], Depth(t)) /\ "arm" \in Place
    BY <1>1, <1>2, TopFits DEF Fits, Frame, Place
  <2> QED BY <1>1, <1>2, <2>1, GoKeeps DEF EndProcess
<1>3. CASE ~Top(t).flow
  BY <1>1, <1>3, ReturnKeeps DEF EndProcess
<1> QED BY <1>2, <1>3

LEMMA InitHolds == Init => IInv /\ OneAtATime!Init
<1> SUFFICES ASSUME Init PROVE IInv /\ OneAtATime!Init
  OBVIOUS
<1>1. \A t \in Thread : Depth(t) = 0
  BY DEF Init, Depth
<1>2. IInv
  <2>1. Typed
    <3>1. <<>> \in Seq(Frame)
      OBVIOUS
    <3>2. frames \in [Thread -> Seq(Frame)]
      BY <3>1 DEF Init
    <3> QED BY <3>2 DEF Init, Typed
  <2>2. Shape /\ OneFlow
    BY <1>1 DEF Init, Shape, OneFlow, IsFlow
  <2> QED BY <2>1, <2>2 DEF IInv
<1>3. Phase = "free" /\ Current = NoCommand
  BY <1>1, <1>2, Abstraction DEF Abstracted, Init, IsFlow
<1> QED BY <1>2, <1>3 DEF OneAtATime!Init

LEMMA StepHolds == IInv /\ [Next]_queueVars => Good
<1> SUFFICES ASSUME IInv, [Next]_queueVars PROVE Good
  OBVIOUS
<1>1. CASE UNCHANGED queueVars
  BY <1>1, AsideKeeps DEF queueVars, IInv, Typed
<1>2. ASSUME NEW t \in Thread, InProgress(t) PROVE Good
  BY <1>2, NotifyEnterStep, GetNextStep, NothingStep, StartTimerStep, ProcessSteps, EndSteps
     DEF InProgress
<1>3. ASSUME NEW t \in Thread,
             \/ TimerFires(t) \/ ClearDefaultCommand(t)
             \/ \E c \in Request : RefuseCommand(t, c) \/ EnqueueCommand(t, c)
             \/ \E d \in Default : SetDefaultCommand(t, d)
             \/ \E cb \in callbacks : RunCallback(t, cb)
      PROVE  Good
  BY <1>3, TimerStep, AsideSteps, EnqueueStep, SetDefaultStep
<1> QED BY <1>1, <1>2, <1>3 DEF Next

THEOREM InvariantHolds == Spec => []IInv
<1>1. IInv /\ [Next]_queueVars => IInv'
  BY StepHolds DEF Good
<1> QED BY InitHolds, <1>1, PTL DEF Spec

-----------------------------------------------------------------------------
(* Theorems *)

\* processing_ is set exactly while one call, or else the timer, has the flow
\* (CommandQueue::Notify, the timer's handler, ProcessCommand).
THEOREM SingleFlowTheorem == Spec => []SingleFlow
<1>1. IInv => SingleFlow
  <2> SUFFICES ASSUME IInv PROVE SingleFlow
    OBVIOUS
  <2>1. \A call \in InFlow : \E t \in Thread, i \in 1 .. 3 : call = <<t, i>> /\ IsFlow(t, i)
    <3> TAKE call \in InFlow
    <3>1. PICK t \in Thread, i \in 1 .. 3 : call = <<t, i>>
      BY DEF InFlow
    <3> QED BY <3>1, InFlowIs
  <2>2. \A a, b \in InFlow : a = b
    BY <2>1 DEF IInv, OneFlow
  <2>3. timer # NoCommand => InFlow = {}
    BY <2>1 DEF IInv, OneFlow
  <2>4. ASSUME NEW t \in Thread, NEW i \in Nat, IsFlow(t, i) PROVE InFlow # {}
    BY <2>4, InFlowIs
  <2>5. processing <=> (InFlow # {} \/ timer # NoCommand)
    BY <2>1, <2>4 DEF IInv, OneFlow
  <2> QED BY <2>2, <2>3, <2>5 DEF SingleFlow
<1> QED BY <1>1, InvariantHolds, PTL

\* The queue implements CommandFlow: one command at a time, the next after its time.
THEOREM FlowTheorem == Spec => ImplementsFlow
<1>1. IInv /\ [Next]_queueVars => [OneAtATime!Next]_<<Phase, Current>>
  BY StepHolds DEF Good
<1>2. Spec => OneAtATime!Init /\ [][OneAtATime!Next]_<<Phase, Current>>
  BY <1>1, InitHolds, InvariantHolds, PTL DEF Spec
<1> QED BY <1>2 DEF ImplementsFlow, OneAtATime!Spec, OneAtATime!flowVars

-----------------------------------------------------------------------------
(* Each request once *)

\* The call at place i of t's stack has yet to process c.
Held(c, t, i) == i \in 1 .. Depth(t) /\ frames[t][i].command = c /\ frames[t][i].at # "arm"

Once(c) ==
    /\ c \in requested <=> c \in queue \/ c \in finished \/ \E t \in Thread : \E i \in Nat : Held(c, t, i)
    /\ ~(c \in queue /\ c \in finished)
    /\ \A t \in Thread : \A i \in Nat : Held(c, t, i) => c \notin queue /\ c \notin finished
    /\ \A t, u \in Thread : \A i, j \in Nat : Held(c, t, i) /\ Held(c, u, j) => t = u /\ i = j
OnceInv == requested \subseteq Request /\ \A c \in Request : Once(c)

LEMMA SameHeld ==
    ASSUME NEW c, Once(c),
           \A t \in Thread : \A i \in Nat : Held(c, t, i)' <=> Held(c, t, i),
           c \in queue' <=> c \in queue, c \in finished' <=> c \in finished,
           c \in requested' <=> c \in requested
    PROVE  Once(c)'
BY DEF Once

\* A request that waited, or was not known yet, is taken by a call.
LEMMA TakesUp ==
    ASSUME NEW c, Once(c), NEW t \in Thread, NEW k \in Nat,
           \A u \in Thread : \A i \in Nat : Held(c, u, i)' <=> Held(c, u, i) \/ (u = t /\ i = k),
           c \in queue \/ c \notin requested, c \notin queue', c \in finished' <=> c \in finished,
           c \in requested'
    PROVE  Once(c)'
BY DEF Once

\* The request a call has held is done with.
LEMMA LaysDown ==
    ASSUME NEW c, Once(c), NEW t \in Thread, NEW k \in Nat, Held(c, t, k),
           \A u \in Thread : \A i \in Nat : Held(c, u, i)' <=> Held(c, u, i) /\ ~(u = t /\ i = k),
           c \in queue' <=> c \in queue, c \in finished', c \in requested' <=> c \in requested
    PROVE  Once(c)'
BY DEF Once

LEMMA HeldAfterChange ==
    ASSUME Typed, NEW c, NEW t \in Thread, NEW f, Changes(t, f), NEW u \in Thread, NEW i \in Nat
    PROVE  Held(c, u, i)' <=> IF u = t /\ i = Depth(t) THEN f.command = c /\ f.at # "arm"
                              ELSE Held(c, u, i)
BY Stacks DEF Held, Changes

LEMMA HeldAfterPush ==
    ASSUME Typed, NEW c, NEW t \in Thread, NEW f, Pushes(t, f), NEW u \in Thread, NEW i \in Nat
    PROVE  Held(c, u, i)' <=>
               Held(c, u, i) \/ (u = t /\ i = Depth(t) + 1 /\ f.command = c /\ f.at # "arm")
<1>1. Depth(u) \in Nat /\ Depth(t) \in Nat
  BY Stacks
<1>2. CASE u = t /\ i = Depth(t) + 1
  BY <1>1, <1>2 DEF Held, Pushes
<1>3. CASE u = t /\ i # Depth(t) + 1
  <2>1. i \in 1 .. Depth(u)' <=> i \in 1 .. Depth(u)
    BY <1>1, <1>3 DEF Pushes
  <2>2. i \in 1 .. Depth(u) => frames'[u][i] = frames[u][i]
    BY DEF Pushes
  <2> QED BY <1>3, <2>1, <2>2 DEF Held
<1>4. CASE u # t
  BY <1>1, <1>4 DEF Held, Pushes
<1> QED BY <1>2, <1>3, <1>4

LEMMA HeldAfterPop ==
    ASSUME Typed, NEW c, NEW t \in Thread, Pops(t), NEW u \in Thread, NEW i \in Nat
    PROVE  Held(c, u, i)' <=> Held(c, u, i) /\ ~(u = t /\ i = Depth(t))
<1>1. Depth(u) \in Nat /\ Depth(t) \in Nat
  BY Stacks
<1>2. CASE u = t
  <2>1. i \in 1 .. Depth(u)' <=> i \in 1 .. Depth(u) /\ i # Depth(t)
    BY <1>1, <1>2 DEF Pops
  <2>2. i \in 1 .. Depth(u)' => frames'[u][i] = frames[u][i]
    BY DEF Pops
  <2> QED BY <1>2, <2>1, <2>2 DEF Held
<1>3. CASE u # t
  BY <1>1, <1>3 DEF Held, Pops
<1> QED BY <1>2, <1>3

\* Calls, and the steps of Notify and ProcessCommand that decide nothing for c.
LEMMA OnceCalls ==
    ASSUME IInv, OnceInv, NEW t \in Thread, NEW c \in Request,
           \/ TimerFires(t) \/ ClearDefaultCommand(t)
           \/ \E r \in Request : RefuseCommand(t, r) \/ EnqueueCommand(t, r)
           \/ \E d \in Default : SetDefaultCommand(t, d)
           \/ \E cb \in callbacks : RunCallback(t, cb)
    PROVE  Once(c)'
<1>0. Once(c) /\ c # NoCommand
  BY QueueAssumption DEF OnceInv, Command
<1>1. ASSUME Call(t, NotifyCall)
      PROVE  \A u \in Thread : \A i \in Nat : Held(c, u, i)' <=> Held(c, u, i)
  <2>1. Pushes(t, NotifyCall) /\ NotifyCall.command # c
    BY <1>0, <1>1, Calling, NotifyCalls DEF IInv, NotifyCall
  <2> QED BY <2>1, HeldAfterPush DEF IInv
<1>2. CASE TimerFires(t) \/ \E d \in Default : SetDefaultCommand(t, d)
  BY <1>0, <1>1, <1>2, SameHeld DEF TimerFires, SetDefaultCommand
<1>3. CASE ClearDefaultCommand(t) \/ \E cb \in callbacks : RunCallback(t, cb)
  BY <1>0, <1>3, SameHeld DEF ClearDefaultCommand, RunCallback, Held, Depth
<1>4. ASSUME NEW r \in Request, RefuseCommand(t, r) PROVE Once(c)'
  BY <1>0, <1>4 DEF RefuseCommand, Finish, Once, Held, Depth
<1>5. ASSUME NEW r \in Request, EnqueueCommand(t, r) PROVE Once(c)'
  <2>1. CASE r \in Queued
    <3>1. \A u \in Thread : \A i \in Nat : Held(c, u, i)' <=> Held(c, u, i)
      BY <1>1, <1>5, <2>1 DEF EnqueueCommand
    <3> QED BY <1>0, <1>5, <2>1, <3>1 DEF EnqueueCommand, Once
  <2>2. CASE r \notin Queued
    <3>1. Pushes(t, ProcessCall(r)) /\ ProcessCall(r).command = r /\ ProcessCall(r).at # "arm"
      <4>1. ProcessCall(r) \in Frame
        BY DEF ProcessCall, Frame, Place, Command
      <4> QED BY <1>5, <2>2, <4>1, Calling DEF EnqueueCommand, IInv, ProcessCall
    <3>2. \A u \in Thread : \A i \in Nat :
            Held(c, u, i)' <=> Held(c, u, i) \/ (u = t /\ i = Depth(t) + 1 /\ r = c)
      BY <3>1, HeldAfterPush DEF IInv
    <3>3. CASE r = c
      <4>1. Depth(t) + 1 \in Nat /\ c \notin queue /\ c \notin requested
        BY <1>0, <1>5, <3>3, Stacks DEF IInv, EnqueueCommand, Once
      <4> QED BY <1>0, <1>5, <2>2, <3>2, <3>3, <4>1, TakesUp DEF EnqueueCommand
    <3>4. CASE r # c
      BY <1>0, <1>5, <2>2, <3>2, <3>4, SameHeld DEF EnqueueCommand
    <3> QED BY <3>3, <3>4
  <2> QED BY <2>1, <2>2
<1> QED BY <1>2, <1>3, <1>4, <1>5

LEMMA OnceNotify ==
    ASSUME IInv, OnceInv, NEW t \in Thread, NEW c \in Request,
           NotifyEnter(t) \/ GetNextCommand(t) \/ NothingToDo(t) \/ StartTimer(t)
    PROVE  Once(c)'
<1>0. Once(c) /\ c # NoCommand /\ c \notin Default
  BY QueueAssumption DEF OnceInv, Command
<1>1. ~Idle(t) /\ Depth(t) \in Nat \ {0} /\ Top(t) \in Frame /\ Fits(Top(t), Depth(t))
  BY TopFits DEF NotifyEnter, GetNextCommand, NothingToDo, StartTimer, At
<1>2. ~Held(c, t, Depth(t))
  BY <1>0, <1>1 DEF NotifyEnter, GetNextCommand, NothingToDo, StartTimer, At, Fits, Held, Top
<1>3. ASSUME Return(t)
      PROVE  \A u \in Thread : \A i \in Nat : Held(c, u, i)' <=> Held(c, u, i)
  <2>1. Pops(t)
    BY <1>1, <1>3, Returning DEF IInv
  <2> QED BY <1>2, <2>1, HeldAfterPop DEF IInv
<1>4. ASSUME NEW f \in Frame, f.command # c,
             frames' = [frames EXCEPT ![t] = [@ EXCEPT ![Depth(t)] = f]]
      PROVE  \A u \in Thread : \A i \in Nat : Held(c, u, i)' <=> Held(c, u, i)
  <2>1. Changes(t, f)
    BY <1>1, <1>4, ChangingTop DEF IInv
  <2> QED BY <1>2, <1>4, <2>1, HeldAfterChange DEF IInv
<1>5. CASE NothingToDo(t) \/ StartTimer(t)
  BY <1>0, <1>3, <1>5, SameHeld DEF NothingToDo, StartTimer
<1>6. CASE NotifyEnter(t)
  <2>1. CASE processing
    BY <1>0, <1>3, <1>6, <2>1, SameHeld DEF NotifyEnter
  <2>2. CASE ~processing
    <3> DEFINE f == [at |-> "next", command |-> NoCommand, flow |-> TRUE]
    <3>1. f \in Frame /\ f.command # c
      BY <1>0 DEF Frame, Place
    <3>2. frames' = [frames EXCEPT ![t] = [@ EXCEPT ![Depth(t)] = f]]
      BY <1>6, <2>2 DEF NotifyEnter, HoldFlow
    <3>3. \A u \in Thread : \A i \in Nat : Held(c, u, i)' <=> Held(c, u, i)
      BY <1>4, <3>1, <3>2
    <3> QED BY <1>0, <1>6, <3>3, SameHeld DEF NotifyEnter
  <2> QED BY <2>1, <2>2
<1>7. CASE GetNextCommand(t)
  <2>0. ASSUME NEW r \in Command, HoldFlow(t, "process", r), r # c, c \in queue' <=> c \in queue
        PROVE  Once(c)'
    <3> DEFINE f == [at |-> "process", command |-> r, flow |-> TRUE]
    <3>1. f \in Frame /\ f.command # c
      BY <2>0 DEF Frame, Place
    <3>2. frames' = [frames EXCEPT ![t] = [@ EXCEPT ![Depth(t)] = f]]
      BY <2>0 DEF HoldFlow
    <3>3. \A u \in Thread : \A i \in Nat : Held(c, u, i)' <=> Held(c, u, i)
      BY <1>4, <3>1, <3>2
    <3> QED BY <1>0, <1>7, <2>0, <3>3, SameHeld DEF GetNextCommand
  <2>1. ASSUME NEW r \in queue, HoldFlow(t, "process", r), queue' = queue \ {r} PROVE Once(c)'
    <3>0. r \in Command
      BY QueueAssumption DEF IInv, Typed, Command
    <3>1. CASE r # c
      BY <2>0, <2>1, <3>0, <3>1
    <3>2. CASE r = c
      <4> DEFINE f == [at |-> "process", command |-> c, flow |-> TRUE]
      <4>1. f \in Frame
        BY DEF Frame, Place, Command
      <4>2. Changes(t, f)
        BY <1>1, <2>1, <3>2, <4>1, ChangingTop DEF IInv, HoldFlow
      <4>3. \A u \in Thread : \A i \in Nat :
                Held(c, u, i)' <=> Held(c, u, i) \/ (u = t /\ i = Depth(t))
        BY <4>2, HeldAfterChange DEF IInv
      <4>4. c \in requested
        BY <1>0, <3>2, <2>1 DEF Once
      <4> QED BY <1>0, <1>1, <1>7, <2>1, <3>2, <4>3, <4>4, TakesUp DEF GetNextCommand
    <3> QED BY <3>1, <3>2
  <2>2. CASE queue = {} /\ default_command # NoCommand
    <3>1. /\ HoldFlow(t, "process", default_command) /\ UNCHANGED queue
          /\ default_command \in Command /\ default_command # c
      BY <1>0, <1>7, <2>2 DEF GetNextCommand, IInv, Typed, Command
    <3> QED BY <2>0, <3>1
  <2>3. CASE queue = {} /\ default_command = NoCommand
    <3>1. Goto(t, "release") /\ UNCHANGED queue
      BY <1>7, <2>3 DEF GetNextCommand
    <3>2. Changes(t, [Top(t) EXCEPT !.at = "release"])
      BY <1>1, <3>1, Going DEF IInv, Place
    <3>3. [Top(t) EXCEPT !.at = "release"].command # c
      BY <1>0, <1>1, <1>7 DEF Frame, Fits, GetNextCommand, At
    <3>4. \A u \in Thread : \A i \in Nat : Held(c, u, i)' <=> Held(c, u, i)
      BY <1>2, <3>2, <3>3, HeldAfterChange DEF IInv
    <3> QED BY <1>0, <1>7, <3>1, <3>4, SameHeld DEF GetNextCommand
  <2> QED BY <1>7, <2>1, <2>2, <2>3 DEF GetNextCommand
<1> QED BY <1>5, <1>6, <1>7

LEMMA OnceProcess ==
    ASSUME IInv, OnceInv, NEW t \in Thread, NEW c \in Request,
           Refuse(t) \/ Run(t) \/ RunReturns(t) \/ RunThrows(t) \/ Report(t)
    PROVE  Once(c)'
<1>0. Once(c)
  BY DEF OnceInv
<1>1. /\ ~Idle(t) /\ Depth(t) \in Nat \ {0} /\ Top(t) \in Frame
      /\ Top(t).at \in {"process", "run", "report"}
      /\ UNCHANGED <<queue, requested>>
  BY TopFits DEF Refuse, Run, RunReturns, RunThrows, Report, At
<1>2. Held(c, t, Depth(t)) <=> Top(t).command = c
  BY <1>1 DEF Held, Top
<1>3. ASSUME NEW place \in Place, Goto(t, place)
      PROVE  \A u \in Thread : \A i \in Nat :
                 Held(c, u, i)' <=> IF u = t /\ i = Depth(t)
                                    THEN Held(c, u, i) /\ place # "arm" ELSE Held(c, u, i)
  <2>1. Changes(t, [Top(t) EXCEPT !.at = place])
    BY <1>1, <1>3, Going DEF IInv
  <2>2. /\ [Top(t) EXCEPT !.at = place].command = Top(t).command
        /\ [Top(t) EXCEPT !.at = place].at = place
    BY <1>1 DEF Frame
  <2> QED BY <1>2, <2>1, <2>2, HeldAfterChange DEF IInv
<1>4. CASE Refuse(t) \/ Run(t) \/ RunReturns(t)
  <2>1. PICK place \in {"run", "report"} : Goto(t, place)
    BY <1>4 DEF Refuse, Run, RunReturns
  <2>2. \A u \in Thread : \A i \in Nat : Held(c, u, i)' <=> Held(c, u, i)
    BY <1>3, <2>1 DEF Place
  <2> QED BY <1>0, <1>1, <1>4, <2>2, SameHeld DEF Refuse, Run, RunReturns
<1>5. CASE RunThrows(t) \/ Report(t)
  <2>1. EndProcess(t) /\ Finish(Top(t).command)
    BY <1>5 DEF RunThrows, Report
  <2>2. \A u \in Thread : \A i \in Nat :
            Held(c, u, i)' <=> Held(c, u, i) /\ ~(u = t /\ i = Depth(t))
    <3>1. CASE Top(t).flow
      BY <1>3, <2>1, <3>1 DEF EndProcess, Place
    <3>2. CASE ~Top(t).flow
      <4>1. Pops(t)
        BY <1>1, <2>1, <3>2, Returning DEF EndProcess, IInv
      <4> QED BY <4>1, HeldAfterPop DEF IInv
    <3> QED BY <3>1, <3>2
  <2>3. CASE Top(t).command = c
    BY <1>0, <1>1, <1>2, <2>1, <2>2, <2>3, LaysDown DEF Finish
  <2>4. CASE Top(t).command # c
    BY <1>0, <1>1, <1>2, <2>1, <2>2, <2>4, SameHeld DEF Finish
  <2> QED BY <2>3, <2>4
<1> QED BY <1>4, <1>5

LEMMA OnceStep == IInv /\ OnceInv /\ [Next]_queueVars => OnceInv'
<1> SUFFICES ASSUME IInv, OnceInv, [Next]_queueVars PROVE OnceInv'
  OBVIOUS
<1>0. requested' \subseteq Request
  BY DEF OnceInv, queueVars, Next, InProgress, NotifyEnter, GetNextCommand, NothingToDo, StartTimer,
         Refuse, Run, RunReturns, RunThrows, Report, TimerFires, ClearDefaultCommand,
         RefuseCommand, EnqueueCommand, SetDefaultCommand, RunCallback
<1> SUFFICES ASSUME NEW c \in Request PROVE Once(c)'
  BY <1>0 DEF OnceInv
<1>1. CASE UNCHANGED queueVars
  BY <1>1, SameHeld DEF queueVars, Held, Depth, OnceInv
<1>2. ASSUME NEW t \in Thread, InProgress(t) PROVE Once(c)'
  BY <1>2, OnceNotify, OnceProcess DEF InProgress
<1> QED BY <1>1, <1>2, OnceCalls DEF Next

\* A request is in the queue, in one call's hands or done with, and never in two of
\* these (CommandQueue::EnqueueCommand, GetNextCommand, ProcessCommand).
THEOREM OnceTheorem == Spec => []EachRequestOnce
<1>1. Init => OnceInv
  BY DEF Init, OnceInv, Once, Held, Depth
<1>2. IInv /\ OnceInv => EachRequestOnce
  <2> SUFFICES ASSUME IInv, OnceInv, NEW c \in requested
               PROVE  \/ c \in queue /\ c \notin finished /\ Holding(c) = {}
                      \/ c \notin queue /\ c \in finished /\ Holding(c) = {}
                      \/ c \notin queue /\ c \notin finished /\ Cardinality(Holding(c)) = 1
    BY DEF EachRequestOnce
  <2>0. Once(c)
    BY DEF OnceInv
  <2>1. ASSUME NEW t \in Thread, NEW i PROVE <<t, i>> \in Holding(c) <=> Held(c, t, i)
    <3>1. Depth(t) \in 0 .. 3
      BY DepthBound
    <3> QED BY <3>1 DEF Holding, Held
  <2>2. \A call \in Holding(c) : \E t \in Thread, i \in 1 .. 3 : call = <<t, i>> /\ Held(c, t, i)
    <3> TAKE call \in Holding(c)
    <3>1. PICK t \in Thread, i \in 1 .. 3 : call = <<t, i>>
      BY DEF Holding
    <3> QED BY <2>1, <3>1
  <2>3. CASE \E t \in Thread : \E i \in Nat : Held(c, t, i)
    <3>1. PICK t \in Thread, i \in Nat : Held(c, t, i)
      BY <2>3
    <3>2. Holding(c) = {<<t, i>>}
      <4>1. <<t, i>> \in Holding(c)
        BY <2>1, <3>1
      <4>2. \A call \in Holding(c) : call = <<t, i>>
        BY <2>0, <2>2, <3>1 DEF Once
      <4> QED BY <4>1, <4>2
    <3>3. Cardinality(Holding(c)) = 1
      BY <3>2, FS_Singleton
    <3> QED BY <2>0, <3>1, <3>3 DEF Once
  <2>4. CASE \A t \in Thread : \A i \in Nat : ~Held(c, t, i)
    <3>1. Holding(c) = {}
      BY <2>2, <2>4
    <3> QED BY <2>0, <2>4, <3>1 DEF Once
  <2> QED BY <2>3, <2>4
<1> QED BY <1>1, <1>2, OnceStep, InvariantHolds, PTL DEF Spec
=============================================================================
