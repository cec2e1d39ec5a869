-------------------------- MODULE SchedulerProofs --------------------------
(* Proofs about Scheduler, for any number of slots and threads, any period *)
(* and any assignment of roles to the threads.                             *)
EXTENDS Scheduler, TLAPS

Scheduling == {"picked", "demoted", "pointed", "marked"}

\* What schedule()'s locals and current_thread hold at each of its steps: the
\* typing of "threads[prev]" and "threads[current]" rests on it.
LocalsOK ==
    /\ \A f \in Slots : pc[f] \in Scheduling =>
        prev[f] \in Slots /\ next[f] \in Slots /\ current \in Slots
    /\ pc[Boot] \in {"run", "pointed", "marked"}
    /\ pc[Boot] # "run" => current \in Slots
    /\ next[Boot] = None

TypeInv == TypeOK /\ LocalsOK

\* switch_to_thread keeps the types, whatever it saves and loads.
LEMMA SwitchTyped ==
    ASSUME TypeOK, flow \in Flows, NEW p \in Slots, NEW n \in Slots,
           NEW how \in {"call", "irq"}, SwitchTo(p, n, how)
    PROVE  /\ esp' \in [Slots -> Flows \cup {None}]
           /\ flow' \in Flows \cup {None}
           /\ kind' \in [Flows -> {"call", "irq"}]
           /\ iflag' \in BOOLEAN
<1> DEFINE saved == [esp EXCEPT ![p] = flow]
<1>1. saved \in [Slots -> Flows \cup {None}]
  BY DEF TypeOK
<1>2. /\ esp' = [saved EXCEPT ![n] = None]
      /\ flow' = saved[n]
      /\ kind' = [kind EXCEPT ![flow] = how]
  BY DEF SwitchTo
<1>3. iflag' \in BOOLEAN
  BY DEF SwitchTo, TypeOK
<1> HIDE DEF saved
<1> QED
  BY <1>1, <1>2, <1>3 DEF TypeOK

\* schedule() in a handler keeps them too, and moves current_thread to a slot.
LEMMA HandlerTyped ==
    ASSUME TypeOK, flow \in Flows, current \in Slots, ScheduleInHandler
    PROVE  /\ state' \in [Slots -> ThreadStates]
           /\ current' \in Slots
           /\ esp' \in [Slots -> Flows \cup {None}]
           /\ flow' \in Flows \cup {None}
           /\ kind' \in [Flows -> {"call", "irq"}]
           /\ iflag' \in BOOLEAN
<1>1. PICK n \in Slots :
        /\ state' = [state EXCEPT ![current] = "READY", ![n] = "RUNNING"]
        /\ current' = n
        /\ SwitchTo(current, n, "irq")
  BY DEF ScheduleInHandler
<1>2. state' \in [Slots -> ThreadStates]
  BY <1>1 DEF TypeOK, ThreadStates
<1> QED
  BY <1>1, <1>2, SwitchTyped

LEMMA TickTyped ==
    ASSUME TypeOK, TimerTick
    PROVE  tick' \in 0 .. Period - 1 /\ wait' \in 0 .. SpinTicks
BY SchedulerConstants DEF TypeOK, TimerTick

LEMMA TypeInit == Init => TypeInv
<1> SUFFICES ASSUME Init PROVE TypeInv
  OBVIOUS
<1>1. 0 \in 0 .. Period - 1 /\ 0 \in 0 .. SpinTicks
  BY SchedulerConstants
<1>2. TypeOK
  BY <1>1 DEF Init, TypeOK, ThreadStates, PCs, Flows
<1>3. LocalsOK
  BY DEF Init, LocalsOK, Scheduling, Flows
<1> QED
  BY <1>2, <1>3 DEF TypeInv

LEMMA TypeStep == TypeInv /\ [Next]_vars => TypeInv'
<1> SUFFICES ASSUME TypeInv, [Next]_vars PROVE TypeInv'
  OBVIOUS
<1> USE SchedulerConstants
<1> USE DEF TypeInv, LocalsOK, Scheduling, ThreadStates, PCs, Flows, locals
<1>1. CASE Create
  BY <1>1 DEF Create, TypeOK
<1>2. CASE BootPoint
  BY <1>2 DEF BootPoint, TypeOK
<1>3. CASE BootJump
  <2>1. current \in Slots
    BY <1>3 DEF BootJump
  <2> QED
    BY <1>3, <2>1 DEF BootJump, TypeOK
<1>4. CASE Pick
  BY <1>4 DEF Pick, OwnFlow, At, GoTo, TypeOK
<1>5. CASE Demote
  BY <1>5 DEF Demote, OwnFlow, At, GoTo, TypeOK
<1>6. CASE Point
  BY <1>6 DEF Point, OwnFlow, At, GoTo, TypeOK
<1>7. CASE Mark
  BY <1>7 DEF Mark, GoTo, TypeOK
<1>8. CASE Switch
  <2>1. flow \in Slots /\ prev[flow] \in Slots /\ current \in Slots
    BY <1>8 DEF Switch, OwnFlow, At
  <2>2. /\ esp' \in [Slots -> Flows \cup {None}]
        /\ flow' \in Flows \cup {None}
        /\ kind' \in [Flows -> {"call", "irq"}]
        /\ iflag' \in BOOLEAN
    <3>1. SwitchTo(prev[flow], current, "call")
      BY <1>8 DEF Switch
    <3> QED
      BY <2>1, <3>1, SwitchTyped
  <2> QED
    BY <1>8, <2>1, <2>2 DEF Switch, GoTo, TypeOK
<1>9. CASE IpcCall \/ EnterUser \/ UserReturn \/ SpinStart \/ SpinEnd
  <2>1. CASE IpcCall
    BY <2>1 DEF IpcCall, OwnFlow, At, GoTo, TypeOK
  <2>2. CASE EnterUser
    BY <2>2 DEF EnterUser, OwnFlow, At, GoTo, TypeOK
  <2>3. CASE SpinStart
    <3>1. wait' \in 0 .. SpinTicks
      BY <2>3 DEF SpinStart
    <3> QED
      BY <2>3, <3>1 DEF SpinStart, OwnFlow, At, GoTo, TypeOK
  <2>4. CASE SpinEnd
    BY <2>4 DEF SpinEnd, OwnFlow, At, GoTo, TypeOK
  <2>5. CASE UserReturn
    BY <2>5 DEF UserReturn, OwnFlow, At, GoTo, TypeOK
  <2> QED
    BY <1>9, <2>1, <2>2, <2>3, <2>4, <2>5
<1>10. CASE UserYield
  <2>1. flow \in Flows /\ current \in Slots /\ ScheduleInHandler
    BY <1>10 DEF UserYield, OwnFlow, At, TypeOK
  <2> QED
    BY <1>10, <2>1, HandlerTyped DEF UserYield, TypeOK
<1>11. CASE Tick
  BY <1>11, TickTyped DEF Tick, TypeOK
<1>12. CASE Preempt
  <2>1. flow \in Flows /\ current \in Slots /\ ScheduleInHandler /\ TimerTick
    BY <1>12 DEF Preempt, TimerTick, TypeOK
  <2>2. torn' \in BOOLEAN
    BY <1>12 DEF Preempt, TypeOK
  <2> QED
    BY <1>12, <2>1, <2>2, HandlerTyped, TickTyped DEF Preempt, TypeOK
<1>13. CASE UNCHANGED vars
  BY <1>13 DEF vars, TypeOK
<1> QED
  BY <1>1, <1>2, <1>3, <1>4, <1>5, <1>6, <1>7, <1>8, <1>9, <1>10, <1>11,
     <1>12, <1>13 DEF Next, CpuStep

\* Every variable keeps its type, torn switches included; in particular
\* schedule() never uses a null prev or current_thread.
THEOREM TypeCorrect == Spec => []TypeOK
<1>1. TypeInv => TypeOK
  BY DEF TypeInv
<1> QED
  BY TypeInit, TypeStep, <1>1, PTL DEF Spec

-----------------------------------------------------------------------------
(* The stacks.                                                             *)

\* Why ContextIntegrity is inductive: as long as no switch was torn, the locals
\* of a schedule() under way belong to the thread it runs in, only the flow on
\* the CPU can be between the move of current_thread and the switch, and every
\* other thread is in a frame of its own.
OwnLocals ==
    \A f \in Slots : pc[f] \in Scheduling =>
        prev[f] = f /\ next[f] # f /\ next[f] \in Created

WaitingNotInTransit ==
    \A f \in Slots : f # flow => pc[f] \notin {"pointed", "marked"}

CpuFlow ==
    /\ flow \in Created \cup {Boot}
    /\ current \in Created \cup {None}
    /\ flow = Boot /\ pc[Boot] = "run" <=> current = None
    /\ flow \in Slots => IF pc[flow] \in {"pointed", "marked"}
                         THEN current = next[flow] ELSE current = flow

RunningMark ==
    /\ flow \in Slots /\ pc[flow] \notin {"demoted", "pointed"} =>
         state[current] = "RUNNING"
    /\ flow = Boot /\ pc[Boot] = "marked" => state[current] = "RUNNING"

OwnFrames == \A s \in Created : s # flow => esp[s] = s

Own == OwnLocals /\ WaitingNotInTransit /\ CpuFlow /\ RunningMark /\ OwnFrames

\* A thread returned from its entry function, and everything stopped.
Lost ==
    /\ flow = None /\ Gone # {}
    /\ \A s \in Created \ Gone : esp[s] = s

StackInv == TypeInv /\ (~ torn => Own \/ Lost)

\* A switch out of the frame of the running thread p into another created
\* thread n lands in n's own frame and leaves every other thread in its own.
LEMMA OwnSwitch ==
    ASSUME TypeOK, OwnFrames, NEW p \in Slots, NEW n \in Created, n # p,
           flow = p, NEW how, SwitchTo(p, n, how)
    PROVE  flow' = n /\ \A s \in Created : s # n => esp'[s] = s
<1> DEFINE saved == [esp EXCEPT ![p] = flow]
<1>1. esp' = [saved EXCEPT ![n] = None] /\ flow' = saved[n]
  BY DEF SwitchTo
<1>2. saved \in [Slots -> Flows \cup {None}]
  BY DEF TypeOK, Flows
<1>3. \A s \in Created : saved[s] = s
  BY DEF OwnFrames, TypeOK, Created
<1> HIDE DEF saved
<1> QED
  BY <1>1, <1>2, <1>3 DEF Created

\* schedule() run at once by an interrupt of the current thread.
LEMMA HandlerOwn ==
    ASSUME TypeInv, Own, ScheduleInHandler, flow = current, flow \in Slots,
           UNCHANGED locals
    PROVE  Own'
<1>1. PICK n \in Slots :
        /\ IsNext(current, n) /\ n # current
        /\ state' = [state EXCEPT ![current] = "READY", ![n] = "RUNNING"]
        /\ current' = n
        /\ SwitchTo(current, n, "irq")
  BY DEF ScheduleInHandler
<1>2. n \in Created
  BY <1>1 DEF IsNext, Runnable, Created
<1>3. flow' = n /\ \A s \in Created : s # n => esp'[s] = s
  BY <1>1, <1>2, OwnSwitch DEF TypeInv, Own
<1>4. Created' = Created /\ state'[n] = "RUNNING"
  <2>1. current \in Created
    BY SchedulerConstants DEF Own, CpuFlow
  <2>2. \A s \in Slots : state'[s] = "FREE" <=> state[s] = "FREE"
    BY <1>1, <1>2, <2>1 DEF Created, TypeInv, TypeOK
  <2>3. state'[n] = "RUNNING"
    BY <1>1 DEF TypeInv, TypeOK
  <2> QED
    BY <2>2, <2>3 DEF Created
<1>5. n # Boot /\ n # None /\ pc' = pc /\ prev' = prev /\ next' = next
  BY <1>1, SchedulerConstants DEF locals
<1>6. pc[flow] \notin {"pointed", "marked"}
  BY SchedulerConstants DEF Own, CpuFlow, OwnLocals, Scheduling
<1>7. OwnLocals'
  BY <1>4, <1>5 DEF Own, OwnLocals
<1>8. WaitingNotInTransit'
  BY <1>3, <1>5, <1>6 DEF Own, WaitingNotInTransit
<1>9. CpuFlow'
  BY <1>1, <1>2, <1>3, <1>4, <1>5, SchedulerConstants
  DEF Own, CpuFlow, WaitingNotInTransit
<1>10. RunningMark'
  BY <1>1, <1>3, <1>4, <1>5 DEF RunningMark
<1>11. OwnFrames'
  BY <1>3, <1>4 DEF OwnFrames
<1> QED
  BY <1>7, <1>8, <1>9, <1>10, <1>11 DEF Own

LEMMA StackInit == Init => StackInv
<1> SUFFICES ASSUME Init PROVE StackInv
  OBVIOUS
<1>1. Created = {}
  BY DEF Init, Created
<1>2. OwnLocals /\ WaitingNotInTransit
  BY DEF Init, OwnLocals, WaitingNotInTransit, Scheduling, Flows
<1>3. CpuFlow /\ RunningMark
  BY SchedulerConstants DEF Init, CpuFlow, RunningMark, Flows
<1> QED
  BY <1>1, <1>2, <1>3, TypeInit DEF StackInv, Own, OwnFrames

\* A step of a running thread that touches neither a thread's state nor a
\* stack, and leaves the thread outside schedule().
LEMMA ThreadStep ==
    ASSUME TypeInv, Own, flow \in Slots, pc[flow] \notin Scheduling,
           NEW where \in PCs \ Scheduling, GoTo(where),
           UNCHANGED <<state, esp, current, flow, prev, next>>
    PROVE  Own'
<1>1. /\ pc' = [pc EXCEPT ![flow] = where]
      /\ pc' \in [Flows -> PCs]
  BY DEF GoTo, TypeInv, TypeOK
<1>2. Created' = Created
  BY DEF Created
<1>3. \A f \in Flows : f # flow => pc'[f] = pc[f]
  BY <1>1 DEF TypeInv, TypeOK
<1>4. pc'[flow] = where /\ where \notin Scheduling /\ flow # Boot
  BY <1>1, SchedulerConstants DEF TypeInv, TypeOK, Flows
<1>5. OwnLocals' /\ WaitingNotInTransit'
  BY <1>2, <1>3, <1>4 DEF Own, OwnLocals, WaitingNotInTransit, Flows
<1>6. CpuFlow'
  BY <1>2, <1>3, <1>4 DEF Own, CpuFlow, Scheduling
<1>7. RunningMark' /\ OwnFrames'
  BY <1>2, <1>3, <1>4 DEF Own, RunningMark, OwnFrames, Scheduling
<1> QED
  BY <1>5, <1>6, <1>7 DEF Own

LEMMA StackStep == StackInv /\ [Next]_vars => StackInv'
<1> SUFFICES ASSUME StackInv, [Next]_vars, ~ torn' PROVE Own' \/ Lost'
  BY TypeStep DEF StackInv
<1> USE SchedulerConstants
<1>a. TypeInv /\ TypeInv'
  BY TypeStep DEF StackInv
<1>b. CASE torn
  BY <1>b DEF StackInv, TypeInv, TypeOK, Next, CpuStep, vars, Tick, Preempt,
     Create, BootPoint, BootJump, Pick, Demote, Point, Mark, Switch, IpcCall,
     EnterUser, UserReturn, UserYield, SpinStart, SpinEnd
<1>c. ASSUME Lost PROVE Lost'
  <2>1. ~ Next
    BY <1>c DEF Lost, Next, CpuStep, Tick, Preempt, TimerTick, Create, BootPoint,
       BootJump, Pick, Demote, Point, Mark, Switch, IpcCall, EnterUser,
       UserReturn, UserYield, SpinStart, SpinEnd, At, OwnFlow
  <2> QED
    BY <1>c, <2>1 DEF vars, Lost, Created, Gone
<1>d. ASSUME ~ torn, Own PROVE Own' \/ Lost'
  <2>a. TypeInv /\ TypeOK /\ Own
    BY <1>a, <1>d DEF StackInv, TypeInv
  <2> USE DEF Flows
  <2>1. CASE Create
    <3>1. flow = Boot /\ pc[Boot] = "run" /\ current = None
      BY <2>a, <2>1 DEF Create, Own, CpuFlow
    <3>2. PICK s \in Slots :
            /\ state' = [state EXCEPT ![s] = "READY"]
            /\ esp' = [esp EXCEPT ![s] = s]
      BY <2>1 DEF Create
    <3>3. UNCHANGED <<current, flow, pc, prev, next>>
      BY <2>1 DEF Create, locals
    <3>4. Created' = Created \cup {s}
      BY <2>a, <3>2 DEF TypeOK, Created
    <3>5. OwnFrames'
      BY <2>a, <3>1, <3>2, <3>3, <3>4 DEF TypeOK, Own, OwnFrames, Created
    <3>6. OwnLocals' /\ WaitingNotInTransit'
      BY <2>a, <3>3, <3>4 DEF Own, OwnLocals, WaitingNotInTransit
    <3>7. CpuFlow' /\ RunningMark'
      BY <3>1, <3>3 DEF CpuFlow, RunningMark
    <3> QED
      BY <3>5, <3>6, <3>7 DEF Own
  <2>2. CASE BootPoint
    <3>1. /\ flow = Boot /\ pc[Boot] = "run"
          /\ UNCHANGED <<state, esp, flow, prev, next>>
          /\ pc' = [pc EXCEPT ![Boot] = "pointed"]
      BY <2>2 DEF BootPoint
    <3>2. current' \in Created /\ Created' = Created
      BY <2>2 DEF BootPoint, Created
    <3>3. pc'[Boot] = "pointed" /\ \A f \in Slots : pc'[f] = pc[f]
      BY <2>a, <3>1 DEF TypeOK
    <3>4. OwnLocals' /\ WaitingNotInTransit'
      BY <2>a, <3>1, <3>2, <3>3 DEF Own, OwnLocals, WaitingNotInTransit
    <3>5. CpuFlow' /\ RunningMark'
      BY <3>1, <3>2, <3>3 DEF CpuFlow, RunningMark, Created
    <3>6. OwnFrames'
      BY <2>a, <3>1, <3>2 DEF Own, OwnFrames
    <3> QED
      BY <3>4, <3>5, <3>6 DEF Own
  <2>3. CASE BootJump
    <3>1. /\ flow = Boot /\ pc[Boot] = "marked"
          /\ flow' = esp[current]
          /\ esp' = [esp EXCEPT ![current] = None]
          /\ UNCHANGED <<state, current, pc, prev, next>>
      BY <2>3 DEF BootJump, locals
    <3>2. current \in Created /\ current \in Slots /\ Created' = Created
      BY <2>a, <3>1 DEF Own, CpuFlow, Created
    <3>3. flow' = current
      BY <2>a, <3>1, <3>2 DEF Own, OwnFrames
    <3>4. OwnFrames'
      BY <2>a, <3>1, <3>2, <3>3 DEF TypeOK, Own, OwnFrames, Created
    <3>5. OwnLocals' /\ WaitingNotInTransit'
      BY <2>a, <3>1, <3>2 DEF Own, OwnLocals, WaitingNotInTransit
    <3>6. CpuFlow' /\ RunningMark'
      BY <2>a, <3>1, <3>2, <3>3
      DEF Own, CpuFlow, RunningMark, WaitingNotInTransit
    <3> QED
      BY <3>4, <3>5, <3>6 DEF Own
  <2>4. CASE Pick
    <3>1. /\ flow \in Slots /\ pc[flow] \notin Scheduling
          /\ UNCHANGED <<state, esp, current, flow>>
          /\ pc' = [pc EXCEPT ![flow] = "picked"]
          /\ prev' = [prev EXCEPT ![flow] = current]
      BY <2>4 DEF Pick, At, OwnFlow, GoTo, Scheduling
    <3>2. PICK n \in Slots :
            IsNext(current, n) /\ n # current /\ next' = [next EXCEPT ![flow] = n]
      BY <2>4 DEF Pick
    <3>3. flow = current /\ n \in Created /\ Created' = Created
      BY <2>a, <3>1, <3>2
      DEF Own, CpuFlow, Scheduling, IsNext, Runnable, Created
    <3>4. /\ pc'[flow] = "picked" /\ prev'[flow] = flow /\ next'[flow] = n
          /\ \A f \in Flows \ {flow} :
                pc'[f] = pc[f] /\ prev'[f] = prev[f] /\ next'[f] = next[f]
      BY <2>a, <3>1, <3>2, <3>3 DEF TypeOK
    <3>5. OwnLocals' /\ WaitingNotInTransit'
      BY <2>a, <3>1, <3>2, <3>3, <3>4
      DEF Own, OwnLocals, WaitingNotInTransit, Scheduling
    <3>6. CpuFlow' /\ RunningMark' /\ OwnFrames'
      BY <2>a, <3>1, <3>3, <3>4
      DEF Own, CpuFlow, RunningMark, OwnFrames, Scheduling
    <3> QED
      BY <3>5, <3>6 DEF Own
  <2>5. CASE Demote
    <3>1. /\ flow \in Slots /\ pc[flow] = "picked"
          /\ UNCHANGED <<esp, current, flow, prev, next>>
          /\ pc' = [pc EXCEPT ![flow] = "demoted"]
          /\ state' = [state EXCEPT ![prev[flow]] = "READY"]
      BY <2>5 DEF Demote, At, OwnFlow, GoTo
    <3>2. prev[flow] = flow /\ flow \in Created
      BY <2>a, <3>1 DEF Own, OwnLocals, CpuFlow, Scheduling
    <3>3. Created' = Created
      BY <2>a, <3>1, <3>2 DEF TypeOK, Created
    <3>4. /\ pc'[flow] = "demoted"
          /\ \A f \in Flows \ {flow} : pc'[f] = pc[f]
      BY <2>a, <3>1 DEF TypeOK
    <3>5. OwnLocals' /\ WaitingNotInTransit'
      BY <2>a, <3>1, <3>3, <3>4
      DEF Own, OwnLocals, WaitingNotInTransit, Scheduling
    <3>6. CpuFlow' /\ RunningMark' /\ OwnFrames'
      BY <2>a, <3>1, <3>3, <3>4
      DEF Own, CpuFlow, RunningMark, OwnFrames, Scheduling
    <3> QED
      BY <3>5, <3>6 DEF Own
  <2>6. CASE Point
    <3>1. /\ flow \in Slots /\ pc[flow] = "demoted"
          /\ UNCHANGED <<state, esp, flow, prev, next>>
          /\ pc' = [pc EXCEPT ![flow] = "pointed"]
          /\ current' = next[flow]
      BY <2>6 DEF Point, At, OwnFlow, GoTo
    <3>2. next[flow] \in Created /\ Created' = Created
      BY <2>a, <3>1 DEF Own, OwnLocals, Scheduling, Created
    <3>3. /\ pc'[flow] = "pointed"
          /\ \A f \in Flows \ {flow} : pc'[f] = pc[f]
      BY <2>a, <3>1 DEF TypeOK
    <3>4. OwnLocals' /\ WaitingNotInTransit'
      BY <2>a, <3>1, <3>2, <3>3
      DEF Own, OwnLocals, WaitingNotInTransit, Scheduling
    <3>5. CpuFlow' /\ RunningMark' /\ OwnFrames'
      BY <2>a, <3>1, <3>2, <3>3
      DEF Own, CpuFlow, RunningMark, OwnFrames, Created
    <3> QED
      BY <3>4, <3>5 DEF Own
  <2>7. CASE Mark
    <3>1. /\ flow # None /\ pc[flow] = "pointed"
          /\ UNCHANGED <<esp, current, flow, prev, next>>
          /\ pc' = [pc EXCEPT ![flow] = "marked"]
      BY <2>7 DEF Mark, GoTo
    <3>2. PICK s \in {current} \cup ({next[flow]} \ {None}) :
            state' = [state EXCEPT ![s] = "RUNNING"]
      BY <2>7 DEF Mark
    <3>3. s = current /\ current \in Created
      <4>1. current \in Created
        BY <2>a, <3>1 DEF Own, CpuFlow
      <4>2. flow = Boot => next[flow] = None
        BY <2>a DEF TypeInv, LocalsOK
      <4>3. flow # Boot => next[flow] = current
        BY <2>a, <3>1 DEF Own, CpuFlow, Created
      <4> QED
        BY <3>2, <4>1, <4>2, <4>3
    <3>4. Created' = Created /\ state'[current] = "RUNNING"
      BY <2>a, <3>2, <3>3 DEF TypeOK, Created
    <3>5. /\ pc'[flow] = "marked" /\ flow \in Flows
          /\ \A f \in Flows \ {flow} : pc'[f] = pc[f]
      BY <2>a, <3>1 DEF TypeOK
    <3>6. OwnLocals' /\ WaitingNotInTransit'
      BY <2>a, <3>1, <3>4, <3>5
      DEF Own, OwnLocals, WaitingNotInTransit, Scheduling
    <3>7. CpuFlow' /\ RunningMark' /\ OwnFrames'
      BY <2>a, <3>1, <3>3, <3>4, <3>5
      DEF Own, CpuFlow, RunningMark, OwnFrames, Created
    <3> QED
      BY <3>6, <3>7 DEF Own
  <2>8. CASE Switch
    <3>1. /\ flow \in Slots /\ pc[flow] = "marked"
          /\ UNCHANGED <<state, current, prev, next>>
          /\ pc' = [pc EXCEPT ![flow] = "run"]
          /\ SwitchTo(prev[flow], current, "call")
      BY <2>8 DEF Switch, At, OwnFlow, GoTo
    <3>2. /\ prev[flow] = flow /\ current \in Created /\ current # flow
          /\ Created' = Created /\ state[current] = "RUNNING"
      BY <2>a, <3>1
      DEF Own, OwnLocals, CpuFlow, RunningMark, Scheduling, Created
    <3>3. flow' = current /\ \A s \in Created : s # current => esp'[s] = s
      BY <2>a, <3>1, <3>2, OwnSwitch DEF Own
    <3>4. pc'[flow] = "run" /\ \A f \in Flows \ {flow} : pc'[f] = pc[f]
      BY <2>a, <3>1 DEF TypeOK
    <3>5. OwnLocals' /\ WaitingNotInTransit'
      BY <2>a, <3>1, <3>2, <3>3, <3>4
      DEF Own, OwnLocals, WaitingNotInTransit, Scheduling
    <3>6. CpuFlow' /\ RunningMark' /\ OwnFrames'
      BY <2>a, <3>1, <3>2, <3>3, <3>4
      DEF Own, CpuFlow, RunningMark, OwnFrames, WaitingNotInTransit, Created
    <3> QED
      BY <3>5, <3>6 DEF Own
  <2>9. CASE IpcCall
    BY <2>a, <2>9, ThreadStep
    DEF IpcCall, At, OwnFlow, Scheduling, PCs
  <2>10. CASE EnterUser
    BY <2>a, <2>10, ThreadStep
    DEF EnterUser, At, OwnFlow, Scheduling, PCs
  <2>11. CASE SpinStart
    BY <2>a, <2>11, ThreadStep
    DEF SpinStart, At, OwnFlow, Scheduling, PCs
  <2>12. CASE SpinEnd
    BY <2>a, <2>12, ThreadStep
    DEF SpinEnd, At, OwnFlow, Scheduling, PCs
  <2>13. CASE UserYield
    <3>1. flow \in Slots /\ flow = current
      BY <2>a, <2>13 DEF UserYield, At, OwnFlow, Own, CpuFlow
    <3> QED
      BY <2>a, <2>13, <3>1, HandlerOwn DEF UserYield
  <2>14. CASE Tick
    BY <2>a, <2>14 DEF Tick, locals, Own, OwnLocals, WaitingNotInTransit,
       CpuFlow, RunningMark, OwnFrames, Created
  <2>15. CASE Preempt
    <3>1. flow = current /\ flow \in Slots
      BY <2>a, <2>15 DEF Preempt, TypeOK
    <3> QED
      BY <2>a, <2>15, <3>1, HandlerOwn DEF Preempt
  <2>16. CASE UNCHANGED vars
    BY <2>a, <2>16 DEF vars, Own, OwnLocals, WaitingNotInTransit,
       CpuFlow, RunningMark, OwnFrames, Created
  <2>17. CASE UserReturn
    <3>1. /\ flow \in Slots /\ flow' = None
          /\ pc' = [pc EXCEPT ![flow] = "returned"]
          /\ UNCHANGED <<state, esp>>
      BY <2>17 DEF UserReturn, At, OwnFlow, GoTo
    <3>2. pc'[flow] = "returned" /\ \A f \in Flows \ {flow} : pc'[f] = pc[f]
      BY <2>a, <3>1 DEF TypeOK
    <3>3. flow \in Gone' /\ Created' = Created
      BY <3>1, <3>2 DEF Gone, Created
    <3>4. \A s \in Created' \ Gone' : esp'[s] = s
      BY <2>a, <3>1, <3>3 DEF Own, OwnFrames
    <3> QED
      BY <3>1, <3>3, <3>4 DEF Lost
  <2> QED
    BY <2>1, <2>2, <2>3, <2>4, <2>5, <2>6, <2>7, <2>8, <2>9, <2>10, <2>11,
       <2>12, <2>13, <2>14, <2>15, <2>16, <2>17 DEF Next, CpuStep
<1> QED
  BY <1>b, <1>c, <1>d DEF StackInv

\* While no switch is torn, current_thread is the thread on the CPU outside the
\* last two steps of schedule().
THEOREM CurrentCorrect == Spec => []CurrentOwnsTheCpu
<1>1. StackInv => CurrentOwnsTheCpu
  BY SchedulerConstants
  DEF StackInv, Own, Lost, CpuFlow, CurrentOwnsTheCpu, InTransit, OwnFlow
<1> QED
  BY StackInit, StackStep, <1>1, PTL DEF Spec

\* While no switch is torn, every waiting thread resumes in its own frame.
THEOREM ContextCorrect == Spec => []ContextIntegrity
<1>1. StackInv => ContextIntegrity
  BY SchedulerConstants
  DEF StackInv, Own, Lost, CpuFlow, OwnFrames, ContextIntegrity, Created, Gone
<1> QED
  BY StackInit, StackStep, <1>1, PTL DEF Spec

\* A thread outside schedule() is marked RUNNING, whatever ticks fell between
\* the two lines of schedule() that mark prev and move current_thread.
THEOREM RunningCorrect == Spec => []CurrentIsRunning
<1>1. StackInv => CurrentIsRunning
  BY SchedulerConstants
  DEF StackInv, Own, Lost, RunningMark, CurrentIsRunning, OwnFlow
<1> QED
  BY StackInit, StackStep, <1>1, PTL DEF Spec

-----------------------------------------------------------------------------
(* No stack is shared, torn switches included.                             *)

\* The frame of a thread that is not created yet is nowhere.
Unused(s) == flow # s /\ \A r \in Slots : esp[r] # s
FreshStacks == \A s \in Slots : state[s] = "FREE" => Unused(s)

FrameInv == TypeInv /\ NoSharedStack /\ FreshStacks

\* switch_to_thread moves frames about: it makes no second pointer to one, and
\* brings none into use.
LEMMA SwitchMoves ==
    ASSUME TypeOK, NoSharedStack, flow \in Flows, NEW p \in Slots,
           NEW n \in Slots, NEW how, SwitchTo(p, n, how)
    PROVE  NoSharedStack' /\ \A s \in Slots : Unused(s) => Unused(s)'
<1> DEFINE saved == [esp EXCEPT ![p] = flow]
<1>1. /\ esp' = [saved EXCEPT ![n] = None] /\ flow' = saved[n]
      /\ saved \in [Slots -> Flows \cup {None}]
  BY DEF SwitchTo, TypeOK
<1>2. \A r, s \in Slots : r # s /\ saved[s] # None => saved[r] # saved[s]
  BY DEF NoSharedStack, TypeOK
<1>3. \A s, r \in Slots : Unused(s) => saved[r] # s
  BY DEF Unused, TypeOK
<1> HIDE DEF saved
<1>4. esp'[n] = None /\ \A r \in Slots : r # n => esp'[r] = saved[r]
  BY <1>1
<1>5. NoSharedStack'
  BY <1>1, <1>2, <1>4 DEF NoSharedStack
<1>6. \A s \in Slots : Unused(s) => Unused(s)'
  BY <1>1, <1>3, <1>4, SchedulerConstants DEF Unused
<1> QED
  BY <1>5, <1>6

LEMMA FrameInit == Init => FrameInv
BY TypeInit, SchedulerConstants
DEF Init, FrameInv, NoSharedStack, FreshStacks, Unused

LEMMA FrameStep == FrameInv /\ [Next]_vars => FrameInv'
<1> SUFFICES ASSUME FrameInv, [Next]_vars PROVE NoSharedStack' /\ FreshStacks'
  BY TypeStep DEF FrameInv
<1> USE SchedulerConstants
<1>a. TypeInv /\ TypeOK /\ NoSharedStack /\ FreshStacks
  BY DEF FrameInv, TypeInv
<1>1. CASE Create
  <2>1. PICK s \in Slots : /\ state[s] = "FREE" /\ flow' = flow
                           /\ state' = [state EXCEPT ![s] = "READY"]
                           /\ esp' = [esp EXCEPT ![s] = s]
    BY <1>1 DEF Create
  <2>2. Unused(s)
    BY <1>a, <2>1 DEF FreshStacks
  <2>3. esp'[s] = s /\ \A r \in Slots : r # s => esp'[r] = esp[r]
    BY <1>a, <2>1 DEF TypeOK
  <2>4. NoSharedStack'
    BY <1>a, <2>1, <2>2, <2>3 DEF NoSharedStack, Unused
  <2>5. \A r \in Slots : state'[r] = "FREE" => r # s /\ state[r] = "FREE"
    BY <1>a, <2>1 DEF TypeOK
  <2>6. FreshStacks'
    BY <1>a, <2>1, <2>3, <2>5 DEF FreshStacks, Unused
  <2> QED
    BY <2>4, <2>6
<1>2. CASE BootJump
  <2>1. /\ current \in Slots
        /\ flow' = esp[current] /\ esp' = [esp EXCEPT ![current] = None]
        /\ state' = state
    BY <1>2, <1>a DEF BootJump, TypeInv, LocalsOK
  <2>2. esp'[current] = None /\ \A r \in Slots : r # current => esp'[r] = esp[r]
    BY <1>a, <2>1 DEF TypeOK
  <2> QED
    BY <1>a, <2>1, <2>2 DEF NoSharedStack, FreshStacks, Unused
<1>3. CASE Switch
  <2>1. /\ flow \in Slots /\ prev[flow] \in Slots /\ current \in Slots
        /\ state' = state /\ SwitchTo(prev[flow], current, "call")
    BY <1>3, <1>a DEF Switch, At, OwnFlow, TypeInv, LocalsOK, Scheduling
  <2> QED
    BY <1>a, <2>1, SwitchMoves DEF FreshStacks, Flows
<1>4. CASE UserYield \/ Preempt
  <2>1. flow \in Flows /\ current \in Slots /\ ScheduleInHandler
    BY <1>4, <1>a DEF UserYield, Preempt, TimerTick, At, OwnFlow, TypeOK, Flows
  <2>2. PICK n \in Slots :
          /\ state' = [state EXCEPT ![current] = "READY", ![n] = "RUNNING"]
          /\ SwitchTo(current, n, "irq")
    BY <2>1 DEF ScheduleInHandler
  <2>3. \A s \in Slots : state'[s] = "FREE" => state[s] = "FREE"
    BY <1>a, <2>2 DEF TypeOK
  <2> QED
    BY <1>a, <2>1, <2>2, <2>3, SwitchMoves DEF FreshStacks
<1>5. CASE Demote \/ Mark
  <2>1. /\ UNCHANGED <<esp, flow>>
        /\ \A s \in Slots : state'[s] = "FREE" => state[s] = "FREE"
    BY <1>5, <1>a DEF Demote, Mark, TypeOK
  <2> QED
    BY <1>a, <2>1 DEF NoSharedStack, FreshStacks, Unused
<1>6. CASE BootPoint \/ Pick \/ Point \/ IpcCall \/ EnterUser \/ SpinStart
           \/ SpinEnd \/ Tick \/ UNCHANGED vars
  <2>1. UNCHANGED <<state, esp, flow>>
    BY <1>6 DEF BootPoint, Pick, Point, IpcCall, EnterUser, SpinStart, SpinEnd,
       Tick, vars
  <2> QED
    BY <1>a, <2>1 DEF NoSharedStack, FreshStacks, Unused
<1>7. CASE UserReturn
  <2>1. flow' = None /\ UNCHANGED <<state, esp>>
    BY <1>7 DEF UserReturn
  <2> QED
    BY <1>a, <2>1 DEF NoSharedStack, FreshStacks, Unused
<1> QED
  BY <1>1, <1>2, <1>3, <1>4, <1>5, <1>6, <1>7 DEF Next, CpuStep

\* No two threads ever run on one stack, even after torn switches.
THEOREM StacksUnshared == Spec => []NoSharedStack
<1>1. FrameInv => NoSharedStack
  BY DEF FrameInv
<1> QED
  BY FrameInit, FrameStep, <1>1, PTL DEF Spec

-----------------------------------------------------------------------------
(* The order of the threads, torn switches included.                       *)

\* kernel_main creates threads only while nothing else has run.
BootFirst ==
    pc[Boot] = "run" =>
        flow = Boot /\ current = None /\ \A f \in Slots : pc[f] = "run"

\* A next_thread that was picked and not used yet is still the successor of
\* current_thread when its thread goes on, however long it was off the CPU:
\* the thread can only come back through the slot it picked from, and the set
\* of runnable threads does not change.
PickValid(f) ==
    pc[f] \in {"picked", "demoted"} =>
        /\ \A c, n \in Slots : prev[f] = c /\ next[f] = n => IsNext(c, n)
        /\ flow = f => current = prev[f]
        /\ \A s \in Slots : esp[s] = f => s = prev[f]

PickStaysValid == \A f \in Slots : PickValid(f)

AllCreated ==
    /\ current \in Slots => Runnable(current)
    /\ \A f \in Slots : pc[f] \in Scheduling =>
            Runnable(prev[f]) /\ Runnable(next[f])

OrderInv == TypeInv /\ BootFirst /\ PickStaysValid /\ AllCreated

\* The successor of a slot depends only on which slots are runnable.
LEMMA NextOfSameRunnable ==
    ASSUME \A s \in Slots : Runnable(s) <=> Runnable(s)',
           NEW c \in Slots, NEW n \in Slots
    PROVE  IsNext(c, n) <=> IsNext(c, n)'
<1>1. \A i \in Nat : (c + i) % MaxThreads \in Slots
  BY SchedulerConstants DEF Slots
<1> HIDE DEF Slots
<1>2. \A i \in 1 .. MaxThreads : \A j \in 1 .. i - 1 :
        (c + j) % MaxThreads \in Slots
  BY <1>1
<1>3. \A i \in 1 .. MaxThreads : \A j \in 1 .. i - 1 :
        Runnable((c + j) % MaxThreads) <=> Runnable((c + j) % MaxThreads)'
  BY <1>2
<1> QED
  BY <1>3 DEF IsNext

LEMMA OrderInit == Init => OrderInv
BY TypeInit, SchedulerConstants
DEF Init, OrderInv, BootFirst, PickStaysValid, PickValid, AllCreated, Scheduling,
    Flows

\* Marking a runnable thread, or moving the mark, leaves the set of runnable
\* threads alone.
LEMMA MarksKeepRunnable ==
    ASSUME TypeOK, NEW m \in Slots, Runnable(m),
           NEW v \in {"READY", "RUNNING"}, state' = [state EXCEPT ![m] = v]
    PROVE  \A s \in Slots : Runnable(s) <=> Runnable(s)'
BY DEF Runnable, TypeOK

\* Where a frame is after switch_to_thread: the saved one in slot p, any other
\* where it was, unless it was in slot n and is now on the CPU.
LEMMA SwitchPlaces ==
    ASSUME TypeOK, NoSharedStack, flow \in Flows, NEW p \in Slots,
           NEW n \in Slots, NEW how, SwitchTo(p, n, how), NEW f \in Flows
    PROVE  /\ f # flow => /\ \A s \in Slots : esp'[s] = f => esp[s] = f
                          /\ flow' = f => esp[n] = f
           /\ f = flow /\ n # p => /\ \A s \in Slots : esp'[s] = f => s = p
                                   /\ flow' # f
<1> DEFINE saved == [esp EXCEPT ![p] = flow]
<1>1. /\ esp' = [saved EXCEPT ![n] = None] /\ flow' = saved[n]
      /\ saved \in [Slots -> Flows \cup {None}]
  BY DEF SwitchTo, TypeOK
<1>2. saved[p] = flow /\ \A s \in Slots : s # p => saved[s] = esp[s]
  BY DEF TypeOK
<1> HIDE DEF saved
<1>3. esp'[n] = None /\ \A s \in Slots : s # n => esp'[s] = saved[s]
  BY <1>1
<1>4. f # None
  BY SchedulerConstants DEF Flows
<1> QED
  BY <1>1, <1>2, <1>3, <1>4 DEF NoSharedStack

\* A step that keeps the runnable threads, a thread's locals and the place of
\* its frame, and does not start a pick, keeps its pick valid.
LEMMA PickKept ==
    ASSUME NEW f \in Slots, PickValid(f),
           \A s \in Slots : Runnable(s) <=> Runnable(s)',
           UNCHANGED <<prev[f], next[f]>>,
           pc'[f] \in {"picked", "demoted"} => pc[f] \in {"picked", "demoted"},
           flow' = f => current' = prev[f],
           \A s \in Slots : esp'[s] = f => esp[s] = f \/ s = prev[f]
    PROVE  PickValid(f)'
<1> SUFFICES ASSUME pc'[f] \in {"picked", "demoted"}
             PROVE  /\ \A c, n \in Slots : prev'[f] = c /\ next'[f] = n
                                              => IsNext(c, n)'
                    /\ flow' = f => current' = prev'[f]
                    /\ \A s \in Slots : esp'[s] = f => s = prev'[f]
  BY DEF PickValid
<1>1. \A c, n \in Slots : prev[f] = c /\ next[f] = n => IsNext(c, n)
  BY DEF PickValid
<1>2. \A s \in Slots : esp[s] = f => s = prev[f]
  BY DEF PickValid
<1>3. \A c, n \in Slots : IsNext(c, n) <=> IsNext(c, n)'
  BY NextOfSameRunnable
<1> QED
  BY <1>1, <1>2, <1>3

\* A step of the running flow that moves no frame and no current_thread.
LEMMA OrderFlowStep ==
    ASSUME TypeInv, BootFirst, PickStaysValid, AllCreated, flow \in Flows,
           \A s \in Slots : Runnable(s) <=> Runnable(s)',
           UNCHANGED <<esp, current, flow, prev, next>>,
           NEW where, GoTo(where), flow = Boot => pc[Boot] # "run",
           where # "run" \/ flow # Boot,
           where \in Scheduling => pc[flow] \in Scheduling,
           where \in {"picked", "demoted"} => pc[flow] \in {"picked", "demoted"}
    PROVE  BootFirst' /\ PickStaysValid' /\ AllCreated'
<1> USE SchedulerConstants
<1>1. pc'[flow] = where /\ \A f \in Flows \ {flow} : pc'[f] = pc[f]
  BY DEF GoTo, TypeInv, TypeOK
<1>2. pc[Boot] # "run" /\ pc'[Boot] # "run"
  BY <1>1 DEF BootFirst, Flows
<1>3. ASSUME NEW f \in Slots PROVE PickValid(f)'
  <2>1. CASE pc'[f] \in {"picked", "demoted"}
    <3>1. pc[f] \in {"picked", "demoted"}
      BY <1>1, <2>1 DEF Flows
    <3>2. flow' = f => current' = prev[f]
      BY <3>1 DEF PickStaysValid, PickValid
    <3> QED
      BY <3>1, <3>2, PickKept DEF PickStaysValid
  <2>2. CASE pc'[f] \notin {"picked", "demoted"}
    BY <2>2 DEF PickValid
  <2> QED
    BY <2>1, <2>2
<1>4. \A f \in Slots : pc'[f] \in Scheduling => pc[f] \in Scheduling
  BY <1>1 DEF Flows
<1>5. AllCreated'
  BY <1>4 DEF AllCreated, TypeInv, LocalsOK
<1> QED
  BY <1>2, <1>3, <1>5 DEF BootFirst, PickStaysValid

LEMMA OrderStep == FrameInv /\ OrderInv /\ [Next]_vars => OrderInv'
<1> SUFFICES ASSUME FrameInv, OrderInv, [Next]_vars
             PROVE  BootFirst' /\ PickStaysValid' /\ AllCreated'
  BY TypeStep DEF OrderInv
<1> USE SchedulerConstants
<1>a. TypeInv /\ TypeOK /\ LocalsOK /\ BootFirst /\ PickStaysValid /\ AllCreated
      /\ NoSharedStack
  BY DEF OrderInv, FrameInv, TypeInv
<1>1. CASE Create
  <2>1. pc' = pc /\ flow' = flow /\ current' = current /\ current = None
        /\ \A f \in Slots : pc[f] = "run"
    BY <1>1, <1>a DEF Create, BootFirst, locals
  <2> QED
    BY <2>1, <1>a
    DEF BootFirst, PickStaysValid, PickValid, AllCreated, Scheduling
<1>2. CASE BootPoint
  <2>1. pc' = [pc EXCEPT ![Boot] = "pointed"] /\ state' = state
        /\ state[current'] = "READY" /\ \A f \in Slots : pc[f] = "run"
    BY <1>2, <1>a DEF BootPoint, BootFirst
  <2>2. pc'[Boot] = "pointed" /\ \A f \in Slots : pc'[f] = "run"
    BY <2>1, <1>a DEF TypeOK, Flows
  <2> QED
    BY <2>1, <2>2
    DEF BootFirst, PickStaysValid, PickValid, AllCreated, Scheduling, Runnable
<1>3. CASE BootJump
  <2>1. /\ current \in Slots /\ pc[Boot] = "marked"
        /\ flow' = esp[current] /\ esp' = [esp EXCEPT ![current] = None]
        /\ UNCHANGED <<state, current, pc, prev, next>>
    BY <1>3, <1>a DEF BootJump, LocalsOK, locals
  <2>2. \A f \in Flows, s \in Slots : esp'[s] = f => esp[s] = f
    BY <1>a, <2>1 DEF TypeOK, Flows
  <2>3. \A s \in Slots : Runnable(s) <=> Runnable(s)'
    BY <2>1 DEF Runnable
  <2>4. ASSUME NEW f \in Slots PROVE PickValid(f)'
    <3>1. CASE pc[f] \in {"picked", "demoted"}
      <4>1. flow' = f => current' = prev[f]
        BY <1>a, <2>1, <3>1 DEF PickStaysValid, PickValid
      <4> QED
        BY <1>a, <2>1, <2>2, <2>3, <4>1, PickKept DEF PickStaysValid, Flows
    <3>2. CASE pc[f] \notin {"picked", "demoted"}
      BY <2>1, <3>2 DEF PickValid
    <3> QED
      BY <3>1, <3>2
  <2>5. AllCreated'
    BY <1>a, <2>1 DEF AllCreated, Runnable
  <2> QED
    BY <2>1, <2>4, <2>5 DEF BootFirst, PickStaysValid
<1>4. CASE Pick
  <2>1. /\ flow \in Slots /\ current \in Slots /\ pc[Boot] # "run"
        /\ UNCHANGED <<state, esp, current, flow>>
        /\ pc' = [pc EXCEPT ![flow] = "picked"]
        /\ prev' = [prev EXCEPT ![flow] = current]
    BY <1>4, <1>a DEF Pick, At, OwnFlow, GoTo, BootFirst, TypeOK
  <2>2. PICK n \in Slots :
          IsNext(current, n) /\ next' = [next EXCEPT ![flow] = n]
    BY <1>4 DEF Pick
  <2>3. /\ pc'[flow] = "picked" /\ prev'[flow] = current /\ next'[flow] = n
        /\ \A f \in Flows \ {flow} :
              pc'[f] = pc[f] /\ prev'[f] = prev[f] /\ next'[f] = next[f]
    BY <1>a, <2>1, <2>2 DEF TypeOK, Flows
  <2>4. \A s \in Slots : Runnable(s) <=> Runnable(s)'
    BY <2>1 DEF Runnable
  <2>5. ASSUME NEW f \in Slots, f # flow PROVE PickValid(f)'
    BY <1>a, <2>1, <2>3, <2>4, <2>5, PickKept DEF PickStaysValid, Flows
  <2>6. PickValid(flow)'
    <3>1. \A s \in Slots : esp[s] # flow
      BY <1>a, <2>1 DEF NoSharedStack
    <3>2. IsNext(current, n)'
      BY <2>1, <2>2, <2>4, NextOfSameRunnable
    <3> QED
      BY <2>1, <2>3, <3>1, <3>2 DEF PickValid
  <2>7. AllCreated'
    <3>1. Runnable(current) /\ Runnable(n)
      BY <1>a, <2>1, <2>2 DEF AllCreated, IsNext
    <3> QED
      BY <1>a, <2>1, <2>3, <3>1 DEF AllCreated, Runnable, Flows
  <2> QED
    BY <2>1, <2>3, <2>5, <2>6, <2>7 DEF BootFirst, PickStaysValid, Flows
<1>5. CASE Demote
  <2>1. /\ flow \in Slots /\ pc[flow] = "picked" /\ GoTo("demoted")
        /\ UNCHANGED <<esp, current, flow, prev, next>>
        /\ state' = [state EXCEPT ![prev[flow]] = "READY"]
    BY <1>5 DEF Demote, At, OwnFlow
  <2>2. prev[flow] \in Slots /\ Runnable(prev[flow])
    BY <1>a, <2>1 DEF LocalsOK, AllCreated, Scheduling
  <2>3. \A s \in Slots : Runnable(s) <=> Runnable(s)'
    BY <1>a, <2>1, <2>2, MarksKeepRunnable
  <2> QED
    BY <1>a, <2>1, <2>3, OrderFlowStep DEF Scheduling, Flows
<1>6. CASE Point
  <2>1. /\ flow \in Slots /\ pc[flow] = "demoted"
        /\ pc' = [pc EXCEPT ![flow] = "pointed"]
        /\ UNCHANGED <<state, esp, flow, prev, next>>
        /\ current' = next[flow]
    BY <1>6 DEF Point, At, OwnFlow, GoTo
  <2>2. pc'[flow] = "pointed" /\ \A f \in Flows \ {flow} : pc'[f] = pc[f]
    BY <1>a, <2>1 DEF TypeOK
  <2>3. \A s \in Slots : Runnable(s) <=> Runnable(s)'
    BY <2>1 DEF Runnable
  <2>4. ASSUME NEW f \in Slots PROVE PickValid(f)'
    <3>1. CASE f = flow
      BY <2>2, <3>1 DEF PickValid
    <3>2. CASE f # flow
      BY <1>a, <2>1, <2>2, <2>3, <3>2, PickKept DEF PickStaysValid, Flows
    <3> QED
      BY <3>1, <3>2
  <2>5. AllCreated'
    BY <1>a, <2>1, <2>2 DEF AllCreated, Runnable, Scheduling, Flows
  <2>6. BootFirst'
    BY <1>a, <2>1, <2>2 DEF BootFirst, Flows
  <2> QED
    BY <2>4, <2>5, <2>6 DEF PickStaysValid
<1>7. CASE Mark
  <2>1. /\ flow \in Flows /\ pc[flow] = "pointed" /\ GoTo("marked")
        /\ UNCHANGED <<esp, current, flow, prev, next>>
    BY <1>7, <1>a DEF Mark, TypeOK
  <2>2. PICK s \in {current} \cup ({next[flow]} \ {None}) :
          state' = [state EXCEPT ![s] = "RUNNING"]
    BY <1>7 DEF Mark
  <2>3. current \in Slots /\ Runnable(current)
    BY <1>a, <2>1 DEF LocalsOK, AllCreated, Scheduling, Flows
  <2>4. s \in Slots /\ Runnable(s)
    BY <1>a, <2>1, <2>2, <2>3 DEF LocalsOK, AllCreated, Scheduling, Flows
  <2>5. \A r \in Slots : Runnable(r) <=> Runnable(r)'
    BY <1>a, <2>2, <2>4, MarksKeepRunnable
  <2> QED
    BY <1>a, <2>1, <2>5, OrderFlowStep DEF Scheduling
<1>8. CASE Switch
  <2>1. /\ flow \in Slots /\ pc[flow] = "marked"
        /\ UNCHANGED <<state, current, prev, next>>
        /\ pc' = [pc EXCEPT ![flow] = "run"]
        /\ SwitchTo(prev[flow], current, "call")
    BY <1>8 DEF Switch, At, OwnFlow, GoTo
  <2>2. prev[flow] \in Slots /\ current \in Slots
    BY <1>a, <2>1 DEF LocalsOK, Scheduling
  <2>3. pc'[flow] = "run" /\ \A f \in Flows \ {flow} : pc'[f] = pc[f]
    BY <1>a, <2>1 DEF TypeOK
  <2>4. \A s \in Slots : Runnable(s) <=> Runnable(s)'
    BY <2>1 DEF Runnable
  <2>5. ASSUME NEW f \in Slots, f # flow, pc[f] \in {"picked", "demoted"}
        PROVE  PickValid(f)'
    <3>1. /\ \A s \in Slots : esp'[s] = f => esp[s] = f
          /\ flow' = f => esp[current] = f
      BY <1>a, <2>1, <2>2, <2>5, SwitchPlaces DEF Flows
    <3>2. flow' = f => current' = prev[f]
      BY <1>a, <2>1, <2>2, <2>5, <3>1 DEF PickStaysValid, PickValid
    <3> QED
      BY <1>a, <2>1, <2>4, <2>5, <3>1, <3>2, PickKept DEF PickStaysValid
  <2>6. ASSUME NEW f \in Slots PROVE PickValid(f)'
    BY <2>3, <2>5 DEF PickValid, Flows
  <2>7. AllCreated'
    BY <1>a, <2>1, <2>3 DEF AllCreated, Runnable, Scheduling, Flows
  <2>8. BootFirst'
    BY <1>a, <2>1, <2>3 DEF BootFirst, Flows
  <2> QED
    BY <2>6, <2>7, <2>8 DEF PickStaysValid
<1>9. CASE UserYield \/ Preempt
  <2>1. /\ flow \in Flows /\ current \in Slots /\ pc[Boot] # "run"
        /\ pc' = pc /\ prev' = prev /\ next' = next
    BY <1>9, <1>a
    DEF UserYield, Preempt, TimerTick, At, OwnFlow, locals, BootFirst, TypeOK,
        Flows
  <2>2. PICK n \in Slots :
          /\ IsNext(current, n) /\ n # current
          /\ state' = [state EXCEPT ![current] = "READY", ![n] = "RUNNING"]
          /\ current' = n
          /\ SwitchTo(current, n, "irq")
    BY <1>9 DEF UserYield, Preempt, ScheduleInHandler
  <2>3. \A s \in Slots : Runnable(s) <=> Runnable(s)'
    BY <1>a, <2>1, <2>2 DEF Runnable, AllCreated, IsNext, TypeOK
  <2>4. ASSUME NEW f \in Slots, pc[f] \in {"picked", "demoted"}
        PROVE  PickValid(f)'
    <3>1. CASE f # flow
      <4>1. /\ \A s \in Slots : esp'[s] = f => esp[s] = f
            /\ flow' = f => esp[n] = f
        BY <1>a, <2>1, <2>2, <3>1, SwitchPlaces DEF Flows
      <4>2. flow' = f => current' = prev[f]
        BY <1>a, <2>2, <2>4, <4>1 DEF PickStaysValid, PickValid
      <4> QED
        BY <1>a, <2>1, <2>3, <2>4, <4>1, <4>2, PickKept DEF PickStaysValid
    <3>2. CASE f = flow
      <4>1. /\ \A s \in Slots : esp'[s] = f => s = current
            /\ flow' # f
        BY <1>a, <2>1, <2>2, <3>2, SwitchPlaces DEF Flows
      <4>2. current = prev[f]
        BY <1>a, <2>4, <3>2 DEF PickStaysValid, PickValid
      <4> QED
        BY <1>a, <2>1, <2>3, <2>4, <4>1, <4>2, PickKept DEF PickStaysValid
    <3> QED
      BY <3>1, <3>2
  <2>5. ASSUME NEW f \in Slots PROVE PickValid(f)'
    BY <2>1, <2>4 DEF PickValid
  <2>6. AllCreated'
    BY <1>a, <2>1, <2>2, <2>3 DEF AllCreated, LocalsOK, IsNext
  <2>7. BootFirst'
    BY <2>1 DEF BootFirst
  <2> QED
    BY <2>5, <2>6, <2>7 DEF PickStaysValid
<1>10. CASE IpcCall \/ EnterUser \/ SpinStart \/ SpinEnd
  <2>1. PICK where \in PCs \ Scheduling : GoTo(where)
    BY <1>10
    DEF IpcCall, EnterUser, SpinStart, SpinEnd, PCs, Scheduling
  <2>2. /\ UNCHANGED <<state, esp, current, flow, prev, next>>
        /\ flow \in Slots
    BY <1>10 DEF IpcCall, EnterUser, SpinStart, SpinEnd, At, OwnFlow
  <2>3. \A s \in Slots : Runnable(s) <=> Runnable(s)'
    BY <2>2 DEF Runnable
  <2> QED
    BY <1>a, <2>1, <2>2, <2>3, OrderFlowStep DEF Flows, Scheduling
<1>11. CASE Tick \/ UNCHANGED vars
  <2>1. UNCHANGED <<state, esp, current, flow, pc, prev, next>>
    BY <1>11 DEF Tick, vars, locals
  <2>2. \A s \in Slots : Runnable(s) <=> Runnable(s)'
    BY <2>1 DEF Runnable
  <2>3. ASSUME NEW f \in Slots PROVE PickValid(f)'
    <3>1. CASE pc[f] \in {"picked", "demoted"}
      <4>1. flow' = f => current' = prev[f]
        BY <1>a, <2>1, <3>1 DEF PickStaysValid, PickValid
      <4> QED
        BY <1>a, <2>1, <2>2, <3>1, <4>1, PickKept DEF PickStaysValid
    <3>2. CASE pc[f] \notin {"picked", "demoted"}
      BY <2>1, <3>2 DEF PickValid
    <3> QED
      BY <3>1, <3>2
  <2>4. BootFirst' /\ AllCreated'
    BY <1>a, <2>1 DEF BootFirst, AllCreated, Runnable
  <2> QED
    BY <2>3, <2>4 DEF PickStaysValid
<1>12. CASE UserReturn
  <2>1. /\ flow \in Slots /\ pc[flow] = "run" /\ flow' = None
        /\ pc' = [pc EXCEPT ![flow] = "returned"]
        /\ UNCHANGED <<state, esp, current, prev, next>>
    BY <1>12 DEF UserReturn, At, OwnFlow, GoTo
  <2>2. pc'[flow] = "returned" /\ \A f \in Flows \ {flow} : pc'[f] = pc[f]
    BY <1>a, <2>1 DEF TypeOK
  <2>3. \A s \in Slots : Runnable(s) <=> Runnable(s)'
    BY <2>1 DEF Runnable
  <2>4. ASSUME NEW f \in Slots PROVE PickValid(f)'
    <3>1. CASE f = flow
      BY <2>2, <3>1 DEF PickValid
    <3>2. CASE f # flow
      BY <1>a, <2>1, <2>2, <2>3, <3>2, PickKept DEF PickStaysValid, Flows
    <3> QED
      BY <3>1, <3>2
  <2>5. AllCreated'
    BY <1>a, <2>1, <2>2 DEF AllCreated, Runnable, Scheduling, Flows
  <2>6. BootFirst'
    BY <1>a, <2>1, <2>2 DEF BootFirst, Flows
  <2> QED
    BY <2>4, <2>5, <2>6 DEF PickStaysValid
<1> QED
  BY <1>1, <1>2, <1>3, <1>4, <1>5, <1>6, <1>7, <1>8, <1>9, <1>10, <1>11, <1>12
  DEF Next, CpuStep

\* current_thread moves to the next runnable slot and to no other, even when a
\* thread completes a schedule() it began rounds ago.
THEOREM RoundRobinCorrect == Spec => RoundRobinOrder
<1>1. OrderInv /\ [Next]_vars =>
        [current # None /\ current' # current => IsNext(current, current')]_vars
  <2> SUFFICES ASSUME OrderInv, Next, current # None, current' # current
               PROVE  IsNext(current, current')
    BY DEF vars
  <2>1. CASE Point
    <3>1. /\ flow \in Slots /\ pc[flow] = "demoted" /\ current' = next[flow]
      BY <2>1 DEF Point, At, OwnFlow
    <3>2. current = prev[flow] /\ prev[flow] \in Slots /\ next[flow] \in Slots
      BY <3>1
      DEF OrderInv, PickStaysValid, PickValid, TypeInv, LocalsOK, Scheduling
    <3> QED
      BY <3>1, <3>2 DEF OrderInv, PickStaysValid, PickValid
  <2>2. CASE UserYield \/ Preempt
    BY <2>2 DEF UserYield, Preempt, ScheduleInHandler
  <2>3. CASE BootPoint
    BY <2>3 DEF BootPoint, OrderInv, BootFirst
  <2> QED
    BY <2>1, <2>2, <2>3
    DEF Next, CpuStep, Tick, Create, BootJump, Pick, Demote, Mark, Switch,
        IpcCall, EnterUser, UserReturn, SpinStart, SpinEnd
<1> QED
  BY FrameInit, FrameStep, OrderInit, OrderStep, <1>1, PTL
  DEF Spec, RoundRobinOrder
=============================================================================
