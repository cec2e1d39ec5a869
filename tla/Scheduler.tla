----------------------------- MODULE Scheduler -----------------------------
(***************************************************************************)
(* Round-robin threads of SentinelOS on one CPU: src/kernel/scheduler.c,   *)
(* switch.asm, the timer interrupt of timer.c, the interrupt stubs of      *)
(* interrupt.asm, and the way kernel.c, syscall.c, ipc.c and matrix.c use  *)
(* them.                                                                   *)
(*                                                                         *)
(* A FLOW is a stack that code runs on: one for every thread, and Boot,    *)
(* the stack kernel_main starts on.  threads[s].esp is modelled by the     *)
(* flow whose saved frame it points to, or None when the frame it points   *)
(* to has been popped (the value stays in the structure, but the stack     *)
(* above it is in use again).  `flow' is the flow the CPU runs on, and     *)
(* `current' the variable current_thread: the two are different things,    *)
(* and schedule() changes them at different instructions.                  *)
(*                                                                         *)
(* Interrupt gates clear the interrupt flag, so a handler, with the whole  *)
(* schedule() it calls, is one step.  schedule() called by a thread is not *)
(* protected: it is one step for every assignment to shared state, and a   *)
(* timer tick may come between any two of them.                            *)
(***************************************************************************)
EXTENDS Integers

CONSTANTS
    MaxThreads,   \* MAX_THREADS: the slots of threads[]
    NThreads,     \* the threads kernel_main creates
    Period,       \* timer_callback reschedules on every Period-th tick (10)
    SpinTicks,    \* the ticks cmd_matrix waits for between frames (5)
    IpcThreads,   \* slots of the receiver and the worker: cli/sti in a loop
    UserThreads,  \* the slot of the thread that enters ring 3, if any
    Shell,        \* the slot of shell_thread, or None: no matrix command
    Boot,         \* the flow of kernel_main
    None          \* no thread, a stale stack pointer, a wild CPU

Slots == 0 .. MaxThreads - 1
Flows == Slots \cup {Boot}

ASSUME SchedulerConstants ==
    /\ MaxThreads \in Nat /\ NThreads \in 1 .. MaxThreads
    /\ Period \in Nat \ {0} /\ SpinTicks \in Nat
    /\ IpcThreads \subseteq Slots /\ UserThreads \subseteq Slots
    /\ \A s, t \in UserThreads : s = t   \* the TSS has one kernel stack
    /\ Boot \notin Slots /\ None \notin Slots /\ Boot # None

VARIABLES
    state,    \* threads[s].state
    esp,      \* threads[s].esp: the flow whose saved frame it points to
    current,  \* current_thread
    flow,     \* the flow the CPU runs on; None: it popped a stale frame
    iflag,    \* the CPU's interrupt flag
    tick,     \* tick % Period
    pc,       \* where each flow is in its own code
    prev,     \* schedule()'s local prev, in each flow
    next,     \* schedule()'s local next_thread, in each flow
    kind,     \* how each flow was suspended: by a call or in an interrupt
    wait,     \* ticks the matrix command still waits for
    torn      \* history: a rescheduling tick hit a flow that is not current

vars == <<state, esp, current, flow, iflag, tick, pc, prev, next, kind, wait,
          torn>>
locals == <<pc, prev, next>>

ThreadStates == {"FREE", "READY", "RUNNING"}
PCs == {"run",      \* in its own code
        "worked",   \* receiver, worker: behind the ipc call of this round
        "user",     \* in ring 3
        "returned", \* gone: its entry function returned to nowhere
        "spin",     \* in the delay loop of cmd_matrix
        "picked",   \* schedule() has chosen next_thread
        "demoted",  \* ... and made prev READY
        "pointed",  \* ... and moved current_thread
        "marked"}   \* ... and made it RUNNING; logs, then switches

TypeOK ==
    /\ state \in [Slots -> ThreadStates]
    /\ esp \in [Slots -> Flows \cup {None}]
    /\ current \in Slots \cup {None}
    /\ flow \in Flows \cup {None}
    /\ iflag \in BOOLEAN
    /\ tick \in 0 .. Period - 1
    /\ pc \in [Flows -> PCs]
    /\ prev \in [Flows -> Slots \cup {None}]
    /\ next \in [Flows -> Slots \cup {None}]
    /\ kind \in [Flows -> {"call", "irq"}]
    /\ wait \in 0 .. SpinTicks
    /\ torn \in BOOLEAN

\* scheduler_init has run, and kernel_main enabled interrupts before it.
Init ==
    /\ state = [s \in Slots |-> "FREE"]
    /\ esp = [s \in Slots |-> None]
    /\ current = None
    /\ flow = Boot
    /\ iflag = TRUE
    /\ tick = 0
    /\ pc = [f \in Flows |-> "run"]
    /\ prev = [f \in Flows |-> None]
    /\ next = [f \in Flows |-> None]
    /\ kind = [f \in Flows |-> "call"]
    /\ wait = 0
    /\ torn = FALSE

-----------------------------------------------------------------------------
(* The parts of schedule().                                                *)

Runnable(s) == state[s] \in {"READY", "RUNNING"}

\* n is the first runnable slot behind c, going round; c itself comes last.
IsNext(c, n) ==
    \E i \in 1 .. MaxThreads :
        /\ n = (c + i) % MaxThreads
        /\ Runnable(n)
        /\ \A j \in 1 .. i - 1 : ~ Runnable((c + j) % MaxThreads)

\* Variant: switch_to_thread loads the next stack without saving this one.
SwitchToUnsaved(p, n, how) ==
    /\ esp' = [esp EXCEPT ![n] = None]
    /\ flow' = esp[n]
    /\ kind' = [kind EXCEPT ![flow] = how]
    /\ iflag' = \/ esp[n] # None /\ kind'[esp[n]] = "irq"
                \/ iflag /\ how = "call"

\* switch_to_thread(p, n): save the stack pointer in p, load it from n, and
\* go on where the flow found there was suspended.  The interrupt flag is not
\* part of the frame: only a flow suspended in an interrupt gets it back, from
\* the sti and iret of the stub; any other goes on with the flag as it is.
SwitchTo(p, n, how) ==
    LET saved == [esp EXCEPT ![p] = flow]
        loaded == saved[n]
    IN  /\ esp' = [saved EXCEPT ![n] = None]
        /\ flow' = loaded
        /\ kind' = [kind EXCEPT ![flow] = how]
        /\ iflag' = \/ loaded # None /\ kind'[loaded] = "irq"
                    \/ iflag /\ how = "call"

\* Variant: the handler switches stacks but forgets current_thread.
ScheduleInHandlerUnassigned ==
    \E n \in Slots :
        /\ IsNext(current, n) /\ n # current
        /\ state' = [state EXCEPT ![current] = "READY", ![n] = "RUNNING"]
        /\ current' = current
        /\ SwitchTo(current, n, "irq")

\* schedule() with interrupts off, as a handler calls it: all of it at once.
ScheduleInHandler ==
    \E n \in Slots :
        /\ IsNext(current, n) /\ n # current
        /\ state' = [state EXCEPT ![current] = "READY", ![n] = "RUNNING"]
        /\ current' = n
        /\ SwitchTo(current, n, "irq")

NothingElseToRun == \A n \in Slots : IsNext(current, n) => n = current

-----------------------------------------------------------------------------
(* kernel_main: create the threads, then schedule() with current_thread 0. *)

Created == {s \in Slots : state[s] # "FREE"}
Gone == {s \in Slots : pc[s] = "returned"}

\* Variant: the stack page of every thread is the same.
CreateOneStack ==
    /\ flow = Boot /\ pc[Boot] = "run"
    /\ \E s \in Slots :
        /\ s < NThreads
        /\ state[s] = "FREE" /\ \A r \in Slots : r < s => state[r] # "FREE"
        /\ state' = [state EXCEPT ![s] = "READY"]
        /\ esp' = [esp EXCEPT ![s] = 0]
    /\ UNCHANGED <<current, flow, iflag, tick, locals, kind, wait, torn>>

\* thread_create: the first free slot gets a stack that starts its entry.
Create ==
    /\ flow = Boot /\ pc[Boot] = "run"
    /\ \E s \in Slots :
        /\ s < NThreads
        /\ state[s] = "FREE" /\ \A r \in Slots : r < s => state[r] # "FREE"
        /\ state' = [state EXCEPT ![s] = "READY"]
        /\ esp' = [esp EXCEPT ![s] = s]
    /\ UNCHANGED <<current, flow, iflag, tick, locals, kind, wait, torn>>

\* The first READY thread becomes current; its RUNNING mark and the jump to
\* its stack come later.
BootPoint ==
    /\ flow = Boot /\ pc[Boot] = "run"
    /\ \A s \in Slots : s < NThreads => state[s] # "FREE"
    /\ \E n \in Slots :
        /\ state[n] = "READY" /\ \A r \in Slots : r < n => state[r] # "READY"
        /\ current' = n
    /\ pc' = [pc EXCEPT ![Boot] = "pointed"]
    /\ UNCHANGED <<state, esp, flow, iflag, tick, prev, next, kind, wait, torn>>

\* The first thread starts; the boot stack is left behind for good.
BootJump ==
    /\ flow = Boot /\ pc[Boot] = "marked"
    /\ flow' = esp[current]
    /\ esp' = [esp EXCEPT ![current] = None]
    /\ iflag' = \/ esp[current] # None /\ kind[esp[current]] = "irq"
                \/ iflag
    /\ UNCHANGED <<state, current, tick, locals, kind, wait, torn>>

-----------------------------------------------------------------------------
(* schedule() called by a thread: scheduler_yield.                         *)

OwnFlow == flow \in Slots
At(where) == OwnFlow /\ pc[flow] = where
GoTo(where) == pc' = [pc EXCEPT ![flow] = where]

\* Variant: the scan starts at slot 0 instead of behind the current thread.
PickFirst ==
    /\ \/ At("run") /\ flow \notin IpcThreads \cup UserThreads
       \/ At("worked")
    /\ current # None
    /\ \E n \in Slots :
        /\ Runnable(n) /\ n # current
        /\ \A r \in Slots : r < n => r = current \/ ~ Runnable(r)
        /\ next' = [next EXCEPT ![flow] = n]
    /\ prev' = [prev EXCEPT ![flow] = current]
    /\ GoTo("picked")
    /\ UNCHANGED <<state, esp, current, flow, iflag, tick, kind, wait, torn>>

\* A kernel thread yields: pick the next thread and remember prev.  Receiver
\* and worker call ipc in every round before they do.
Pick ==
    /\ \/ At("run") /\ flow \notin IpcThreads \cup UserThreads
       \/ At("worked")
    /\ current # None
    /\ \E n \in Slots :
        /\ IsNext(current, n) /\ n # current
        /\ next' = [next EXCEPT ![flow] = n]
    /\ prev' = [prev EXCEPT ![flow] = current]
    /\ GoTo("picked")
    /\ UNCHANGED <<state, esp, current, flow, iflag, tick, kind, wait, torn>>

Demote ==
    /\ At("picked")
    /\ state' = [state EXCEPT ![prev[flow]] = "READY"]
    /\ GoTo("demoted")
    /\ UNCHANGED <<esp, current, flow, iflag, tick, prev, next, kind, wait, torn>>

Point ==
    /\ At("demoted")
    /\ current' = next[flow]
    /\ GoTo("pointed")
    /\ UNCHANGED <<state, esp, flow, iflag, tick, prev, next, kind, wait, torn>>

\* Variant: the new thread is not marked RUNNING.
MarkForgotten ==
    /\ flow # None /\ pc[flow] = "pointed"
    /\ GoTo("marked")
    /\ UNCHANGED <<state, esp, current, flow, iflag, tick, prev, next, kind, wait,
                   torn>>

\* current_thread->state = RUNNING, in both branches of schedule().
\* current_thread is an ordinary variable written one line before: the build
\* may use the value it still has in a register.
Mark ==
    /\ flow # None /\ pc[flow] = "pointed"
    /\ \E s \in {current} \cup ({next[flow]} \ {None}) :
        state' = [state EXCEPT ![s] = "RUNNING"]
    /\ GoTo("marked")
    /\ UNCHANGED <<esp, current, flow, iflag, tick, prev, next, kind, wait, torn>>

\* The log line is out (a call, so current_thread is read again): switch.
Switch ==
    /\ At("marked")
    /\ SwitchTo(prev[flow], current, "call")
    /\ GoTo("run")
    /\ UNCHANGED <<state, current, tick, prev, next, wait, torn>>

-----------------------------------------------------------------------------
(* What the threads do besides yielding.                                   *)

\* ipc_send, ipc_receive: cli, the mailbox, sti.  Whatever the flag was.
IpcCall ==
    /\ At("run") /\ flow \in IpcThreads
    /\ iflag' = TRUE
    /\ GoTo("worked")
    /\ UNCHANGED <<state, esp, current, flow, tick, prev, next, kind, wait, torn>>

\* enter_user_mode: iret with the interrupt flag set in the frame.
EnterUser ==
    /\ At("run") /\ flow \in UserThreads
    /\ iflag' = TRUE
    /\ GoTo("user")
    /\ UNCHANGED <<state, esp, current, flow, tick, prev, next, kind, wait, torn>>

\* user_thread_entry without a program to load: it returns, and thread_create
\* put no return address behind the entry point.  The CPU goes on wherever the
\* word above the stack page says.
UserReturn ==
    /\ At("run") /\ flow \in UserThreads
    /\ flow' = None
    /\ GoTo("returned")
    /\ UNCHANGED <<state, esp, current, iflag, tick, prev, next, kind, wait,
                   torn>>

\* int 0x80 with eax = 2, from ring 3: schedule() in an interrupt gate.
UserYield ==
    /\ At("user")
    /\ current # None
    /\ ScheduleInHandler
    /\ UNCHANGED <<tick, locals, wait, torn>>

\* cmd_matrix: wait for SpinTicks ticks of the timer, without yielding.
SpinStart ==
    /\ At("run") /\ flow = Shell
    /\ wait' = SpinTicks
    /\ GoTo("spin")
    /\ UNCHANGED <<state, esp, current, flow, iflag, tick, prev, next, kind, torn>>

SpinEnd ==
    /\ At("spin") /\ wait = 0
    /\ GoTo("run")
    /\ UNCHANGED <<state, esp, current, flow, iflag, tick, prev, next, kind, wait,
                   torn>>

-----------------------------------------------------------------------------
(* IRQ0: irq_common_stub, irq_handler and timer_callback.                  *)

\* Variant: the delay of cmd_matrix counts down past zero.
TimerTickUnderflow ==
    /\ iflag /\ flow # None
    /\ tick' = (tick + 1) % Period
    /\ wait' = wait - 1

TimerTick ==
    /\ iflag /\ flow # None
    /\ tick' = (tick + 1) % Period
    /\ wait' = IF wait = 0 THEN 0 ELSE wait - 1

\* A tick that leaves the CPU to the flow it interrupted.
Tick ==
    /\ TimerTick
    /\ tick' = 0 /\ current # None => NothingElseToRun
    /\ UNCHANGED <<state, esp, current, flow, iflag, locals, kind, torn>>

\* Every Period-th tick reschedules, on the stack of the flow it interrupted.
Preempt ==
    /\ TimerTick
    /\ tick' = 0 /\ current # None
    /\ ScheduleInHandler
    /\ torn' = (torn \/ flow # current)
    /\ UNCHANGED locals

CpuStep ==
    \/ Create \/ BootPoint \/ BootJump
    \/ Pick \/ Demote \/ Point \/ Mark \/ Switch
    \/ IpcCall \/ EnterUser \/ UserReturn \/ UserYield
    \/ SpinStart \/ SpinEnd

Next == CpuStep \/ Tick \/ Preempt

Spec == Init /\ [][Next]_vars

\* The CPU executes, and the timer interrupts it while the flag is set.
FairSpec == Spec /\ WF_vars(CpuStep) /\ WF_vars(Tick \/ Preempt)

-----------------------------------------------------------------------------
(* Properties.                                                             *)

\* The two places of schedule() where current_thread is no longer the thread
\* whose stack the CPU is on.
InTransit == flow # None /\ pc[flow] \in {"pointed", "marked"}

\* As long as no rescheduling tick falls between the assignment of
\* current_thread and the switch, the CPU is on the stack of current_thread
\* everywhere else, so that schedule() saves a frame where it belongs.
CurrentOwnsTheCpu ==
    ~ torn /\ OwnFlow /\ ~ InTransit => current = flow

\* Under the same condition every thread that is off the CPU will resume in
\* its own frame: its slot points to its own stack, never to another thread's
\* and never to a frame that was used up.  The CPU only goes wild where a
\* thread returns from its entry function.
ContextIntegrity ==
    ~ torn => /\ flow = None => Gone # {}
              /\ \A s \in Created \ Gone : s # flow => esp[s] = s

\* No condition: even when a tick does tear a switch, no frame is ever
\* reachable from two slots, or from a slot while the CPU runs on it.  A torn
\* switch loses threads; it never runs two of them on one stack.
NoSharedStack ==
    \A s \in Slots : esp[s] # None =>
        /\ esp[s] # flow
        /\ \A r \in Slots : r # s => esp[r] # esp[s]

\* A thread in its own code is marked RUNNING, even after a tick that fell
\* between "prev->state = READY" and the assignment of current_thread.
CurrentIsRunning ==
    ~ torn /\ OwnFlow /\ pc[flow] \notin {"demoted", "pointed"} =>
        state[current] = "RUNNING"

\* Round robin: current_thread only ever moves to the next runnable slot, also
\* when the move uses a next_thread picked before other threads ran.
RoundRobinOrder ==
    [][current # None /\ current' # current => IsNext(current, current')]_vars

\* The CPU waits for a tick that cannot come: cmd_matrix entered with
\* interrupts off.
Hung == At("spin") /\ wait > 0 /\ ~ iflag

\* Every thread gets the CPU again and again, unless a switch is torn, the
\* matrix command hangs the machine, or the user thread finds no program.
StarvationFree ==
    <>torn \/ <>Hung \/ <>(flow = None) \/ \A s \in Slots : s < NThreads => []<>(flow = s)

\* The manual: a thread that is swapped back in "resumes exactly where it left
\* off".  The frame that every waiting thread resumes in is its own, always.
ResumesWhereItLeftOff == \A s \in Created \ Gone : s # flow => esp[s] = s

\* The manual: the tick polls the keyboard, which "ensures 100% reliable input
\* even during high CPU load".  Interrupts are on again and again.
KeyboardStaysPolled == <>torn \/ <>(flow = None) \/ []<>iflag
=============================================================================
