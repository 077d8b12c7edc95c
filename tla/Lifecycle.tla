------------------------------- MODULE Lifecycle -------------------------------
(***************************************************************************)
(* How the receiver is started and stopped: InitRTL, RunRTL, the 30 ms     *)
(* timer signal, timer_threads_fn and StopRTL of Source/rtl.c (in both     *)
(* versions of RunRTL, for Linux and for Windows), with the parts of       *)
(* FSKdsp.c and linux_spawn.c they call: the DSP thread as far as waiting  *)
(* and ending goes, DSPStop and CloseChildProcess.  No RTP session is      *)
(* started: SendingUDP stays FALSE.                                        *)
(*                                                                         *)
(* Four threads: the Java worker that calls init and runRTL, the Java      *)
(* thread that calls stopRTL, and the timer and DSP threads they create.   *)
(* The timer signal goes to the process: any thread that does not block it *)
(* runs RTL_timer_signal, on top of whatever it was doing.  On Windows     *)
(* there is no signal: the worker itself waits for the timer.              *)
(***************************************************************************)
EXTENDS Integers

CONSTANT MaxBacklog     \* samples the DSP thread can be behind, one less than its ring has slots
ASSUME MaxBacklogAssumption == MaxBacklog \in Nat \ {0}

VARIABLES
    system,         \* which version is built: "linux" or "windows"
    main,           \* the worker, in InitRTL and RunRTL
    stop,           \* the caller of StopRTL
    timer,          \* timer_threads_fn
    dsp,            \* dsp_threads_fn
    exit, dspexit,  \* timer_threads.exit and dsp_threads.exit
    blocked,        \* the threads that block the timer signal
    armed, pending, \* the interval timer runs; its signal is queued
    handling,       \* the threads that are in RTL_timer_signal
    PipeBuffer,     \* the buffer of timer_threads
    child,          \* the SDR program at the other end of the pipe runs
    backlog         \* samples between the pointers of the DSP thread's ring

flags == <<exit, dspexit>>
signals == <<blocked, armed, pending, handling>>
vars == <<system, main, stop, timer, dsp, exit, dspexit, blocked, armed, pending,
          handling, PipeBuffer, child, backlog>>

Threads == {"main", "stop", "timer", "dsp"}

Init ==
    /\ system \in {"linux", "windows"}
    /\ main = "new" /\ stop = "idle" /\ timer = "none" /\ dsp = "none"
    /\ exit = FALSE /\ dspexit = FALSE
    /\ blocked = {} /\ armed = FALSE /\ pending = FALSE /\ handling = {}
    /\ PipeBuffer = "none" /\ child = FALSE /\ backlog = 0
-------------------------------------------------------------------------------
\* timer_mutex is held by the timer thread around its wait.
TimerMutexHeld == timer \in {"locked", "relocked"}

\* Mutant of Woken: the signal is forgotten.
NotWoken == timer

\* A signal that does not find the timer thread waiting is lost.
Woken == IF timer = "waiting" THEN "woken" ELSE timer
-------------------------------------------------------------------------------
\* The worker thread.  A thread that runs the signal handler does nothing else.

At(pc) == main = pc /\ "main" \notin handling

\* InitRTL: start the child process, then the DSP thread.
InitRTL ==
    /\ At("new")
    /\ main' = "inited" /\ dsp' = "top" /\ child' = TRUE
    /\ exit' = FALSE /\ dspexit' = FALSE
    /\ UNCHANGED <<system, stop, timer, signals, PipeBuffer, backlog>>

\* No child, no threads.  A stop after that would join a thread that was never
\* created; nobody is assumed to call it.
InitFails ==
    /\ At("new")
    /\ main' = "uninited"
    /\ UNCHANGED <<system, stop, timer, dsp, flags, signals, PipeBuffer, child, backlog>>

\* RunRTL returns FALSE where it is, and undoes nothing; before the allocation,
\* at the sigaction or mask changes, at timer_create and at timer_settime.
RunFails ==
    /\ \/ At("inited") \/ At("masked") \/ At("created") \/ At("armed")
       \/ At("allocated") /\ system = "linux"
    /\ main' = "failed"
    /\ UNCHANGED <<system, stop, timer, dsp, flags, signals, PipeBuffer, child, backlog>>

RunAlloc ==
    /\ At("inited")
    /\ main' = "allocated" /\ PipeBuffer' = "allocated"
    /\ UNCHANGED <<system, stop, timer, dsp, flags, signals, child, backlog>>

\* Mutant of RunMask: the signal is not blocked while the thread is created.
RunNoMask ==
    /\ At("allocated") /\ system = "linux"
    /\ main' = "masked"
    /\ UNCHANGED <<system, stop, timer, dsp, flags, signals, PipeBuffer, child, backlog>>

\* sigaction and sigprocmask(SIG_SETMASK).
RunMask ==
    /\ At("allocated") /\ system = "linux"
    /\ main' = "masked" /\ blocked' = blocked \cup {"main"}
    /\ UNCHANGED <<system, stop, timer, dsp, flags, armed, pending, handling, PipeBuffer,
                   child, backlog>>

\* timer_create and pthread_create: the new thread inherits the mask.
RunCreate ==
    /\ At("masked")
    /\ main' = "created" /\ timer' = "top"
    /\ blocked' = IF "main" \in blocked THEN blocked \cup {"timer"} ELSE blocked
    /\ UNCHANGED <<system, stop, dsp, flags, armed, pending, handling, PipeBuffer,
                   child, backlog>>

RunArm ==
    /\ At("created")
    /\ main' = "armed" /\ armed' = TRUE
    /\ UNCHANGED <<system, stop, timer, dsp, flags, blocked, pending, handling, PipeBuffer,
                   child, backlog>>

RunUnblock ==
    /\ At("armed")
    /\ main' = "looping" /\ blocked' = blocked \ {"main"}
    /\ UNCHANGED <<system, stop, timer, dsp, flags, armed, pending, handling, PipeBuffer,
                   child, backlog>>

\* The loop on timer_exit_wait_cond: test and wait are one under the mutex.
RunTestExit ==
    /\ At("looping")
    /\ main' = IF exit THEN "stopping" ELSE "waiting"
    /\ UNCHANGED <<system, stop, timer, dsp, flags, signals, PipeBuffer, child, backlog>>

\* The Windows version: without a timer the buffer is given back.
WinTimerFails ==
    /\ At("allocated") /\ system = "windows"
    /\ main' = "failed" /\ PipeBuffer' = "freed"
    /\ UNCHANGED <<system, stop, timer, dsp, flags, signals, child, backlog>>

WinCreate ==
    /\ At("allocated") /\ system = "windows"
    /\ main' = "ticking" /\ timer' = "top"
    /\ UNCHANGED <<system, stop, dsp, flags, signals, PipeBuffer, child, backlog>>

\* WaitForSingleObject, then the signal to the timer thread from the worker.
WinTick ==
    /\ At("ticking") /\ ~TimerMutexHeld
    /\ main' = "ticked" /\ timer' = Woken
    /\ UNCHANGED <<system, stop, dsp, flags, signals, PipeBuffer, child, backlog>>

WinTestExit ==
    /\ At("ticked")
    /\ main' = IF exit THEN "stopping" ELSE "ticking"
    /\ UNCHANGED <<system, stop, timer, dsp, flags, signals, PipeBuffer, child, backlog>>

\* Both versions stop the timer before they join.
RunDisarm ==
    /\ At("stopping")
    /\ main' = "joining" /\ armed' = FALSE
    /\ UNCHANGED <<system, stop, timer, dsp, flags, blocked, pending, handling, PipeBuffer,
                   child, backlog>>

\* Mutant of RunJoin: the buffer is freed without waiting for its user.
FreeWithoutJoin ==
    /\ At("joining")
    /\ main' = "done" /\ PipeBuffer' = "freed"
    /\ UNCHANGED <<system, stop, timer, dsp, flags, signals, child, backlog>>

\* pthread_join on the timer thread, then free.
RunJoin ==
    /\ At("joining") /\ timer = "ended"
    /\ main' = "done" /\ PipeBuffer' = "freed"
    /\ UNCHANGED <<system, stop, timer, dsp, flags, signals, child, backlog>>

RunRTL ==
    \/ RunAlloc \/ RunMask \/ RunCreate \/ RunArm \/ RunUnblock
    \/ RunTestExit \/ RunDisarm \/ RunJoin

WinRunRTL ==
    \/ RunAlloc \/ WinTimerFails \/ WinCreate \/ WinTick \/ WinTestExit
    \/ RunDisarm \/ RunJoin

Worker == InitRTL \/ RunRTL \/ WinRunRTL
-------------------------------------------------------------------------------
\* StopRTL, called once after init has returned.

StopAt(pc) == stop = pc /\ "stop" \notin handling

StopFlag ==
    /\ StopAt("idle") /\ main \notin {"new", "uninited"}
    /\ stop' = "flagged" /\ exit' = TRUE
    /\ UNCHANGED <<system, main, timer, dsp, dspexit, signals, PipeBuffer, child, backlog>>

\* DSPStop sets the flag; it does not signal dsp_wait_cond.
DSPStop ==
    /\ StopAt("flagged")
    /\ stop' = "joining" /\ dspexit' = TRUE
    /\ UNCHANGED <<system, main, timer, dsp, exit, signals, PipeBuffer, child, backlog>>

DSPJoin ==
    /\ StopAt("joining") /\ dsp = "ended"
    /\ stop' = "closing"
    /\ UNCHANGED <<system, main, timer, dsp, flags, signals, PipeBuffer, child, backlog>>

\* The pipe is closed and the child killed.
CloseChildProcess ==
    /\ StopAt("closing")
    /\ stop' = "closed" /\ child' = FALSE
    /\ UNCHANGED <<system, main, timer, dsp, flags, signals, PipeBuffer, backlog>>

\* Mutant of StopSignal: the worker is not signalled.
StopSilently ==
    /\ StopAt("closed")
    /\ stop' = "done"
    /\ UNCHANGED <<system, main, timer, dsp, flags, signals, PipeBuffer, child, backlog>>

StopSignal ==
    /\ StopAt("closed")
    /\ stop' = "done"
    /\ main' = IF main = "waiting" THEN "looping" ELSE main
    /\ UNCHANGED <<system, timer, dsp, flags, signals, PipeBuffer, child, backlog>>

StopRTL == DSPStop \/ DSPJoin \/ CloseChildProcess \/ StopSignal
-------------------------------------------------------------------------------
\* The timer signal.

Alive(thread) ==
    CASE thread = "timer" -> timer \notin {"none", "ended"}
      [] thread = "dsp" -> dsp \notin {"none", "ended"}
      [] OTHER -> TRUE

\* The interval timer expires.  One signal of a timer is queued at a time.
Tick ==
    /\ armed /\ ~pending
    /\ pending' = TRUE
    /\ UNCHANGED <<system, main, stop, timer, dsp, flags, blocked, armed, handling,
                   PipeBuffer, child, backlog>>

\* The kernel interrupts a thread that does not block the signal (a thread that
\* is in the handler does).
Deliver(thread) ==
    /\ pending /\ Alive(thread) /\ thread \notin blocked \cup handling
    /\ pending' = FALSE /\ handling' = handling \cup {thread}
    /\ UNCHANGED <<system, main, stop, timer, dsp, flags, blocked, armed, PipeBuffer,
                   child, backlog>>

\* RTL_timer_signal: lock, signal timer_wait_cond, unlock, return.
RTL_timer_signal(thread) ==
    /\ thread \in handling /\ ~TimerMutexHeld
    /\ timer' = Woken
    /\ handling' = handling \ {thread}
    /\ UNCHANGED <<system, main, stop, dsp, flags, blocked, armed, pending, PipeBuffer,
                   child, backlog>>
-------------------------------------------------------------------------------
\* timer_threads_fn.

TimerStep(from, to) ==
    /\ timer = from /\ "timer" \notin handling
    /\ timer' = to

\* Mutant of TimerTop: the exit flag is not looked at.
TopForEver ==
    /\ TimerStep("top", "testing")
    /\ UNCHANGED <<system, main, stop, dsp, flags, signals, PipeBuffer, child, backlog>>

TimerTop ==
    /\ TimerStep("top", IF exit THEN "ended" ELSE "testing")
    /\ UNCHANGED <<system, main, stop, dsp, flags, signals, PipeBuffer, child, backlog>>

\* Around the wait, which has no condition of its own.
TimerWait ==
    /\ \/ TimerStep("testing", "locked")
       \/ TimerStep("locked", "waiting")
       \/ TimerStep("woken", "relocked")
       \/ TimerStep("relocked", "reading")
    /\ UNCHANGED <<system, main, stop, dsp, flags, signals, PipeBuffer, child, backlog>>

\* ReadFromPipe brings samples: decimate and hand them to the DSP thread, which
\* DSPDemod signals even when a read of one sample has left it none.  DSPDemod does
\* not look whether the ring is full.
TimerRead ==
    /\ child
    /\ TimerStep("reading", "top")
    /\ \E n \in 0 .. MaxBacklog : backlog' = (backlog + n) % (MaxBacklog + 1)
    /\ dsp' = IF dsp = "waiting" THEN "taking" ELSE dsp
    /\ UNCHANGED <<system, main, stop, flags, signals, PipeBuffer, child>>

\* ReadFromPipe fails or finds the end of the pipe.
TimerReadNothing ==
    /\ ~child
    /\ TimerStep("reading", "top")
    /\ UNCHANGED <<system, main, stop, dsp, flags, signals, PipeBuffer, child, backlog>>

timer_threads_fn == TimerTop \/ TimerWait \/ TimerRead \/ TimerReadNothing

\* The SDR program ends by itself.
ChildExits ==
    /\ child /\ child' = FALSE
    /\ UNCHANGED <<system, main, stop, timer, dsp, flags, signals, PipeBuffer, backlog>>
-------------------------------------------------------------------------------
\* dsp_threads_fn.

DspStep(from, to) ==
    /\ dsp = from /\ "dsp" \notin handling
    /\ dsp' = to
    /\ UNCHANGED <<system, main, stop, timer, flags, signals, PipeBuffer, child>>

\* Mutant of Taken: the read pointer leaves the ring.
TakenUnwrapped(b) == b - 1

\* One sample less, also in an empty ring: the pointers show a whole lap then.
Taken(b) == (b - 1) % (MaxBacklog + 1)

dsp_threads_fn ==
    \/ DspStep("top", IF dspexit THEN "ended" ELSE "testing") /\ UNCHANGED backlog
    \/ DspStep("testing", IF backlog = 0 THEN "waiting" ELSE "taking") /\ UNCHANGED backlog
    \/ DspStep("taking", "top") /\ backlog' = Taken(backlog)
-------------------------------------------------------------------------------
\* pthread_cond_wait may return without a signal: in the timer thread and in the DSP
\* thread, which go on all the same, and in the worker, which tests its flag again.
SpuriousWake ==
    /\ \/ TimerStep("waiting", "woken") /\ UNCHANGED <<main, dsp>>
       \/ At("waiting") /\ main' = "looping" /\ UNCHANGED <<timer, dsp>>
       \/ dsp = "waiting" /\ "dsp" \notin handling /\ dsp' = "taking" /\ UNCHANGED <<main, timer>>
    /\ UNCHANGED <<system, stop, flags, signals, PipeBuffer, child, backlog>>

Next ==
    \/ Worker \/ InitFails \/ RunFails
    \/ StopFlag \/ StopRTL
    \/ Tick
    \/ \E thread \in Threads : Deliver(thread) \/ RTL_timer_signal(thread)
    \/ timer_threads_fn \/ ChildExits
    \/ dsp_threads_fn \/ SpuriousWake

Spec == Init /\ [][Next]_vars

\* Threads are scheduled, between the signals that interrupt them again and again
\* (hence strong fairness); the timer expires while it runs, its signal reaches
\* some thread, and a live child keeps writing samples.  Nothing obliges anybody
\* to call stopRTL, the child to end, a system call to fail, or a wait to return
\* without a signal.
FairSpec ==
    /\ Spec
    /\ SF_vars(Worker) /\ SF_vars(StopRTL)
    /\ SF_vars(timer_threads_fn) /\ SF_vars(dsp_threads_fn)
    /\ WF_vars(Tick)
    /\ WF_vars(\E thread \in Threads : Deliver(thread))
    /\ \A thread \in Threads : SF_vars(RTL_timer_signal(thread))
-------------------------------------------------------------------------------
\* Every variable keeps its type.
TypeOK ==
    /\ system \in {"linux", "windows"}
    /\ main \in {"new", "uninited", "inited", "failed", "allocated", "masked", "created",
                 "armed", "looping", "waiting", "ticking", "ticked", "stopping", "joining", "done"}
    /\ stop \in {"idle", "flagged", "joining", "closing", "closed", "done"}
    /\ timer \in {"none", "top", "testing", "locked", "waiting", "woken", "relocked",
                  "reading", "ended"}
    /\ dsp \in {"none", "top", "testing", "waiting", "taking", "ended"}
    /\ exit \in BOOLEAN /\ dspexit \in BOOLEAN
    /\ blocked \subseteq Threads /\ handling \subseteq Threads
    /\ armed \in BOOLEAN /\ pending \in BOOLEAN /\ child \in BOOLEAN
    /\ PipeBuffer \in {"none", "allocated", "freed"}
    /\ backlog \in 0 .. MaxBacklog

\* timer_threads_fn reads into PipeBuffer: RunRTL frees it (rtl.c:279) only when
\* that thread has ended, however the stop interleaves with ticks and reads.
NoUseAfterFree ==
    timer \notin {"none", "ended"} => PipeBuffer = "allocated"

\* RTL_timer_signal locks timer_mutex inside a signal handler.  That cannot
\* deadlock: the handler never runs on top of the thread that holds the mutex,
\* because that thread has inherited the mask RunRTL sets before creating it.
HandlerNeverOnHolder == TimerMutexHeld => "timer" \notin handling

\* StopRTL sets the flag without the mutex its reader tests it under, but signals
\* with the mutex afterwards: the worker never sleeps through a finished stop.
NoLostStop == stop = "done" => main # "waiting"

\* Ticks that find the timer thread busy are lost, yet while the timer runs and
\* nobody stops it, a waiting timer thread always gets to read the pipe again.
Ticking == armed \/ main \in {"ticking", "ticked"}
TickServed == timer = "waiting" /\ Ticking ~> timer = "reading" \/ exit

\* RunRTL stops the timer before it joins the timer thread (rtl.c:271, 277).  A
\* thread that then still has to wait for a tick may wait for ever; but one that
\* has had its tick, or is reading the pipe, is always joined and RunRTL returns,
\* whether or not the child is still there to be read from.
RunReturns ==
    main = "joining" /\ timer \in {"woken", "relocked", "reading", "top"} ~> main = "done"

\* What FSKdsp.c:47 says of the exit flag that DSPStop sets (it "signals an exit")
\* and rtl.c:331 of StopRTL (it signals the rtl process to stop): called while
\* the receiver runs and its child lives, it ends the DSP thread and returns.
StopReturns ==
    stop = "flagged" /\ main = "waiting" /\ child ~> stop = "done" \/ ~child

-------------------------------------------------------------------------------
\* The inductive strengthening of the safety properties.

\* From the allocation to the join the worker has the buffer.
Allocated ==
    /\ main \in {"allocated", "masked", "created", "armed", "looping", "waiting",
                 "ticking", "ticked", "stopping", "joining"}
         => PipeBuffer = "allocated"
    /\ main \in {"new", "inited", "allocated", "masked"} => timer = "none"
    /\ NoUseAfterFree

\* The timer thread is born with the signal blocked and keeps it so; on Windows
\* there is no signal.
Masked ==
    /\ main = "masked" => "main" \in blocked
    /\ system = "linux" /\ timer # "none" => "timer" \in blocked
    /\ "timer" \notin handling
    /\ system = "windows" =>
        /\ ~armed /\ ~pending
        /\ main \notin {"masked", "created", "armed"}

\* A stop comes after the start, and what it did is there to be seen.
Flagged ==
    /\ main \in {"new", "uninited"} => stop = "idle"
    /\ stop # "idle" => exit
    /\ NoLostStop

\* What the theorems of Lifecycle_proof rest on: buffer, signal masks and exit
\* flag agree with the places of the threads in every state.
IInv == TypeOK /\ Allocated /\ Masked /\ Flagged
================================================================================
