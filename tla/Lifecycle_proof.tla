---------------------------- MODULE Lifecycle_proof ----------------------------
(***************************************************************************)
(* Theorems about starting and stopping the receiver, for any number of    *)
(* samples the DSP thread can be behind.                                   *)
(***************************************************************************)
EXTENDS Lifecycle, TLAPS

USE MaxBacklogAssumption

\* Nothing is started yet.
LEMMA InitIInv == Init => IInv
<1> SUFFICES ASSUME Init PROVE IInv
  OBVIOUS
<1>1. /\ exit \in BOOLEAN /\ dspexit \in BOOLEAN
      /\ armed \in BOOLEAN /\ pending \in BOOLEAN /\ child \in BOOLEAN
  BY Zenon DEF Init
<1> QED
  BY <1>1 DEF Init, IInv, TypeOK, Allocated, NoUseAfterFree, Masked, Flagged,
              NoLostStop

\* The worker's steps.
LEMMA WorkerIInv ==
    IInv /\ (Worker \/ InitFails \/ RunFails) => IInv'
<1> SUFFICES ASSUME IInv, Worker \/ InitFails \/ RunFails PROVE IInv'
  OBVIOUS
<1> USE DEF IInv, TypeOK, Allocated, NoUseAfterFree, Masked, Flagged, NoLostStop,
            flags, signals, At, Threads
<1>1. CASE InitRTL
  BY <1>1 DEF InitRTL
<1>2. CASE RunFails
  BY <1>2 DEF RunFails
<1>3. CASE RunAlloc
  BY <1>3 DEF RunAlloc
<1>4. CASE RunMask
  BY <1>4 DEF RunMask
<1>5. CASE RunCreate
  BY <1>5 DEF RunCreate
<1>6. CASE RunArm
  BY <1>6 DEF RunArm
<1>7. CASE RunUnblock
  BY <1>7 DEF RunUnblock
<1>8. CASE RunTestExit
  BY <1>8 DEF RunTestExit
<1>9. CASE RunDisarm
  <2>1. armed' \in BOOLEAN
    BY <1>9, Zenon DEF RunDisarm
  <2> QED
    BY <1>9, <2>1 DEF RunDisarm
<1>10. CASE RunJoin
  BY <1>10 DEF RunJoin
<1>11. CASE InitFails
  BY <1>11 DEF InitFails
<1>12. CASE WinTimerFails
  BY <1>12 DEF WinTimerFails
<1>13. CASE WinCreate
  BY <1>13 DEF WinCreate
<1>14. CASE WinTick
  BY <1>14 DEF WinTick, Woken
<1>15. CASE WinTestExit
  BY <1>15 DEF WinTestExit
<1> QED
  BY <1>1, <1>2, <1>3, <1>4, <1>5, <1>6, <1>7, <1>8, <1>9, <1>10,
     <1>11, <1>12, <1>13, <1>14, <1>15 DEF Worker, RunRTL, WinRunRTL

\* The steps of StopRTL.
LEMMA StopIInv == IInv /\ (StopFlag \/ StopRTL) => IInv'
<1> SUFFICES ASSUME IInv, StopFlag \/ StopRTL PROVE IInv'
  OBVIOUS
<1> USE DEF IInv, TypeOK, Allocated, NoUseAfterFree, Masked, Flagged, NoLostStop,
            flags, signals, StopAt
<1>1. CASE StopFlag
  BY <1>1 DEF StopFlag
<1>2. CASE DSPStop
  BY <1>2 DEF DSPStop
<1>3. CASE DSPJoin
  BY <1>3 DEF DSPJoin
<1>4. CASE CloseChildProcess
  <2>1. child' \in BOOLEAN
    BY <1>4, Zenon DEF CloseChildProcess
  <2> QED
    BY <1>4, <2>1 DEF CloseChildProcess
<1>5. CASE StopSignal
  BY <1>5 DEF StopSignal
<1> QED
  BY <1>1, <1>2, <1>3, <1>4, <1>5 DEF StopRTL

\* The timer signal: it is never delivered to the timer thread.
LEMMA SignalIInv ==
    ASSUME IInv, NEW thread \in Threads,
           Tick \/ Deliver(thread) \/ RTL_timer_signal(thread)
    PROVE  IInv'
<1> USE DEF IInv, TypeOK, Allocated, NoUseAfterFree, Masked, Flagged, NoLostStop,
            flags, Threads
<1>1. CASE Tick
  BY <1>1 DEF Tick
<1>2. CASE Deliver(thread)
  <2>1. thread # "timer"
    BY <1>2 DEF Deliver, Alive
  <2>2. pending' \in BOOLEAN
    BY <1>2, Zenon DEF Deliver
  <2> QED
    BY <1>2, <2>1, <2>2 DEF Deliver
<1>3. CASE RTL_timer_signal(thread)
  BY <1>3 DEF RTL_timer_signal, Woken
<1> QED
  BY <1>1, <1>2, <1>3

\* The distance between the pointers stays in the ring.
LEMMA InRing ==
    ASSUME NEW b \in Int PROVE b % (MaxBacklog + 1) \in 0 .. MaxBacklog
<1> DEFINE size == MaxBacklog + 1
<1>1. size \in Nat /\ size > 0
  OBVIOUS
<1>2. b % size \in 0 .. size - 1
  <2> HIDE DEF size
  <2> QED
    BY <1>1
<1> QED
  BY <1>2

\* The timer thread's steps, and the end of the child.
LEMMA TimerIInv == IInv /\ (timer_threads_fn \/ ChildExits) => IInv'
<1> SUFFICES ASSUME IInv, timer_threads_fn \/ ChildExits PROVE IInv'
  OBVIOUS
<1> USE DEF IInv, TypeOK, Allocated, NoUseAfterFree, Masked, Flagged, NoLostStop,
            flags, signals, TimerStep
<1>1. CASE TimerTop
  BY <1>1 DEF TimerTop
<1>2. CASE TimerWait
  BY <1>2 DEF TimerWait
<1>3. CASE TimerRead
  <2>1. PICK n \in 0 .. MaxBacklog : backlog' = (backlog + n) % (MaxBacklog + 1)
    BY <1>3 DEF TimerRead
  <2>2. backlog + n \in Int
    OBVIOUS
  <2>3. backlog' \in 0 .. MaxBacklog
    BY ONLY <2>1, <2>2, InRing
  <2> QED
    BY <1>3, <2>3 DEF TimerRead
<1>4. CASE TimerReadNothing
  BY <1>4 DEF TimerReadNothing
<1>5. CASE ChildExits
  <2>1. child' \in BOOLEAN
    BY <1>5, Zenon DEF ChildExits
  <2> QED
    BY <1>5, <2>1 DEF ChildExits
<1> QED
  BY <1>1, <1>2, <1>3, <1>4, <1>5 DEF timer_threads_fn

\* Waits that return without a signal: a worker that does has its flag to test.
LEMMA SpuriousIInv == IInv /\ SpuriousWake => IInv'
<1> SUFFICES ASSUME IInv, SpuriousWake PROVE IInv'
  OBVIOUS
<1> QED
  BY DEF SpuriousWake, TimerStep, At, flags, signals, IInv, TypeOK, Allocated, NoUseAfterFree,
         Masked, Flagged, NoLostStop

\* The DSP thread's steps.
LEMMA DspIInv == IInv /\ dsp_threads_fn => IInv'
<1> SUFFICES ASSUME IInv, dsp_threads_fn PROVE IInv'
  OBVIOUS
<1> USE DEF IInv, TypeOK, Allocated, NoUseAfterFree, Masked, Flagged, NoLostStop,
            flags, signals, DspStep
<1>1. CASE dsp = "top"
  BY <1>1 DEF dsp_threads_fn
<1>2. CASE dsp = "testing"
  BY <1>2 DEF dsp_threads_fn
<1>3. CASE dsp = "taking"
  <2>1. backlog' = (backlog - 1) % (MaxBacklog + 1)
    BY <1>3, SMTT(20) DEF dsp_threads_fn, Taken
  <2>2. backlog - 1 \in Int
    OBVIOUS
  <2>3. backlog' \in 0 .. MaxBacklog
    BY ONLY <2>1, <2>2, InRing
  <2> QED
    BY <1>3, <2>3 DEF dsp_threads_fn
<1> QED
  BY <1>1, <1>2, <1>3 DEF dsp_threads_fn

\* The inductive invariant holds of the specification.
THEOREM Invariance == Spec => []IInv
<1>1. Init => IInv
  BY InitIInv
<1>2. IInv /\ [Next]_vars => IInv'
  <2> SUFFICES ASSUME IInv, [Next]_vars PROVE IInv'
    OBVIOUS
  <2>1. CASE Worker \/ InitFails \/ RunFails
    BY <2>1, WorkerIInv
  <2>2. CASE StopFlag \/ StopRTL
    BY <2>2, StopIInv
  <2>3. CASE Tick
    BY <2>3, SignalIInv DEF Threads
  <2>4. ASSUME NEW thread \in Threads, Deliver(thread) \/ RTL_timer_signal(thread)
        PROVE  IInv'
    BY <2>4, SignalIInv
  <2>5. CASE timer_threads_fn \/ ChildExits
    BY <2>5, TimerIInv
  <2>6. CASE dsp_threads_fn
    BY <2>6, DspIInv
  <2>7. CASE SpuriousWake
    BY <2>7, SpuriousIInv
  <2>8. CASE UNCHANGED vars
    BY <2>8 DEF vars, IInv, TypeOK, Allocated, NoUseAfterFree, Masked, Flagged,
                NoLostStop
  <2> QED
    BY <2>1, <2>2, <2>3, <2>4, <2>5, <2>6, <2>7, <2>8 DEF Next
<1> QED
  BY <1>1, <1>2, PTL DEF Spec

\* Every variable keeps its type.
THEOREM TypeCorrect == Spec => []TypeOK
<1>1. IInv => TypeOK
  BY DEF IInv
<1> QED
  BY <1>1, Invariance, PTL

\* The pipe buffer is not freed while the timer thread can use it.
THEOREM BufferOutlivesThread == Spec => []NoUseAfterFree
<1>1. IInv => NoUseAfterFree
  BY DEF IInv, Allocated
<1> QED
  BY <1>1, Invariance, PTL

\* The signal handler never waits for a mutex its own thread holds.
THEOREM HandlerCannotDeadlock == Spec => []HandlerNeverOnHolder
<1>1. IInv => HandlerNeverOnHolder
  BY DEF IInv, Masked, HandlerNeverOnHolder
<1> QED
  BY <1>1, Invariance, PTL

\* The worker does not sleep through a stop that was carried out.
THEOREM StopReachesWorker == Spec => []NoLostStop
<1>1. IInv => NoLostStop
  BY DEF IInv, Flagged
<1> QED
  BY <1>1, Invariance, PTL
===============================================================================
