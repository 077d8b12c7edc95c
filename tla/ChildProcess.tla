----------------------------- MODULE ChildProcess -----------------------------
(***************************************************************************)
(* The SDR program as a child process, Common/linux_spawn.c: the pipes and *)
(* the fork of initChildProcess, the thread that copies the child's        *)
(* stderr, ReadFromPipe as the timer thread of Source/rtl.c calls it, the  *)
(* SIGCHLD handler, and CloseChildProcess as StopRTL calls it, when the    *)
(* DSPStop before it returns.                                              *)
(*                                                                         *)
(* What matters is which end of which pipe a descriptor number stands for, *)
(* in the parent and in the child: numbers are given out lowest first, to  *)
(* any thread of the process, and a number that was closed may stand for   *)
(* something else when it is used again.                                   *)
(***************************************************************************)
EXTENDS Integers, FiniteSets

CONSTANTS
    MaxFd,      \* bound: the highest descriptor number
    MaxOthers,  \* bound: descriptors of other threads at a time
    PipeSize    \* bound: writes a pipe holds

ASSUME BoundsAssumption ==
    /\ MaxFd \in Nat /\ MaxFd >= 2
    /\ MaxOthers \in Nat /\ PipeSize \in Nat \ {0}

VARIABLES
    fds,                \* the parent's descriptors: what each number stands for
    pipes,              \* the numbers of the six pipe ends, as the code keeps them
    init, stop,         \* initChildProcess; StopRTL and CloseChildProcess
    timer, exit,        \* timer_threads_fn and its exit flag
    capture, captexit,  \* capture_fn and its exit flag
    child, childfds,    \* the child and its descriptors
    stubborn,           \* the child ignores SIGTERM
    out, err,           \* writes not read yet in the pipes of stdout and stderr
    stray, alien,       \* history: reads and closes of what belongs to others
    idle                \* history: capture_fn once read nothing

parentfds == <<fds, pipes, alien>>
threads == <<timer, exit, capture, captexit, stray, idle>>
kid == <<child, childfds, stubborn>>
vars == <<fds, pipes, init, stop, timer, exit, capture, captexit, child, childfds,
          stubborn, out, err, stray, alien, idle>>

Fd == 0 .. MaxFd

\* Read and write end of the pipe the child's samples come through, of the one
\* to its stdin, and of the one from its stderr.
PARENT_READ_FD == "PARENT_READ"
CHILD_WRITE_FD == "CHILD_WRITE"
CHILD_READ_FD == "CHILD_READ"
PARENT_WRITE_FD == "PARENT_WRITE"
PARENT_STDERR_RD == "STDERR_RD"
CHILD_STDERR_WR == "STDERR_WR"
Ends == {PARENT_READ_FD, CHILD_WRITE_FD, CHILD_READ_FD, PARENT_WRITE_FD,
         PARENT_STDERR_RD, CHILD_STDERR_WR}
Files == Ends \cup {"std", "other", "free"}

\* pipes and stderr_capture are static: all numbers are 0 until a pipe is made.
Init ==
    /\ fds = [f \in Fd |-> IF f <= 2 THEN "std" ELSE "free"]
    /\ pipes = [e \in Ends |-> 0]
    /\ init = "new" /\ stop = "idle"
    /\ timer = "off" /\ exit = FALSE /\ capture = "off" /\ captexit = FALSE
    /\ child = "none" /\ childfds = [f \in Fd |-> "free"] /\ stubborn \in BOOLEAN
    /\ out = 0 /\ err = 0
    /\ stray = 0 /\ alien = 0 /\ idle = FALSE
-------------------------------------------------------------------------------
\* System calls on a table of descriptors.

Lowest(t, f) == t[f] = "free" /\ \A g \in Fd : t[g] = "free" => f <= g

\* pipe(): the two lowest free numbers.
Pipe(rd, wr) ==
    \E r \in Fd, w \in Fd :
        /\ Lowest(fds, r) /\ Lowest([fds EXCEPT ![r] = rd], w)
        /\ fds' = [fds EXCEPT ![r] = rd, ![w] = wr]
        /\ pipes' = [pipes EXCEPT ![rd] = r, ![wr] = w]

\* History counts as far as two.
Once(n) == IF n < 2 THEN n + 1 ELSE n

\* close() by the code under test: it may hit what belongs to somebody else.
Close(f) ==
    /\ fds' = [fds EXCEPT ![f] = "free"]
    /\ alien' = IF fds[f] \in {"std", "other"} THEN Once(alien) ELSE alien

Dup2(t, from, to) == IF t[from] = "free" THEN t ELSE [t EXCEPT ![to] = t[from]]
Closed(t, f) == [t EXCEPT ![f] = "free"]

\* Somebody, parent or child, has this end open.
Held(end) == \E f \in Fd : fds[f] = end \/ childfds[f] = end
-------------------------------------------------------------------------------
\* initChildProcess.

InitStep(from, to) ==
    /\ init = from
    /\ init' = to
    /\ UNCHANGED <<stop, timer, exit, captexit, stubborn, out, err, stray, idle>>

\* A failed sigaction ends it.  When the first pipe cannot be made the second is
\* not tried, and no error returned: the four numbers stay 0.
MakeReadPipe ==
    \/ /\ InitStep("new", "second")
       /\ Pipe(PARENT_READ_FD, CHILD_WRITE_FD)
       /\ UNCHANGED <<capture, child, childfds, alien>>
    \/ /\ InitStep("new", "failed") \/ InitStep("new", "third")
       /\ UNCHANGED <<fds, pipes, capture, child, childfds, alien>>

MakeWritePipe ==
    \/ /\ InitStep("second", "third")
       /\ Pipe(CHILD_READ_FD, PARENT_WRITE_FD)
       /\ UNCHANGED <<capture, child, childfds, alien>>
    \/ /\ InitStep("second", "failed")
       /\ UNCHANGED <<fds, pipes, capture, child, childfds, alien>>

MakeStderrPipe ==
    \/ /\ InitStep("third", "fork")
       /\ Pipe(PARENT_STDERR_RD, CHILD_STDERR_WR)
       /\ UNCHANGED <<capture, child, childfds, alien>>
    \/ /\ InitStep("third", "failed")
       /\ UNCHANGED <<fds, pipes, capture, child, childfds, alien>>

Fork ==
    \/ /\ InitStep("fork", "forked")
       /\ child' = "forked" /\ childfds' = fds
       /\ UNCHANGED <<parentfds, capture>>
    \/ /\ InitStep("fork", "failed")
       /\ UNCHANGED <<parentfds, capture, child, childfds>>

StartCapture ==
    /\ InitStep("forked", "capturing")
    /\ capture' = "top"
    /\ UNCHANGED <<parentfds, child, childfds>>

\* Mutant of CloseChildEnds: the parent closes its copy of the stderr pipe's
\* write end as well.
CloseAllChildEnds ==
    \/ /\ InitStep("capturing", "stderr") /\ Close(pipes[CHILD_READ_FD])
       /\ UNCHANGED <<pipes, capture, child, childfds>>
    \/ /\ InitStep("stderr", "closing") /\ Close(pipes[CHILD_STDERR_WR])
       /\ UNCHANGED <<pipes, capture, child, childfds>>
    \/ /\ InitStep("closing", "started") /\ Close(pipes[CHILD_WRITE_FD])
       /\ UNCHANGED <<pipes, capture, child, childfds>>

\* Mutant of CloseChildEnds: the write end stays open in the parent.
KeepWriteEnd ==
    /\ InitStep("capturing", "started") /\ Close(pipes[CHILD_READ_FD])
    /\ UNCHANGED <<pipes, capture, child, childfds>>

CloseChildEnds ==
    \/ /\ InitStep("capturing", "closing") /\ Close(pipes[CHILD_READ_FD])
       /\ UNCHANGED <<pipes, capture, child, childfds>>
    \/ /\ InitStep("closing", "started") /\ Close(pipes[CHILD_WRITE_FD])
       /\ UNCHANGED <<pipes, capture, child, childfds>>

initChildProcess ==
    \/ MakeReadPipe \/ MakeWritePipe \/ MakeStderrPipe
    \/ Fork \/ StartCapture \/ CloseChildEnds
-------------------------------------------------------------------------------
\* The child.

ChildDies ==
    /\ child' = "zombie"
    /\ childfds' = [f \in Fd |-> "free"]

ChildAlive == child \in {"forked", "redirected", "running"}

\* dup2 for stderr, stdin and stdout, the parent's ends closed.  A failed dup2 of
\* stdin or stderr ends the child; that of stdout is compared with 0, which it
\* never is.
RedirectTo(t) ==
    Closed(Closed(Dup2(Dup2(Dup2(t, pipes[CHILD_STDERR_WR], 2),
                            pipes[CHILD_READ_FD], 0),
                       pipes[CHILD_WRITE_FD], 1),
                  pipes[PARENT_READ_FD]), pipes[PARENT_WRITE_FD])
Redirect ==
    /\ child = "forked"
    /\ IF childfds[pipes[CHILD_STDERR_WR]] = "free" \/ childfds[pipes[CHILD_READ_FD]] = "free"
       THEN ChildDies
       ELSE child' = "redirected" /\ childfds' = RedirectTo(childfds)
    /\ UNCHANGED <<parentfds, init, stop, threads, stubborn, out, err>>

\* execv, or exit(0) when it fails.
Exec ==
    /\ child = "redirected"
    /\ (child' = "running" /\ UNCHANGED childfds) \/ ChildDies
    /\ UNCHANGED <<parentfds, init, stop, threads, stubborn, out, err>>

\* A write to a pipe: with room in it, or the end of the child when nobody can
\* read any more.  A timer thread in read() has the pipe open until it returns.
WriteOut ==
    /\ child = "running" /\ childfds[1] = CHILD_WRITE_FD
    /\ \/ /\ Held(PARENT_READ_FD) \/ timer = "reading"
          /\ out < PipeSize /\ out' = out + 1
          /\ UNCHANGED <<child, childfds>>
       \/ /\ ~Held(PARENT_READ_FD) /\ timer # "reading"
          /\ ChildDies /\ UNCHANGED out
    /\ UNCHANGED <<parentfds, init, stop, threads, stubborn, err>>

WriteErr ==
    /\ child = "running" /\ childfds[2] = CHILD_STDERR_WR
    /\ err < PipeSize /\ err' = err + 1
    /\ UNCHANGED <<parentfds, init, stop, threads, kid, out>>

ChildExits ==
    /\ ChildAlive /\ ChildDies
    /\ UNCHANGED <<parentfds, init, stop, threads, stubborn, out, err>>

\* handle_sigchild, on whichever thread: waitpid takes what is left of the child.
handle_sigchild ==
    /\ child = "zombie"
    /\ child' = "reaped"
    /\ UNCHANGED <<parentfds, init, stop, threads, childfds, stubborn, out, err>>
-------------------------------------------------------------------------------
\* capture_fn: the flag is looked at between two reads only.

capture_fn ==
    /\ \/ /\ capture = "top"
          /\ capture' = IF captexit THEN "ended" ELSE "reading"
          /\ UNCHANGED <<err, idle>>
       \/ /\ capture = "reading" /\ err > 0
          /\ capture' = "top" /\ err' = 0
          /\ UNCHANGED idle
       \/ /\ capture = "reading" /\ err = 0 /\ ~Held(CHILD_STDERR_WR)
          /\ capture' = "top" /\ idle' = TRUE
          /\ UNCHANGED err
    /\ UNCHANGED <<parentfds, init, stop, timer, exit, captexit, kid, out, stray>>

\* timer_threads_fn, as far as the pipe goes: the flag is tested, then a tick
\* waited for, then ReadFromPipe called.  RunRTL starts it once init is done.
StartTimer ==
    /\ timer = "off" /\ init = "started"
    /\ timer' = "top"
    /\ UNCHANGED <<parentfds, init, stop, exit, capture, captexit, kid, out, err, stray, idle>>

TimerStep(from, to) ==
    /\ timer = from
    /\ timer' = to
    /\ UNCHANGED <<parentfds, init, stop, exit, capture, captexit, kid, err, idle>>

TimerTop == TimerStep("top", IF exit THEN "ended" ELSE "waiting") /\ UNCHANGED <<out, stray>>

\* ReadFromPipe at the call: what the number stands for by now is read, or an error
\* returned at once when it stands for nothing.
ReadCall ==
    \/ /\ fds[pipes[PARENT_READ_FD]] = PARENT_READ_FD
       /\ TimerStep("waiting", "reading")
       /\ UNCHANGED <<out, stray>>
    \/ /\ fds[pipes[PARENT_READ_FD]] = "free"
       /\ TimerStep("waiting", "top")
       /\ UNCHANGED <<out, stray>>
    \/ /\ fds[pipes[PARENT_READ_FD]] \notin {PARENT_READ_FD, "free"}
       /\ TimerStep("waiting", "elsewhere")
       /\ stray' = Once(stray)
       /\ UNCHANGED out

\* A read of what belongs to somebody else may come back; it may block as well.
ReadElsewhere == TimerStep("elsewhere", "top") /\ UNCHANGED <<out, stray>>

\* It returns with samples, or with 0 when no write end is left.
ReadReturn ==
    /\ out > 0 \/ ~Held(CHILD_WRITE_FD)
    /\ TimerStep("reading", "top")
    /\ out' = 0
    /\ UNCHANGED stray
ReadFromPipe == ReadCall \/ ReadReturn
-------------------------------------------------------------------------------
\* StopRTL, once init has succeeded: the timer's flag comes first, then DSPStop,
\* then CloseChildProcess.

StopStep(from, to) ==
    /\ stop = from
    /\ stop' = to
    /\ UNCHANGED <<pipes, init, timer, capture, stubborn, out, err, stray, idle>>

\* Mutant of StopFlag: the timer thread is not told.
StopUntold ==
    /\ init = "started"
    /\ StopStep("idle", "flagged")
    /\ UNCHANGED <<fds, alien, exit, captexit, child, childfds>>

StopFlag ==
    /\ init = "started"
    /\ StopStep("idle", "flagged")
    /\ exit' = TRUE
    /\ UNCHANGED <<fds, alien, captexit, child, childfds>>

\* DSPStop returns when the DSP thread has ended, which Lifecycle shows it may never
\* do; nothing here depends on what else it does.
DSPStop ==
    /\ StopStep("flagged", "joined")
    /\ UNCHANGED <<fds, alien, exit, captexit, child, childfds>>

Shut ==
    \/ /\ StopStep("joined", "captured")
       /\ captexit' = TRUE
       /\ UNCHANGED <<fds, alien, exit, child, childfds>>
    \/ /\ StopStep("captured", "halfclosed")
       /\ Close(pipes[CHILD_WRITE_FD])
       /\ UNCHANGED <<exit, captexit, child, childfds>>
    \/ /\ StopStep("halfclosed", "closed")
       /\ Close(pipes[PARENT_READ_FD])
       /\ UNCHANGED <<exit, captexit, child, childfds>>

\* kill(child_proc, ...): a child that is dead, or has been reaped, is not hit.
Terminate ==
    /\ StopStep("closed", "sleeping")
    /\ IF ChildAlive /\ ~stubborn THEN ChildDies ELSE UNCHANGED <<child, childfds>>
    /\ UNCHANGED <<fds, alien, exit, captexit>>

\* Mutant of Kill: SIGTERM was enough.
NoKill ==
    /\ StopStep("sleeping", "done")
    /\ UNCHANGED <<fds, alien, exit, captexit, child, childfds>>

Kill ==
    /\ StopStep("sleeping", "done")
    /\ IF ChildAlive THEN ChildDies ELSE UNCHANGED <<child, childfds>>
    /\ UNCHANGED <<fds, alien, exit, captexit>>

CloseChildProcess == Shut \/ Terminate \/ Kill
-------------------------------------------------------------------------------
\* The other threads of the process open and close descriptors of their own.
OtherOpens ==
    /\ Cardinality({f \in Fd : fds[f] = "other"}) < MaxOthers
    /\ \E f \in Fd : Lowest(fds, f) /\ fds' = [fds EXCEPT ![f] = "other"]
    /\ UNCHANGED <<pipes, alien, init, stop, threads, kid, out, err>>

OtherCloses ==
    /\ \E f \in Fd : fds[f] = "other" /\ fds' = Closed(fds, f)
    /\ UNCHANGED <<pipes, alien, init, stop, threads, kid, out, err>>

Threads == StartTimer \/ TimerTop \/ ReadFromPipe
Next ==
    \/ initChildProcess
    \/ Redirect \/ Exec \/ WriteOut \/ WriteErr \/ ChildExits \/ handle_sigchild
    \/ capture_fn \/ Threads \/ ReadElsewhere
    \/ StopFlag \/ DSPStop \/ CloseChildProcess
    \/ OtherOpens \/ OtherCloses

Spec == Init /\ [][Next]_vars

\* Threads are scheduled and signals delivered.  Nobody must call stopRTL, and then
\* DSPStop need not return; nor must a read of somebody else's descriptor, and the
\* child need not do anything.
FairSpec ==
    /\ Spec
    /\ WF_vars(initChildProcess) /\ WF_vars(CloseChildProcess)
    /\ WF_vars(handle_sigchild) /\ WF_vars(capture_fn) /\ WF_vars(Threads)
-------------------------------------------------------------------------------
\* Every variable keeps its type.
TypeOK ==
    /\ fds \in [Fd -> Files] /\ childfds \in [Fd -> Files]
    /\ pipes \in [Ends -> Fd]
    /\ init \in {"new", "second", "third", "fork", "forked", "capturing", "closing",
                 "started", "failed"}
    /\ stop \in {"idle", "flagged", "joined", "captured", "halfclosed", "closed",
                 "sleeping", "done"}
    /\ timer \in {"off", "top", "waiting", "reading", "elsewhere", "ended"} /\ exit \in BOOLEAN
    /\ capture \in {"off", "top", "reading", "ended"} /\ captexit \in BOOLEAN
    /\ child \in {"none", "forked", "redirected", "running", "zombie", "reaped"}
    /\ stubborn \in BOOLEAN
    /\ out \in 0 .. PipeSize /\ err \in 0 .. PipeSize
    /\ stray \in 0 .. 2 /\ alien \in 0 .. 2 /\ idle \in BOOLEAN

\* With its pipes made, the receiver reads and closes nothing of the other
\* threads' until the stop closes descriptors (linux_spawn.c:178, 179), and
\* then at most once each: CHILD_WRITE_FD was closed before and its number may
\* have been given out; the timer thread, already told to end, may be just about
\* to read the number of the pipe.
OnlyAtStop ==
    pipes[PARENT_READ_FD] # 0 =>
        /\ stop \in {"idle", "flagged", "joined", "captured"} => alien = 0
        /\ stop \in {"idle", "flagged", "joined", "captured", "halfclosed"} => stray = 0
        /\ alien <= 1 /\ stray <= 1

\* capture_fn has no delay and does not look at the result 0: a stderr pipe
\* without a writer would make it spin.  The parent's own write end, which is
\* never closed, lets it sleep when the child is gone.
CaptureSleeps == ~idle

\* A timer thread that waits in ReadFromPipe for a child that has ended gets the
\* end of the pipe: only the child has the write end.
EndOfSamples == timer = "reading" /\ child \in {"zombie", "reaped"} ~> timer # "reading"

\* A stop that gets past DSPStop (rtl.c:337) leaves no child behind, neither running
\* nor as a zombie, whatever the child makes of SIGTERM and whichever pipes it has.
StopEndsChild == stop = "joined" ~> child = "reaped"
-------------------------------------------------------------------------------
\* The inductive strengthening of OnlyAtStop and CaptureSleeps.

ReadPipeMade == pipes[PARENT_READ_FD] # 0

\* The parent has not closed its copy of this end.
StillOpen(end) ==
    /\ end = CHILD_READ_FD => init \notin {"closing", "started"}
    /\ end = CHILD_WRITE_FD => init # "started"
    /\ end = PARENT_READ_FD => stop \notin {"closed", "sleeping", "done"}

\* The numbers kept of the pipes made are all different and none of the standard
\* ones, and until an end is closed its number stands for it.
Numbers ==
    \A e \in Ends : pipes[e] # 0 =>
        /\ pipes[e] > 2
        /\ StillOpen(e) => fds[pipes[e]] = e
        /\ \A d \in Ends \ {e} : pipes[d] # pipes[e]

\* Which pipes are made when.
Made ==
    /\ init = "new" => ~ReadPipeMade
    /\ init = "second" => ReadPipeMade
    /\ init \in {"new", "second"} => pipes[CHILD_READ_FD] = 0 /\ pipes[PARENT_WRITE_FD] = 0
    /\ init \in {"new", "second", "third"} =>
           pipes[PARENT_STDERR_RD] = 0 /\ pipes[CHILD_STDERR_WR] = 0
    /\ init \in {"fork", "forked", "capturing", "closing", "started"} =>
           pipes[CHILD_STDERR_WR] # 0
    /\ ReadPipeMade <=> pipes[CHILD_WRITE_FD] # 0
    /\ init \in {"third", "fork", "forked", "capturing"} =>
           (ReadPipeMade <=> pipes[CHILD_READ_FD] # 0)

\* Nothing is closed before the child runs, and so 0, 1 and 2 are not given out.
StdOpen == init \notin {"closing", "started"} => \A f \in 0 .. 2 : fds[f] = "std"

\* Who can be where.
Order ==
    /\ stop # "idle" => init = "started" /\ exit
    /\ timer # "off" => init = "started"
    /\ capture # "off" => init \in {"capturing", "closing", "started"}

\* What has been hit so far.  The one stray read was the timer thread's last.
Counted ==
    /\ init \notin {"closing", "started"} => alien = 0
    /\ timer = "off" => stray = 0
    /\ ReadPipeMade =>
        /\ stop \in {"idle", "flagged", "joined", "captured"} => alien = 0
        /\ alien <= 1
        /\ stop \in {"idle", "flagged", "joined", "captured", "halfclosed"} => stray = 0
        /\ stray = 0 \/ (stray = 1 /\ timer \in {"elsewhere", "top", "ended"})

\* What the theorems of ChildProcess_proof rest on: numbers and descriptors agree
\* from the pipe's creation to its close.
IInv == TypeOK /\ Numbers /\ Made /\ StdOpen /\ Order /\ Counted /\ CaptureSleeps
===============================================================================
