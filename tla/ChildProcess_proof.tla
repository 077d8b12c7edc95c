------------------------- MODULE ChildProcess_proof ---------------------------
(***************************************************************************)
(* Theorems about the child process and its pipes, for any number of       *)
(* descriptors of the process and of its other threads.  The argument is   *)
(* ownership: from the creation of a pipe to the close of an end, the      *)
(* number the code keeps of that end stands for it and for nothing else.   *)
(***************************************************************************)
EXTENDS ChildProcess, TLAPS

USE BoundsAssumption

\* What pipe() gives: two numbers that were free, different and not standard ones,
\* and so none that a pipe made earlier has.
LEMMA PipeNumbers ==
    ASSUME TypeOK, Numbers, StdOpen, init \in {"new", "second", "third"}, stop = "idle",
           NEW rd \in Ends, NEW wr \in Ends, rd # wr, pipes[rd] = 0, pipes[wr] = 0,
           Pipe(rd, wr)
    PROVE  /\ fds' \in [Fd -> Files] /\ pipes' \in [Ends -> Fd]
           /\ pipes'[rd] # 0 /\ pipes'[wr] # 0
           /\ \A e \in Ends \ {rd, wr} : pipes'[e] = pipes[e]
           /\ \A f \in 0 .. 2 : fds'[f] = "std"
           /\ \A e \in Ends : pipes'[e] # 0 =>
                 /\ pipes'[e] > 2
                 /\ fds'[pipes'[e]] = e
                 /\ \A d \in Ends \ {e} : pipes'[d] # pipes'[e]
<1> PICK r \in Fd, v \in Fd :
        /\ Lowest(fds, r) /\ Lowest([fds EXCEPT ![r] = rd], v)
        /\ fds' = [fds EXCEPT ![r] = rd, ![v] = wr]
        /\ pipes' = [pipes EXCEPT ![rd] = r, ![wr] = v]
  BY DEF Pipe
<1>1. fds \in [Fd -> Files] /\ pipes \in [Ends -> Fd]
  BY DEF TypeOK
<1>2. \A f \in 0 .. 2 : f \in Fd /\ fds[f] = "std"
  BY DEF StdOpen, Fd
<1>3. fds[r] = "free" /\ r > 2
  <2>1. fds[r] = "free"
    BY DEF Lowest
  <2> QED
    BY <1>2, <2>1 DEF Fd
<1>4. v # r /\ fds[v] = "free" /\ v > 2
  <2>1. [fds EXCEPT ![r] = rd][v] = "free"
    BY DEF Lowest
  <2>2. rd # "free"
    BY DEF Ends, PARENT_READ_FD, CHILD_WRITE_FD, CHILD_READ_FD, PARENT_WRITE_FD,
           PARENT_STDERR_RD, CHILD_STDERR_WR
  <2>3. v # r /\ fds[v] = "free"
    BY <1>1, <2>1, <2>2
  <2> QED
    BY <1>2, <2>3 DEF Fd
<1>5. ASSUME NEW e \in Ends, pipes[e] # 0
      PROVE  /\ pipes[e] > 2 /\ fds[pipes[e]] = e /\ pipes[e] # r /\ pipes[e] # v
             /\ \A d \in Ends \ {e} : pipes[d] # pipes[e]
  <2>1. StillOpen(e)
    BY DEF StillOpen
  <2>2. pipes[e] > 2 /\ fds[pipes[e]] = e /\ \A d \in Ends \ {e} : pipes[d] # pipes[e]
    BY <1>5, <2>1 DEF Numbers
  <2>3. e # "free"
    BY DEF Ends, PARENT_READ_FD, CHILD_WRITE_FD, CHILD_READ_FD, PARENT_WRITE_FD,
           PARENT_STDERR_RD, CHILD_STDERR_WR
  <2> QED
    BY <1>3, <1>4, <2>2, <2>3
<1>6. fds' \in [Fd -> Files] /\ pipes' \in [Ends -> Fd]
  BY <1>1 DEF Files
<1>7. pipes'[rd] = r /\ pipes'[wr] = v /\ \A e \in Ends \ {rd, wr} : pipes'[e] = pipes[e]
  BY <1>1
<1>8. fds'[r] = rd /\ fds'[v] = wr /\ \A f \in Fd \ {r, v} : fds'[f] = fds[f]
  BY <1>1, <1>4
<1>9. \A f \in 0 .. 2 : fds'[f] = "std"
  BY <1>2, <1>3, <1>4, <1>8
<1>10. ASSUME NEW e \in Ends, pipes'[e] # 0
       PROVE  /\ pipes'[e] > 2 /\ fds'[pipes'[e]] = e
              /\ \A d \in Ends \ {e} : pipes'[d] # pipes'[e]
  <2>1. CASE e = rd
    BY <1>1, <1>3, <1>4, <1>5, <1>7, <1>8, <2>1
  <2>2. CASE e = wr
    BY <1>1, <1>3, <1>4, <1>5, <1>7, <1>8, <2>2
  <2>3. CASE e # rd /\ e # wr
    <3>1. pipes'[e] = pipes[e] /\ pipes[e] # 0 /\ pipes[e] \in Fd
      BY <1>1, <1>7, <1>10, <2>3
    <3>2. pipes[e] > 2 /\ fds'[pipes[e]] = e
      BY <1>5, <1>8, <3>1
    <3>3. ASSUME NEW d \in Ends \ {e} PROVE pipes'[d] # pipes[e]
      <4>1. pipes[e] # r /\ pipes[e] # v /\ pipes[d] # pipes[e]
        BY <1>5, <3>1
      <4>2. pipes'[d] \in {r, v, pipes[d]}
        BY <1>7
      <4> QED
        BY <4>1, <4>2
    <3> QED
      BY <3>1, <3>2, <3>3
  <2> QED
    BY <2>1, <2>2, <2>3
<1>11. r # 0 /\ v # 0
  BY <1>3, <1>4 DEF Fd
<1> QED
  BY <1>6, <1>7, <1>9, <1>10, <1>11

\* The invariant's part about the parent's descriptors depends on nothing else.
LEMMA Untouched ==
    ASSUME IInv, UNCHANGED <<fds, pipes, init, stop, alien>>
    PROVE  Numbers' /\ Made' /\ StdOpen'
BY DEF IInv, Numbers, StillOpen, Made, ReadPipeMade, StdOpen

\* Nothing is closed yet, the three numbers 0, 1 and 2 stand for what they should.
LEMMA InitIInv == Init => IInv
<1> SUFFICES ASSUME Init PROVE IInv
  OBVIOUS
<1>1. /\ pipes = [e \in Ends |-> 0] /\ init = "new" /\ stop = "idle"
      /\ timer = "off" /\ capture = "off" /\ alien = 0 /\ stray = 0
  BY DEF Init
<1>2. TypeOK
  <2>1. exit \in BOOLEAN /\ captexit \in BOOLEAN /\ stubborn \in BOOLEAN /\ idle \in BOOLEAN
    BY Zenon DEF Init
  <2>2. fds \in [Fd -> Files] /\ childfds \in [Fd -> Files]
    BY DEF Init, Files
  <2>3. pipes \in [Ends -> Fd]
    BY <1>1 DEF Fd
  <2>4. child = "none" /\ out = 0 /\ err = 0
    BY DEF Init
  <2> QED
    BY <1>1, <2>1, <2>2, <2>3, <2>4 DEF TypeOK
<1>3. Numbers
  BY <1>1 DEF Numbers
<1>4. Made
  BY <1>1 DEF Made, ReadPipeMade, Ends
<1>5. StdOpen
  BY DEF StdOpen, Init, Fd
<1>6. Order /\ Counted
  BY <1>1 DEF Order, Counted
<1>7. CaptureSleeps
  BY Zenon DEF Init, CaptureSleeps
<1> QED
  BY <1>2, <1>3, <1>4, <1>5, <1>6, <1>7 DEF IInv

\* initChildProcess never runs together with a stop or the timer thread.
LEMMA Starting ==
    ASSUME IInv, init # "started" PROVE stop = "idle" /\ timer = "off" /\ stray = 0
BY DEF IInv, Order, Counted, TypeOK

\* A pipe is made, or cannot be made.
LEMMA MakeIInv == IInv /\ (MakeReadPipe \/ MakeWritePipe \/ MakeStderrPipe) => IInv'
<1> SUFFICES ASSUME IInv, MakeReadPipe \/ MakeWritePipe \/ MakeStderrPipe PROVE IInv'
  OBVIOUS
<1>1. /\ init \in {"new", "second", "third"}
      /\ init' \in {"second", "third", "fork", "failed"}
      /\ UNCHANGED <<stop, timer, exit, capture, captexit, child, childfds, stubborn,
                     out, err, stray, alien, idle>>
  BY DEF MakeReadPipe, MakeWritePipe, MakeStderrPipe, InitStep
<1>2. stop = "idle" /\ timer = "off" /\ capture = "off" /\ stray = 0 /\ alien = 0
  BY <1>1, Starting DEF IInv, Order, Counted, TypeOK
<1>3. /\ fds' \in [Fd -> Files] /\ pipes' \in [Ends -> Fd] /\ Made'
      /\ \A f \in 0 .. 2 : fds'[f] = "std"
      /\ \A e \in Ends : pipes'[e] # 0 =>
            /\ pipes'[e] > 2
            /\ fds'[pipes'[e]] = e
            /\ \A d \in Ends \ {e} : pipes'[d] # pipes'[e]
  <2>0. StdOpen /\ Numbers /\ Made /\ TypeOK
    BY DEF IInv
  <2> USE DEF Ends, PARENT_READ_FD, CHILD_WRITE_FD, CHILD_READ_FD, PARENT_WRITE_FD,
              PARENT_STDERR_RD, CHILD_STDERR_WR
  <2>1. CASE /\ init' = "failed" \/ (init = "new" /\ init' = "third")
             /\ UNCHANGED <<fds, pipes>>
    <3>1. \A e \in Ends : StillOpen(e)
      BY <1>1, <1>2 DEF StillOpen
    <3>2. fds' \in [Fd -> Files] /\ pipes' \in [Ends -> Fd]
      BY <2>0, <2>1 DEF TypeOK
    <3>3. \A f \in 0 .. 2 : fds'[f] = "std"
      BY <1>1, <2>0, <2>1 DEF StdOpen
    <3>4. Made'
      BY <1>1, <2>0, <2>1 DEF Made, ReadPipeMade
    <3>5. \A e \in Ends : pipes'[e] # 0 =>
            /\ pipes'[e] > 2
            /\ fds'[pipes'[e]] = e
            /\ \A d \in Ends \ {e} : pipes'[d] # pipes'[e]
      BY <2>0, <2>1, <3>1 DEF Numbers
    <3> QED
      BY <3>2, <3>3, <3>4, <3>5
  <2>2. CASE init = "new" /\ init' = "second" /\ Pipe(PARENT_READ_FD, CHILD_WRITE_FD)
    <3>1. pipes[PARENT_READ_FD] = 0 /\ pipes[CHILD_WRITE_FD] = 0
      BY <2>0, <2>2 DEF Made, ReadPipeMade
    <3> HIDE DEF Ends, PARENT_READ_FD, CHILD_WRITE_FD
    <3>2. /\ PARENT_READ_FD # CHILD_WRITE_FD
          /\ PARENT_READ_FD \in Ends /\ CHILD_WRITE_FD \in Ends
      BY DEF Ends, PARENT_READ_FD, CHILD_WRITE_FD
    <3>3. /\ fds' \in [Fd -> Files] /\ pipes' \in [Ends -> Fd]
          /\ pipes'[PARENT_READ_FD] # 0 /\ pipes'[CHILD_WRITE_FD] # 0
          /\ \A e \in Ends \ {PARENT_READ_FD, CHILD_WRITE_FD} : pipes'[e] = pipes[e]
          /\ \A f \in 0 .. 2 : fds'[f] = "std"
          /\ \A e \in Ends : pipes'[e] # 0 =>
                /\ pipes'[e] > 2
                /\ fds'[pipes'[e]] = e
                /\ \A d \in Ends \ {e} : pipes'[d] # pipes'[e]
      BY <1>1, <1>2, <2>0, <2>2, <3>1, <3>2, PipeNumbers
    <3>4. Made'
      BY <2>0, <2>2, <3>3 DEF Made, ReadPipeMade, Ends, PARENT_READ_FD, CHILD_WRITE_FD
    <3> QED
      BY <3>3, <3>4
  <2>3. CASE init = "second" /\ init' = "third" /\ Pipe(CHILD_READ_FD, PARENT_WRITE_FD)
    <3>1. pipes[CHILD_READ_FD] = 0 /\ pipes[PARENT_WRITE_FD] = 0
      BY <2>0, <2>3 DEF Made
    <3> HIDE DEF Ends, CHILD_READ_FD, PARENT_WRITE_FD
    <3>2. /\ CHILD_READ_FD # PARENT_WRITE_FD
          /\ CHILD_READ_FD \in Ends /\ PARENT_WRITE_FD \in Ends
      BY DEF Ends, CHILD_READ_FD, PARENT_WRITE_FD
    <3>3. /\ fds' \in [Fd -> Files] /\ pipes' \in [Ends -> Fd]
          /\ pipes'[CHILD_READ_FD] # 0 /\ pipes'[PARENT_WRITE_FD] # 0
          /\ \A e \in Ends \ {CHILD_READ_FD, PARENT_WRITE_FD} : pipes'[e] = pipes[e]
          /\ \A f \in 0 .. 2 : fds'[f] = "std"
          /\ \A e \in Ends : pipes'[e] # 0 =>
                /\ pipes'[e] > 2
                /\ fds'[pipes'[e]] = e
                /\ \A d \in Ends \ {e} : pipes'[d] # pipes'[e]
      BY <1>1, <1>2, <2>0, <2>3, <3>1, <3>2, PipeNumbers
    <3>4. pipes[PARENT_READ_FD] # 0
      BY <2>0, <2>3 DEF Made, ReadPipeMade
    <3>5. Made'
      BY <2>0, <2>3, <3>3, <3>4 DEF Made, ReadPipeMade, Ends, CHILD_READ_FD, PARENT_WRITE_FD
    <3> QED
      BY <3>3, <3>5
  <2>4. CASE init = "third" /\ init' = "fork" /\ Pipe(PARENT_STDERR_RD, CHILD_STDERR_WR)
    <3>1. pipes[PARENT_STDERR_RD] = 0 /\ pipes[CHILD_STDERR_WR] = 0
      BY <2>0, <2>4 DEF Made
    <3> HIDE DEF Ends, PARENT_STDERR_RD, CHILD_STDERR_WR
    <3>2. /\ PARENT_STDERR_RD # CHILD_STDERR_WR
          /\ PARENT_STDERR_RD \in Ends /\ CHILD_STDERR_WR \in Ends
      BY DEF Ends, PARENT_STDERR_RD, CHILD_STDERR_WR
    <3>3. /\ fds' \in [Fd -> Files] /\ pipes' \in [Ends -> Fd]
          /\ pipes'[PARENT_STDERR_RD] # 0 /\ pipes'[CHILD_STDERR_WR] # 0
          /\ \A e \in Ends \ {PARENT_STDERR_RD, CHILD_STDERR_WR} : pipes'[e] = pipes[e]
          /\ \A f \in 0 .. 2 : fds'[f] = "std"
          /\ \A e \in Ends : pipes'[e] # 0 =>
                /\ pipes'[e] > 2
                /\ fds'[pipes'[e]] = e
                /\ \A d \in Ends \ {e} : pipes'[d] # pipes'[e]
      BY <1>1, <1>2, <2>0, <2>4, <3>1, <3>2, PipeNumbers
    <3>4. Made'
      BY <2>0, <2>4, <3>3 DEF Made, ReadPipeMade, Ends, PARENT_STDERR_RD, CHILD_STDERR_WR
    <3> QED
      BY <3>3, <3>4
  <2> QED
    BY <1>1, <2>1, <2>2, <2>3, <2>4 DEF MakeReadPipe, MakeWritePipe, MakeStderrPipe, InitStep
<1>4. TypeOK'
  BY <1>1, <1>3 DEF IInv, TypeOK
<1>5. Numbers' /\ StdOpen'
  BY <1>3 DEF Numbers, StdOpen
<1>6. Order' /\ Counted'
  BY <1>1, <1>2 DEF Order, Counted
<1>7. CaptureSleeps'
  BY <1>1 DEF IInv, CaptureSleeps
<1> QED
  BY <1>3, <1>4, <1>5, <1>6, <1>7 DEF IInv

\* The fork and the thread that copies stderr: the parent's descriptors stay.
LEMMA ForkIInv == IInv /\ (Fork \/ StartCapture) => IInv'
<1> SUFFICES ASSUME IInv, Fork \/ StartCapture PROVE IInv'
  OBVIOUS
<1>1. /\ init \in {"fork", "forked"} /\ init' \in {"forked", "capturing", "failed"}
      /\ init' = "forked" => init = "fork"
      /\ UNCHANGED <<fds, pipes, alien, stop, timer, exit, captexit, stubborn, out, err, stray, idle>>
      /\ capture' = capture \/ (capture' = "top" /\ init' = "capturing")
      /\ child' = child \/ child' = "forked"
      /\ childfds' = childfds \/ childfds' = fds
  BY DEF Fork, StartCapture, InitStep, parentfds
<1>2. stop = "idle" /\ timer = "off" /\ capture = "off" /\ stray = 0 /\ alien = 0
  BY <1>1, Starting DEF IInv, Order, Counted, TypeOK
<1>3. TypeOK'
  BY <1>1 DEF IInv, TypeOK
<1>4. Numbers'
  BY <1>1 DEF IInv, Numbers, StillOpen
<1>5. Made' /\ StdOpen'
  BY <1>1 DEF IInv, Made, ReadPipeMade, StdOpen
<1>6. Order' /\ Counted'
  BY <1>1, <1>2 DEF Order, Counted
<1>7. CaptureSleeps'
  BY <1>1 DEF IInv, CaptureSleeps
<1> QED
  BY <1>3, <1>4, <1>5, <1>6, <1>7 DEF IInv

\* Closing the number of an end the parent has open hits nothing else; closing any
\* number the code keeps leaves the other ends' alone.
LEMMA Closing ==
    ASSUME TypeOK, Numbers, NEW e \in Ends, Close(pipes[e])
    PROVE  /\ fds' \in [Fd -> Files] /\ alien' \in 0 .. 2
           /\ alien' = alien \/ alien' = Once(alien)
           /\ pipes[e] # 0 /\ StillOpen(e) => alien' = alien
           /\ \A d \in Ends \ {e} : pipes[d] # 0 /\ pipes[d] # pipes[e] => fds'[pipes[d]] = fds[pipes[d]]
<1>1. fds \in [Fd -> Files] /\ pipes \in [Ends -> Fd] /\ alien \in 0 .. 2
  BY DEF TypeOK
<1>2. fds' = [fds EXCEPT ![pipes[e]] = "free"]
  BY DEF Close
<1>3. alien' = alien \/ alien' = Once(alien)
  BY DEF Close
<1>4. alien' \in 0 .. 2
  BY <1>1, <1>3 DEF Once
<1>5. ASSUME pipes[e] # 0, StillOpen(e) PROVE alien' = alien
  <2>1. fds[pipes[e]] = e
    BY <1>5 DEF Numbers
  <2>2. e \notin {"std", "other"}
    BY DEF Ends, PARENT_READ_FD, CHILD_WRITE_FD, CHILD_READ_FD, PARENT_WRITE_FD,
           PARENT_STDERR_RD, CHILD_STDERR_WR
  <2> QED
    BY <2>1, <2>2 DEF Close
<1> QED
  BY <1>1, <1>2, <1>3, <1>4, <1>5 DEF Files

\* The parent closes the child's ends of the first two pipes.
LEMMA CloseEndsIInv == IInv /\ CloseChildEnds => IInv'
<1> SUFFICES ASSUME IInv, CloseChildEnds PROVE IInv'
  OBVIOUS
<1> USE DEF IInv
<1>1. PICK e \in {CHILD_READ_FD, CHILD_WRITE_FD} :
        /\ Close(pipes[e])
        /\ (e = CHILD_READ_FD /\ init = "capturing" /\ init' = "closing")
           \/ (e = CHILD_WRITE_FD /\ init = "closing" /\ init' = "started")
        /\ UNCHANGED <<pipes, capture, child, childfds, stop, timer, exit, captexit,
                       stubborn, out, err, stray, idle>>
  BY DEF CloseChildEnds, InitStep
<1>2. e \in Ends
  BY DEF Ends
<1>3. /\ fds' \in [Fd -> Files] /\ alien' \in 0 .. 2
      /\ alien' = alien \/ alien' = Once(alien)
      /\ pipes[e] # 0 /\ StillOpen(e) => alien' = alien
      /\ \A d \in Ends \ {e} : pipes[d] # 0 /\ pipes[d] # pipes[e] => fds'[pipes[d]] = fds[pipes[d]]
  BY <1>1, <1>2, Closing
<1>4. stop = "idle" /\ timer = "off" /\ stray = 0
  BY <1>1, Starting
<1>5. StillOpen(e) /\ ~StillOpen(e)'
  BY <1>1, <1>4 DEF StillOpen, PARENT_READ_FD, CHILD_WRITE_FD, CHILD_READ_FD
<1>6. TypeOK'
  BY <1>1, <1>3 DEF TypeOK
<1>7. Numbers'
  <2> SUFFICES ASSUME NEW d \in Ends, pipes[d] # 0
               PROVE  /\ pipes[d] > 2
                      /\ StillOpen(d)' => fds'[pipes[d]] = d
                      /\ \A c \in Ends \ {d} : pipes[c] # pipes[d]
    BY <1>1 DEF Numbers
  <2>1. pipes[d] > 2 /\ (StillOpen(d) => fds[pipes[d]] = d)
        /\ \A c \in Ends \ {d} : pipes[c] # pipes[d]
    BY DEF Numbers
  <2>2. StillOpen(d)' => StillOpen(d)
    BY <1>1, <1>4 DEF StillOpen
  <2>3. ASSUME StillOpen(d)' PROVE fds'[pipes[d]] = d
    <3>1. d # e
      BY <1>5, <2>3
    <3> QED
      BY <1>2, <1>3, <2>1, <2>2, <2>3, <3>1
  <2> QED
    BY <2>1, <2>3
<1>8. Made' /\ StdOpen'
  BY <1>1 DEF Made, ReadPipeMade, StdOpen
<1>9. Order'
  BY <1>1, <1>4 DEF Order
<1>10. Counted'
  <2>1. ReadPipeMade => pipes[e] # 0
    BY <1>1 DEF Made, ReadPipeMade
  <2>2. ReadPipeMade => alien' = alien /\ alien = 0
    BY <1>3, <1>4, <1>5, <2>1 DEF Counted
  <2>3. ReadPipeMade' = ReadPipeMade
    BY <1>1 DEF ReadPipeMade
  <2> QED
    BY <1>1, <1>4, <2>2, <2>3 DEF Counted
<1>11. CaptureSleeps'
  BY <1>1 DEF CaptureSleeps
<1> QED
  BY <1>6, <1>7, <1>8, <1>9, <1>10, <1>11

\* What the child does, and its end, concerns the parent's descriptors not at all.
LEMMA ChildIInv ==
    IInv /\ (Redirect \/ Exec \/ WriteOut \/ WriteErr \/ ChildExits \/ handle_sigchild) => IInv'
<1> SUFFICES ASSUME IInv, Redirect \/ Exec \/ WriteOut \/ WriteErr \/ ChildExits \/ handle_sigchild
             PROVE  IInv'
  OBVIOUS
<1>1. UNCHANGED <<fds, pipes, alien, init, stop, timer, exit, capture, captexit, stray, idle, stubborn>>
  BY DEF Redirect, Exec, WriteOut, WriteErr, ChildExits, handle_sigchild, parentfds, threads, kid
<1>2. TypeOK => childfds' \in [Fd -> Files] /\ child' \in {"none", "forked", "redirected", "running", "zombie", "reaped"}
  <2> SUFFICES ASSUME TypeOK
               PROVE  childfds' \in [Fd -> Files]
                      /\ child' \in {"none", "forked", "redirected", "running", "zombie", "reaped"}
    OBVIOUS
  <2>1. childfds \in [Fd -> Files] /\ child \in {"none", "forked", "redirected", "running", "zombie", "reaped"}
    BY DEF TypeOK
  <2>2. [f \in Fd |-> "free"] \in [Fd -> Files]
    BY DEF Files
  <2>3. RedirectTo(childfds) \in [Fd -> Files]
    <3>1. ASSUME NEW t \in [Fd -> Files], NEW f, NEW g \in Fd
          PROVE  Dup2(t, g, f) \in [Fd -> Files] /\ Closed(t, f) \in [Fd -> Files]
      BY DEF Dup2, Closed, Files
    <3>2. pipes \in [Ends -> Fd]
      BY DEF TypeOK
    <3>3. /\ pipes[CHILD_STDERR_WR] \in Fd /\ pipes[CHILD_READ_FD] \in Fd
          /\ pipes[CHILD_WRITE_FD] \in Fd
      BY <3>2 DEF Ends
    <3>4. Dup2(childfds, pipes[CHILD_STDERR_WR], 2) \in [Fd -> Files]
      BY <2>1, <3>1, <3>3
    <3>5. Dup2(Dup2(childfds, pipes[CHILD_STDERR_WR], 2), pipes[CHILD_READ_FD], 0) \in [Fd -> Files]
      BY <3>1, <3>3, <3>4
    <3>6. Dup2(Dup2(Dup2(childfds, pipes[CHILD_STDERR_WR], 2), pipes[CHILD_READ_FD], 0),
               pipes[CHILD_WRITE_FD], 1) \in [Fd -> Files]
      BY <3>1, <3>3, <3>5
    <3> QED
      BY <3>1, <3>3, <3>6 DEF RedirectTo
  <2> QED
    BY <2>1, <2>2, <2>3 DEF Redirect, Exec, WriteOut, WriteErr, ChildExits, handle_sigchild, ChildDies, kid
<1>3. TypeOK => out' \in 0 .. PipeSize /\ err' \in 0 .. PipeSize
  BY DEF TypeOK, Redirect, Exec, WriteOut, WriteErr, ChildExits, handle_sigchild
<1>4. TypeOK'
  BY <1>1, <1>2, <1>3 DEF IInv, TypeOK
<1>5. Order' /\ Counted'
  BY <1>1 DEF IInv, Order, Counted, ReadPipeMade
<1>6. CaptureSleeps'
  BY <1>1 DEF IInv, CaptureSleeps
<1> QED
  BY <1>1, <1>4, <1>5, <1>6, Untouched DEF IInv

\* The thread that copies stderr never sees the end of its pipe: the parent itself
\* has the write end.
LEMMA CaptureIInv == IInv /\ capture_fn => IInv'
<1> SUFFICES ASSUME IInv, capture_fn PROVE IInv'
  OBVIOUS
<1>1. UNCHANGED <<fds, pipes, alien, init, stop, timer, exit, captexit, child, childfds, stubborn, out, stray>>
  BY DEF capture_fn, parentfds, kid
<1>2. capture \in {"top", "reading"} /\ capture' \in {"top", "reading", "ended"}
  BY DEF capture_fn
<1>3. init \in {"capturing", "closing", "started"}
  BY <1>2 DEF IInv, Order
<1>4. Held(CHILD_STDERR_WR)
  <2>1. CHILD_STDERR_WR \in Ends /\ pipes[CHILD_STDERR_WR] # 0 /\ StillOpen(CHILD_STDERR_WR)
    BY <1>3 DEF IInv, Made, Ends, StillOpen, PARENT_READ_FD, CHILD_WRITE_FD, CHILD_READ_FD, CHILD_STDERR_WR
  <2>2. pipes[CHILD_STDERR_WR] \in Fd
    BY <2>1 DEF IInv, TypeOK
  <2>3. fds[pipes[CHILD_STDERR_WR]] = CHILD_STDERR_WR
    BY <2>1 DEF IInv, Numbers
  <2> QED
    BY <2>2, <2>3 DEF Held
<1>5. idle' = idle
  BY <1>4 DEF capture_fn
<1>6. err' \in 0 .. PipeSize
  BY <1>4 DEF capture_fn, IInv, TypeOK
<1>7. TypeOK'
  BY <1>1, <1>2, <1>5, <1>6 DEF IInv, TypeOK
<1>8. Order' /\ Counted'
  BY <1>1, <1>3 DEF IInv, Order, Counted, ReadPipeMade
<1>9. CaptureSleeps'
  BY <1>5 DEF IInv, CaptureSleeps
<1> QED
  BY <1>1, <1>7, <1>8, <1>9, Untouched DEF IInv

\* The timer thread reads what belongs to others only after the pipe's number was
\* closed, and then ends.
LEMMA TimerIInv == IInv /\ (Threads \/ ReadElsewhere) => IInv'
<1> SUFFICES ASSUME IInv, Threads \/ ReadElsewhere PROVE IInv'
  OBVIOUS
<1>1. /\ UNCHANGED <<fds, pipes, alien, init, stop, exit, capture, captexit, child, childfds,
                     stubborn, err, idle>>
      /\ timer' \in {"top", "waiting", "reading", "elsewhere", "ended"}
  BY DEF Threads, StartTimer, TimerTop, ReadFromPipe, ReadCall, ReadReturn, ReadElsewhere, TimerStep, parentfds, kid
<1>2. init = "started"
  BY DEF IInv, Order, Threads, StartTimer, TimerTop, ReadFromPipe, ReadCall, ReadReturn, ReadElsewhere, TimerStep
<1>3. stray \in 0 .. 2 /\ stop \in {"idle", "flagged", "joined", "captured", "halfclosed", "closed", "sleeping", "done"}
  BY DEF IInv, TypeOK
<1>4. stray' \in 0 .. 2 /\ out' \in 0 .. PipeSize
  BY <1>3 DEF IInv, TypeOK, Threads, StartTimer, TimerTop, ReadFromPipe, ReadCall, ReadReturn, ReadElsewhere,
              TimerStep, Once
<1>5. TypeOK'
  BY <1>1, <1>4 DEF IInv, TypeOK
<1>6. Order'
  BY <1>1, <1>2 DEF IInv, Order
<1>7. Counted'
  <2>1. stray' # stray =>
           /\ stray' = Once(stray) /\ timer = "waiting" /\ timer' = "elsewhere"
           /\ fds[pipes[PARENT_READ_FD]] # PARENT_READ_FD
    BY DEF Threads, StartTimer, TimerTop, ReadFromPipe, ReadCall, ReadReturn, ReadElsewhere, TimerStep
  <2>2. ReadPipeMade /\ stop \in {"idle", "flagged", "joined", "captured", "halfclosed"} =>
           fds[pipes[PARENT_READ_FD]] = PARENT_READ_FD
    BY DEF IInv, Numbers, ReadPipeMade, StillOpen, Ends, PARENT_READ_FD, CHILD_WRITE_FD, CHILD_READ_FD
  <2>3. ReadPipeMade /\ timer = "waiting" => stray = 0
    BY DEF IInv, Counted
  <2>4. ReadPipeMade /\ stray = 1 /\ stray' = stray => timer' \in {"elsewhere", "top", "ended"}
    <3>1. CASE stop \in {"idle", "flagged", "joined", "captured", "halfclosed"}
      BY <3>1 DEF IInv, Counted
    <3>2. CASE stop \in {"closed", "sleeping", "done"}
      <4>1. exit
        BY <3>2 DEF IInv, Order
      <4>2. ReadPipeMade /\ stray = 1 => timer \in {"elsewhere", "top", "ended"}
        BY DEF IInv, Counted
      <4> QED
        BY <4>1, <4>2 DEF Threads, StartTimer, TimerTop, ReadFromPipe, ReadCall, ReadReturn, ReadElsewhere, TimerStep
    <3> QED
      BY <1>3, <3>1, <3>2
  <2>5. ReadPipeMade' = ReadPipeMade
    BY <1>1 DEF ReadPipeMade
  <2> QED
    BY <1>1, <1>2, <1>3, <2>1, <2>2, <2>3, <2>4, <2>5 DEF IInv, Counted, Once
<1>8. CaptureSleeps'
  BY <1>1 DEF IInv, CaptureSleeps
<1> QED
  BY <1>1, <1>5, <1>6, <1>7, <1>8, Untouched DEF IInv

\* The stop: of the two closes only the first can hit what belongs to others.
LEMMA StopIInv == IInv /\ (StopFlag \/ DSPStop \/ CloseChildProcess) => IInv'
<1> SUFFICES ASSUME IInv, StopFlag \/ DSPStop \/ CloseChildProcess PROVE IInv'
  OBVIOUS
<1> USE DEF IInv
<1>1. /\ UNCHANGED <<pipes, init, timer, capture, stubborn, out, err, stray, idle>>
      /\ stop' \in {"flagged", "joined", "captured", "halfclosed", "closed", "sleeping", "done"}
  BY DEF StopFlag, DSPStop, CloseChildProcess, Shut, Terminate, Kill, StopStep
<1>2. init = "started" /\ stop \in {"idle", "flagged", "joined", "captured", "halfclosed", "closed", "sleeping"}
  BY DEF Order, StopFlag, DSPStop, CloseChildProcess, Shut, Terminate, Kill, StopStep
<1>3. exit' /\ exit' \in BOOLEAN /\ captexit' \in BOOLEAN
  <2>1. CASE StopFlag
    BY <2>1, Zenon DEF StopFlag, TypeOK
  <2>2. CASE DSPStop \/ CloseChildProcess
    <3>1. exit' = exit /\ exit
      BY <2>2 DEF Order, DSPStop, CloseChildProcess, Shut, Terminate, Kill, StopStep
    <3>2. captexit' = captexit \/ captexit' = TRUE
      BY <2>2 DEF DSPStop, CloseChildProcess, Shut, Terminate, Kill
    <3> QED
      BY <3>1, <3>2, Zenon DEF TypeOK
  <2> QED
    BY <2>1, <2>2
<1>4. childfds' \in [Fd -> Files] /\ child' \in {"none", "forked", "redirected", "running", "zombie", "reaped"}
  BY DEF TypeOK, StopFlag, DSPStop, CloseChildProcess, Shut, Terminate, Kill, ChildDies, Files
<1>5. Order'
  BY <1>1, <1>2, <1>3 DEF Order
<1>6. Made' /\ StdOpen' /\ CaptureSleeps' /\ ReadPipeMade' = ReadPipeMade
  BY <1>1, <1>2 DEF Made, ReadPipeMade, StdOpen, CaptureSleeps
<1>7. CASE UNCHANGED <<fds, alien>>
  <2>1. TypeOK'
    BY <1>1, <1>3, <1>4, <1>7 DEF TypeOK
  <2>2. \/ stop = "idle" /\ stop' = "flagged"
        \/ stop = "flagged" /\ stop' = "joined"
        \/ stop = "joined" /\ stop' = "captured"
        \/ stop = "closed" /\ stop' = "sleeping"
        \/ stop = "sleeping" /\ stop' = "done"
        \/ /\ stop \in {"captured", "halfclosed"}
           /\ stop = "captured" => stop' = "halfclosed"
           /\ stop = "halfclosed" => stop' = "closed"
    BY DEF StopFlag, DSPStop, CloseChildProcess, Shut, Terminate, Kill, StopStep
  <2>3. Numbers' /\ Counted'
    BY <1>1, <1>2, <1>6, <1>7, <2>2 DEF Numbers, StillOpen, Counted
  <2> QED
    BY <1>5, <1>6, <2>1, <2>3
<1>8. CASE \E e \in {CHILD_WRITE_FD, PARENT_READ_FD} :
              /\ Close(pipes[e])
              /\ (e = CHILD_WRITE_FD /\ stop = "captured" /\ stop' = "halfclosed")
                 \/ (e = PARENT_READ_FD /\ stop = "halfclosed" /\ stop' = "closed")
  <2> PICK e \in {CHILD_WRITE_FD, PARENT_READ_FD} :
              /\ Close(pipes[e])
              /\ (e = CHILD_WRITE_FD /\ stop = "captured" /\ stop' = "halfclosed")
                 \/ (e = PARENT_READ_FD /\ stop = "halfclosed" /\ stop' = "closed")
    BY <1>8
  <2>1. e \in Ends
    BY DEF Ends
  <2>2. /\ fds' \in [Fd -> Files] /\ alien' \in 0 .. 2
        /\ alien' = alien \/ alien' = Once(alien)
        /\ pipes[e] # 0 /\ StillOpen(e) => alien' = alien
        /\ \A d \in Ends \ {e} : pipes[d] # 0 /\ pipes[d] # pipes[e] => fds'[pipes[d]] = fds[pipes[d]]
    BY <2>1, Closing
  <2>3. TypeOK'
    BY <1>1, <1>3, <1>4, <2>2 DEF TypeOK
  <2>4. ~StillOpen(e)' /\ (e = PARENT_READ_FD => StillOpen(e))
    BY <1>1, <1>2 DEF StillOpen, PARENT_READ_FD, CHILD_WRITE_FD, CHILD_READ_FD
  <2>5. Numbers'
    <3> SUFFICES ASSUME NEW d \in Ends, pipes[d] # 0
                 PROVE  /\ pipes[d] > 2
                        /\ StillOpen(d)' => fds'[pipes[d]] = d
                        /\ \A c \in Ends \ {d} : pipes[c] # pipes[d]
      BY <1>1 DEF Numbers
    <3>1. pipes[d] > 2 /\ (StillOpen(d) => fds[pipes[d]] = d)
          /\ \A c \in Ends \ {d} : pipes[c] # pipes[d]
      BY DEF Numbers
    <3>2. StillOpen(d)' => StillOpen(d)
      BY <1>1, <1>2 DEF StillOpen
    <3>3. ASSUME StillOpen(d)' PROVE fds'[pipes[d]] = d
      <4>1. d # e
        BY <2>4, <3>3
      <4> QED
        BY <2>1, <2>2, <3>1, <3>2, <3>3, <4>1
    <3> QED
      BY <3>1, <3>3
  <2>6. Counted'
    <3>1. ReadPipeMade /\ e = PARENT_READ_FD => alien' = alien
      BY <2>2, <2>4 DEF ReadPipeMade
    <3>2. ReadPipeMade /\ e = CHILD_WRITE_FD => alien = 0
      BY DEF Counted, PARENT_READ_FD, CHILD_WRITE_FD
    <3>3. ReadPipeMade => alien' <= 1
      BY <2>2, <3>1, <3>2 DEF Counted, Once
    <3> QED
      BY <1>1, <1>2, <1>6, <3>3 DEF Counted
  <2> QED
    BY <1>5, <1>6, <2>3, <2>5, <2>6
<1> QED
  BY <1>7, <1>8 DEF StopFlag, DSPStop, CloseChildProcess, Shut, Terminate, Kill, StopStep

\* The other threads take free numbers and close their own.
LEMMA OthersIInv == IInv /\ (OtherOpens \/ OtherCloses) => IInv'
<1> SUFFICES ASSUME IInv, OtherOpens \/ OtherCloses PROVE IInv'
  OBVIOUS
<1>1. UNCHANGED <<pipes, alien, init, stop, timer, exit, capture, captexit, child, childfds,
                  stubborn, out, err, stray, idle>>
  BY DEF OtherOpens, OtherCloses, threads, kid
<1>2. PICK f \in Fd :
        /\ fds[f] \in {"free", "other"}
        /\ fds' = [fds EXCEPT ![f] = "other"] \/ fds' = [fds EXCEPT ![f] = "free"]
  BY DEF OtherOpens, OtherCloses, Lowest, Closed
<1>3. fds \in [Fd -> Files] /\ pipes \in [Ends -> Fd]
  BY DEF IInv, TypeOK
<1>4. TypeOK'
  BY <1>1, <1>2, <1>3 DEF IInv, TypeOK, Files
<1>5. \A e \in Ends : fds[pipes[e]] = e => fds'[pipes[e]] = e
  BY <1>2, <1>3 DEF Ends, PARENT_READ_FD, CHILD_WRITE_FD, CHILD_READ_FD, PARENT_WRITE_FD,
                    PARENT_STDERR_RD, CHILD_STDERR_WR
<1>6. Numbers'
  BY <1>1, <1>5 DEF IInv, Numbers, StillOpen
<1>7. StdOpen'
  <2>1. 0 .. 2 \subseteq Fd
    BY DEF Fd
  <2> QED
    BY <1>1, <1>2, <1>3, <2>1 DEF IInv, StdOpen
<1>8. Made' /\ Order' /\ Counted'
  BY <1>1 DEF IInv, Made, ReadPipeMade, Order, Counted
<1>9. CaptureSleeps'
  BY <1>1 DEF IInv, CaptureSleeps
<1> QED
  BY <1>4, <1>6, <1>7, <1>8, <1>9 DEF IInv

\* The inductive invariant holds of the specification.
THEOREM Invariance == Spec => []IInv
<1>1. IInv /\ [Next]_vars => IInv'
  <2> SUFFICES ASSUME IInv, [Next]_vars PROVE IInv'
    OBVIOUS
  <2>1. CASE initChildProcess
    BY <2>1, MakeIInv, ForkIInv, CloseEndsIInv DEF initChildProcess
  <2>2. CASE Redirect \/ Exec \/ WriteOut \/ WriteErr \/ ChildExits \/ handle_sigchild
    BY <2>2, ChildIInv
  <2>3. CASE capture_fn
    BY <2>3, CaptureIInv
  <2>4. CASE Threads \/ ReadElsewhere
    BY <2>4, TimerIInv
  <2>5. CASE StopFlag \/ DSPStop \/ CloseChildProcess
    BY <2>5, StopIInv
  <2>6. CASE OtherOpens \/ OtherCloses
    BY <2>6, OthersIInv
  <2>7. CASE UNCHANGED vars
    BY <2>7, Untouched DEF vars, IInv, TypeOK, Order, Counted, ReadPipeMade, CaptureSleeps
  <2> QED
    BY <2>1, <2>2, <2>3, <2>4, <2>5, <2>6, <2>7 DEF Next
<1> QED
  BY <1>1, InitIInv, PTL DEF Spec

\* Every variable keeps its type: a number the code keeps is a descriptor's.
THEOREM TypeCorrect == Spec => []TypeOK
<1>1. IInv => TypeOK
  BY DEF IInv
<1> QED
  BY <1>1, Invariance, PTL

\* The receiver never reads or closes a descriptor of another thread before the
\* stop, and each at most once during it, for any number of descriptors.
THEOREM OthersLeftAlone == Spec => []OnlyAtStop
<1>1. IInv => OnlyAtStop
  BY DEF IInv, Counted, ReadPipeMade, OnlyAtStop
<1> QED
  BY <1>1, Invariance, PTL

\* The thread that copies stderr never spins on an ended pipe.
THEOREM CaptureNeverSpins == Spec => []CaptureSleeps
<1>1. IInv => CaptureSleeps
  BY DEF IInv
<1> QED
  BY <1>1, Invariance, PTL
===============================================================================
