------------------------- MODULE ConnectionStepsProofs -------------------------
(****************************************************************************)
(* Every step of ConnectionLoop is a step of Server's connection or leaves  *)
(* it alone.                                                                *)
(****************************************************************************)
EXTENDS ConnectionSteps, ConnectionLoopProofs

CoarseStep == Coarse!TaskStep("c") \/ Coarse!PeerStep("c") \/ Coarse!Broadcast

(* What Server knows of a connection.                                       *)
LEMMA NothingShows ==
  ASSUME conn' = conn, Over' = Over, Called' = Called
  PROVE  UNCHANGED Coarse!vars
  BY DEF Coarse!vars, Coarse!loopVars, Coarse!taskVars, Coarse!watchVars, The

(* Somebody calls for the end of a connection that is being served.         *)
LEMMA CallShows ==
  ASSUME conn' = conn, ~Over, ~Over', Called'
  PROVE  CoarseStep \/ UNCHANGED Coarse!vars
  <1>1. CASE ~Called
    BY <1>1 DEF CoarseStep, Coarse!Broadcast, Coarse!Watch!Send, Coarse!taskVars, The, Called
  <1>2. CASE Called
    <2>1. Called' = Called /\ Over' = Over
      BY <1>2 DEF Called, Over
    <2> QED
      BY <2>1, NothingShows
  <1> QED
    BY <1>1, <1>2

-------------------------------------------------------------------------------
(* The steps that change hyper's connection.                                *)

(* hyper takes an event: what its peer or its service did.                  *)
LEMMA EventShows ==
  ASSUME NEW e \in Event, TypeOK, TakeEvent(e)
  PROVE  CoarseStep \/ UNCHANGED Coarse!vars
  <1>1. /\ ~Over /\ ~Over' /\ conn \in Http!State /\ conn.phase # "over"
        /\ conn' = Apply(e, conn)
        /\ UNCHANGED <<sig, age>>
    BY DEF TakeEvent, Polling, Over, TypeOK
  <1>2. conn'.closing # "no" <=> conn.closing # "no"
    BY <1>1 DEF Apply, Http!Received, Http!Responded, Http!Acked, Http!Over, Http!AwaitsAck,
       Http!State
  <1>3. Called' = Called
    BY <1>1, <1>2 DEF Called
  <1>4. ASSUME conn' # conn
        PROVE  \/ Http!CanReceive(conn) /\ conn' = Http!Received(conn)
               \/ conn.phase = "busy" /\ conn' = Http!Responded(conn)
               \/ Http!AwaitsAck(conn) /\ conn' = Http!Acked(conn)
               \/ conn' = Http!Over(conn)
    BY <1>1, <1>4 DEF Apply
  <1>5. ASSUME NEW h, conn' = h
        PROVE  Coarse!HttpStep("c", h)
    BY <1>1, <1>2, <1>3, <1>5
    DEF Coarse!HttpStep, Coarse!loopVars, Coarse!watchVars, The
  <1>6. CASE conn' # conn
    BY <1>1, <1>4, <1>5, <1>6
    DEF CoarseStep, Coarse!PeerStep, Coarse!RequestArrives, Coarse!Respond, Coarse!AckGoAway,
        Coarse!Disconnect, The, Coarse!Http!CanReceive, Http!CanReceive,
        Coarse!Http!Received, Http!Received, Coarse!Http!Responded, Http!Responded,
        Coarse!Http!AwaitsAck, Http!AwaitsAck, Coarse!Http!Acked, Http!Acked,
        Coarse!Http!Over, Http!Over
  <1>7. CASE conn' = conn
    <2>1. Over' = Over
      BY <1>1 DEF Over
    <2> QED
      BY <1>3, <1>7, <2>1, NothingShows
  <1> QED
    BY <1>6, <1>7

(* hyper is told: for the first time, or again, which changes nothing.      *)
LEMMA ToldShows ==
  ASSUME TypeOK, ~Over, ~Over', GracefulShutdown, Called
  PROVE  CoarseStep \/ UNCHANGED Coarse!vars
  <1>1. conn \in Http!State /\ conn' \in Http!AfterGracefulShutdown(conn)
    BY DEF TypeOK, GracefulShutdown
  <1>2. conn'.closing # "no" /\ (conn.closing # "no" => conn' = conn)
    BY <1>1 DEF Http!AfterGracefulShutdown, Http!State, Http!Phase
  <1>3. Called'
    BY <1>2 DEF Called
  <1>4. CASE conn.closing = "no"
    <2>1. /\ Coarse!Watch!HasChanged("c")
          /\ Coarse!Watch!MarkSeen("c")
      BY <1>2, <1>3, <1>4 DEF Coarse!Watch!HasChanged, Coarse!Watch!MarkSeen
    <2>2. \E h \in Coarse!Http!AfterGracefulShutdown(The(conn)["c"]) :
            The(conn)' = [The(conn) EXCEPT !["c"] = h]
      BY <1>1 DEF The, Coarse!Http!AfterGracefulShutdown, Http!AfterGracefulShutdown
    <2> QED
      BY <1>3, <1>4, <2>1, <2>2
      DEF CoarseStep, Coarse!TaskStep, Coarse!ObserveShutdown, Coarse!loopVars, The
  <1>5. CASE conn.closing # "no"
    <2>1. conn' = conn /\ Called' = Called /\ Over' = Over
      BY <1>2, <1>3, <1>5 DEF Called, Over
    <2> QED
      BY <2>1, NothingShows
  <1> QED
    BY <1>4, <1>5

(* The loop breaks, and the task is done.                                   *)
LEMMA EndShows == ASSUME ConnReady PROVE CoarseStep
  <1>1. /\ ~Over /\ Over' /\ conn.phase = "over"
        /\ conn' = conn /\ Called' = Called
    BY DEF ConnReady, Polling, Over, Called, hyperVars
  <1>2. Coarse!EndTask("c", "absent")
    BY <1>1 DEF Coarse!EndTask, Coarse!Watch!Drop, The, Coarse!Http!Fresh, Http!Fresh
  <1> QED
    BY <1>1, <1>2 DEF CoarseStep, Coarse!TaskStep, Coarse!ConnEnds, Coarse!loopVars, The

-------------------------------------------------------------------------------
LEMMA StepShows == TypeOK /\ [Next]_vars => CoarseStep \/ UNCHANGED Coarse!vars
  <1> SUFFICES ASSUME TypeOK, [Next]_vars PROVE CoarseStep \/ UNCHANGED Coarse!vars
    OBVIOUS
  <1>1. ASSUME UNCHANGED <<conn, age, sig>>, task' # "done", task # "done"
        PROVE  UNCHANGED Coarse!vars
    BY <1>1, NothingShows DEF Called, Over
  <1>2. CASE StartPoll \/ Park \/ Flush \/ ConnPending \/ ConnYields
    BY <1>1, <1>2
    DEF StartPoll, Park, Flush, ConnPending, ConnYields, BranchPending, Polling, hyperVars
  <1>3. ASSUME NEW e \in Event, TakeEvent(e) PROVE CoarseStep \/ UNCHANGED Coarse!vars
    BY <1>3, EventShows
  <1>4. CASE ConnReady
    BY <1>4, EndShows
  <1>5. CASE PollAge
    <2>1. CASE age = "ready"
      <3>1. PollFuture(age).result = "ready"
        BY <2>1 DEF PollFuture
      <3>2. AgeArm /\ ~Over /\ ~Over'
        BY <1>5, <3>1 DEF PollAge, AgeArm, Polling, Over
      <3> QED
        BY <2>1, <3>2, ToldShows DEF AgeArm, Called
    <2>2. CASE age # "ready"
      <3>1. PollFuture(age).result # "ready"
        BY <2>2 DEF PollFuture, Future, TypeOK
      <3> QED
        BY <1>1, <1>5, <3>1 DEF PollAge, BranchPending, Panic, Polling, hyperVars
    <2> QED
      BY <2>1, <2>2
  <1>6. CASE PollSig
    <2>1. CASE sig = "ready"
      <3>1. PollFuse(sig).result = "ready"
        BY <2>1 DEF PollFuse
      <3>2. SigArm /\ ~Over /\ ~Over'
        BY <1>6, <3>1 DEF PollSig, SigArm, Polling, Over
      <3> QED
        BY <2>1, <3>2, ToldShows DEF SigArm, Called
    <2>2. CASE sig # "ready"
      <3>1. PollFuse(sig).result # "ready" /\ PollFuse(sig).after = sig
        BY <2>2 DEF PollFuse, PollFuture, FuseState, Future, TypeOK
      <3> QED
        BY <1>1, <1>6, <3>1 DEF PollSig, BranchPending, Panic, Polling, hyperVars
    <2> QED
      BY <2>1, <2>2
  <1>7. ASSUME NEW e \in Event, Happens(e) PROVE UNCHANGED Coarse!vars
    BY <1>1, <1>7 DEF Happens, Wake, Live
  <1>8. CASE PeerRequests \/ ServiceResponds \/ PeerAcks \/ PeerLeaves
    BY <1>7, <1>8 DEF PeerRequests, ServiceResponds, PeerAcks, PeerLeaves, Event
  <1>9. CASE TimerFires \/ WatcherChanges
    <2>1. conn' = conn /\ ~Over /\ ~Over' /\ Called'
      BY <1>9 DEF TimerFires, WatcherChanges, Wake, Live, Over, Called, hyperVars
    <2> QED
      BY <2>1, CallShows
  <1>10. CASE UNCHANGED vars
    <2>1. conn' = conn /\ Over' = Over /\ Called' = Called
      BY <1>10 DEF vars, Over, Called
    <2> QED
      BY <2>1, NothingShows
  <1> QED
    BY <1>2, <1>3, <1>4, <1>5, <1>6, <1>8, <1>9, <1>10 DEF Next, Finished

(* The poll-by-poll loop around a connection takes only steps that Server   *)
(* gives to a served connection (src/http.rs:119-142, 416-442).             *)
THEOREM ImplementsStepsOfServer == Spec => StepsOfServer
  <1>1. TypeOK /\ [Next]_vars
          => [Coarse!TaskStep("c") \/ Coarse!PeerStep("c") \/ Coarse!Broadcast]_(Coarse!vars)
    BY StepShows DEF CoarseStep
  <1> QED
    BY <1>1, TypeCorrect, PTL DEF Spec, StepsOfServer
===============================================================================
