----------------------------- MODULE ServerProofs -----------------------------
(****************************************************************************)
(* Theorems about Server, for every set of connections and every size of    *)
(* the blocking pool.                                                       *)
(****************************************************************************)
EXTENDS Server, FiniteSetTheorems, TLAPS

-------------------------------------------------------------------------------
(* Queues: what is left of a sequence, and what a longer one holds.         *)

LEMMA QueueHead ==
  ASSUME NEW S, NEW s \in Seq(S), NEW c, HeadOf(s, c)
  PROVE  /\ c \in S
         /\ Len(s) \in Nat \ {0}
         /\ s[1] = c
         /\ Tail(s) \in Seq(S)
         /\ Len(Tail(s)) = Len(s) - 1
         /\ \A i \in 1..Len(Tail(s)) : Tail(s)[i] = s[i + 1]
  BY DEF HeadOf

LEMMA QueueAppend ==
  ASSUME NEW S, NEW s \in Seq(S), NEW c \in S
  PROVE  /\ Append(s, c) \in Seq(S)
         /\ Len(Append(s, c)) = Len(s) + 1
         /\ Len(s) \in Nat
         /\ \A i \in 1..Len(s) : Append(s, c)[i] = s[i]
         /\ Append(s, c)[Len(s) + 1] = c
  OBVIOUS

(* Taking the head of a queue, adding to its end, and moving others.        *)
LEMMA HeadWaits ==
  ASSUME NEW S, NEW q \in Seq(S), NEW f, NEW at, Waits(q, at, f), NEW c, HeadOf(q, c)
  PROVE  f[c] = at
  BY QueueHead DEF Waits

LEMMA TailWaits ==
  ASSUME NEW S, NEW q \in Seq(S), NEW R, NEW f \in [S -> R], NEW at, Waits(q, at, f),
         NEW c, HeadOf(q, c), NEW to, to # at
  PROVE  Waits(Tail(q), at, [f EXCEPT ![c] = to])
  <1>1. /\ c \in S /\ Len(q) \in Nat \ {0} /\ q[1] = c
        /\ Tail(q) \in Seq(S) /\ Len(Tail(q)) = Len(q) - 1
        /\ \A i \in 1..Len(Tail(q)) : Tail(q)[i] = q[i + 1]
    BY QueueHead
  <1>2. ASSUME NEW i \in 1..Len(Tail(q)) PROVE [f EXCEPT ![c] = to][Tail(q)[i]] = at
    <2>1. Tail(q)[i] = q[i + 1] /\ i + 1 \in 1..Len(q) /\ i + 1 # 1
      BY <1>1
    <2>2. q[i + 1] # c /\ q[i + 1] \in S
      BY <1>1, <2>1 DEF Waits
    <2> QED
      BY <2>1, <2>2 DEF Waits
  <1>3. ASSUME NEW i \in 1..Len(Tail(q)), NEW j \in 1..Len(Tail(q)), Tail(q)[i] = Tail(q)[j]
        PROVE  i = j
    <2>1. i + 1 \in 1..Len(q) /\ j + 1 \in 1..Len(q) /\ q[i + 1] = q[j + 1]
      BY <1>1, <1>3
    <2> QED
      BY <2>1 DEF Waits
  <1>4. ASSUME NEW d \in S, [f EXCEPT ![c] = to][d] = at
        PROVE  \E i \in 1..Len(Tail(q)) : Tail(q)[i] = d
    <2>1. d # c /\ f[d] = at
      BY <1>1, <1>4
    <2>2. PICK i \in 1..Len(q) : q[i] = d
      BY <2>1 DEF Waits
    <2>3. i # 1 /\ i - 1 \in 1..Len(Tail(q)) /\ (i - 1) + 1 = i
      BY <1>1, <2>1, <2>2
    <2> QED
      BY <1>1, <2>2, <2>3
  <1> QED
    BY <1>2, <1>3, <1>4 DEF Waits

LEMMA AppendWaits ==
  ASSUME NEW S, NEW q \in Seq(S), NEW R, NEW f \in [S -> R], NEW at, Waits(q, at, f),
         NEW c \in S, f[c] # at
  PROVE  Waits(Append(q, c), at, [f EXCEPT ![c] = at])
  <1>1. /\ Len(q) \in Nat /\ Len(Append(q, c)) = Len(q) + 1
        /\ \A i \in 1..Len(q) : Append(q, c)[i] = q[i]
        /\ Append(q, c)[Len(q) + 1] = c
    BY QueueAppend
  <1>2. \A i \in 1..Len(q) : q[i] \in S /\ q[i] # c
    BY DEF Waits
  <1>3. \A i \in 1..Len(Append(q, c)) : i \in 1..Len(q) \/ i = Len(q) + 1
    BY <1>1
  <1>4. ASSUME NEW d \in S, [f EXCEPT ![c] = at][d] = at
        PROVE  \E i \in 1..Len(Append(q, c)) : Append(q, c)[i] = d
    <2>1. CASE d = c
      BY <1>1, <2>1
    <2>2. CASE d # c
      <3>1. PICK i \in 1..Len(q) : q[i] = d
        BY <1>4, <2>2 DEF Waits
      <3> QED
        BY <1>1, <3>1
    <2> QED
      BY <2>1, <2>2
  <1> QED
    BY <1>1, <1>2, <1>3, <1>4 DEF Waits

(* A queue does not notice a connection that is not in it.                  *)
LEMMA OthersWait ==
  ASSUME NEW S, NEW q \in Seq(S), NEW R, NEW f \in [S -> R], NEW at, Waits(q, at, f),
         NEW c \in S, f[c] # at, NEW to, to # at
  PROVE  Waits(q, at, [f EXCEPT ![c] = to])
  BY DEF Waits

(* Somebody waits only if there is a head.                                  *)
LEMMA WaitingHasHead ==
  ASSUME NEW S, NEW q \in Seq(S), NEW R, NEW f \in [S -> R], NEW at, Waits(q, at, f),
         NEW c \in S, f[c] = at
  PROVE  \E d \in S : HeadOf(q, d)
  <1>1. PICK i \in 1..Len(q) : q[i] = c
    BY DEF Waits
  <1>2. q # <<>> /\ Len(q) \in Nat \ {0} /\ Head(q) = q[1] /\ q[1] \in S
    BY <1>1
  <1> QED
    BY <1>2 DEF HeadOf, Waits

-------------------------------------------------------------------------------
(* Hyper's connection stays a connection, whatever is done to it.           *)

LEMMA HttpTypes ==
  ASSUME NEW h \in Http!State
  PROVE  /\ Http!Over(h) \in Http!State
         /\ Http!Received(h) \in Http!State
         /\ Http!Responded(h) \in Http!State
         /\ Http!Acked(h) \in Http!State
         /\ Http!AfterGracefulShutdown(h) \subseteq Http!State
  <1> USE DEF Http!State, Http!Phase, Http!Closing
  <1>1. Http!Over(h) \in Http!State
    BY DEF Http!Over
  <1>2. Http!Received(h) \in Http!State
    BY DEF Http!Received
  <1>3. Http!Responded(h) \in Http!State
    BY DEF Http!Responded
  <1>4. Http!Acked(h) \in Http!State
    BY DEF Http!Acked
  <1>5. Http!AfterGracefulShutdown(h) \subseteq Http!State
    BY DEF Http!AfterGracefulShutdown
  <1> QED
    BY <1>1, <1>2, <1>3, <1>4, <1>5

(* Once hyper has been told, it is no longer untold.                        *)
LEMMA GracefulShutdownTells ==
  ASSUME NEW h \in Http!State, NEW k \in Http!AfterGracefulShutdown(h)
  PROVE  k.closing # "no"
  BY DEF Http!AfterGracefulShutdown, Http!State, Http!Phase, Http!Closing

(* Nothing a peer or a service does makes hyper forget that it was told.    *)
LEMMA HttpKeepsClosing ==
  ASSUME NEW h \in Http!State
  PROVE  /\ Http!Over(h).closing = h.closing
         /\ Http!Received(h).closing = h.closing
         /\ Http!Responded(h).closing = h.closing
         /\ Http!Acked(h).closing # "no"
  BY DEF Http!Over, Http!Received, Http!Responded, Http!Acked, Http!State

-------------------------------------------------------------------------------
(* Types.                                                                   *)

LEMMA TypeInit == Init => TypeOK
  <1> SUFFICES ASSUME Init PROVE TypeOK
    OBVIOUS
  <1>1. Watch!TypeOK
    BY DEF Init, Watch!TypeOK, Watch!Channel
  <1>2. http \in [Conn -> Http!State]
    BY DEF Init, Http!Fresh, Http!State, Http!Phase, Http!Closing
  <1>3. incoming \in Seq(Conn) /\ pool \in Seq(Conn)
    BY DEF Init
  <1> QED
    BY <1>1, <1>2, <1>3 DEF Init, TypeOK, Stage

(* What the operators that several actions share do to the types.           *)
LEMMA CloseListenerTypes ==
  ASSUME TypeOK, CloseListener
  PROVE  /\ incoming' \in Seq(Conn) /\ ended' \in BOOLEAN
         /\ item' \in [Conn -> {"ok", "nonfatal", "fatal"}]
         /\ stage' \in [Conn -> Stage]
         /\ pool' \in Seq(Conn)
         /\ http' \in [Conn -> Http!State]
  BY DEF TypeOK, CloseListener, Stage

LEMMA EndTaskTypes ==
  ASSUME TypeOK, NEW c \in Conn, NEW after \in Stage, EndTask(c, after)
  PROVE  /\ item' \in [Conn -> {"ok", "nonfatal", "fatal"}]
         /\ stage' \in [Conn -> Stage]
         /\ http' \in [Conn -> Http!State]
         /\ Watch!TypeOK'
  BY DEF TypeOK, EndTask, Watch!TypeOK, Watch!Drop, Http!Fresh, Http!State, Http!Phase,
     Http!Closing

LEMMA TypeStep == TypeOK /\ [Next]_vars => TypeOK'
  <1> SUFFICES ASSUME TypeOK, [Next]_vars PROVE TypeOK'
    OBVIOUS
  <1> USE DEF TypeOK, Watch!TypeOK, Stage, loopVars, taskVars, watchVars
  <1>1. ASSUME NEW c \in Conn, SkipNonFatal(c) PROVE TypeOK'
    BY <1>1, QueueHead DEF SkipNonFatal
  <1>2. ASSUME NEW c \in Conn, Spawn(c) PROVE TypeOK'
    <2>1. Watch!TypeOK'
      BY <1>2, MainAssumption DEF Spawn, Subscribe, Watch!Clone
    <2> QED
      BY <1>2, <2>1, QueueHead DEF Spawn
  <1>3. ASSUME LeaveLoop PROVE TypeOK'
    BY <1>3 DEF LeaveLoop
  <1>4. ASSUME Broadcast PROVE TypeOK'
    BY <1>4 DEF Broadcast, Watch!Send
  <1>5. ASSUME ReleaseReceiver PROVE TypeOK'
    BY <1>5 DEF ReleaseReceiver, Watch!Drop
  <1>6. ASSUME Return PROVE TypeOK'
    BY <1>6, CloseListenerTypes DEF Return, Watch!DropSender
  <1>7. ASSUME Abort PROVE TypeOK'
    BY <1>7, CloseListenerTypes DEF Abort, Watch!DropSenderAnd
  <1>8. ASSUME NEW c \in Conn, TaskStep(c) PROVE TypeOK'
    <2>1. CASE DropFailedAccept(c)
      BY <2>1, EndTaskTypes DEF DropFailedAccept
    <2>2. CASE ServePlain(c)
      BY <2>2 DEF ServePlain, StartServing
    <2>3. CASE OffloadHandshake(c)
      BY <2>3 DEF OffloadHandshake
    <2>4. CASE StartHandshake(c)
      BY <2>4, QueueHead DEF StartHandshake
    <2>5. CASE ObserveShutdown(c)
      <3>1. http' \in [Conn -> Http!State]
        BY <2>5, HttpTypes DEF ObserveShutdown
      <3> QED
        BY <2>5, <3>1 DEF ObserveShutdown, Watch!MarkSeen
    <2>6. CASE ConnEnds(c)
      BY <2>6, EndTaskTypes DEF ConnEnds
    <2>7. CASE Upgrade(c)
      BY <2>7, EndTaskTypes DEF Upgrade
    <2>8. CASE TaskPanics(c)
      BY <2>8 DEF TaskPanics
    <2>9. CASE FinishUnwinding(c)
      BY <2>9, EndTaskTypes DEF FinishUnwinding
    <2> QED
      BY <1>8, <2>1, <2>2, <2>3, <2>4, <2>5, <2>6, <2>7, <2>8, <2>9 DEF TaskStep
  <1>9. ASSUME NEW c \in Conn, PeerStep(c) PROVE TypeOK'
    <2>1. CASE HandshakeSucceeds(c)
      BY <2>1 DEF HandshakeSucceeds, StartServing
    <2>2. CASE HandshakeFails(c)
      BY <2>2, EndTaskTypes DEF HandshakeFails
    <2>3. ASSUME NEW h \in Http!State, HttpStep(c, h) PROVE TypeOK'
      BY <2>3 DEF HttpStep
    <2>4. CASE RequestArrives(c) \/ Respond(c) \/ AckGoAway(c) \/ Disconnect(c)
      BY <2>3, <2>4, HttpTypes DEF RequestArrives, Respond, AckGoAway, Disconnect
    <2>5. CASE UpgradedCloses(c)
      BY <2>5 DEF UpgradedCloses
    <2> QED
      BY <1>9, <2>1, <2>2, <2>4, <2>5 DEF PeerStep
  <1>10. ASSUME NEW c \in Conn, NEW kind \in {"ok", "nonfatal", "fatal"}, Arrive(c, kind)
         PROVE  TypeOK'
    BY <1>10 DEF Arrive
  <1>11. CASE EndOfStream \/ SignalFires
    BY <1>11 DEF EndOfStream, SignalFires
  <1>12. CASE UNCHANGED vars
    BY <1>12 DEF vars
  <1> QED
    BY <1>1, <1>2, <1>3, <1>4, <1>5, <1>6, <1>7, <1>8, <1>9, <1>10, <1>11, <1>12
    DEF Next, MainStep, Environment, Terminated

(* Every variable keeps its type, whatever Conn and BlockingThreads are     *)
(* (src/http.rs:352-463).                                                   *)
THEOREM TypeCorrect == Spec => []TypeOK
  BY TypeInit, TypeStep, PTL DEF Spec

-------------------------------------------------------------------------------
(* The inductive invariant.  One lemma for each of its parts, with a step   *)
(* for every action that can disturb the part.                              *)

LEMMA HoldersStep ==
  TypeOK /\ HoldersExact /\ QueuesExact /\ [Next]_vars => HoldersExact'
  <1> SUFFICES ASSUME TypeOK, HoldersExact, QueuesExact, [Next]_vars PROVE HoldersExact'
    OBVIOUS
  <1> USE MainAssumption DEF TypeOK, HoldersExact, Watch!TypeOK, Graceful, RunningStage,
          loopVars, taskVars, watchVars
  <1>1. ASSUME NEW c \in Conn, SkipNonFatal(c) PROVE HoldersExact'
    <2>1. stage[c] = "queued"
      BY <1>1, HeadWaits DEF SkipNonFatal, QueuesExact
    <2> QED
      BY <1>1, <2>1 DEF SkipNonFatal
  <1>2. ASSUME NEW c \in Conn, Spawn(c) PROVE HoldersExact'
    BY <1>2 DEF Spawn, Subscribe, Watch!Clone
  <1>3. ASSUME LeaveLoop PROVE HoldersExact'
    BY <1>3 DEF LeaveLoop
  <1>4. ASSUME Broadcast PROVE HoldersExact'
    BY <1>4 DEF Broadcast, Watch!Send
  <1>5. ASSUME ReleaseReceiver PROVE HoldersExact'
    BY <1>5 DEF ReleaseReceiver, Watch!Drop
  <1>6. ASSUME Return PROVE HoldersExact'
    BY <1>6 DEF Return, CloseListener, Watch!DropSender, Watch!Closed
  <1>7. ASSUME Abort PROVE HoldersExact'
    BY <1>7 DEF Abort, CloseListener, Watch!DropSenderAnd
  <1>8. ASSUME NEW c \in Conn, NEW after \in {"absent", "upgraded"}, EndTask(c, after),
               UNCHANGED loopVars
        PROVE  HoldersExact'
    BY <1>8 DEF EndTask, Watch!Drop
  <1>9. ASSUME NEW c \in Conn, TaskStep(c) PROVE HoldersExact'
    <2>1. CASE ServePlain(c)
      BY <2>1 DEF ServePlain, StartServing
    <2>2. CASE OffloadHandshake(c)
      BY <2>2 DEF OffloadHandshake
    <2>3. CASE StartHandshake(c)
      <3>1. stage[c] = "waitingThread"
        BY <2>3, HeadWaits DEF StartHandshake, QueuesExact
      <3> QED
        BY <2>3, <3>1 DEF StartHandshake
    <2>4. CASE ObserveShutdown(c)
      BY <2>4 DEF ObserveShutdown, Watch!MarkSeen
    <2>5. CASE DropFailedAccept(c) \/ ConnEnds(c) \/ Upgrade(c) \/ FinishUnwinding(c)
      BY <1>8, <2>5 DEF DropFailedAccept, ConnEnds, Upgrade, FinishUnwinding
    <2>6. CASE TaskPanics(c)
      BY <2>6 DEF TaskPanics
    <2> QED
      BY <1>9, <2>1, <2>2, <2>3, <2>4, <2>5, <2>6 DEF TaskStep
  <1>10. ASSUME NEW c \in Conn, PeerStep(c) PROVE HoldersExact'
    <2>1. CASE HandshakeSucceeds(c)
      BY <2>1 DEF HandshakeSucceeds, StartServing
    <2>2. CASE HandshakeFails(c)
      BY <1>8, <2>2 DEF HandshakeFails
    <2>3. CASE RequestArrives(c) \/ Respond(c) \/ AckGoAway(c) \/ Disconnect(c)
      BY <2>3 DEF RequestArrives, Respond, AckGoAway, Disconnect, HttpStep
    <2>4. CASE UpgradedCloses(c)
      BY <2>4 DEF UpgradedCloses
    <2> QED
      BY <1>10, <2>1, <2>2, <2>3, <2>4 DEF PeerStep
  <1>11. ASSUME NEW c \in Conn, NEW kind \in {"ok", "nonfatal", "fatal"}, Arrive(c, kind)
         PROVE  HoldersExact'
    BY <1>11 DEF Arrive
  <1>12. CASE EndOfStream \/ SignalFires
    BY <1>12 DEF EndOfStream, SignalFires
  <1>13. CASE UNCHANGED vars
    BY <1>13 DEF vars
  <1> QED
    BY <1>1, <1>2, <1>3, <1>4, <1>5, <1>6, <1>7, <1>9, <1>10, <1>11, <1>12, <1>13
    DEF Next, MainStep, Environment, Terminated

LEMMA ChannelStep ==
  TypeOK /\ HoldersExact /\ ChannelFollowsMain /\ [Next]_vars => ChannelFollowsMain'
  <1> SUFFICES ASSUME TypeOK, HoldersExact, ChannelFollowsMain, [Next]_vars
               PROVE  ChannelFollowsMain'
    OBVIOUS
  <1> USE DEF TypeOK, HoldersExact, ChannelFollowsMain, Watch!TypeOK, Over,
          loopVars, taskVars, watchVars
  <1>1. ASSUME UNCHANGED <<pc, signal, version, senderAlive>> PROVE ChannelFollowsMain'
    BY <1>1
  <1>2. ASSUME NEW c \in Conn, SkipNonFatal(c) \/ Spawn(c) PROVE ChannelFollowsMain'
    BY <1>1, <1>2 DEF SkipNonFatal, Spawn, Subscribe, Watch!Clone
  <1>3. ASSUME LeaveLoop PROVE ChannelFollowsMain'
    BY <1>3 DEF LeaveLoop
  <1>4. ASSUME Broadcast PROVE ChannelFollowsMain'
    BY <1>4 DEF Broadcast, Watch!Send
  <1>5. ASSUME ReleaseReceiver PROVE ChannelFollowsMain'
    BY <1>5 DEF ReleaseReceiver, Watch!Drop
  <1>6. ASSUME Return PROVE ChannelFollowsMain'
    BY <1>6 DEF Return, Watch!DropSender
  <1>7. ASSUME Abort PROVE ChannelFollowsMain'
    BY <1>7 DEF Abort, Watch!DropSenderAnd
  <1>8. ASSUME NEW c \in Conn, TaskStep(c) PROVE ChannelFollowsMain'
    <2>1. UNCHANGED <<pc, signal, version, senderAlive>>
      BY <1>8 DEF TaskStep, DropFailedAccept, ServePlain, OffloadHandshake, StartHandshake,
         ObserveShutdown, ConnEnds, Upgrade, TaskPanics, FinishUnwinding,
         StartServing, EndTask, Watch!Drop, Watch!MarkSeen
    <2> QED
      BY <1>1, <2>1
  <1>9. ASSUME NEW c \in Conn, PeerStep(c) PROVE ChannelFollowsMain'
    <2>1. UNCHANGED <<pc, signal, version, senderAlive>>
      BY <1>9 DEF PeerStep, HandshakeSucceeds, HandshakeFails, RequestArrives, Respond,
         AckGoAway, Disconnect, UpgradedCloses, HttpStep, StartServing, EndTask, Watch!Drop
    <2> QED
      BY <1>1, <2>1
  <1>10. ASSUME NEW c \in Conn, NEW kind \in {"ok", "nonfatal", "fatal"}, Arrive(c, kind)
         PROVE  ChannelFollowsMain'
    BY <1>1, <1>10 DEF Arrive
  <1>11. CASE EndOfStream \/ SignalFires
    BY <1>11 DEF EndOfStream, SignalFires
  <1>12. CASE UNCHANGED vars
    BY <1>1, <1>12 DEF vars
  <1> QED
    BY <1>2, <1>3, <1>4, <1>5, <1>6, <1>7, <1>8, <1>9, <1>10, <1>11, <1>12
    DEF Next, MainStep, Environment, Terminated

LEMMA UntoldStep ==
  TypeOK /\ UntoldUnseen /\ QueuesExact /\ [Next]_vars => UntoldUnseen'
  <1> SUFFICES ASSUME TypeOK, UntoldUnseen, QueuesExact, [Next]_vars PROVE UntoldUnseen'
    OBVIOUS
  <1> USE MainAssumption DEF TypeOK, UntoldUnseen, Watch!TypeOK, Graceful, Running,
          RunningStage, loopVars, taskVars, watchVars
  (* Most steps leave the channel and hyper alone, and start no task.       *)
  <1>1. ASSUME UNCHANGED <<seen, http>>, signal # "none" <=> signal' # "none",
               Running' \subseteq Running
        PROVE  UntoldUnseen'
    BY <1>1
  <1>2. ASSUME NEW c \in Conn, SkipNonFatal(c) PROVE UntoldUnseen'
    BY <1>2 DEF SkipNonFatal
  <1>3. ASSUME NEW c \in Conn, Spawn(c) PROVE UntoldUnseen'
    BY <1>3 DEF Spawn, Subscribe, Watch!Clone
  <1>4. CASE LeaveLoop \/ Broadcast \/ ReleaseReceiver \/ EndOfStream \/ SignalFires
    BY <1>4 DEF LeaveLoop, Broadcast, ReleaseReceiver, EndOfStream, SignalFires,
       Watch!Send, Watch!Drop
  <1>5. CASE Return \/ Abort
    BY <1>1, <1>5 DEF Return, Abort, CloseListener, Watch!DropSender, Watch!DropSenderAnd
  <1>6. ASSUME NEW c \in Conn, NEW after \in {"absent", "upgraded"}, EndTask(c, after),
               UNCHANGED loopVars
        PROVE  UntoldUnseen'
    BY <1>6 DEF EndTask, Watch!Drop
  <1>7. ASSUME NEW c \in Conn, TaskStep(c) PROVE UntoldUnseen'
    <2>1. CASE ServePlain(c)
      BY <2>1 DEF ServePlain, StartServing
    <2>2. CASE OffloadHandshake(c)
      BY <2>2 DEF OffloadHandshake
    <2>3. CASE StartHandshake(c)
      <3>1. stage[c] = "waitingThread"
        BY <2>3, HeadWaits DEF StartHandshake, QueuesExact
      <3> QED
        BY <2>3, <3>1 DEF StartHandshake
    <2>4. CASE ObserveShutdown(c)
      <3>1. PICK h \in Http!AfterGracefulShutdown(http[c]) : http' = [http EXCEPT ![c] = h]
        BY <2>4 DEF ObserveShutdown
      <3>2. h.closing # "no"
        BY <3>1, GracefulShutdownTells
      <3> QED
        BY <2>4, <3>1, <3>2 DEF ObserveShutdown, Watch!MarkSeen
    <2>5. CASE DropFailedAccept(c) \/ ConnEnds(c) \/ Upgrade(c) \/ FinishUnwinding(c)
      BY <1>6, <2>5 DEF DropFailedAccept, ConnEnds, Upgrade, FinishUnwinding
    <2>6. CASE TaskPanics(c)
      BY <2>6 DEF TaskPanics
    <2> QED
      BY <1>7, <2>1, <2>2, <2>3, <2>4, <2>5, <2>6 DEF TaskStep
  <1>8. ASSUME NEW c \in Conn, PeerStep(c) PROVE UntoldUnseen'
    <2>1. CASE HandshakeSucceeds(c)
      BY <2>1 DEF HandshakeSucceeds, StartServing
    <2>2. CASE HandshakeFails(c)
      BY <1>6, <2>2 DEF HandshakeFails
    <2>3. ASSUME NEW h, HttpStep(c, h), h.closing = "no" => http[c].closing = "no"
          PROVE  UntoldUnseen'
      BY <2>3 DEF HttpStep
    <2>4. CASE RequestArrives(c) \/ Respond(c) \/ AckGoAway(c) \/ Disconnect(c)
      BY <2>3, <2>4, HttpKeepsClosing DEF RequestArrives, Respond, AckGoAway, Disconnect
    <2>5. CASE UpgradedCloses(c)
      BY <2>5 DEF UpgradedCloses
    <2> QED
      BY <1>8, <2>1, <2>2, <2>4, <2>5 DEF PeerStep
  <1>9. ASSUME NEW c \in Conn, NEW kind \in {"ok", "nonfatal", "fatal"}, Arrive(c, kind)
         PROVE  UntoldUnseen'
    BY <1>9 DEF Arrive
  <1>10. CASE UNCHANGED vars
    BY <1>10 DEF vars
  <1> QED
    BY <1>2, <1>3, <1>4, <1>5, <1>7, <1>8, <1>9, <1>10
    DEF Next, MainStep, Environment, Terminated

LEMMA QueuesStep ==
  TypeOK /\ QueuesExact /\ [Next]_vars => QueuesExact'
  <1> SUFFICES ASSUME TypeOK, QueuesExact, [Next]_vars PROVE QueuesExact'
    OBVIOUS
  <1> USE DEF TypeOK, QueuesExact, loopVars, taskVars
  <1>1. ASSUME UNCHANGED <<incoming, pool, stage>> PROVE QueuesExact'
    BY <1>1
  (* A connection outside both queues moves to a stage outside them.        *)
  <1>2. ASSUME NEW c \in Conn, NEW to, stage[c] \notin {"queued", "waitingThread"},
               to \notin {"queued", "waitingThread"},
               stage' = [stage EXCEPT ![c] = to], UNCHANGED <<incoming, pool>>
        PROVE  QueuesExact'
    BY <1>2, OthersWait
  (* The head of the incoming stream is taken.                              *)
  <1>3. ASSUME NEW c \in Conn, NEW to, to \notin {"queued", "waitingThread"},
               HeadOf(incoming, c), incoming' = Tail(incoming),
               stage' = [stage EXCEPT ![c] = to], UNCHANGED pool
        PROVE  QueuesExact'
    <2>1. Waits(incoming, "queued", stage)'
      BY <1>3, TailWaits
    <2>2. stage[c] = "queued"
      BY <1>3, HeadWaits
    <2>3. Waits(pool, "waitingThread", stage)'
      BY <1>3, <2>2, OthersWait
    <2> QED
      BY <2>1, <2>3
  <1>4. ASSUME NEW c \in Conn, SkipNonFatal(c) \/ Spawn(c) PROVE QueuesExact'
    BY <1>3, <1>4 DEF SkipNonFatal, Spawn
  <1>5. CASE LeaveLoop \/ Broadcast \/ ReleaseReceiver \/ EndOfStream \/ SignalFires
    BY <1>1, <1>5 DEF LeaveLoop, Broadcast, ReleaseReceiver, EndOfStream, SignalFires
  <1>6. ASSUME CloseListener PROVE QueuesExact'
    BY <1>6 DEF CloseListener, Waits
  <1>7. CASE Return \/ Abort
    BY <1>6, <1>7 DEF Return, Abort
  <1>8. ASSUME NEW c \in Conn, TaskStep(c) PROVE QueuesExact'
    <2>1. CASE ServePlain(c)
      BY <1>2, <2>1 DEF ServePlain, StartServing
    <2>2. CASE OffloadHandshake(c)
      BY <2>2, AppendWaits, OthersWait DEF OffloadHandshake
    <2>3. CASE StartHandshake(c)
      <3>1. Waits(pool, "waitingThread", stage)'
        BY <2>3, TailWaits DEF StartHandshake
      <3>2. stage[c] = "waitingThread"
        BY <2>3, HeadWaits DEF StartHandshake
      <3>3. Waits(incoming, "queued", stage)'
        BY <2>3, <3>2, OthersWait DEF StartHandshake
      <3> QED
        BY <3>1, <3>3
    <2>4. CASE ObserveShutdown(c)
      BY <1>1, <2>4 DEF ObserveShutdown
    <2>5. CASE DropFailedAccept(c) \/ ConnEnds(c) \/ Upgrade(c) \/ FinishUnwinding(c)
      BY <1>2, <2>5 DEF DropFailedAccept, ConnEnds, Upgrade, FinishUnwinding, EndTask
    <2>6. CASE TaskPanics(c)
      BY <1>2, <2>6 DEF TaskPanics
    <2> QED
      BY <1>8, <2>1, <2>2, <2>3, <2>4, <2>5, <2>6 DEF TaskStep
  <1>9. ASSUME NEW c \in Conn, PeerStep(c) PROVE QueuesExact'
    <2>1. CASE HandshakeSucceeds(c) \/ HandshakeFails(c) \/ UpgradedCloses(c)
      BY <1>2, <2>1
      DEF HandshakeSucceeds, HandshakeFails, UpgradedCloses, StartServing, EndTask
    <2>2. CASE RequestArrives(c) \/ Respond(c) \/ AckGoAway(c) \/ Disconnect(c)
      BY <1>1, <2>2 DEF RequestArrives, Respond, AckGoAway, Disconnect, HttpStep
    <2> QED
      BY <1>9, <2>1, <2>2 DEF PeerStep
  <1>10. ASSUME NEW c \in Conn, NEW kind \in {"ok", "nonfatal", "fatal"}, Arrive(c, kind)
         PROVE  QueuesExact'
    BY <1>10, AppendWaits, OthersWait DEF Arrive
  <1>11. CASE UNCHANGED vars
    BY <1>1, <1>11 DEF vars
  <1> QED
    BY <1>4, <1>5, <1>7, <1>8, <1>9, <1>10, <1>11
    DEF Next, MainStep, Environment, Terminated

(* What a step leaves of an accept error: no step changes the kind of an    *)
(* item that is under way.                                                  *)
LEMMA SkippedStep ==
  TypeOK /\ QueuesExact /\ NonFatalSkipped /\ [Next]_vars => NonFatalSkipped'
  <1> SUFFICES ASSUME TypeOK, QueuesExact, NonFatalSkipped, [Next]_vars
               PROVE  NonFatalSkipped'
    OBVIOUS
  <1> USE DEF TypeOK, NonFatalSkipped, Running, RunningStage, loopVars, taskVars
  <1>1. ASSUME NEW c \in Conn, SkipNonFatal(c) PROVE NonFatalSkipped'
    BY <1>1 DEF SkipNonFatal
  <1>2. ASSUME NEW c \in Conn, Spawn(c) PROVE NonFatalSkipped'
    BY <1>2 DEF Spawn
  <1>3. CASE LeaveLoop \/ Broadcast \/ ReleaseReceiver \/ EndOfStream \/ SignalFires
    BY <1>3 DEF LeaveLoop, Broadcast, ReleaseReceiver, EndOfStream, SignalFires
  <1>4. CASE Return \/ Abort
    BY <1>4 DEF Return, Abort, CloseListener
  <1>5. ASSUME NEW c \in Conn, TaskStep(c) PROVE NonFatalSkipped'
    <2>1. CASE StartHandshake(c)
      <3>1. stage[c] = "waitingThread"
        BY <2>1, HeadWaits DEF StartHandshake, QueuesExact
      <3> QED
        BY <2>1, <3>1 DEF StartHandshake
    <2>2. CASE ~StartHandshake(c)
      BY <1>5, <2>2 DEF TaskStep, DropFailedAccept, ServePlain, OffloadHandshake,
         ObserveShutdown, ConnEnds, Upgrade, TaskPanics, FinishUnwinding,
         StartServing, EndTask
    <2> QED
      BY <2>1, <2>2
  <1>6. ASSUME NEW c \in Conn, PeerStep(c) PROVE NonFatalSkipped'
    BY <1>6 DEF PeerStep, HandshakeSucceeds, HandshakeFails, RequestArrives, Respond,
       AckGoAway, Disconnect, UpgradedCloses, HttpStep, StartServing, EndTask
  <1>7. ASSUME NEW c \in Conn, NEW kind \in {"ok", "nonfatal", "fatal"}, Arrive(c, kind)
        PROVE  NonFatalSkipped'
    BY <1>7 DEF Arrive
  <1>8. CASE UNCHANGED vars
    BY <1>8 DEF vars
  <1> QED
    BY <1>1, <1>2, <1>3, <1>4, <1>5, <1>6, <1>7, <1>8
    DEF Next, MainStep, Environment, Terminated

(* Every step of hyper's connection leaves it settled, if it was.           *)
LEMMA HttpSettles ==
  ASSUME NEW h \in Http!State, Settled(h)
  PROVE  /\ Settled(Http!Fresh)
         /\ Settled(Http!Over(h))
         /\ Http!CanReceive(h) => Settled(Http!Received(h))
         /\ h.phase = "busy" => Settled(Http!Responded(h))
         /\ Http!AwaitsAck(h) => Settled(Http!Acked(h))
         /\ \A k \in Http!AfterGracefulShutdown(h) : Settled(k)
  <1> USE DEF Settled, Http!State, Http!Phase, Http!Closing
  <1>1. Settled(Http!Fresh) /\ Settled(Http!Over(h))
    BY DEF Http!Fresh, Http!Over
  <1>2. Http!CanReceive(h) => Settled(Http!Received(h))
    BY DEF Http!CanReceive, Http!Received
  <1>3. h.phase = "busy" => Settled(Http!Responded(h))
    BY DEF Http!Responded
  <1>4. Http!AwaitsAck(h) => Settled(Http!Acked(h))
    BY DEF Http!AwaitsAck, Http!Acked
  <1>5. \A k \in Http!AfterGracefulShutdown(h) : Settled(k)
    BY DEF Http!AfterGracefulShutdown
  <1> QED
    BY <1>1, <1>2, <1>3, <1>4, <1>5

LEMMA SettledStep == TypeOK /\ ToldAreSettled /\ [Next]_vars => ToldAreSettled'
  <1> SUFFICES ASSUME TypeOK, ToldAreSettled, [Next]_vars PROVE ToldAreSettled'
    OBVIOUS
  <1> USE DEF TypeOK, ToldAreSettled, loopVars, taskVars
  <1>1. ASSUME UNCHANGED http PROVE ToldAreSettled'
    BY <1>1
  <1>2. ASSUME NEW c \in Conn, NEW h, Settled(h), http' = [http EXCEPT ![c] = h]
        PROVE  ToldAreSettled'
    BY <1>2
  <1>3. CASE MainStep \/ Environment
    BY <1>1, <1>3 DEF MainStep, Environment, SkipNonFatal, Spawn, LeaveLoop, Broadcast,
       ReleaseReceiver, Return, CloseListener, Arrive, EndOfStream, SignalFires, Abort
  <1>4. ASSUME NEW c \in Conn, TaskStep(c) PROVE ToldAreSettled'
    <2>1. CASE ServePlain(c) \/ OffloadHandshake(c) \/ StartHandshake(c) \/ TaskPanics(c)
      BY <1>1, <2>1 DEF ServePlain, OffloadHandshake, StartHandshake, TaskPanics, StartServing
    <2>2. CASE DropFailedAccept(c) \/ ConnEnds(c) \/ Upgrade(c) \/ FinishUnwinding(c)
      BY <1>2, <2>2, HttpSettles
      DEF DropFailedAccept, ConnEnds, Upgrade, FinishUnwinding, EndTask
    <2>3. CASE ObserveShutdown(c)
      BY <1>2, <2>3, HttpSettles DEF ObserveShutdown
    <2> QED
      BY <1>4, <2>1, <2>2, <2>3 DEF TaskStep
  <1>5. ASSUME NEW c \in Conn, PeerStep(c) PROVE ToldAreSettled'
    <2>1. CASE HandshakeSucceeds(c) \/ UpgradedCloses(c)
      BY <1>1, <2>1 DEF HandshakeSucceeds, UpgradedCloses, StartServing
    <2>2. CASE HandshakeFails(c)
      BY <1>2, <2>2, HttpSettles DEF HandshakeFails, EndTask
    <2>3. CASE RequestArrives(c) \/ Respond(c) \/ AckGoAway(c) \/ Disconnect(c)
      BY <1>2, <2>3, HttpSettles DEF RequestArrives, Respond, AckGoAway, Disconnect, HttpStep
    <2> QED
      BY <1>5, <2>1, <2>2, <2>3 DEF PeerStep
  <1>6. CASE UNCHANGED vars
    BY <1>1, <1>6 DEF vars
  <1> QED
    BY <1>3, <1>4, <1>5, <1>6 DEF Next, Terminated

(* A task starts only while Main is in its loop.                            *)
LEMMA RunningGrowsBySpawn ==
  ASSUME TypeOK, QueuesExact, [Next]_vars, pc # "select"
  PROVE  Running' \subseteq Running
  <1> USE DEF TypeOK, Running, RunningStage, loopVars, taskVars
  <1>1. ASSUME NEW c \in Conn, TaskStep(c) PROVE Running' \subseteq Running
    <2>1. CASE StartHandshake(c)
      <3>1. stage[c] = "waitingThread"
        BY <2>1, HeadWaits DEF StartHandshake, QueuesExact
      <3> QED
        BY <2>1, <3>1 DEF StartHandshake
    <2>2. CASE ~StartHandshake(c)
      BY <1>1, <2>2 DEF TaskStep, DropFailedAccept, ServePlain, OffloadHandshake,
         ObserveShutdown, ConnEnds, Upgrade, TaskPanics, FinishUnwinding,
         StartServing, EndTask
    <2> QED
      BY <2>1, <2>2
  <1>2. ASSUME NEW c \in Conn, PeerStep(c) PROVE Running' \subseteq Running
    BY <1>2 DEF PeerStep, HandshakeSucceeds, HandshakeFails, RequestArrives, Respond,
       AckGoAway, Disconnect, UpgradedCloses, HttpStep, StartServing, EndTask
  <1>3. ASSUME NEW c \in Conn, NEW kind \in {"ok", "nonfatal", "fatal"}, Arrive(c, kind)
        PROVE  Running' \subseteq Running
    BY <1>3 DEF Arrive
  <1>4. CASE Broadcast \/ ReleaseReceiver \/ Return \/ Abort \/ EndOfStream \/ SignalFires
    BY <1>4 DEF Broadcast, ReleaseReceiver, Return, Abort, EndOfStream, SignalFires,
       CloseListener
  <1>5. CASE UNCHANGED vars
    BY <1>5 DEF vars
  <1> QED
    BY <1>1, <1>2, <1>3, <1>4, <1>5
    DEF Next, MainStep, Environment, Terminated, SkipNonFatal, Spawn, LeaveLoop

(* Main returns when nobody holds a receiver, which is when no task runs.   *)
LEMMA ReturnDrained ==
  ASSUME TypeOK, HoldersExact, ChannelFollowsMain, Return
  PROVE  Running = {} /\ Running' = {}
  <1>1. Graceful
    BY DEF Return, ChannelFollowsMain, Graceful
  <1>2. Running = {}
    BY <1>1 DEF Return, Watch!Closed, HoldersExact, Running
  <1> QED
    BY <1>2 DEF Return, CloseListener, Running, RunningStage, TypeOK

LEMMA DrainedStep == IInv /\ [Next]_vars => DrainedAtReturn'
  <1> SUFFICES ASSUME IInv, [Next]_vars, pc' = "returned" PROVE Running' = {}
    BY DEF DrainedAtReturn
  <1> USE DEF IInv
  <1>1. CASE pc = "returned"
    <2>1. Running = {}
      BY <1>1 DEF DrainedAtReturn
    <2> QED
      BY <1>1, <2>1, RunningGrowsBySpawn
  <1>2. CASE pc # "returned"
    <2>1. Return
      BY <1>2 DEF Next, MainStep, TaskStep, PeerStep, Environment, Terminated, SkipNonFatal,
         Spawn, LeaveLoop, Broadcast, ReleaseReceiver, Abort, DropFailedAccept, ServePlain,
         OffloadHandshake, StartHandshake, ObserveShutdown, ConnEnds, Upgrade, TaskPanics,
         FinishUnwinding, HandshakeSucceeds, HandshakeFails, RequestArrives, Respond,
         AckGoAway, Disconnect, UpgradedCloses, HttpStep, Arrive, EndOfStream, SignalFires, vars, loopVars
    <2> QED
      BY <2>1, ReturnDrained
  <1> QED
    BY <1>1, <1>2

LEMMA InvInit == Init => IInv
  <1> SUFFICES ASSUME Init PROVE IInv
    OBVIOUS
  <1>1. TypeOK
    BY TypeInit
  <1>2. holders = {Main} /\ seen = [h \in Conn \cup {Main} |-> 0] /\ version = 0
        /\ senderAlive = TRUE
    BY DEF Init, Watch!Channel
  <1>3. HoldersExact /\ ChannelFollowsMain /\ UntoldUnseen /\ DrainedAtReturn
    BY <1>2, MainAssumption DEF Init, HoldersExact, ChannelFollowsMain, UntoldUnseen,
       DrainedAtReturn, Running, RunningStage, Over
  <1>4. QueuesExact
    BY DEF Init, QueuesExact, Waits
  <1>5. NonFatalSkipped /\ ToldAreSettled
    BY DEF Init, Running, NonFatalSkipped, ToldAreSettled, Settled, Http!Fresh
  <1> QED
    BY <1>1, <1>3, <1>4, <1>5 DEF IInv

LEMMA InvStep == IInv /\ [Next]_vars => IInv'
  BY TypeStep, HoldersStep, ChannelStep, UntoldStep, QueuesStep, SkippedStep, SettledStep,
     DrainedStep DEF IInv

THEOREM Inductive == Spec => []IInv
  BY InvInit, InvStep, PTL DEF Spec

(* A server that returned has no task running, whatever the connections did *)
(* and however their tasks ended (src/http.rs:459).                         *)
THEOREM Drained == Spec => []DrainedAtReturn
  <1>1. IInv => DrainedAtReturn
    BY DEF IInv
  <1> QED
    BY <1>1, Inductive, PTL

(* No connection, at whatever point of its accept or handshake, misses the  *)
(* shutdown (src/http.rs:103-105, 404, 452).                                *)
THEOREM ShutdownNotMissed == Spec => []NoMissedShutdown
  <1>1. IInv => NoMissedShutdown
    BY MainAssumption DEF IInv, TypeOK, Watch!TypeOK, HoldersExact, UntoldUnseen,
       NoMissedShutdown, Watch!HasChanged, Running, RunningStage
  <1> QED
    BY <1>1, Inductive, PTL

(* A shutdown that waits waits for somebody who can go on, whatever stage   *)
(* its tasks are in and however long the queue for a thread is              *)
(* (src/http.rs:54-58, 99-137, 453-459).                                    *)
THEOREM DrainGoesOn == Spec => []DrainNeverStuck
  <1>1. IInv => DrainNeverStuck
    <2> SUFFICES ASSUME IInv, pc = "waiting" PROVE DrainNeverStuck
      BY DEF DrainNeverStuck
    <2> USE DEF IInv, TypeOK
    <2>1. Graceful /\ version > 0 /\ senderAlive
      BY DEF ChannelFollowsMain, Graceful, Over
    <2>2. Watch!Closed <=> Running = {}
      BY <2>1 DEF HoldersExact, Watch!Closed, Watch!TypeOK, Running
    <2>3. ASSUME NEW c \in Running, stage[c] = "serving" PROVE CanGoOn(c)
      <3>1. c \in Conn /\ http[c] \in Http!State /\ Settled(http[c]) /\ c \in holders
        BY <2>1 DEF Running, ToldAreSettled, HoldersExact
      <3>2. http[c].closing = "no" => Watch!HasChanged(c)
        BY <2>1, <3>1 DEF UntoldUnseen, Watch!HasChanged
      <3> QED
        BY <2>3, <3>1, <3>2 DEF CanGoOn, Settled, Http!State, Http!Phase, Http!Closing,
           Http!AwaitsAck
    <2>4. ASSUME NEW c \in Running, stage[c] # "waitingThread" PROVE CanGoOn(c)
      BY <2>3, <2>4 DEF Running, RunningStage, CanGoOn, NonFatalSkipped
    <2>5. ASSUME NEW c \in Running, stage[c] = "waitingThread"
          PROVE  \E d \in Running : CanGoOn(d)
      <3>1. CASE Handshaking = {}
        <4>1. Cardinality(Handshaking) < BlockingThreads
          BY <3>1, FS_EmptySet, PoolAssumption
        <4>2. PICK d \in Conn : HeadOf(pool, d) /\ stage[d] = "waitingThread"
          <5>1. c \in Conn /\ stage \in [Conn -> Stage] /\ pool \in Seq(Conn)
                /\ Waits(pool, "waitingThread", stage)
            BY DEF QueuesExact, Running
          <5>2. \E d \in Conn : HeadOf(pool, d)
            BY <2>5, <5>1, WaitingHasHead
          <5> QED
            BY <5>1, <5>2, HeadWaits
        <4> QED
          BY <4>1, <4>2 DEF CanGoOn, Running, RunningStage
      <3>2. CASE Handshaking # {}
        BY <3>2 DEF CanGoOn, Handshaking, Running, RunningStage
      <3> QED
        BY <3>1, <3>2
    <2> QED
      BY <2>2, <2>4, <2>5 DEF DrainNeverStuck
  <1> QED
    BY <1>1, Inductive, PTL

-------------------------------------------------------------------------------
(* What is left of a drain.                                                 *)

(* Told or cut off, a connection of hyper has less left; a request it may   *)
(* still take leaves it with as much.                                       *)
LEMMA HttpDescends ==
  ASSUME NEW h \in Http!State
  PROVE  /\ LeftOfConnection(h) \in 2..5
         /\ h.phase # "over" => LeftOfConnection(Http!Over(h)) < LeftOfConnection(h)
         /\ Http!CanReceive(h) => LeftOfConnection(Http!Received(h)) = LeftOfConnection(h)
         /\ h.phase = "busy" => LeftOfConnection(Http!Responded(h)) <= LeftOfConnection(h)
         /\ h.phase = "busy" /\ h.closing = "final" =>
              LeftOfConnection(Http!Responded(h)) < LeftOfConnection(h)
         /\ Http!AwaitsAck(h) => LeftOfConnection(Http!Acked(h)) < LeftOfConnection(h)
         /\ h.closing = "no" => \A k \in Http!AfterGracefulShutdown(h) :
                                 LeftOfConnection(k) < LeftOfConnection(h)
  <1> USE DEF LeftOfConnection, Http!State, Http!Phase, Http!Closing
  <1>1. LeftOfConnection(h) \in 2..5
    OBVIOUS
  <1>2. h.phase # "over" => LeftOfConnection(Http!Over(h)) < LeftOfConnection(h)
    BY DEF Http!Over
  <1>3. Http!CanReceive(h) => LeftOfConnection(Http!Received(h)) = LeftOfConnection(h)
    BY DEF Http!CanReceive, Http!Received
  <1>4. h.phase = "busy" =>
          /\ LeftOfConnection(Http!Responded(h)) <= LeftOfConnection(h)
          /\ h.closing = "final" => LeftOfConnection(Http!Responded(h)) < LeftOfConnection(h)
    BY DEF Http!Responded
  <1>5. Http!AwaitsAck(h) => LeftOfConnection(Http!Acked(h)) < LeftOfConnection(h)
    BY DEF Http!AwaitsAck, Http!Acked
  <1>6. h.closing = "no" => \A k \in Http!AfterGracefulShutdown(h) :
                              LeftOfConnection(k) < LeftOfConnection(h)
    BY DEF Http!AfterGracefulShutdown
  <1> QED
    BY <1>1, <1>2, <1>3, <1>4, <1>5, <1>6

(* Every step of a task is one that leaves it less, or a request that it    *)
(* could still take.                                                        *)
LEMMA TaskDescends ==
  ASSUME IInv, TypeOK', NEW c \in Conn, TaskStep(c) \/ PeerStep(c)
  PROVE  Descends(c)
  <1>1. LeftOfConnection(http[c]) \in 2..5 /\ LeftOf(c) \in 0..8 /\ LeftOf(c)' \in 0..8
    <2>1. http[c] \in Http!State /\ http'[c] \in Http!State
      BY DEF IInv, TypeOK
    <2> QED
      BY <2>1, HttpDescends DEF LeftOf
  <1>2. LeftOf(c)' < LeftOf(c) => Descends(c)
    BY <1>1 DEF Descends
  <1> USE DEF IInv, TypeOK
  <1>3. ASSUME NEW s \in {"absent", "upgraded"}, stage[c] \in RunningStage, EndTask(c, s)
        PROVE  LeftOf(c)' < LeftOf(c)
    BY <1>1, <1>3 DEF EndTask, RunningStage, LeftOf
  <1>4. ASSUME NEW h \in Http!State, stage[c] = "serving", stage' = stage,
               http' = [http EXCEPT ![c] = h]
        PROVE  LeftOf(c) = LeftOfConnection(http[c]) /\ LeftOf(c)' = LeftOfConnection(h)
    BY <1>4 DEF LeftOf
  <1>5. CASE DropFailedAccept(c) \/ ConnEnds(c) \/ Upgrade(c) \/ FinishUnwinding(c)
             \/ HandshakeFails(c)
    BY <1>2, <1>3, <1>5 DEF DropFailedAccept, ConnEnds, Upgrade, FinishUnwinding, HandshakeFails,
       RunningStage
  <1>6. CASE ServePlain(c) \/ OffloadHandshake(c) \/ TaskPanics(c) \/ HandshakeSucceeds(c)
    BY <1>1, <1>2, <1>6 DEF ServePlain, OffloadHandshake, TaskPanics, HandshakeSucceeds,
       StartServing, LeftOf
  <1>7. CASE StartHandshake(c)
    <2>1. stage[c] = "waitingThread"
      BY <1>7, HeadWaits DEF StartHandshake, QueuesExact
    <2> QED
      BY <1>2, <1>7, <2>1 DEF StartHandshake, LeftOf
  <1>8. CASE ObserveShutdown(c)
    <2>1. PICK h \in Http!AfterGracefulShutdown(http[c]) : http' = [http EXCEPT ![c] = h]
      BY <1>8 DEF ObserveShutdown
    <2>2. h \in Http!State /\ LeftOfConnection(h) < LeftOfConnection(http[c])
      BY <1>8, <2>1, HttpDescends, HttpTypes DEF ObserveShutdown
    <2> QED
      BY <1>2, <1>4, <1>8, <2>1, <2>2 DEF ObserveShutdown
  <1>9. CASE RequestArrives(c)
    <2>1. LeftOf(c)' = LeftOf(c)
      <3>1. /\ Http!Received(http[c]) \in Http!State
            /\ LeftOfConnection(Http!Received(http[c])) = LeftOfConnection(http[c])
        BY <1>9, HttpDescends, HttpTypes DEF RequestArrives
      <3> QED
        BY <1>4, <1>9, <3>1 DEF RequestArrives, HttpStep
    <2> QED
      BY <1>1, <1>9, <2>1 DEF MovesOn, Chats, Descends
  <1>10. CASE Respond(c)
    <2>1. LeftOf(c)' <= LeftOf(c) /\ (http[c].closing = "final" => LeftOf(c)' < LeftOf(c))
      <3> DEFINE h == Http!Responded(http[c])
      <3>1. /\ h \in Http!State
            /\ LeftOfConnection(h) <= LeftOfConnection(http[c])
            /\ http[c].closing = "final" => LeftOfConnection(h) < LeftOfConnection(http[c])
        BY <1>10, HttpDescends, HttpTypes DEF Respond
      <3> QED
        BY <1>4, <1>10, <3>1 DEF Respond, HttpStep
    <2> QED
      BY <1>10, <2>1 DEF MovesOn, Chats, Descends
  <1>11. CASE AckGoAway(c) \/ Disconnect(c)
    BY <1>2, <1>4, <1>11, HttpDescends, HttpTypes DEF AckGoAway, Disconnect, HttpStep,
       Http!AwaitsAck
  <1>12. CASE UpgradedCloses(c)
    BY <1>12 DEF UpgradedCloses, MovesOn, Chats, Descends, LeftOf
  <1> QED
    BY <1>5, <1>6, <1>7, <1>8, <1>9, <1>10, <1>11, <1>12 DEF TaskStep, PeerStep

(* Nobody else gives a task more to do once Main has left its loop.         *)
LEMMA DescentStep ==
  ASSUME IInv, [Next]_vars, pc # "select", NEW c \in Conn
  PROVE  Descends(c)
  <1>1. LeftOf(c) \in 0..8
    BY HttpDescends DEF IInv, TypeOK, LeftOf
  <1>2. SUFFICES ASSUME ~(TaskStep(c) \/ PeerStep(c)) PROVE LeftOf(c)' <= LeftOf(c)
    BY TaskDescends, InvStep DEF IInv, Descends, MovesOn
  <1> USE DEF IInv, TypeOK, loopVars, taskVars
  <1>3. ASSUME stage'[c] = stage[c], http'[c] = http[c] PROVE LeftOf(c)' <= LeftOf(c)
    BY <1>1, <1>3 DEF LeftOf
  <1>4. ASSUME stage'[c] \in {"absent", "queued", "upgraded"} PROVE LeftOf(c)' <= LeftOf(c)
    BY <1>1, <1>4 DEF LeftOf
  <1>5. CASE MainStep \/ EndOfStream \/ SignalFires
    BY <1>3, <1>4, <1>5 DEF MainStep, SkipNonFatal, Spawn, LeaveLoop, Broadcast, ReleaseReceiver,
       Return, CloseListener, EndOfStream, SignalFires
  <1>6. CASE Abort
    BY <1>3, <1>4, <1>6 DEF Abort, CloseListener
  <1>7. ASSUME NEW d \in Conn, NEW kind \in {"ok", "nonfatal", "fatal"}, Arrive(d, kind)
        PROVE  LeftOf(c)' <= LeftOf(c)
    BY <1>3, <1>4, <1>7 DEF Arrive
  <1>8. ASSUME NEW d \in Conn, TaskStep(d) \/ PeerStep(d) PROVE LeftOf(c)' <= LeftOf(c)
    BY <1>2, <1>3, <1>8 DEF TaskStep, PeerStep, DropFailedAccept, ServePlain, OffloadHandshake,
       StartHandshake, ObserveShutdown, ConnEnds, Upgrade, TaskPanics, FinishUnwinding,
       HandshakeSucceeds, HandshakeFails, RequestArrives, Respond, AckGoAway, Disconnect,
       UpgradedCloses, StartServing, EndTask, HttpStep
  <1>9. CASE UNCHANGED vars
    BY <1>3, <1>9 DEF vars
  <1> QED
    BY <1>5, <1>6, <1>7, <1>8, <1>9 DEF Next, Environment, Terminated

(* Every step of a task that drains leaves it with less to do, but for the  *)
(* requests it may still take; and nobody gives it more: with DrainGoesOn,  *)
(* a drain ends (src/http.rs:54-64, 86-142, 396-462).                       *)
THEOREM DrainDescends == Spec => DrainOnlyDescends
  <1>1. IInv /\ [Next]_vars => [pc # "select" => \A c \in Conn : Descends(c)]_vars
    BY DescentStep
  <1> QED
    BY <1>1, Inductive, PTL DEF Spec, DrainOnlyDescends

-------------------------------------------------------------------------------
(* A request in progress is left alone by everything but its own ends.      *)

LEMMA RequestStep ==
  ASSUME IInv, [Next]_vars, NEW c \in Conn, InFlight(c), ~InFlight(c)'
  PROVE  Respond(c) \/ Upgrade(c) \/ Disconnect(c) \/ TaskPanics(c)
  <1> USE DEF IInv, TypeOK, InFlight, loopVars, taskVars
  <1>1. ASSUME NEW d \in Conn, d # c, NEW s, NEW h,
               stage' = stage \/ stage' = [stage EXCEPT ![d] = s],
               http' = http \/ http' = [http EXCEPT ![d] = h]
        PROVE  FALSE
    BY <1>1
  <1>2. ASSUME NEW d \in Conn, SkipNonFatal(d) \/ Spawn(d) PROVE FALSE
    <2>1. stage[d] = "queued"
      BY <1>2, HeadWaits DEF SkipNonFatal, Spawn, QueuesExact
    <2> QED
      BY <1>2, <2>1 DEF SkipNonFatal, Spawn
  <1>3. CASE LeaveLoop \/ Broadcast \/ ReleaseReceiver \/ EndOfStream \/ SignalFires
    BY <1>3 DEF LeaveLoop, Broadcast, ReleaseReceiver, EndOfStream, SignalFires
  <1>4. CASE Return \/ Abort
    BY <1>4 DEF Return, Abort, CloseListener
  <1>5. ASSUME NEW d \in Conn, TaskStep(d) \/ PeerStep(d), d # c PROVE FALSE
    BY <1>5 DEF TaskStep, PeerStep, DropFailedAccept, ServePlain, OffloadHandshake,
       StartHandshake, ObserveShutdown, ConnEnds, Upgrade, TaskPanics, FinishUnwinding,
       HandshakeSucceeds,
       HandshakeFails, RequestArrives, Respond, AckGoAway, Disconnect, UpgradedCloses,
       StartServing, EndTask, HttpStep
  <1>6. CASE TaskStep(c)
    <2>1. CASE ObserveShutdown(c)
      <3>1. PICK h \in Http!AfterGracefulShutdown(http[c]) : http' = [http EXCEPT ![c] = h]
        BY <2>1 DEF ObserveShutdown
      <3>2. h.phase = "busy"
        BY <3>1 DEF Http!AfterGracefulShutdown, Http!State, Http!Phase, Http!Closing
      <3> QED
        BY <2>1, <3>1, <3>2 DEF ObserveShutdown
    <2>2. CASE StartHandshake(c)
      BY <2>2, HeadWaits DEF StartHandshake, QueuesExact
    <2> QED
      BY <1>6, <2>1, <2>2 DEF TaskStep, DropFailedAccept, ServePlain, OffloadHandshake,
         ConnEnds, FinishUnwinding
  <1>7. CASE PeerStep(c)
    BY <1>7 DEF PeerStep, HandshakeSucceeds, HandshakeFails, RequestArrives, AckGoAway,
       UpgradedCloses, HttpStep, Http!CanReceive, Http!Received, Http!Acked, Http!State
  <1>8. ASSUME NEW d \in Conn, NEW kind \in {"ok", "nonfatal", "fatal"}, Arrive(d, kind)
        PROVE  FALSE
    BY <1>8 DEF Arrive
  <1>9. CASE UNCHANGED vars
    BY <1>9 DEF vars
  <1> QED
    BY <1>2, <1>3, <1>4, <1>5, <1>6, <1>7, <1>8, <1>9
    DEF Next, MainStep, Environment, Terminated

(* The shutdown and the dropping of the server future cut no request        *)
(* (src/http.rs:133-137).                                                   *)
THEOREM RequestsKept == Spec => RequestsNotCut
  <1>1. IInv /\ [Next]_vars =>
          [\A c \in Conn : InFlight(c) /\ ~InFlight(c)' =>
             Respond(c) \/ Upgrade(c) \/ Disconnect(c) \/ TaskPanics(c)]_vars
    BY RequestStep
  <1> QED
    BY <1>1, Inductive, PTL DEF Spec, RequestsNotCut

-------------------------------------------------------------------------------
(* Refinement: each step of the server is one of GracefulShutdown, or none. *)

LEMMA RefinementInit == Init => Abstract!Init
  BY DEF Init, Abstract!Init, Phase, Running, RunningStage

LEMMA RefinementStep == IInv /\ [Next]_vars => [Abstract!Next]_(Abstract!vars)
  <1> SUFFICES ASSUME IInv, [Next]_vars PROVE Abstract!Next \/ UNCHANGED Abstract!vars
    OBVIOUS
  <1> USE DEF IInv, TypeOK, Abstract!vars, loopVars, taskVars
  <1>1. ASSUME NEW c \in Conn, Spawn(c) PROVE Abstract!Admit(c)
    <2>1. stage[c] = "queued"
      BY <1>1, HeadWaits DEF Spawn, QueuesExact
    <2> QED
      BY <1>1, <2>1 DEF Spawn, Abstract!Admit, Phase, Running, RunningStage
  <1>2. ASSUME NEW c \in Conn, NEW after \in {"absent", "upgraded"}, EndTask(c, after),
               stage[c] \in RunningStage, UNCHANGED pc
        PROVE  Abstract!Leave(c)
    BY <1>2 DEF EndTask, Abstract!Leave, Phase, Running, RunningStage
  <1>3. ASSUME UNCHANGED <<pc, stage>> PROVE UNCHANGED Abstract!vars
    BY <1>3 DEF Phase, Running
  (* A move between two stages that are both, or neither, a running task's. *)
  <1>4. ASSUME NEW c \in Conn, NEW to, stage' = [stage EXCEPT ![c] = to], UNCHANGED pc,
               stage[c] \in RunningStage <=> to \in RunningStage
        PROVE  UNCHANGED Abstract!vars
    BY <1>4 DEF Phase, Running
  <1>5. ASSUME NEW c \in Conn, SkipNonFatal(c) PROVE UNCHANGED Abstract!vars
    <2>1. stage[c] = "queued"
      BY <1>5, HeadWaits DEF SkipNonFatal, QueuesExact
    <2> QED
      BY <1>4, <1>5, <2>1 DEF SkipNonFatal, RunningStage
  <1>6. CASE LeaveLoop
    BY <1>6 DEF LeaveLoop, Abstract!Next, Abstract!BeginDrain, Phase, Running
  <1>7. CASE Broadcast \/ ReleaseReceiver
    BY <1>7 DEF Broadcast, ReleaseReceiver, Phase, Running
  <1>8. CASE Return
    BY <1>8, ReturnDrained DEF Return, Abstract!Next, Abstract!Stop, Phase
  <1>9. CASE Abort
    <2>1. Running' = Running
      BY <1>9 DEF Abort, CloseListener, Running, RunningStage
    <2> QED
      BY <1>9, <2>1 DEF Abort, Abstract!Next, Abstract!Abandon, Phase
  <1>10. ASSUME NEW c \in Conn, TaskStep(c) PROVE Abstract!Leave(c) \/ UNCHANGED Abstract!vars
    <2>1. CASE DropFailedAccept(c) \/ ConnEnds(c) \/ Upgrade(c) \/ FinishUnwinding(c)
      BY <1>2, <2>1 DEF DropFailedAccept, ConnEnds, Upgrade, FinishUnwinding, RunningStage
    <2>2. CASE ServePlain(c) \/ OffloadHandshake(c) \/ TaskPanics(c)
      BY <1>4, <2>2 DEF ServePlain, OffloadHandshake, TaskPanics, StartServing, RunningStage
    <2>3. CASE StartHandshake(c)
      BY <1>4, <2>3, HeadWaits DEF StartHandshake, QueuesExact, RunningStage
    <2>4. CASE ObserveShutdown(c)
      BY <1>3, <2>4 DEF ObserveShutdown
    <2> QED
      BY <1>10, <2>1, <2>2, <2>3, <2>4 DEF TaskStep
  <1>11. ASSUME NEW c \in Conn, PeerStep(c) PROVE Abstract!Leave(c) \/ UNCHANGED Abstract!vars
    <2>1. CASE HandshakeSucceeds(c) \/ UpgradedCloses(c)
      BY <1>4, <2>1 DEF HandshakeSucceeds, UpgradedCloses, StartServing, RunningStage
    <2>2. CASE HandshakeFails(c)
      BY <1>2, <2>2 DEF HandshakeFails, RunningStage
    <2>3. CASE RequestArrives(c) \/ Respond(c) \/ AckGoAway(c) \/ Disconnect(c)
      BY <1>3, <2>3 DEF RequestArrives, Respond, AckGoAway, Disconnect, HttpStep
    <2> QED
      BY <1>11, <2>1, <2>2, <2>3 DEF PeerStep
  <1>12. ASSUME NEW c \in Conn, NEW kind \in {"ok", "nonfatal", "fatal"}, Arrive(c, kind)
         PROVE  UNCHANGED Abstract!vars
    BY <1>4, <1>12 DEF Arrive, RunningStage
  <1>13. CASE EndOfStream \/ SignalFires \/ UNCHANGED vars
    BY <1>3, <1>13 DEF EndOfStream, SignalFires, vars
  <1> QED
    BY <1>1, <1>5, <1>6, <1>7, <1>8, <1>9, <1>10, <1>11, <1>12, <1>13
    DEF Next, MainStep, Environment, Terminated, Abstract!Next

(* The server, with its channel, loop and tasks, does what GracefulShutdown *)
(* promises (src/http.rs:352-463).                                          *)
THEOREM Refinement == Spec => ImplementsGracefulShutdown
  BY RefinementInit, RefinementStep, Inductive, PTL
  DEF Spec, ImplementsGracefulShutdown, Abstract!Spec
===============================================================================
