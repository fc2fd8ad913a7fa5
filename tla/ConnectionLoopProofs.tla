-------------------------- MODULE ConnectionLoopProofs --------------------------
(****************************************************************************)
(* Theorems about ConnectionLoop.  Its invariants are not bounded by any    *)
(* constant; what the proofs add to the model check is the argument.        *)
(****************************************************************************)
EXTENDS ConnectionLoop, TLAPS

-------------------------------------------------------------------------------
(* The branches still to be polled.                                         *)

LEMMA NothingToPoll == round = <<>> => ToPoll = {}
  BY DEF ToPoll

LEMMA ToPollSame == round' = round => ToPoll' = ToPoll
  BY DEF ToPoll

LEMMA ToPollTail ==
  ASSUME NEW b \in Branch, round \in Seq(Branch), Polling(b), round' = Tail(round)
  PROVE  /\ round' \in Seq(Branch)
         /\ Len(round') = Len(round) - 1
         /\ ToPoll \subseteq ToPoll' \cup {b}
  <1>1. /\ Len(round) \in Nat \ {0} /\ round[1] = b
        /\ Tail(round) \in Seq(Branch) /\ Len(Tail(round)) = Len(round) - 1
        /\ \A i \in 1..Len(Tail(round)) : Tail(round)[i] = round[i + 1]
    BY DEF Polling
  <1>2. ASSUME NEW i \in 1..Len(round), i # 1 PROVE round[i] \in ToPoll'
    <2>1. i - 1 \in 1..Len(Tail(round)) /\ Tail(round)[i - 1] = round[i]
      BY <1>1, <1>2
    <2> QED
      BY <2>1 DEF ToPoll
  <1> QED
    BY <1>1, <1>2 DEF ToPoll

LEMMA ToPollAll ==
  ASSUME round' \in PollOrder
  PROVE  /\ round' \in Seq(Branch)
         /\ Len(round') <= 3
         /\ Branch \subseteq ToPoll'
  <1>1. PICK x \in Branch, y \in Branch, z \in Branch :
          round' = <<x, y, z>> /\ Branch = {x, y, z}
    BY DEF PollOrder, Branch
  <1>2. /\ round' \in Seq(Branch) /\ Len(round') = 3
        /\ round'[1] = x /\ round'[2] = y /\ round'[3] = z
    BY <1>1
  <1>3. 1 \in 1..Len(round') /\ 2 \in 1..Len(round') /\ 3 \in 1..Len(round')
    BY <1>2
  <1>4. x \in ToPoll' /\ y \in ToPoll' /\ z \in ToPoll'
    BY <1>2, <1>3 DEF ToPoll
  <1> QED
    BY <1>1, <1>2, <1>4

-------------------------------------------------------------------------------
(* Hyper's connection.                                                      *)

LEMMA HttpTypes ==
  ASSUME NEW h \in Http!State
  PROVE  /\ \A e \in Event : Apply(e, h) \in Http!State
         /\ Http!AfterGracefulShutdown(h) \subseteq Http!State
  <1> USE DEF Http!State, Http!Phase, Http!Closing
  <1>1. ASSUME NEW e \in Event PROVE Apply(e, h) \in Http!State
    BY DEF Apply, Http!Received, Http!Responded, Http!Acked, Http!Over, Http!CanReceive,
       Http!AwaitsAck
  <1>2. Http!AfterGracefulShutdown(h) \subseteq Http!State
    BY DEF Http!AfterGracefulShutdown
  <1> QED
    BY <1>1, <1>2

-------------------------------------------------------------------------------
(* Types.                                                                   *)

LEMMA TypeInit == Init => TypeOK
  <1> SUFFICES ASSUME Init PROVE TypeOK
    OBVIOUS
  <1>1. conn \in Http!State
    BY DEF Init, Http!State, Http!Phase, Http!Closing, Http!Fresh
  <1>2. round \in Seq(Branch) /\ Len(round) <= 3
    BY DEF Init
  <1> QED
    BY <1>1, <1>2 DEF Init, TypeOK, Future, FuseState

LEMMA FutureTypes ==
  /\ \A f \in Future : PollFuture(f).after \in Future
  /\ \A f \in FuseState : PollFuse(f).after \in FuseState
  BY DEF Future, FuseState, PollFuture, PollFuse

LEMMA TypeStep == TypeOK /\ [Next]_vars => TypeOK'
  <1> SUFFICES ASSUME TypeOK, [Next]_vars PROVE TypeOK'
    OBVIOUS
  <1> USE DEF TypeOK, hyperVars
  <1>1. CASE StartPoll
    <2>1. round' \in Seq(Branch) /\ Len(round') <= 3
      BY <1>1, ToPollAll DEF StartPoll
    <2> QED
      BY <1>1, <2>1 DEF StartPoll
  <1>2. CASE Park
    BY <1>2 DEF Park
  <1>3. ASSUME NEW e \in Event, TakeEvent(e) PROVE TypeOK'
    <2>1. conn' \in Http!State
      BY <1>3, HttpTypes DEF TakeEvent
    <2> QED
      BY <1>3, <2>1 DEF TakeEvent
  <1>4. CASE Flush
    BY <1>4 DEF Flush
  (* A branch moves out of the way of the next.                             *)
  <1>5. ASSUME NEW b \in Branch, Polling(b), round' = Tail(round)
        PROVE  round' \in Seq(Branch) /\ Len(round') <= 3
    BY <1>5, ToPollTail
  <1>6. CASE ConnPending \/ ConnYields
    BY <1>5, <1>6 DEF ConnPending, ConnYields, BranchPending, Branch
  <1>7. CASE ConnReady
    BY <1>7 DEF ConnReady
  <1>8. ASSUME GracefulShutdown PROVE conn' \in Http!State /\ wire' \subseteq Event
                                     /\ unsent' \in BOOLEAN
    BY <1>8, HttpTypes DEF GracefulShutdown
  <1>9. CASE PollAge
    <2>1. CASE PollFuture(age).result = "pending" /\ BranchPending("age", age = "pending")
               /\ UNCHANGED <<hyperVars, age, woken>>
      BY <1>5, <1>9, <2>1 DEF PollAge, BranchPending, Branch
    <2>2. CASE AgeArm
      <3>1. round' \in Seq(Branch) /\ Len(round') <= 3
        BY <2>2, ToPollAll DEF AgeArm, SelectAgain
      <3> QED
        BY <1>8, <1>9, <2>2, <3>1 DEF PollAge, AgeArm, Future
    <2>3. CASE Panic /\ UNCHANGED age
      BY <1>9, <2>3 DEF PollAge, Panic
    <2> QED
      BY <1>9, <2>1, <2>2, <2>3 DEF PollAge
  <1>10. CASE PollSig
    <2>1. sig' \in FuseState
      BY <1>10, FutureTypes DEF PollSig
    <2>2. CASE BranchPending("sig", sig = "pending") /\ UNCHANGED <<hyperVars, woken>>
      BY <1>5, <1>10, <2>1, <2>2 DEF PollSig, BranchPending, Branch
    <2>3. CASE SigArm
      <3>1. round' \in Seq(Branch) /\ Len(round') <= 3
        BY <2>3, ToPollAll DEF SigArm, SelectAgain
      <3> QED
        BY <1>8, <1>10, <2>1, <2>3, <3>1 DEF PollSig, SigArm
    <2>4. CASE Panic
      BY <1>10, <2>1, <2>4 DEF PollSig, Panic
    <2> QED
      BY <1>10, <2>2, <2>3, <2>4 DEF PollSig
  <1>11. ASSUME NEW e \in Event, Happens(e) PROVE TypeOK'
    BY <1>11 DEF Happens, Wake
  <1>12. CASE PeerRequests \/ ServiceResponds \/ PeerAcks \/ PeerLeaves
    BY <1>11, <1>12 DEF PeerRequests, ServiceResponds, PeerAcks, PeerLeaves, Event
  <1>13. CASE TimerFires \/ WatcherChanges
    BY <1>13 DEF TimerFires, WatcherChanges, Wake, Future, FuseState
  <1>14. CASE UNCHANGED vars
    BY <1>14 DEF vars
  <1> QED
    BY <1>1, <1>2, <1>3, <1>4, <1>6, <1>7, <1>9, <1>10, <1>12, <1>13, <1>14
    DEF Next, Finished

(* Every variable of the connection's task keeps its type                   *)
(* (src/http.rs:86-142).                                                    *)
THEOREM TypeCorrect == Spec => []TypeOK
  BY TypeInit, TypeStep, PTL DEF Spec

-------------------------------------------------------------------------------
(* Completed futures.                                                       *)

LEMMA SpentStep ==
  TypeOK /\ NothingSpent /\ NoPollAfterCompletion /\ [Next]_vars
    => NothingSpent' /\ NoPollAfterCompletion'
  <1> SUFFICES ASSUME TypeOK, NothingSpent, NoPollAfterCompletion, [Next]_vars
               PROVE  NothingSpent' /\ NoPollAfterCompletion'
    OBVIOUS
  <1> USE DEF NothingSpent, NoPollAfterCompletion
  <1>1. CASE PollAge
    <2>1. PollFuture(age).result # "panic"
      BY DEF TypeOK, Future, PollFuture
    <2> QED
      BY <1>1, <2>1 DEF PollAge, BranchPending, AgeArm
  <1>2. CASE PollSig
    <2>1. PollFuse(sig).result # "panic" /\ PollFuse(sig).after # "spent"
      BY DEF TypeOK, Future, FuseState, PollFuture, PollFuse
    <2> QED
      BY <1>2, <2>1 DEF PollSig, BranchPending, SigArm
  <1>3. ASSUME NEW e \in Event, TakeEvent(e) \/ Happens(e)
        PROVE  NothingSpent' /\ NoPollAfterCompletion'
    BY <1>3 DEF TakeEvent, Happens, Wake
  <1>4. CASE StartPoll \/ Park \/ Flush \/ ConnPending \/ ConnYields \/ ConnReady
    BY <1>4 DEF StartPoll, Park, Flush, ConnPending, ConnYields, ConnReady, BranchPending
  <1>5. CASE TimerFires \/ WatcherChanges \/ UNCHANGED vars
    BY <1>5 DEF TimerFires, WatcherChanges, Wake, vars
  <1> QED
    BY <1>1, <1>2, <1>3, <1>4, <1>5
    DEF Next, PeerRequests, ServiceResponds, PeerAcks, PeerLeaves, Event, Finished

-------------------------------------------------------------------------------
(* Wakers.                                                                  *)

LEMMA QuietStep == TypeOK /\ PolledAreQuiet /\ [Next]_vars => PolledAreQuiet'
  <1> SUFFICES ASSUME TypeOK, PolledAreQuiet, [Next]_vars PROVE PolledAreQuiet'
    OBVIOUS
  <1> USE DEF TypeOK, PolledAreQuiet, Live, hyperVars
  (* A new round has every branch still to poll.                            *)
  <1>1. ASSUME round' \in PollOrder, task' = "running" PROVE PolledAreQuiet'
    BY <1>1, ToPollAll
  <1>2. CASE StartPoll
    BY <1>1, <1>2 DEF StartPoll
  <1>3. CASE Park
    BY <1>3, NothingToPoll DEF Park, ToPoll, Quiet
  <1>4. ASSUME Polling("conn"), UNCHANGED <<age, sig, task, round, woken, wakers>>
        PROVE  PolledAreQuiet'
    <2>1. "conn" \in ToPoll
      BY <1>4 DEF Polling, ToPoll
    <2> QED
      BY <1>4, <2>1, ToPollSame DEF Quiet, Polling
  <1>5. ASSUME NEW e \in Event, TakeEvent(e) PROVE PolledAreQuiet'
    BY <1>4, <1>5 DEF TakeEvent
  <1>6. CASE Flush
    BY <1>4, <1>6 DEF Flush
  (* A branch that is pending joins the quiet ones.                         *)
  <1>7. ASSUME NEW b \in Branch, Polling(b), NEW mayWake, BranchPending(b, mayWake),
               UNCHANGED <<hyperVars, age, sig, woken>>, Quiet(b)'
        PROVE  PolledAreQuiet'
    <2>1. ToPoll \subseteq ToPoll' \cup {b}
      BY <1>7, ToPollTail DEF BranchPending
    <2>2. task' = "running" /\ wakers \subseteq wakers'
      BY <1>7 DEF BranchPending, Polling
    <2>3. ASSUME NEW a \in Branch, Quiet(a) PROVE Quiet(a)'
      BY <1>7, <2>2, <2>3 DEF Quiet, BranchPending
    <2> QED
      BY <1>7, <2>1, <2>2, <2>3 DEF Polling
  <1>8. CASE ConnPending
    <2>1. Quiet("conn")'
      BY <1>8 DEF ConnPending, BranchPending, Quiet
    <2> QED
      BY <1>7, <1>8, <2>1 DEF ConnPending, Branch
  <1>9. CASE ConnYields
    BY <1>9 DEF ConnYields, Polling
  <1>10. CASE ConnReady
    BY <1>10 DEF ConnReady
  <1>11. CASE PollAge
    <2>1. CASE PollFuture(age).result = "pending" /\ BranchPending("age", age = "pending")
               /\ UNCHANGED <<hyperVars, age, woken>>
      <3>1. Quiet("age")'
        BY <2>1 DEF PollFuture, Future, BranchPending, Quiet
      <3> QED
        BY <1>7, <1>11, <2>1, <3>1 DEF PollAge, Branch
    <2>2. CASE AgeArm
      BY <1>1, <1>11, <2>2 DEF PollAge, AgeArm, SelectAgain, Polling
    <2>3. CASE Panic
      BY <2>3 DEF Panic
    <2> QED
      BY <1>11, <2>1, <2>2, <2>3 DEF PollAge
  <1>12. CASE PollSig
    <2>1. CASE PollFuse(sig).result = "pending" /\ BranchPending("sig", sig = "pending")
               /\ UNCHANGED <<hyperVars, woken>>
      <3>1. sig' = sig /\ sig # "ready"
        BY <1>12, <2>1 DEF PollSig, PollFuse, PollFuture, FuseState, Future
      <3>2. Quiet("sig")'
        BY <2>1, <3>1 DEF BranchPending, Quiet
      <3> QED
        BY <1>7, <1>12, <2>1, <3>1, <3>2 DEF PollSig, Branch
    <2>2. CASE SigArm
      BY <1>1, <1>12, <2>2 DEF PollSig, SigArm, SelectAgain, Polling
    <2>3. CASE Panic
      BY <2>3 DEF Panic
    <2> QED
      BY <1>12, <2>1, <2>2, <2>3 DEF PollSig
  (* What wakes a branch is heard: the branch had the waker, or its turn is *)
  (* still to come.                                                         *)
  <1>13. ASSUME NEW b \in Branch, Wake(b), Live,
                b \in wakers \/ woken \/ b \in ToPoll,
                \A a \in Branch \ {b} : Quiet(a) => Quiet(a)'
         PROVE  PolledAreQuiet'
    <2>1. ToPoll' = ToPoll
      BY <1>13, ToPollSame DEF Wake
    <2> QED
      BY <1>13, <2>1 DEF Wake
  <1>14. ASSUME NEW e \in Event, Happens(e) PROVE PolledAreQuiet'
    <2>1. \A a \in Branch \ {"conn"} : Quiet(a) => Quiet(a)'
      BY <1>14 DEF Happens, Wake, Quiet
    <2>2. "conn" \in wakers \/ woken \/ "conn" \in ToPoll
      BY <1>14 DEF Happens, Quiet, Branch
    <2> QED
      BY <1>13, <1>14, <2>1, <2>2 DEF Happens, Branch
  <1>15. CASE TimerFires
    <2>1. \A a \in Branch \ {"age"} : Quiet(a) => Quiet(a)'
      BY <1>15 DEF TimerFires, Wake, Quiet
    <2>2. "age" \in wakers \/ woken \/ "age" \in ToPoll
      BY <1>15 DEF TimerFires, Quiet, Branch
    <2> QED
      BY <1>13, <1>15, <2>1, <2>2 DEF TimerFires, Branch
  <1>16. CASE WatcherChanges
    <2>1. \A a \in Branch \ {"sig"} : Quiet(a) => Quiet(a)'
      BY <1>16 DEF WatcherChanges, Wake, Quiet
    <2>2. "sig" \in wakers \/ woken \/ "sig" \in ToPoll
      BY <1>16 DEF WatcherChanges, Quiet, Branch
    <2> QED
      BY <1>13, <1>16, <2>1, <2>2 DEF WatcherChanges, Branch
  <1>17. CASE UNCHANGED vars
    BY <1>17, ToPollSame DEF vars, Quiet
  <1> QED
    BY <1>2, <1>3, <1>5, <1>6, <1>8, <1>9, <1>10, <1>11, <1>12, <1>14, <1>15, <1>16, <1>17
    DEF Next, PeerRequests, ServiceResponds, PeerAcks, PeerLeaves, Event, Finished

-------------------------------------------------------------------------------
(* The end of the loop.                                                     *)

LEMMA EndStep == TypeOK /\ EndsWithConnection /\ [Next]_vars => EndsWithConnection'
  <1> SUFFICES ASSUME TypeOK, EndsWithConnection, [Next]_vars PROVE EndsWithConnection'
    OBVIOUS
  <1> USE DEF EndsWithConnection, hyperVars
  (* While the task runs only the arm of hyper's connection ends the loop.  *)
  <1>1. ASSUME task' = task, task = "done" => conn' = conn PROVE EndsWithConnection'
    BY <1>1
  <1>2. CASE ConnReady
    BY <1>2 DEF ConnReady, Polling
  <1>3. CASE StartPoll \/ Park
    BY <1>3 DEF StartPoll, Park
  <1>4. ASSUME NEW e \in Event, TakeEvent(e) \/ Happens(e) PROVE EndsWithConnection'
    BY <1>1, <1>4 DEF TakeEvent, Happens, Wake, Polling
  <1>5. CASE Flush \/ ConnPending \/ ConnYields
    BY <1>1, <1>5 DEF Flush, ConnPending, ConnYields, BranchPending
  <1>6. CASE PollAge
    BY <1>6 DEF PollAge, BranchPending, AgeArm, Panic, Polling
  <1>7. CASE PollSig
    BY <1>7 DEF PollSig, BranchPending, SigArm, Panic, Polling
  <1>8. CASE TimerFires \/ WatcherChanges \/ UNCHANGED vars
    BY <1>1, <1>8 DEF TimerFires, WatcherChanges, Wake, vars
  <1> QED
    BY <1>2, <1>3, <1>4, <1>5, <1>6, <1>7, <1>8
    DEF Next, PeerRequests, ServiceResponds, PeerAcks, PeerLeaves, Event, Finished

-------------------------------------------------------------------------------
LEMMA InvInit == Init => IInv
  BY TypeInit DEF Init, IInv, NothingSpent, NoPollAfterCompletion, PolledAreQuiet,
     EndsWithConnection

LEMMA InvStep == IInv /\ [Next]_vars => IInv'
  BY TypeStep, SpentStep, QuietStep, EndStep DEF IInv

THEOREM Inductive == Spec => []IInv
  BY InvInit, InvStep, PTL DEF Spec

(* The fuse and the reset of the sleep keep the loop from polling a future  *)
(* that has completed, however often select! goes round (src/fuse.rs:27,    *)
(* src/http.rs:131).                                                        *)
THEOREM NeverPolledAfterCompletion == Spec => []NoPollAfterCompletion
  <1>1. IInv => NoPollAfterCompletion
    BY DEF IInv
  <1> QED
    BY <1>1, Inductive, PTL

(* The connection's task never sleeps on something it could do, because     *)
(* the loop polls every branch again after each arm (src/http.rs:119-139).  *)
THEOREM WakeupsKept == Spec => []NoLostWakeup
  <1>1. IInv => NoLostWakeup
    <2> SUFFICES ASSUME IInv, task = "parked", ~woken
                 PROVE  /\ wire = {} /\ ~unsent /\ conn.phase # "over"
                        /\ sig # "ready" /\ age # "ready"
      BY DEF NoLostWakeup
    <2>1. ToPoll = {}
      BY NothingToPoll DEF IInv, PolledAreQuiet
    <2>2. \A b \in Branch : Quiet(b)
      BY <2>1 DEF IInv, PolledAreQuiet, Live
    <2> QED
      BY <2>2 DEF Branch, Quiet
  <1> QED
    BY <1>1, Inductive, PTL

(* No signal and no timer ends the loop before hyper's connection is over   *)
(* (src/http.rs:121-126).                                                   *)
THEOREM LoopEndsWithConnection == Spec => []EndsWithConnection
  <1>1. IInv => EndsWithConnection
    BY DEF IInv
  <1> QED
    BY <1>1, Inductive, PTL
===============================================================================
