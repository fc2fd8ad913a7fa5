---------------------------- MODULE ConnectionLoop ----------------------------
(****************************************************************************)
(* serve_http_connection (src/http.rs:86-142), poll by poll: a task that    *)
(* selects among hyper's connection, a timer for the connection's age and   *)
(* the fused shutdown signal, and that the runtime polls again only when    *)
(* one of the wakers it left behind was called.                             *)
(****************************************************************************)
EXTENDS Naturals, Sequences, Fuse

VARIABLES
  conn,     \* hyper's connection (HyperConn)
  wire,     \* what hyper has not taken yet: events of the peer and service
  unsent,   \* hyper has output, or its end, to see to at its next poll
  age,      \* the future of sleep_or_pending
  sig,      \* the fuse around watcher.changed()
  task,     \* "parked", "running", "done" or "panicked"
  round,    \* the branches select! still has to poll, while "running"
  woken,    \* the runtime will poll the task (again)
  wakers    \* the branches that hold the task's waker

Http == INSTANCE HyperConn

vars == <<conn, wire, unsent, age, sig, task, round, woken, wakers>>
hyperVars == <<conn, wire, unsent>>

Branch == {"conn", "age", "sig"}
Event == {"request", "response", "ack", "lost"}

(* select! starts at a random branch and goes round from there.             *)
PollOrder == {<<"conn", "age", "sig">>, <<"age", "sig", "conn">>, <<"sig", "conn", "age">>}

TypeOK == /\ conn \in Http!State
          /\ wire \subseteq Event
          /\ unsent \in BOOLEAN
          /\ age \in Future
          /\ sig \in FuseState
          /\ task \in {"parked", "running", "done", "panicked"}
          /\ round \in Seq(Branch) /\ Len(round) <= 3
          /\ woken \in BOOLEAN
          /\ wakers \subseteq Branch

(* A spawned task is scheduled.  Without max_connection_age the sleep never *)
(* ends; without a watcher the fuse is empty; the watcher may have changed  *)
(* before the connection was served.                                        *)
Init == /\ conn = Http!Fresh
        /\ wire = {}
        /\ unsent = FALSE
        /\ age \in {"never", "pending"}
        /\ sig \in {"none", "pending", "ready"}
        /\ task = "parked"
        /\ round = <<>>
        /\ woken = TRUE
        /\ wakers = {}

-------------------------------------------------------------------------------
(* The task.                                                                *)

Polling(b) == task = "running" /\ round # <<>> /\ Head(round) = b

StartPoll ==
  /\ task = "parked" /\ woken
  /\ task' = "running"
  /\ woken' = FALSE
  /\ round' \in PollOrder
  /\ UNCHANGED <<hyperVars, age, sig, wakers>>

(* Every branch is pending, and so is the task.                             *)
Park ==
  /\ task = "running" /\ round = <<>>
  /\ task' = "parked"
  /\ UNCHANGED <<hyperVars, age, sig, round, woken, wakers>>

(* Mutant: a pending branch does not take the waker.                        *)
BranchPendingUnheard(b, mayWake) ==
  /\ round' = Tail(round)
  /\ UNCHANGED <<task, wakers>>

(* A branch is pending, and the next one is polled.  What is pending for    *)
(* ever takes no waker.                                                     *)
BranchPending(b, mayWake) ==
  /\ round' = Tail(round)
  /\ wakers' = IF mayWake THEN wakers \cup {b} ELSE wakers
  /\ UNCHANGED task

(* Mutant: the branches after the one that was ready are polled, and then   *)
(* the task parks.                                                          *)
ContinueSelect == round' = Tail(round)

(* The arm has run and the loop enters select! anew.                        *)
SelectAgain == round' \in PollOrder

GracefulShutdown ==
  /\ conn' \in Http!AfterGracefulShutdown(conn)
  /\ unsent' = TRUE
  /\ UNCHANGED wire

Panic == /\ task' = "panicked"
         /\ UNCHANGED <<hyperVars, round, woken, wakers>>

-------------------------------------------------------------------------------
(* The branch of hyper's connection: a poll does some of the work there is, *)
(* and returns.                                                             *)

Apply(e, h) ==
  CASE e = "request" /\ Http!CanReceive(h) -> Http!Received(h)
    [] e = "response" /\ h.phase = "busy" -> Http!Responded(h)
    [] e = "ack" /\ Http!AwaitsAck(h) -> Http!Acked(h)
    [] e = "lost" -> Http!Over(h)
    [] OTHER -> h

TakeEvent(e) ==
  /\ Polling("conn") /\ conn.phase # "over"
  /\ e \in wire
  /\ wire' = wire \ {e}
  /\ conn' = Apply(e, conn)
  /\ UNCHANGED <<unsent, age, sig, task, round, woken, wakers>>

Flush ==
  /\ Polling("conn") /\ unsent
  /\ unsent' = FALSE
  /\ UNCHANGED <<conn, wire, age, sig, task, round, woken, wakers>>

ConnPending ==
  /\ Polling("conn") /\ conn.phase # "over" /\ wire = {} /\ ~unsent
  /\ BranchPending("conn", TRUE)
  /\ UNCHANGED <<hyperVars, age, sig, woken>>

(* Hyper leaves work for another poll, and wakes its own task.              *)
ConnYields ==
  /\ Polling("conn") /\ conn.phase # "over" /\ (wire # {} \/ unsent)
  /\ round' = Tail(round)
  /\ woken' = TRUE
  /\ UNCHANGED <<hyperVars, age, sig, task, wakers>>

(* conn is ready: the result is logged and the loop breaks.                 *)
ConnReady ==
  /\ Polling("conn") /\ conn.phase = "over"
  /\ task' = "done"
  /\ round' = <<>>
  /\ UNCHANGED <<hyperVars, age, sig, woken, wakers>>

ConnPollReturns == ConnPending \/ ConnYields \/ ConnReady

-------------------------------------------------------------------------------
(* The age of the connection.                                               *)
(* Mutant: the timer is reset, and hyper is not told.                       *)
AgeArmForgetsHyper == /\ age' = "never"
                      /\ SelectAgain
                      /\ UNCHANGED <<hyperVars, task, woken, wakers>>

AgeArm == /\ GracefulShutdown
          /\ age' = "never"             \* sleep.set(sleep_or_pending(None))
          /\ SelectAgain
          /\ UNCHANGED <<task, woken, wakers>>

PollAge ==
  LET poll == PollFuture(age) IN
  /\ Polling("age")
  /\ \/ /\ poll.result = "pending"
        /\ BranchPending("age", age = "pending")
        /\ UNCHANGED <<hyperVars, age, woken>>
     \/ poll.result = "ready" /\ AgeArm
     \/ poll.result = "panic" /\ Panic /\ UNCHANGED age
  /\ UNCHANGED sig

(* Mutant: the loop breaks on the signal.                                   *)
SigArmBreaks == /\ task' = "done"
                /\ round' = <<>>
                /\ UNCHANGED <<hyperVars, woken, wakers>>

(* Mutant: the signal goes unheeded.                                        *)
SigArmForgetsHyper == SelectAgain /\ UNCHANGED <<hyperVars, task, woken, wakers>>

(* The shutdown signal.                                                     *)
SigArm == /\ GracefulShutdown
          /\ SelectAgain
          /\ UNCHANGED <<task, woken, wakers>>

PollSig ==
  LET poll == PollFuse(sig) IN
  /\ Polling("sig")
  /\ sig' = poll.after
  /\ \/ /\ poll.result = "pending"
        /\ BranchPending("sig", sig = "pending")
        /\ UNCHANGED <<hyperVars, woken>>
     \/ poll.result = "ready" /\ SigArm
     \/ poll.result = "panic" /\ Panic
  /\ UNCHANGED age

-------------------------------------------------------------------------------
(* The world: each event calls the waker of its branch, if it holds one.    *)

Wake(b) == /\ woken' = (woken \/ b \in wakers)
           /\ wakers' = wakers \ {b}
           /\ UNCHANGED <<task, round>>

Live == task \in {"parked", "running"}

Happens(e) == /\ Live /\ e \notin wire /\ "lost" \notin wire /\ conn.phase # "over"
              /\ wire' = wire \cup {e}
              /\ Wake("conn")
              /\ UNCHANGED <<conn, unsent, age, sig>>

PeerRequests == Http!CanReceive(conn) /\ Happens("request")
ServiceResponds == conn.phase = "busy" /\ Happens("response")
(* Only a GOAWAY that was sent is acknowledged.                             *)
PeerAcks == Http!AwaitsAck(conn) /\ ~unsent /\ Happens("ack")
PeerLeaves == Happens("lost")

TimerFires == /\ Live /\ age = "pending"
              /\ age' = "ready"
              /\ Wake("age")
              /\ UNCHANGED <<hyperVars, sig>>

(* The server broadcasts the shutdown, or its future is dropped.            *)
WatcherChanges == /\ Live /\ sig = "pending"
                  /\ sig' = "ready"
                  /\ Wake("sig")
                  /\ UNCHANGED <<hyperVars, age>>

Finished == ~Live /\ UNCHANGED vars

Next == \/ StartPoll \/ Park
        \/ \E e \in Event : TakeEvent(e)
        \/ Flush \/ ConnPending \/ ConnYields \/ ConnReady
        \/ PollAge \/ PollSig
        \/ PeerRequests \/ ServiceResponds \/ PeerAcks \/ PeerLeaves
        \/ TimerFires \/ WatcherChanges
        \/ Finished

(* A woken task is polled, a branch whose turn it is answers, and hyper,    *)
(* polled again and again, gets to everything it has been given.            *)
TaskFairness ==
  /\ WF_vars(StartPoll) /\ WF_vars(Park)
  /\ WF_vars(ConnPollReturns) /\ WF_vars(PollAge) /\ WF_vars(PollSig)
  /\ SF_vars(Flush)
  /\ \A e \in Event : SF_vars(TakeEvent(e))

PeerFairness == WF_vars(ServiceResponds) /\ WF_vars(PeerAcks)

Spec == Init /\ [][Next]_vars
FairSpec == Spec /\ TaskFairness /\ PeerFairness

-------------------------------------------------------------------------------
(* No future is polled after it has completed, which panics: the signal     *)
(* because of the fuse, the sleep because it is set again (src/fuse.rs:27,  *)
(* src/http.rs:131).                                                        *)
NoPollAfterCompletion == task # "panicked"

(* A task that sleeps with nobody about to wake it has nothing to do: no    *)
(* event, shutdown or age limit is left behind, not even by the branch that *)
(* was ready just before (src/http.rs:119-139).                             *)
NoLostWakeup ==
  task = "parked" /\ ~woken =>
    /\ wire = {} /\ ~unsent /\ conn.phase # "over"
    /\ sig # "ready" /\ age # "ready"

(* Why: a branch that has had its turn in this round, or in the round that  *)
(* ended when the task parked, is quiet and has the waker that will tell,   *)
(* unless the task is about to be polled again anyway.                      *)
ToPoll == {round[i] : i \in 1..Len(round)}
Quiet(b) ==
  /\ b = "conn" => /\ wire = {} /\ ~unsent /\ conn.phase # "over"
                   /\ "conn" \in wakers
  /\ b = "age" => age # "ready" /\ (age = "pending" => "age" \in wakers)
  /\ b = "sig" => sig # "ready" /\ (sig = "pending" => "sig" \in wakers)
PolledAreQuiet ==
  /\ task = "parked" => round = <<>>
  /\ Live /\ ~woken => \A b \in Branch \ ToPoll : Quiet(b)

(* The loop ends with hyper's connection and never before it, whatever      *)
(* signals and timers fire: a request is not cut (src/http.rs:121-126).     *)
EndsWithConnection == task = "done" => conn.phase = "over"

(* No completed future is left where a later poll finds it.                 *)
NothingSpent == age # "spent" /\ sig # "spent"

(* Inductive, and implies the invariants above.                             *)
IInv == /\ TypeOK
        /\ NothingSpent
        /\ NoPollAfterCompletion
        /\ PolledAreQuiet
        /\ EndsWithConnection

(* A shutdown, and a connection's age, reach hyper (src/http.rs:128-137).   *)
CallsReachHyper ==
  /\ sig = "ready" ~> conn.closing # "no" \/ task = "done"
  /\ age = "ready" ~> conn.closing # "no" \/ task = "done"

(* A connection told to shut down ends, if requests are answered and HTTP/2 *)
(* peers acknowledge (src/http.rs:119-139).                                 *)
ToldConnectionEnds == conn.closing # "no" ~> task = "done"
===============================================================================
