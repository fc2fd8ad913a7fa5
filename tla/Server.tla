-------------------------------- MODULE Server --------------------------------
(****************************************************************************)
(* serve_http_with_shutdown (src/http.rs:352-463): the accept loop, the     *)
(* task it spawns for every connection, the thread pool that shakes hands,  *)
(* and the graceful shutdown that ties them together.                       *)
(*                                                                          *)
(* Every await point, every call that another thread can observe and every  *)
(* move of a peer is a step of its own.  The watch channel is WatchChannel, *)
(* hyper's connection is HyperConn; what the loop around that connection    *)
(* does at each poll is the subject of ConnectionLoop.                      *)
(****************************************************************************)
EXTENDS Naturals, Sequences, FiniteSets

CONSTANTS Conn,             \* items of the incoming stream; a name is used
                            \* again once its item is gone
          Main,             \* the future serve_http_with_shutdown returns
          BlockingThreads   \* size of the runtime's blocking pool

ASSUME MainAssumption == Main \notin Conn
ASSUME PoolAssumption == BlockingThreads \in Nat \ {0}

VARIABLES
  tls,       \* whether a tls_config was given
  signal,    \* the shutdown future: "none" was given, "pending" or "fired"
  pc,        \* where Main is
  incoming,  \* what the listener has ready for incoming.next(), in order
  ended,     \* the stream behind incoming is exhausted
  item,      \* item[c]: a connection, or the kind of accept error
  stage,     \* stage[c]: how far the task of c is
  pool,      \* handshakes waiting for a blocking thread, in order
  http,      \* http[c]: hyper's connection, while stage[c] = "serving"
  version, senderAlive, holders, seen   \* the watch channel

Watch == INSTANCE WatchChannel WITH Handle <- Conn \cup {Main}
Http == INSTANCE HyperConn

watchVars == <<version, senderAlive, holders, seen>>
loopVars == <<pc, signal, incoming, ended>>
taskVars == <<item, stage, pool, http>>
vars == <<tls, loopVars, taskVars, watchVars>>

Stage == {"absent", "queued", "spawned", "waitingThread", "handshaking",
          "serving", "unwinding", "upgraded"}
RunningStage == {"spawned", "waitingThread", "handshaking", "serving", "unwinding"}

TypeOK ==
  /\ tls \in BOOLEAN
  /\ signal \in {"none", "pending", "fired"}
  /\ pc \in {"select", "broadcast", "release", "waiting", "returned", "aborted"}
  /\ incoming \in Seq(Conn)
  /\ ended \in BOOLEAN
  /\ item \in [Conn -> {"ok", "nonfatal", "fatal"}]
  /\ stage \in [Conn -> Stage]
  /\ pool \in Seq(Conn)
  /\ http \in [Conn -> Http!State]
  /\ Watch!TypeOK

Graceful == signal # "none"
Running == {c \in Conn : stage[c] \in RunningStage}
Handshaking == {c \in Conn : stage[c] = "handshaking"}
Over(p) == p \in {"returned", "aborted"}
HeadOf(s, c) == s # <<>> /\ Head(s) = c

Init == /\ tls \in BOOLEAN
        /\ signal \in {"none", "pending"}
        /\ pc = "select"
        /\ incoming = <<>>
        /\ ended = FALSE
        /\ item = [c \in Conn |-> "ok"]
        /\ stage = [c \in Conn |-> "absent"]
        /\ pool = <<>>
        /\ http = [c \in Conn |-> Http!Fresh]
        /\ Watch!Channel(Main)

-------------------------------------------------------------------------------
(* The world outside: the listener, and the future given as signal.         *)

(* The listener stays bound, and its queue fills, until Main is over.       *)
Arrive(c, kind) ==
  /\ ~Over(pc) /\ ~ended
  /\ stage[c] = "absent"
  /\ stage' = [stage EXCEPT ![c] = "queued"]
  /\ item' = [item EXCEPT ![c] = kind]
  /\ incoming' = Append(incoming, c)
  /\ UNCHANGED <<tls, pc, signal, ended, pool, http, watchVars>>

EndOfStream ==
  /\ ~Over(pc) /\ ~ended
  /\ ended' = TRUE
  /\ UNCHANGED <<tls, pc, signal, incoming, taskVars, watchVars>>

SignalFires ==
  /\ signal = "pending" /\ ~Over(pc)
  /\ signal' = "fired"
  /\ UNCHANGED <<tls, pc, incoming, ended, taskVars, watchVars>>

-------------------------------------------------------------------------------
(* Main.  select! polls its two branches in a random order, so that when    *)
(* both are ready either may be taken.                                      *)

(* A non-fatal accept error never leaves serve_tcp_incoming: its generator  *)
(* pulls again, and may find the stream pending.                            *)
SkipNonFatal(c) ==
  /\ pc = "select" /\ HeadOf(incoming, c) /\ item[c] = "nonfatal"
  /\ incoming' = Tail(incoming)
  /\ stage' = [stage EXCEPT ![c] = "absent"]
  /\ item' = [item EXCEPT ![c] = "ok"]
  /\ UNCHANGED <<tls, pc, signal, ended, pool, http, watchVars>>

(* Mutant: the task is not given a receiver.                                *)
SubscribeNobody(c) == UNCHANGED watchVars

(* graceful.then_some(signal_rx.clone())                                    *)
Subscribe(c) == IF Graceful THEN Watch!Clone(Main, c) ELSE UNCHANGED watchVars

(* Mutant: the loop waits for a handshake before it accepts again.          *)
SpawnAfterHandshake(c) ==
  /\ pc = "select" /\ HeadOf(incoming, c) /\ item[c] # "nonfatal"
  /\ \A d \in Conn : stage[d] \notin {"waitingThread", "handshaking"}
  /\ incoming' = Tail(incoming)
  /\ stage' = [stage EXCEPT ![c] = "spawned"]
  /\ Subscribe(c)
  /\ UNCHANGED <<tls, pc, signal, ended, item, pool, http>>

(* Connections and fatal errors alike are handed to a task of their own.    *)
Spawn(c) ==
  /\ pc = "select" /\ HeadOf(incoming, c) /\ item[c] # "nonfatal"
  /\ incoming' = Tail(incoming)
  /\ stage' = [stage EXCEPT ![c] = "spawned"]
  /\ Subscribe(c)
  /\ UNCHANGED <<tls, pc, signal, ended, item, pool, http>>

Accept(c) == SkipNonFatal(c) \/ Spawn(c)

(* Only a signal that was given can fire: `if graceful` always holds here.  *)
LeaveLoop ==
  /\ pc = "select" /\ signal = "fired"
  /\ pc' = "broadcast"
  /\ UNCHANGED <<tls, signal, incoming, ended, taskVars, watchVars>>

Broadcast ==
  /\ pc = "broadcast"
  /\ Watch!Send
  /\ pc' = "release"
  /\ UNCHANGED <<tls, signal, incoming, ended, taskVars>>

(* Mutant: signal_rx lives until the end of the function.                   *)
KeepReceiver ==
  /\ pc = "release"
  /\ pc' = "waiting"
  /\ UNCHANGED <<tls, signal, incoming, ended, taskVars, watchVars>>

(* drop(signal_rx)                                                          *)
ReleaseReceiver ==
  /\ pc = "release"
  /\ Watch!Drop(Main)
  /\ pc' = "waiting"
  /\ UNCHANGED <<tls, signal, incoming, ended, taskVars>>

(* The stream is a local of Main: the listener is closed, and what it had   *)
(* ready is lost, when Main is over and not before.                         *)
CloseListener ==
  /\ incoming' = <<>>
  /\ stage' = [c \in Conn |-> IF stage[c] = "queued" THEN "absent" ELSE stage[c]]
  /\ item' = [c \in Conn |-> IF stage[c] = "queued" THEN "ok" ELSE item[c]]
  /\ UNCHANGED <<ended, pool, http>>

(* Mutant: the call does not await closed().                                *)
ReturnAtOnce ==
  /\ pc = "waiting"
  /\ pc' = "returned"
  /\ CloseListener
  /\ Watch!DropSender
  /\ UNCHANGED <<tls, signal>>

(* signal_tx.closed() is ready, and the call returns Ok(()).                *)
Return ==
  /\ pc = "waiting" /\ Watch!Closed
  /\ pc' = "returned"
  /\ CloseListener
  /\ Watch!DropSender
  /\ UNCHANGED <<tls, signal>>

(* The caller may drop the future at either of its await points.            *)
Abort ==
  /\ pc \in {"select", "waiting"}
  /\ pc' = "aborted"
  /\ CloseListener
  /\ Watch!DropSenderAnd(Main)
  /\ UNCHANGED <<tls, signal>>

-------------------------------------------------------------------------------
(* The task spawned for c.  It owns its receiver, and so drops it, however  *)
(* it ends: by returning early, by finishing or by a panic.                 *)

(* Mutant: the receiver is taken from the sender, and so up to date, when   *)
(* the connection starts to be served.                                      *)
StartServingResubscribed(c) ==
  /\ stage' = [stage EXCEPT ![c] = "serving"]
  /\ seen' = [seen EXCEPT ![c] = version]
  /\ UNCHANGED <<item, http, version, senderAlive, holders>>

StartServing(c) ==
  /\ stage' = [stage EXCEPT ![c] = "serving"]
  /\ UNCHANGED <<item, http, watchVars>>

(* Mutant: the receiver outlives the task.                                  *)
EndTaskLeaksReceiver(c, after) ==
  /\ stage' = [stage EXCEPT ![c] = after]
  /\ item' = [item EXCEPT ![c] = "ok"]
  /\ http' = [http EXCEPT ![c] = Http!Fresh]
  /\ UNCHANGED watchVars

EndTask(c, after) ==
  /\ stage' = [stage EXCEPT ![c] = after]
  /\ item' = [item EXCEPT ![c] = "ok"]
  /\ http' = [http EXCEPT ![c] = Http!Fresh]
  /\ Watch!Drop(c)

DropFailedAccept(c) ==
  /\ stage[c] = "spawned" /\ item[c] = "fatal"
  /\ EndTask(c, "absent")
  /\ UNCHANGED <<tls, loopVars, pool>>

ServePlain(c) ==
  /\ stage[c] = "spawned" /\ item[c] = "ok" /\ ~tls
  /\ StartServing(c)
  /\ UNCHANGED <<tls, loopVars, pool>>

(* spawn_blocking: the handshake waits for a thread, in order.              *)
OffloadHandshake(c) ==
  /\ stage[c] = "spawned" /\ item[c] = "ok" /\ tls
  /\ stage' = [stage EXCEPT ![c] = "waitingThread"]
  /\ pool' = Append(pool, c)
  /\ UNCHANGED <<tls, loopVars, item, http, watchVars>>

(* Mutant: the last handshake offloaded is the first to get a thread.       *)
StartNewestHandshake(c) ==
  /\ pool # <<>> /\ pool[Len(pool)] = c
  /\ Cardinality(Handshaking) < BlockingThreads
  /\ pool' = SubSeq(pool, 1, Len(pool) - 1)
  /\ stage' = [stage EXCEPT ![c] = "handshaking"]
  /\ UNCHANGED <<tls, loopVars, item, http, watchVars>>

StartHandshake(c) ==
  /\ HeadOf(pool, c)
  /\ Cardinality(Handshaking) < BlockingThreads
  /\ pool' = Tail(pool)
  /\ stage' = [stage EXCEPT ![c] = "handshaking"]
  /\ UNCHANGED <<tls, loopVars, item, http, watchVars>>

(* block_on(tls_acceptor.accept(io)) holds its thread for as long as the    *)
(* peer takes; the task is resumed with its result.                         *)
HandshakeSucceeds(c) ==
  /\ stage[c] = "handshaking"
  /\ StartServing(c)
  /\ UNCHANGED <<tls, loopVars, pool>>

HandshakeFails(c) ==
  /\ stage[c] = "handshaking"
  /\ EndTask(c, "absent")
  /\ UNCHANGED <<tls, loopVars, pool>>

(* Mutant: the signal makes the connection loop break.                      *)
BreakOnShutdown(c) ==
  /\ stage[c] = "serving" /\ Watch!HasChanged(c)
  /\ EndTask(c, "absent")
  /\ UNCHANGED <<tls, loopVars, pool>>

(* Mutant: the signal is looked at between requests only.                   *)
ObserveWhenIdle(c) ==
  /\ stage[c] = "serving" /\ http[c].closing = "no" /\ http[c].phase = "idle"
  /\ Watch!MarkSeen(c)
  /\ \E h \in Http!AfterGracefulShutdown(http[c]) : http' = [http EXCEPT ![c] = h]
  /\ UNCHANGED <<tls, loopVars, item, stage, pool>>

(* Mutant: the arm of the signal marks it as seen and tells nobody.         *)
ObserveAndForget(c) ==
  /\ stage[c] = "serving" /\ http[c].closing = "no"
  /\ Watch!MarkSeen(c)
  /\ UNCHANGED <<tls, loopVars, taskVars>>

(* serve_http_connection: sig is ready, once, and hyper is told.            *)
ObserveShutdown(c) ==
  /\ stage[c] = "serving" /\ http[c].closing = "no"
  /\ Watch!MarkSeen(c)
  /\ \E h \in Http!AfterGracefulShutdown(http[c]) : http' = [http EXCEPT ![c] = h]
  /\ UNCHANGED <<tls, loopVars, item, stage, pool>>

(* conn is ready: the loop breaks and the task is done.                     *)
ConnEnds(c) ==
  /\ stage[c] = "serving" /\ http[c].phase = "over"
  /\ EndTask(c, "absent")
  /\ UNCHANGED <<tls, loopVars, pool>>

(* A 101 response gives the transport to the service: conn is ready, the    *)
(* task is done, and the connection lives on with nobody counting it.       *)
Upgrade(c) ==
  /\ stage[c] = "serving" /\ http[c].phase = "busy" /\ http[c].closing # "asked"
  /\ EndTask(c, "upgraded")
  /\ UNCHANGED <<tls, loopVars, pool>>

(* A panic of the service unwinds the connection's task, which drops        *)
(* hyper's connection first and the receiver it was built after later.      *)
TaskPanics(c) ==
  /\ stage[c] = "serving" /\ http[c].phase = "busy"
  /\ stage' = [stage EXCEPT ![c] = "unwinding"]
  /\ UNCHANGED <<tls, loopVars, item, pool, http, watchVars>>

FinishUnwinding(c) ==
  /\ stage[c] = "unwinding"
  /\ EndTask(c, "absent")
  /\ UNCHANGED <<tls, loopVars, pool>>

-------------------------------------------------------------------------------
(* Peers and services, as hyper's connection sees them.                     *)

HttpStep(c, h) ==
  /\ http' = [http EXCEPT ![c] = h]
  /\ UNCHANGED <<tls, loopVars, item, stage, pool, watchVars>>

RequestArrives(c) ==
  /\ stage[c] = "serving" /\ Http!CanReceive(http[c])
  /\ HttpStep(c, Http!Received(http[c]))

Respond(c) ==
  /\ stage[c] = "serving" /\ http[c].phase = "busy"
  /\ HttpStep(c, Http!Responded(http[c]))

AckGoAway(c) ==
  /\ stage[c] = "serving" /\ Http!AwaitsAck(http[c])
  /\ HttpStep(c, Http!Acked(http[c]))

(* The peer leaves, or hyper gives the connection up.                       *)
Disconnect(c) ==
  /\ stage[c] = "serving" /\ http[c].phase # "over"
  /\ HttpStep(c, Http!Over(http[c]))

UpgradedCloses(c) ==
  /\ stage[c] = "upgraded"
  /\ stage' = [stage EXCEPT ![c] = "absent"]
  /\ UNCHANGED <<tls, loopVars, item, pool, http, watchVars>>

-------------------------------------------------------------------------------
(* Nothing is left to happen once Main is over and no connection is open.   *)
Terminated ==
  /\ Over(pc)
  /\ \A c \in Conn : stage[c] = "absent"
  /\ UNCHANGED vars

MainStep == \/ \E c \in Conn : SkipNonFatal(c) \/ Spawn(c)
            \/ LeaveLoop \/ Broadcast \/ ReleaseReceiver \/ Return

TaskStep(c) == \/ DropFailedAccept(c) \/ ServePlain(c) \/ OffloadHandshake(c)
               \/ StartHandshake(c) \/ ObserveShutdown(c) \/ ConnEnds(c)
               \/ Upgrade(c) \/ TaskPanics(c) \/ FinishUnwinding(c)

PeerStep(c) == \/ HandshakeSucceeds(c) \/ HandshakeFails(c)
               \/ RequestArrives(c) \/ Respond(c) \/ AckGoAway(c)
               \/ Disconnect(c) \/ UpgradedCloses(c)

Environment == \/ \E c \in Conn, kind \in {"ok", "nonfatal", "fatal"} : Arrive(c, kind)
               \/ EndOfStream \/ SignalFires \/ Abort

Next == \/ MainStep
        \/ \E c \in Conn : TaskStep(c) \/ PeerStep(c)
        \/ Environment
        \/ Terminated

(* What the runtime gives: a task that can run is polled, a free thread     *)
(* takes the next closure, and select! starts with either branch, so that a *)
(* ready signal is not passed over for ever.                                *)
SchedulerFairness ==
  /\ WF_vars(LeaveLoop) /\ WF_vars(Broadcast) /\ WF_vars(ReleaseReceiver)
  /\ WF_vars(Return)
  /\ \A c \in Conn : /\ WF_vars(Accept(c))
                     /\ WF_vars(DropFailedAccept(c)) /\ WF_vars(ServePlain(c))
                     /\ WF_vars(OffloadHandshake(c)) /\ WF_vars(StartHandshake(c))
                     /\ WF_vars(ObserveShutdown(c)) /\ WF_vars(ConnEnds(c))
                     /\ WF_vars(FinishUnwinding(c))

(* What only peers and services can give: handshakes end, requests are      *)
(* answered, HTTP/2 peers acknowledge.  No timeout of the code forces it.   *)
PeerFairness ==
  \A c \in Conn : /\ WF_vars(HandshakeSucceeds(c) \/ HandshakeFails(c))
                  /\ WF_vars(Respond(c)) /\ WF_vars(AckGoAway(c))

Spec == Init /\ [][Next]_vars
SchedulerSpec == Spec /\ SchedulerFairness
FairSpec == SchedulerSpec /\ PeerFairness

-------------------------------------------------------------------------------
(* Safety.                                                                  *)

(* When serve_http_with_shutdown has returned, no task it spawned is still  *)
(* running, whichever way each of them ended (src/http.rs:459).             *)
DrainedAtReturn == pc = "returned" => Running = {}

(* No connection misses the shutdown: once it was broadcast, or the server  *)
(* future dropped, every running task either has told hyper or will find    *)
(* its receiver changed, even if it only starts to look after its handshake *)
(* (src/http.rs:103-105, 404, 452).                                         *)
NoMissedShutdown ==
  Graceful /\ (version > 0 \/ ~senderAlive) =>
    \A c \in Running : http[c].closing # "no" \/ Watch!HasChanged(c)

(* A request in progress ends because it was answered, because its peer     *)
(* left or because the service panicked: never because the server is        *)
(* shutting down or its future was dropped (src/http.rs:133-137, 618-649).  *)
InFlight(c) == stage[c] = "serving" /\ http[c].phase = "busy"
RequestsNotCut ==
  [][\A c \in Conn : InFlight(c) /\ ~InFlight(c)' =>
       Respond(c) \/ Upgrade(c) \/ Disconnect(c) \/ TaskPanics(c)]_vars

(* A shutdown that waits waits for somebody: closed() is ready as soon as   *)
(* no task runs, and until then each task can take its next step, or stands *)
(* in the queue of the blocking pool behind one that can.  Nothing is lost  *)
(* on the way to a thread, and hyper, once told, is never left idle         *)
(* (src/http.rs:54-58, 99-137, 453-459).                                    *)
CanGoOn(c) ==
  \/ stage[c] = "spawned" /\ item[c] # "nonfatal"
  \/ stage[c] \in {"handshaking", "unwinding"}
  \/ HeadOf(pool, c) /\ Cardinality(Handshaking) < BlockingThreads
  \/ /\ stage[c] = "serving"
     /\ \/ http[c].closing = "no" /\ Watch!HasChanged(c)
        \/ http[c].phase \in {"busy", "over"}
        \/ Http!AwaitsAck(http[c])
DrainNeverStuck ==
  pc = "waiting" =>
    /\ Watch!Closed <=> Running = {}
    /\ \A c \in Running :
         CanGoOn(c) \/ (stage[c] = "waitingThread" /\ \E d \in Running : CanGoOn(d))

(* Once no more is accepted, a task only gets closer to its end: nothing    *)
(* gives the server's tasks more to do, and every step of one but a request *)
(* that a connection may still take, or its response, leaves it with less.  *)
(* With DrainNeverStuck, a drain of n tasks is over after at most 8 * n     *)
(* such steps (src/http.rs:54-64, 86-142, 396-462).                         *)
LeftOfConnection(h) ==
  IF h.phase = "over" THEN IF h.closing = "no" THEN 3 ELSE 2
  ELSE CASE h.closing = "no" -> 5
         [] h.closing = "asked" -> 4
         [] h.closing = "final" -> 3
LeftOf(c) == CASE stage[c] = "spawned" -> 8
               [] stage[c] = "waitingThread" -> 7
               [] stage[c] = "handshaking" -> 6
               [] stage[c] = "serving" -> LeftOfConnection(http[c])
               [] stage[c] = "unwinding" -> 1
               [] OTHER -> 0
Chats(c) == \/ RequestArrives(c)
            \/ Respond(c) /\ http[c].closing # "final"
            \/ UpgradedCloses(c)
MovesOn(c) == (TaskStep(c) \/ PeerStep(c)) /\ ~Chats(c)
Descends(c) == /\ LeftOf(c)' <= LeftOf(c)
               /\ MovesOn(c) => LeftOf(c)' < LeftOf(c)
DrainOnlyDescends == [][pc # "select" => \A c \in Conn : Descends(c)]_vars

(* The server with its channel, loop and tasks does what GracefulShutdown   *)
(* promises.                                                                *)
Phase == CASE pc = "select" -> "open"
           [] pc \in {"broadcast", "release", "waiting"} -> "draining"
           [] pc = "returned" -> "stopped"
           [] pc = "aborted" -> "abandoned"

Abstract == INSTANCE GracefulShutdown WITH phase <- Phase, live <- Running
ImplementsGracefulShutdown == Abstract!Spec

(* What the test test_shutdown_rejects_new_connections and the comment      *)
(* "no more connections will be accepted" say of a server that was told to  *)
(* shut down: an attempt to connect fails.  Here, while it waits for the    *)
(* connections it has (src/http.rs:453, 459, 652-664).                      *)
NoConnectWhileDraining ==
  [][\A c \in Conn : pc = "waiting" /\ ~Watch!Closed /\ stage[c] = "absent"
                       => stage'[c] # "queued" \/ item'[c] # "ok"]_vars

-------------------------------------------------------------------------------
(* Why the safety properties hold.                                          *)

(* Who holds a receiver: Main until it releases its own, and with a signal  *)
(* every task for as long as it runs.  This is what makes closed() count    *)
(* the connections, and a count that is off either way is a shutdown that   *)
(* returns early or never.                                                  *)
HoldersExact ==
  /\ Main \in holders <=> pc \in {"select", "broadcast", "release"}
  /\ \A c \in Conn : c \in holders <=> Graceful /\ stage[c] \in RunningStage

(* The channel follows Main: its one version is sent between leaving the    *)
(* loop and waiting, its sender dropped when Main is over.                  *)
ChannelFollowsMain ==
  /\ senderAlive <=> ~Over(pc)
  /\ pc \in {"select", "broadcast"} => version = 0
  /\ pc \in {"release", "waiting", "returned"} => version > 0
  /\ pc \notin {"select", "aborted"} => signal = "fired"

(* No receiver is ahead of its task: what hyper was not told has not been   *)
(* marked as seen, and the receiver that others are cloned from never is.   *)
UntoldUnseen ==
  /\ seen[Main] = 0
  /\ \A c \in Running : Graceful /\ http[c].closing = "no" => seen[c] = 0

(* The queues hold exactly what waits in them, each once.                   *)
Waits(queue, at, where) ==
  /\ \A i \in 1..Len(queue) : where[queue[i]] = at
  /\ \A c \in DOMAIN where : where[c] = at => \E i \in 1..Len(queue) : queue[i] = c
  /\ \A i, j \in 1..Len(queue) : queue[i] = queue[j] => i = j
QueuesExact == Waits(incoming, "queued", stage) /\ Waits(pool, "waitingThread", stage)

(* No task is spawned for what serve_tcp_incoming skips.                    *)
NonFatalSkipped == \A c \in Running : item[c] # "nonfatal"

(* Hyper, told to shut down, has nothing left to wait for but its response  *)
(* and its peer's acknowledgement.                                          *)
Settled(h) == h.closing # "no" => /\ h.phase # "fresh"
                                  /\ h.closing = "final" => h.phase # "idle"
ToldAreSettled == \A c \in Conn : Settled(http[c])

(* Together they are inductive, and imply the invariants above.             *)
IInv == /\ TypeOK
        /\ HoldersExact
        /\ ChannelFollowsMain
        /\ UntoldUnseen
        /\ QueuesExact
        /\ NonFatalSkipped
        /\ ToldAreSettled
        /\ DrainedAtReturn

-------------------------------------------------------------------------------
(* Liveness.                                                                *)

(* With peers that play along, a shutdown that was signalled completes,     *)
(* whatever is still being accepted (src/http.rs:394-400, 450-460).         *)
ShutdownCompletes == signal = "fired" /\ pc = "select" ~> Over(pc)

(* Whatever its peer does, a connection being served learns of the          *)
(* shutdown, or of the dropped server future (src/http.rs:134-137).         *)
ServedConnectionsTold ==
  \A c \in Conn :
    Graceful /\ (version > 0 \/ ~senderAlive) /\ stage[c] = "serving"
      ~> http[c].closing # "no" \/ stage[c] # "serving"

(* Whatever peers do, the accept loop takes what the listener has ready:    *)
(* no handshake and no open connection keeps it (src/http.rs:401-445).      *)
AcceptProgress ==
  \A c \in Conn : stage[c] = "queued" /\ pc = "select"
                    ~> stage[c] # "queued" \/ pc # "select"

(* With handshakes that end, every connection gets its turn on the blocking *)
(* threads, however many came before it (src/http.rs:54-58).                *)
EveryHandshakeStarts ==
  \A c \in Conn : stage[c] = "waitingThread" ~> stage[c] # "waitingThread"
===============================================================================
