--------------------------- MODULE ApplicationProofs ---------------------------
(****************************************************************************)
(* Theorems about Application, for any connections, pool and files.  What   *)
(* main does around the server is steps of the server or none, so that the  *)
(* server's theorems hold of the process too.                               *)
(****************************************************************************)
EXTENDS Application, ServerProofs, WellFoundedInduction

(* A set of positions that is not empty has a first one.                    *)
LEMMA FirstOne ==
  ASSUME NEW S, S \subseteq Nat, S # {}
  PROVE  \E i \in S : \A j \in S : ~(j < i)
  <1>1. \E i \in S : \A j \in S : <<j, i>> \notin OpToRel(<, Nat)
    BY NatLessThanWellFounded, WFMin, Zenon
  <1>2. \A i, j \in Nat : j < i => <<j, i>> \in OpToRel(<, Nat)
    BY DEF OpToRel
  <1> QED
    BY <1>1, <1>2

LEMMA ServerStep == AppNext => [Next]_vars
  <1> SUFFICES ASSUME AppNext PROVE [Next]_vars
    OBVIOUS
  <1>1. CASE StartupStep
    BY <1>1 DEF StartupStep, Bind, LoadCerts, LoadKey, Configure, SpawnTimer, SpawnServer,
                Continue, Fail, Next, Environment
  <1>2. CASE TimerFires \/ Interrupt \/ InterruptFails \/ ServerDone \/ Exit
    BY <1>2 DEF TimerFires, Interrupt, InterruptFails, ServerDone, Exit
  <1>3. CASE SignalArrives \/ RuntimeDrops
    BY <1>3 DEF SignalArrives, RuntimeDrops, Next, Environment
  <1>4. CASE ServerTakes(MainStep)
    BY <1>4 DEF ServerTakes, Next
  <1>5. CASE \E c \in Conn : ServerTakes(TaskStep(c) \/ PeerStep(c))
    BY <1>5 DEF ServerTakes, Next
  <1>6. CASE \E c \in Conn, kind \in {"ok", "nonfatal", "fatal"} : Connect(c, kind)
    BY <1>6 DEF Connect, Next, Environment
  <1>7. CASE Gone
    BY <1>7 DEF Gone, allVars
  <1> QED
    BY <1>1, <1>2, <1>3, <1>4, <1>5, <1>6, <1>7 DEF AppNext

(* Seen from the server, the process is the server and its environment      *)
(* (src/http.rs:352-463, examples/tower_service_fn.rs:75-197).              *)
THEOREM ImplementsServer == AppSpec => Spec
  <1>1. AppInit => Init
    BY DEF AppInit
  <1>2. [AppNext]_allVars => [Next]_vars
    BY ServerStep DEF allVars
  <1> QED
    BY <1>1, <1>2, PTL DEF AppSpec, Spec

-------------------------------------------------------------------------------
(* What a step of the server can change of what main relies on.             *)

LEMMA MainSteps ==
  ASSUME TypeOK, MainStep
  PROVE  /\ signal' = signal /\ ~Over(pc)
         /\ pc = "select" /\ signal = "pending" => pc' = "select"
         /\ pc' # "aborted"
         /\ Over(pc') => incoming' = <<>> /\ \A c \in Conn : stage'[c] # "queued"
  <1> USE DEF TypeOK, Over
  <1>1. ASSUME NEW c \in Conn, SkipNonFatal(c) \/ Spawn(c)
        PROVE  signal' = signal /\ pc = "select" /\ pc' = "select"
    BY <1>1 DEF SkipNonFatal, Spawn
  <1>2. CASE LeaveLoop \/ Broadcast \/ ReleaseReceiver
    BY <1>2 DEF LeaveLoop, Broadcast, ReleaseReceiver
  <1>3. CASE Return
    BY <1>3 DEF Return, CloseListener
  <1> QED
    BY <1>1, <1>2, <1>3 DEF MainStep

LEMMA EndTaskQueuesNone ==
  ASSUME TypeOK, NEW c \in Conn, NEW after \in {"absent", "upgraded"}, EndTask(c, after)
  PROVE  \A d \in Conn : stage'[d] = "queued" => stage[d] = "queued"
  BY DEF TypeOK, EndTask

LEMMA TaskSteps ==
  ASSUME TypeOK, NEW c \in Conn, TaskStep(c) \/ PeerStep(c)
  PROVE  /\ signal' = signal /\ pc' = pc /\ incoming' = incoming
         /\ \A d \in Conn : stage'[d] = "queued" => stage[d] = "queued"
  <1> USE DEF loopVars
  <1>1. CASE DropFailedAccept(c) \/ ConnEnds(c) \/ Upgrade(c) \/ FinishUnwinding(c) \/ HandshakeFails(c)
    BY <1>1, EndTaskQueuesNone DEF DropFailedAccept, ConnEnds, Upgrade, FinishUnwinding, HandshakeFails
  <1>2. CASE ServePlain(c) \/ OffloadHandshake(c) \/ StartHandshake(c) \/ HandshakeSucceeds(c)
    BY <1>2 DEF TypeOK, ServePlain, OffloadHandshake, StartHandshake, HandshakeSucceeds, StartServing
  <1>3. CASE ObserveShutdown(c) \/ TaskPanics(c) \/ UpgradedCloses(c)
    BY <1>3 DEF TypeOK, ObserveShutdown, TaskPanics, UpgradedCloses
  <1>4. CASE RequestArrives(c) \/ Respond(c) \/ AckGoAway(c) \/ Disconnect(c)
    BY <1>4 DEF TypeOK, RequestArrives, Respond, AckGoAway, Disconnect, HttpStep
  <1> QED
    BY <1>1, <1>2, <1>3, <1>4 DEF TaskStep, PeerStep

LEMMA AbortClosesListener ==
  ASSUME TypeOK, Abort
  PROVE  /\ signal' = signal /\ pc' = "aborted" /\ incoming' = <<>>
         /\ \A c \in Conn : stage'[c] = IF stage[c] = "queued" THEN "absent" ELSE stage[c]
  BY DEF TypeOK, Abort, CloseListener

-------------------------------------------------------------------------------
(* The inductive invariant.                                                 *)

LEMMA AppInvInit == AppInit => AppInv
  <1> SUFFICES ASSUME AppInit PROVE AppInv
    OBVIOUS
  <1> USE DEF AppInit, Init
  <1>1. AppTypeOK
    BY DEF AppTypeOK, Startup, StartupError
  <1>2. MainAndServer
    BY DEF MainAndServer, Startup
  <1>3. Backlog
    BY DEF Backlog, Over
  <1>4. Loaded
    BY DEF Loaded, Startup, StartupError, Spawned
  <1> QED
    BY <1>1, <1>2, <1>3, <1>4 DEF AppInv

LEMMA ContinueStep ==
  ASSUME AppInv, NEW from \in Startup, NEW to \in Startup \cup {"running"}, Continue(from, to),
         to \in {"certified", "keyed", "configured", "running"} => load_certs(certfile).ok,
         to \in {"keyed", "configured", "running"} => load_private_key(keyfile).ok,
         to \in {"configured", "running"} => load_certs(certfile).loaded # {}
  PROVE  AppInv'
  <1> USE DEF AppInv, Continue, given, vars, loopVars, taskVars, Startup, StartupError, Spawned
  <1>1. AppTypeOK'
    BY DEF AppTypeOK
  <1>2. MainAndServer'
    BY DEF AppTypeOK, MainAndServer
  <1>3. Backlog'
    BY DEF Backlog, Over
  <1>4. Loaded'
    BY DEF AppTypeOK, MainAndServer, Loaded
  <1> QED
    BY <1>1, <1>2, <1>3, <1>4

LEMMA FailStep ==
  ASSUME TypeOK, AppInv, NEW from \in Startup, NEW why \in StartupError, Fail(from, why),
         why = "certs" => ~load_certs(certfile).ok,
         why = "key" => load_certs(certfile).ok /\ ~load_private_key(keyfile).ok
  PROVE  AppInv'
  <1> USE AbortClosesListener DEF AppInv, Fail, DropSender, given, Startup, StartupError, Spawned
  <1>1. AppTypeOK'
    BY DEF AppTypeOK
  <1>2. MainAndServer'
    BY DEF AppTypeOK, MainAndServer
  <1>3. Backlog'
    BY DEF Backlog, Over
  <1>4. Loaded'
    BY DEF Loaded, Backlog
  <1> QED
    BY <1>1, <1>2, <1>3, <1>4

LEMMA ReturnStep ==
  ASSUME AppInv, TypeOK, IInv,
         main \in {"running", "awaiting"}, main' = "leaving", UNCHANGED <<vars, given, timer>>,
         \/ main = "running" /\ exit' = "ctrl_c" /\ DropSender
         \/ main = "awaiting" /\ pc = "returned" /\ exit' = "ok" /\ UNCHANGED oneshot
  PROVE  AppInv'
  <1> USE DEF AppInv, DropSender, given, vars, loopVars, taskVars, Startup, StartupError, Spawned
  <1>1. AppTypeOK'
    BY DEF AppTypeOK
  <1>2. MainAndServer'
    BY DEF AppTypeOK, MainAndServer
  <1>3. Backlog'
    BY DEF Backlog, Over
  <1>4. Loaded'
    BY DEF AppTypeOK, MainAndServer, Loaded
  <1> QED
    BY <1>1, <1>2, <1>3, <1>4

(* Steps of the server and of its clients leave main where it is.           *)
LEMMA ServerKeepsApp ==
  ASSUME AppInv, UNCHANGED appVars,
         main \in Startup \cup {"running"} => pc' = "select" /\ signal' = "pending",
         pc' = "aborted" => exit \notin {"none", "ok"},
         exit = "ok" => pc' = "returned",
         main \in Startup => \A c \in Conn : stage'[c] \in {"absent", "queued"},
         Over(pc') => incoming' = <<>> /\ \A c \in Conn : stage'[c] # "queued",
         exit \in StartupError => pc' = "aborted" /\ \A c \in Conn : stage'[c] = "absent"
  PROVE  AppInv'
  <1> USE DEF AppInv, appVars, given
  <1>1. AppTypeOK'
    BY DEF AppTypeOK
  <1>2. MainAndServer'
    BY DEF MainAndServer
  <1>3. Backlog'
    BY DEF Backlog
  <1>4. Loaded'
    BY DEF Loaded, Spawned
  <1> QED
    BY <1>1, <1>2, <1>3, <1>4

LEMMA AppInvStep == IInv /\ AppInv /\ [AppNext]_allVars => AppInv'
  <1> SUFFICES ASSUME IInv, AppInv, [AppNext]_allVars PROVE AppInv'
    OBVIOUS
  <1>t. TypeOK
    BY DEF IInv
  <1>1. CASE Bind
    BY <1>1, <1>t, ContinueStep, FailStep DEF Bind, Startup, StartupError
  <1>2. CASE LoadCerts
    BY <1>2, <1>t, ContinueStep, FailStep DEF LoadCerts, Startup, StartupError
  <1>3. CASE LoadKey
    <2>1. main = "certified"
      BY <1>3 DEF LoadKey, Continue, Fail
    <2>2. load_certs(certfile).ok
      BY <2>1 DEF AppInv, Loaded, Startup
    <2> QED
      BY <1>3, <1>t, <2>2, ContinueStep, FailStep DEF LoadKey, Startup, StartupError
  <1>4. CASE Configure
    <2>1. main = "keyed"
      BY <1>4 DEF Configure, Continue, Fail
    <2>2. load_certs(certfile).ok /\ load_private_key(keyfile).ok
      BY <2>1 DEF AppInv, Loaded, Startup
    <2> QED
      BY <1>4, <1>t, <2>2, ContinueStep, FailStep DEF Configure, Startup, StartupError
  <1>5. CASE SpawnServer
    <2>1. main = "configured"
      BY <1>5 DEF SpawnServer, Continue
    <2>2. load_certs(certfile).ok /\ load_private_key(keyfile).ok
          /\ load_certs(certfile).loaded # {}
      BY <2>1 DEF AppInv, Loaded, Startup
    <2> QED
      BY <1>5, <2>2, ContinueStep DEF SpawnServer, Startup
  <1>6. CASE SpawnTimer \/ TimerFires \/ Exit
    <2> USE <1>6 DEF AppInv, SpawnTimer, TimerFires, Exit, given, vars, loopVars, taskVars
    <2>1. AppTypeOK'
      BY DEF AppTypeOK
    <2>2. MainAndServer'
      BY DEF AppTypeOK, MainAndServer, Startup
    <2>3. Backlog'
      BY DEF Backlog, Over, Startup
    <2>4. Loaded'
      BY DEF Loaded, Spawned, Startup
    <2> QED
      BY <2>1, <2>2, <2>3, <2>4
  <1>7. CASE Interrupt
    <2> USE <1>7 DEF AppInv, Interrupt, given, vars, loopVars, taskVars
    <2>1. AppTypeOK'
      BY DEF AppTypeOK
    <2>2. MainAndServer'
      BY DEF AppTypeOK, MainAndServer, Startup
    <2>3. Backlog'
      BY DEF Backlog, Over, Startup
    <2>4. Loaded'
      BY DEF Loaded, Spawned, Startup
    <2> QED
      BY <2>1, <2>2, <2>3, <2>4
  <1>8. CASE InterruptFails \/ ServerDone
    BY <1>8, <1>t, ReturnStep DEF InterruptFails, ServerDone
  <1>9. CASE SignalArrives
    <2>1. /\ main \notin Startup \cup {"running"} /\ ServerLives /\ UNCHANGED appVars
          /\ pc' = pc /\ incoming' = incoming /\ stage' = stage
      BY <1>9 DEF SignalArrives, ServerChannel, SignalFires, AppInv, MainAndServer, taskVars
    <2> QED
      BY <2>1, ServerKeepsApp DEF AppInv, MainAndServer, Backlog, Loaded
  <1>10. CASE RuntimeDrops
    <2>1. /\ main = "leaving" /\ Spawned /\ UNCHANGED appVars /\ pc \in {"select", "waiting"}
          /\ pc' = "aborted" /\ incoming' = <<>> /\ \A c \in Conn : stage'[c] # "queued"
      BY <1>10, <1>t, AbortClosesListener DEF RuntimeDrops, Abort
    <2> QED
      BY <2>1, ServerKeepsApp DEF AppInv, MainAndServer, Spawned, Startup
  <1>11. CASE ServerTakes(MainStep)
    <2>1. /\ main \notin Startup /\ exit \notin StartupError /\ UNCHANGED appVars
      BY <1>11 DEF ServerTakes, ServerLives, Spawned
    <2>2. /\ signal' = signal /\ ~Over(pc)
          /\ pc = "select" /\ signal = "pending" => pc' = "select"
          /\ pc' # "aborted"
          /\ Over(pc') => incoming' = <<>> /\ \A c \in Conn : stage'[c] # "queued"
      BY <1>11, <1>t, MainSteps DEF ServerTakes
    <2> QED
      BY <2>1, <2>2, ServerKeepsApp DEF AppInv, MainAndServer, Over
  <1>12. ASSUME NEW c \in Conn, ServerTakes(TaskStep(c) \/ PeerStep(c)) PROVE AppInv'
    <2>1. /\ main \notin Startup /\ exit \notin StartupError /\ UNCHANGED appVars
      BY <1>12 DEF ServerTakes, ServerLives, Spawned
    <2>2. /\ signal' = signal /\ pc' = pc /\ incoming' = incoming
          /\ \A d \in Conn : stage'[d] = "queued" => stage[d] = "queued"
      BY <1>12, <1>t, TaskSteps DEF ServerTakes
    <2> QED
      BY <2>1, <2>2, ServerKeepsApp DEF AppInv, MainAndServer, Backlog, Over
  <1>13. ASSUME NEW c \in Conn, NEW kind \in {"ok", "nonfatal", "fatal"}, Connect(c, kind)
         PROVE  AppInv'
    <2>1. /\ UNCHANGED appVars /\ ~Over(pc) /\ pc' = pc /\ signal' = signal
          /\ \A d \in Conn : stage'[d] = IF d = c THEN "queued" ELSE stage[d]
      BY <1>13, <1>t DEF Connect, Arrive, TypeOK
    <2> QED
      BY <2>1, ServerKeepsApp DEF AppInv, MainAndServer, Backlog, Loaded, Over
  <1>14. CASE UNCHANGED allVars
    <2> USE <1>14 DEF AppInv, allVars, appVars, given, vars, loopVars, taskVars
    <2>1. AppTypeOK'
      BY DEF AppTypeOK
    <2>2. MainAndServer'
      BY DEF MainAndServer
    <2>3. Backlog'
      BY DEF Backlog
    <2>4. Loaded'
      BY DEF Loaded, Spawned
    <2> QED
      BY <2>1, <2>2, <2>3, <2>4
  <1> QED
    BY <1>1, <1>2, <1>3, <1>4, <1>5, <1>6, <1>7, <1>8, <1>9, <1>10, <1>11, <1>12, <1>13, <1>14
       DEF AppNext, StartupStep, Gone

(* Where main is decides what the server may have done, what the backlog    *)
(* may hold and what was loaded, for any connections and any files.         *)
THEOREM AppInductive == AppSpec => []AppInv
  <1>1. AppSpec => []IInv
    BY ImplementsServer, Inductive, PTL
  <1> QED
    BY <1>1, AppInvInit, AppInvStep, PTL DEF AppSpec

-------------------------------------------------------------------------------
(* What follows.                                                            *)

(* load_private_key finds a key unless something bad comes before it.       *)
LEMMA FirstKey ==
  ASSUME keyfile \in File
  PROVE  load_private_key(keyfile).ok <=> KeyUsable
  <1> DEFINE sections == keyfile.sections
             deciding == {i \in At(keyfile, "key") \cup At(keyfile, "bad") :
                            \A j \in 1..(i - 1) : sections[j] \notin {"key", "bad"}}
  <1>1. sections \in Seq(Section) /\ DOMAIN sections = 1..Len(sections) /\ Len(sections) \in Nat
    BY DEF File
  <1>2. load_private_key(keyfile).ok <=>
          keyfile.exists /\ deciding # {} /\ deciding \subseteq At(keyfile, "key")
    BY DEF load_private_key, Failure, Success
  <1>3. ASSUME NEW i \in deciding, i \in At(keyfile, "key"), keyfile.exists PROVE KeyUsable
    BY <1>1, <1>3 DEF At, KeyUsable
  <1>4. ASSUME KeyUsable PROVE deciding # {} /\ deciding \subseteq At(keyfile, "key")
    <2> PICK i \in 1..Len(sections) :
          sections[i] = "key" /\ \A j \in 1..Len(sections) : j < i => sections[j] # "bad"
      BY <1>1, <1>4 DEF KeyUsable
    <2> DEFINE keys == At(keyfile, "key")
    <2>1. keys \subseteq Nat /\ keys # {}
      BY <1>1 DEF At
    <2>2. PICK k \in keys : \A j \in keys : ~(j < k)
      BY <2>1, FirstOne
    <2>3. k \in 1..Len(sections) /\ sections[k] = "key" /\ k <= i
      BY <1>1, <2>2 DEF At
    <2>4. \A j \in 1..(k - 1) : j \in 1..Len(sections) /\ j < k /\ j < i
      BY <1>1, <2>3
    <2>5. k \in deciding
      BY <1>1, <2>2, <2>3, <2>4 DEF At
    <2>6. ASSUME NEW b \in deciding, b \in At(keyfile, "bad") PROVE FALSE
      <3>1. b \in 1..Len(sections) /\ sections[b] = "bad"
        BY <1>1, <2>6 DEF At
      <3>2. ~(b < i)
        BY <3>1
      <3>3. i \in 1..(b - 1)
        BY <1>1, <3>1, <3>2
      <3> QED
        BY <3>3
    <2> QED
      BY <2>5, <2>6
  <1> QED
    BY <1>2, <1>3, <1>4 DEF KeyUsable

(* Before Ctrl+C, and before the timer of the tower example is done,        *)
(* nothing shuts the server down (examples/tower_service_fn.rs:154-187).    *)
THEOREM Serves == AppSpec => []ServesUntilInterrupted
  <1>1. AppInv => ServesUntilInterrupted
    BY DEF AppInv, MainAndServer, ServesUntilInterrupted
  <1> QED
    BY <1>1, AppInductive, PTL

(* A process that ends with Ok(()) cuts nothing but upgraded connections    *)
(* (src/http.rs:459, examples/tower_service_fn.rs:187-196).                 *)
THEOREM ExitDrained == AppSpec => []ExitsDrained
  <1>1. AppSpec => []IInv
    BY ImplementsServer, Inductive, PTL
  <1>2. IInv /\ AppInv => ExitsDrained
    BY DEF IInv, TypeOK, Stage, DrainedAtReturn, Running, RunningStage, AppInv, MainAndServer,
           Backlog, Over, ExitsDrained
  <1> QED
    BY <1>1, <1>2, AppInductive, PTL

(* The server runs exactly with usable files, and a failed start leaves     *)
(* nobody in the backlog (src/tls.rs:139-170).                              *)
THEOREM StartsExactly == AppSpec => []StartupExact
  <1>1. AppInv => StartupExact
    <2> SUFFICES ASSUME AppInv PROVE StartupExact
      OBVIOUS
    <2>1. certfile \in File /\ keyfile \in File
      BY FilesAssumption DEF AppInv, AppTypeOK
    <2>2. load_certs(certfile).ok <=> CertsUsable
      BY <2>1 DEF load_certs, CertsUsable, Failure, Success, At, File
    <2>3. load_certs(certfile).loaded # {} =>
            \E i \in DOMAIN certfile.sections : certfile.sections[i] = "cert"
      BY <2>1 DEF load_certs, Failure, Success, At, File
    <2>4. load_private_key(keyfile).ok <=> KeyUsable
      BY <2>1, FirstKey
    <2>5. exit \in StartupError => incoming = <<>> /\ \A c \in Conn : stage[c] = "absent"
      BY DEF AppInv, Loaded, Backlog, Over
    <2> QED
      BY <2>2, <2>3, <2>4, <2>5 DEF AppInv, Loaded, StartupExact
  <1> QED
    BY <1>1, AppInductive, PTL

-------------------------------------------------------------------------------
(* What the end of the process cuts.                                        *)

(* Only a main that failed to wait for Ctrl+C leaves requests behind.       *)
LEMMA ExitStep ==
  ASSUME IInv, AppInv, Exit, NEW c \in Conn, InFlight(c)
  PROVE  exit = "ctrl_c"
  <1>1. exit \in {"ok", "ctrl_c"} \cup StartupError
    BY DEF Exit, AppInv, AppTypeOK, MainAndServer
  <1>2. ASSUME exit = "ok" PROVE FALSE
    <2>1. pc = "returned" /\ stage[c] = "serving"
      BY <1>2 DEF AppInv, MainAndServer, InFlight
    <2> QED
      BY <2>1 DEF IInv, DrainedAtReturn, Running, RunningStage
  <1>3. ASSUME exit \in StartupError PROVE FALSE
    BY <1>3 DEF AppInv, Loaded, InFlight
  <1> QED
    BY <1>1, <1>2, <1>3

LEMMA OthersExitNot == AppNext /\ ~Exit /\ main' = "exited" => main = "exited"
  <1> SUFFICES ASSUME AppNext, ~Exit, main' = "exited" PROVE main = "exited"
    OBVIOUS
  <1>1. ~StartupStep
    BY DEF StartupStep, Bind, LoadCerts, LoadKey, Configure, SpawnTimer, SpawnServer, Continue, Fail
  <1>2. ~(Interrupt \/ InterruptFails \/ ServerDone)
    BY DEF Interrupt, InterruptFails, ServerDone
  <1> QED
    BY <1>1, <1>2 DEF AppNext, TimerFires, SignalArrives, RuntimeDrops, ServerTakes, Connect, Gone,
       appVars, allVars

(* No step of the process but the failure to wait for Ctrl+C cuts a         *)
(* request: the server's steps do not (RequestStep), main waits for its     *)
(* drain, and a start that fails has served nobody                          *)
(* (src/http.rs:133-137, 459, examples/tower_service_fn.rs:184-196).        *)
THEOREM RequestsOutliveMain == AppSpec => OnlyFailureCuts
  <1> DEFINE Cut(c) == \/ Respond(c) \/ Upgrade(c) \/ Disconnect(c) \/ TaskPanics(c)
                       \/ Exit /\ exit = "ctrl_c"
  <1>1. ASSUME IInv, AppInv, [AppNext]_allVars, NEW c \in Conn, Alive(c), ~Alive(c)'
        PROVE  Cut(c)
    <2>1. CASE UNCHANGED allVars
      BY <1>1, <2>1 DEF Alive, InFlight, allVars, appVars, vars, taskVars
    <2>2. CASE AppNext /\ Exit
      BY <1>1, <2>2, ExitStep DEF Alive
    <2>3. CASE AppNext /\ ~Exit
      <3>1. InFlight(c) /\ ~InFlight(c)'
        BY <1>1, <2>3, OthersExitNot DEF Alive
      <3>2. [Next]_vars
        BY <2>3, ServerStep
      <3> QED
        BY <1>1, <3>1, <3>2, RequestStep
    <2> QED
      BY <1>1, <2>1, <2>2, <2>3
  <1>2. IInv /\ AppInv /\ [AppNext]_allVars =>
          [\A c \in Conn : Alive(c) /\ ~Alive(c)' => Cut(c)]_allVars
    BY <1>1
  <1>3. AppSpec => []IInv
    BY ImplementsServer, Inductive, PTL
  <1> QED
    BY <1>2, <1>3, AppInductive, PTL DEF AppSpec, OnlyFailureCuts
===============================================================================
