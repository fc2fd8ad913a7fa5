------------------------------ MODULE Application ------------------------------
(****************************************************************************)
(* The main function of the two examples (examples/tower_service_fn.rs:     *)
(* 75-197, examples/tonic.rs:24-108) around the server it starts: it binds  *)
(* the listener, loads what TLS needs, spawns the server, waits for Ctrl+C, *)
(* signals the server and waits for it.  The server is Server; its future   *)
(* is a task of the runtime, which main's return shuts down.                *)
(****************************************************************************)
EXTENDS Server, PemFiles

CONSTANTS CertFiles, KeyFiles   \* what may be found under the two file names

ASSUME FilesAssumption == CertFiles \subseteq File /\ KeyFiles \subseteq File

VARIABLES
  example,   \* "tower" or "tonic"
  certfile, keyfile,
  main,      \* where the main function is
  exit,      \* what it returned: "none" yet, "ok", or the step that failed
  oneshot,   \* oneshot[ch]: its sender is "open", was "sent" or "dropped"
  timer      \* the task of the one-second timer: "off", "sleeping", "done"

given == <<example, certfile, keyfile>>
appVars == <<given, main, exit, oneshot, timer>>
allVars == <<vars, appVars>>

Startup == {"start", "bound", "certified", "keyed", "configured"}
StartupError == {"bind", "certs", "key", "config"}

AppTypeOK ==
  /\ example \in {"tower", "tonic"} /\ certfile \in CertFiles /\ keyfile \in KeyFiles
  /\ main \in Startup \cup {"running", "awaiting", "leaving", "exited"}
  /\ exit \in {"none", "ok", "ctrl_c"} \cup StartupError
  /\ oneshot \in [{"first", "second"} -> {"open", "sent", "dropped"}]
  /\ timer \in {"off", "sleeping", "done"}

(* The server's task exists from its spawn until the process is gone.       *)
Spawned == main \notin Startup /\ exit \notin StartupError
ServerLives == Spawned /\ main # "exited"

AppInit == /\ Init /\ tls /\ signal = "pending"
           /\ example \in {"tower", "tonic"}
           /\ certfile \in CertFiles /\ keyfile \in KeyFiles
           /\ main = "start" /\ exit = "none"
           /\ oneshot = [ch \in {"first", "second"} |-> "open"]
           /\ timer = "off"

-------------------------------------------------------------------------------
(* main, until the server is spawned.                                       *)

Continue(from, to) == /\ main = from /\ main' = to
                      /\ UNCHANGED <<vars, given, exit, oneshot, timer>>

(* `?` returns the error and drops main's locals: the listener is closed,   *)
(* and so is the channel, if it was there.                                  *)
DropSender == oneshot' = [oneshot EXCEPT !["second"] = "dropped"]
Fail(from, why) == /\ main = from /\ main' = "leaving"
                   /\ exit' = why
                   /\ DropSender
                   /\ Abort
                   /\ UNCHANGED <<given, timer>>

(* The address may be in use.                                               *)
Bind == Continue("start", "bound") \/ Fail("start", "bind")

LoadCerts == IF load_certs(certfile).ok THEN Continue("bound", "certified")
             ELSE Fail("bound", "certs")

LoadKey == IF load_private_key(keyfile).ok THEN Continue("certified", "keyed")
           ELSE Fail("certified", "key")

(* rustls refuses an empty chain, and may refuse a key it cannot use.       *)
Configure == \/ load_certs(certfile).loaded # {} /\ Continue("keyed", "configured")
             \/ Fail("keyed", "config")

(* tower: a task that will send through the first channel.                  *)
SpawnTimer == /\ main = "configured" /\ example = "tower" /\ timer = "off"
              /\ timer' = "sleeping"
              /\ UNCHANGED <<vars, given, main, exit, oneshot>>

(* Mutant: nobody keeps the sender, and `.await.ok()` is ready at once.     *)
SpawnServerDropsSender == /\ example = "tower" => timer # "off"
                          /\ main = "configured" /\ main' = "running"
                          /\ DropSender
                          /\ UNCHANGED <<vars, given, exit, timer>>

SpawnServer == /\ example = "tower" => timer # "off"
               /\ Continue("configured", "running")

StartupStep == \/ Bind \/ LoadCerts \/ LoadKey \/ Configure
               \/ SpawnTimer \/ SpawnServer

-------------------------------------------------------------------------------
(* The two channels.                                                        *)

(* The second pair shadows the first: its receiver is what the server's     *)
(* signal future awaits, its sender what main signals through.              *)
ServerChannel == "second"

TimerFires == /\ timer = "sleeping" /\ main # "exited"
              /\ timer' = "done"
              /\ oneshot' = [oneshot EXCEPT !["first"] = "sent"]
              /\ UNCHANGED <<vars, given, main, exit>>

(* The server's signal: `.await.ok()` is ready once the sender sent, and    *)
(* also once it is gone.                                                    *)
SignalArrives == /\ ServerLives
                 /\ oneshot[ServerChannel] # "open"
                 /\ SignalFires
                 /\ UNCHANGED appVars

-------------------------------------------------------------------------------
(* main, from Ctrl+C on.                                                    *)

(* Mutant: main awaits the server and forgets to tell it.                   *)
InterruptUnsignalled == /\ main = "running" /\ main' = "awaiting"
                        /\ UNCHANGED <<vars, given, exit, oneshot, timer>>

Interrupt == /\ main = "running" /\ main' = "awaiting"
             /\ oneshot' = [oneshot EXCEPT !["second"] = "sent"]
             /\ UNCHANGED <<vars, given, exit, timer>>

(* ctrl_c() may fail to install its handler: `?` leaves at once, and the    *)
(* server, which nobody waits for, is signalled by the dropped sender.      *)
InterruptFails == /\ main = "running" /\ main' = "leaving"
                  /\ exit' = "ctrl_c"
                  /\ DropSender
                  /\ UNCHANGED <<vars, given, timer>>

(* Mutant: main signals the server and does not wait for it.                *)
ServerNotAwaited == /\ main = "awaiting" /\ main' = "leaving"
                    /\ exit' = "ok"
                    /\ UNCHANGED <<vars, given, oneshot, timer>>

(* server.await? is ready when the server's future is.                      *)
ServerDone == /\ main = "awaiting" /\ pc = "returned"
              /\ main' = "leaving" /\ exit' = "ok"
              /\ UNCHANGED <<vars, given, oneshot, timer>>

(* main has returned, the runtime is shut down: it drops the server's task  *)
(* at an await point, if it is not done; the other tasks run on until the   *)
(* process is gone, at a moment of its own.                                 *)
RuntimeDrops == /\ main = "leaving" /\ Spawned /\ Abort
                /\ UNCHANGED appVars

Exit == /\ main = "leaving" /\ main' = "exited"
        /\ UNCHANGED <<vars, given, exit, oneshot, timer>>

-------------------------------------------------------------------------------
(* The server's own steps, and its peers'.                                  *)

ServerTakes(A) == ServerLives /\ A /\ UNCHANGED appVars

(* The kernel takes connections from bind on, served or not.                *)
Connect(c, kind) == /\ main \notin {"start", "exited"}
                    /\ Arrive(c, kind)
                    /\ UNCHANGED appVars

Gone == main = "exited" /\ UNCHANGED allVars

AppNext == \/ StartupStep \/ TimerFires \/ SignalArrives
           \/ Interrupt \/ InterruptFails \/ ServerDone \/ RuntimeDrops \/ Exit
           \/ ServerTakes(MainStep)
           \/ \E c \in Conn : ServerTakes(TaskStep(c) \/ PeerStep(c))
           \/ \E c \in Conn, kind \in {"ok", "nonfatal", "fatal"} : Connect(c, kind)
           \/ Gone

AppSpec == AppInit /\ [][AppNext]_allVars

(* The runtime polls what can run, the timer included; peers play along, as *)
(* in Server.  Nobody has to press Ctrl+C.                                  *)
AppFairness ==
  /\ WF_allVars(StartupStep) /\ WF_allVars(TimerFires) /\ WF_allVars(SignalArrives)
  /\ WF_allVars(ServerDone) /\ WF_allVars(Exit)
  /\ WF_allVars(ServerTakes(LeaveLoop)) /\ WF_allVars(ServerTakes(Broadcast))
  /\ WF_allVars(ServerTakes(ReleaseReceiver)) /\ WF_allVars(ServerTakes(Return))
  /\ \A c \in Conn :
       /\ WF_allVars(ServerTakes(Accept(c)))
       /\ WF_allVars(ServerTakes(DropFailedAccept(c)))
       /\ WF_allVars(ServerTakes(OffloadHandshake(c)))
       /\ WF_allVars(ServerTakes(StartHandshake(c)))
       /\ WF_allVars(ServerTakes(ObserveShutdown(c)))
       /\ WF_allVars(ServerTakes(ConnEnds(c)))
       /\ WF_allVars(ServerTakes(FinishUnwinding(c)))
       /\ WF_allVars(ServerTakes(HandshakeSucceeds(c) \/ HandshakeFails(c)))
       /\ WF_allVars(ServerTakes(Respond(c)))
       /\ WF_allVars(ServerTakes(AckGoAway(c)))
AppFairSpec == AppSpec /\ AppFairness

-------------------------------------------------------------------------------
(* What the examples promise.                                               *)

(* Until Ctrl+C the server serves, in the tower example at least until its  *)
(* timer is done: nothing a connection does shuts it down, and no sender is *)
(* lost on the way from the channel to the server                           *)
(* (examples/tower_service_fn.rs:154-187, examples/tonic.rs:68-100).        *)
ServesUntilInterrupted ==
  main = "running" /\ timer # "done" => pc = "select" /\ signal = "pending"

(* A main that returns Ok(()) cut nothing that the server still had: no     *)
(* connection is in the backlog, in its handshake or being served.  Only    *)
(* connections that were upgraded away end with the process, because        *)
(* nothing waits for them (src/http.rs:116,                                 *)
(* examples/tower_service_fn.rs:187-196).                                   *)
ExitsDrained == exit = "ok" => \A c \in Conn : stage[c] \in {"absent", "upgraded"}

(* A request in progress is cut by nothing the process does but one: when   *)
(* waiting for Ctrl+C fails, main returns, and the process may be gone      *)
(* before the server, which the dropped sender tells to shut down, is       *)
(* drained (examples/tower_service_fn.rs:184-196, examples/tonic.rs:99-107).*)
Alive(c) == InFlight(c) /\ main # "exited"
OnlyFailureCuts ==
  [][\A c \in Conn : Alive(c) /\ ~Alive(c)' =>
       \/ Respond(c) \/ Upgrade(c) \/ Disconnect(c) \/ TaskPanics(c)
       \/ Exit /\ exit = "ctrl_c"]_allVars

(* The server runs exactly with usable files: every certificate of a file   *)
(* without a bad section, at least one, and a key with nothing bad before   *)
(* it; when loading fails it is for a reason in the file, and no client is  *)
(* left waiting in the backlog (src/tls.rs:139-170,                         *)
(* examples/tower_service_fn.rs:143-149).                                   *)
CertsUsable == certfile.exists /\ \A i \in DOMAIN certfile.sections : certfile.sections[i] # "bad"
KeyUsable ==
  keyfile.exists /\ \E i \in DOMAIN keyfile.sections :
    /\ keyfile.sections[i] = "key"
    /\ \A j \in DOMAIN keyfile.sections : j < i => keyfile.sections[j] # "bad"
StartupExact ==
  /\ Spawned => CertsUsable /\ KeyUsable /\ \E i \in DOMAIN certfile.sections :
                                              certfile.sections[i] = "cert"
  /\ exit = "certs" => ~CertsUsable
  /\ exit = "key" => CertsUsable /\ ~KeyUsable
  /\ exit \in StartupError => incoming = <<>> /\ \A c \in Conn : stage[c] = "absent"

(* Ctrl+C ends the process, once the peers of what is open are done         *)
(* (examples/tower_service_fn.rs:184-196, examples/tonic.rs:99-107).        *)
InterruptEndsProcess == main = "awaiting" ~> main = "exited"

(* What the comment "Spawn a task to send the shutdown signal after 1       *)
(* second" says: a server that still runs when the timer fires shuts down   *)
(* (examples/tower_service_fn.rs:157).                                      *)
TimerShutsDown == timer = "done" ~> signal = "fired" \/ main = "exited"

-------------------------------------------------------------------------------
(* Why they hold: where main is decides what the server may have done.      *)
MainAndServer ==
  /\ main \in Startup \cup {"running"} => pc = "select" /\ signal = "pending"
  /\ oneshot["second"] = "open" <=> main \in Startup \cup {"running"}
  /\ exit = "none" <=> main \notin {"leaving", "exited"}
  /\ pc = "aborted" => exit \notin {"none", "ok"}
  /\ exit = "ok" => pc = "returned"
Backlog ==
  /\ main \in Startup => \A c \in Conn : stage[c] \in {"absent", "queued"}
  /\ Over(pc) => incoming = <<>> /\ \A c \in Conn : stage[c] # "queued"
Loaded ==
  /\ main \in Startup \ {"start", "bound"} \/ Spawned => load_certs(certfile).ok
  /\ main \in {"keyed", "configured"} \/ Spawned => load_private_key(keyfile).ok
  /\ main = "configured" \/ Spawned => load_certs(certfile).loaded # {}
  /\ exit = "certs" => ~load_certs(certfile).ok
  /\ exit = "key" => load_certs(certfile).ok /\ ~load_private_key(keyfile).ok
  /\ exit \in StartupError => pc = "aborted" /\ \A c \in Conn : stage[c] = "absent"
AppInv == AppTypeOK /\ MainAndServer /\ Backlog /\ Loaded
===============================================================================
