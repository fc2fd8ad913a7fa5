------------------------------- MODULE HttpTests -------------------------------
(****************************************************************************)
(* The tests of serve_http_with_shutdown (src/http.rs:465-938) and of the   *)
(* gRPC service behind it (tests/main.rs:108-129) as closed systems: one    *)
(* test, its clients and Server.  Does a test pass in every order in which  *)
(* the runtime can run them?                                                *)
(*                                                                          *)
(* Some tests rely on their sleeps to outlast the work of everybody else.   *)
(* Each is taken both ways: with sleeps that end when nothing else can      *)
(* happen, and with sleeps that may end at any moment.  A client asks for   *)
(* the paths of its script, one after the other, on one connection.         *)
(****************************************************************************)
EXTENDS Server

VARIABLES
  test,      \* the test
  driver,    \* its main task: "running", "signalled", "slept", "passed", "failed"
  client,    \* client[c]: where the client of connection c is
  answered   \* answered[c]: how many of its requests were answered

(* For a choice of clients.                                                 *)
ASSUME FiniteAssumption == IsFiniteSet(Conn)

testVars == <<test, driver, client, answered>>
allVars == <<vars, testVars>>

-------------------------------------------------------------------------------
(* The tests.  last is what is tried when the server should be gone, and    *)
(* sleepsOutlast whether sleeps are long enough for all other work.         *)
Scenario(withTls, clients, script) ==
  [tls |-> withTls, clients |-> clients, script |-> script, spawned |-> FALSE,
   trusted |-> TRUE, http2 |-> FALSE, last |-> "nothing", sleepsOutlast |-> TRUE]

test_large_payload == Scenario(FALSE, 1, <<"/large", "/echo">>)
test_concurrent_large_payloads ==
  [Scenario(FALSE, 3, <<"/large">>) EXCEPT !.spawned = TRUE]
test_graceful_shutdown_with_active_requests ==
  [Scenario(FALSE, 1, <<"/delay">>) EXCEPT !.spawned = TRUE]
test_shutdown_rejects_new_connections ==
  [Scenario(FALSE, 0, <<>>) EXCEPT !.last = "connect"]
test_tls_basic_request == Scenario(TRUE, 1, <<"/">>)
test_tls_multiple_requests_same_connection == Scenario(TRUE, 1, <<"/", "/", "/">>)
test_tls_concurrent_connections ==
  [Scenario(TRUE, 5, <<"/">>) EXCEPT !.spawned = TRUE]
test_invalid_client_cert == [Scenario(TRUE, 1, <<>>) EXCEPT !.trusted = FALSE]
test_wrong_hostname == [Scenario(TRUE, 1, <<>>) EXCEPT !.trusted = FALSE]
test_tls_large_payload == Scenario(TRUE, 1, <<"/large", "/echo">>)
test_tls_graceful_shutdown ==
  [Scenario(TRUE, 1, <<"/">>) EXCEPT !.last = "request"]
test_grpc_health_check == [Scenario(TRUE, 1, <<"/check">>) EXCEPT !.http2 = TRUE]

Scenarios == {test_large_payload, test_concurrent_large_payloads,
              test_graceful_shutdown_with_active_requests,
              test_shutdown_rejects_new_connections, test_tls_basic_request,
              test_tls_multiple_requests_same_connection, test_tls_concurrent_connections,
              test_invalid_client_cert, test_wrong_hostname, test_tls_large_payload,
              test_tls_graceful_shutdown, test_grpc_health_check}
Tests == {[t EXCEPT !.sleepsOutlast = outlast] : t \in Scenarios, outlast \in BOOLEAN}

(* A test's clients; bound: no more than there are connections.             *)
Clients == CHOOSE S \in SUBSET Conn :
             Cardinality(S) = IF test.clients <= Cardinality(Conn) THEN test.clients
                              ELSE Cardinality(Conn)
Slow == "/delay" \in {test.script[i] : i \in DOMAIN test.script}
LeansOnSleep == Slow \/ test.last # "nothing"

(* setup_test_server, setup_tls_test_server: the server is spawned before   *)
(* the test goes on.                                                        *)
TestInit == /\ Init /\ signal = "pending"
            /\ test \in Tests /\ tls = test.tls
            /\ driver = "running"
            /\ client = [c \in Conn |-> "new"]
            /\ answered = [c \in Conn |-> 0]

-------------------------------------------------------------------------------
(* The clients.                                                             *)

Becomes(c, place) == client' = [client EXCEPT ![c] = place]
Served(c) == client[c] = "ready" /\ answered[c] = Len(test.script)

(* TcpStream::connect, which only needs the listener.                       *)
Connect(c) == /\ client[c] = "new"
              /\ Becomes(c, IF tls THEN "shaking" ELSE "ready")
              /\ Arrive(c, "ok")
              /\ UNCHANGED <<test, driver, answered>>

(* Nothing listens any more: the unwrap of the connect panics.              *)
Refused(c) == /\ client[c] = "new" /\ Over(pc)
              /\ Becomes(c, "failed")
              /\ driver' = "failed"
              /\ UNCHANGED <<vars, test, answered>>

(* connector.connect, once the server has shown its certificate: the client *)
(* is done with the handshake before the server is.                         *)
Judge(c) == /\ client[c] = "shaking" /\ stage[c] = "handshaking"
            /\ Becomes(c, IF test.trusted THEN "ready" ELSE "rejected")
            /\ UNCHANGED <<vars, test, driver, answered>>

Ask(c) == /\ client[c] = "ready" /\ answered[c] < Len(test.script)
          /\ Becomes(c, "waiting")
          /\ UNCHANGED <<vars, test, driver, answered>>

(* The task of a spawned client is over: its sender is dropped, and with it *)
(* the connection.                                                          *)
Leave(c) == /\ test.spawned /\ Served(c)
            /\ Becomes(c, "left")
            /\ UNCHANGED <<vars, test, driver, answered>>

(* The connection is gone before the response came.                         *)
RequestFails(c) == /\ client[c] = "waiting"
                   /\ stage[c] = "absent" \/ (stage[c] = "serving" /\ http[c].phase = "over")
                   /\ Becomes(c, "failed")
                   /\ driver' = IF test.last = "request" /\ driver = "slept"
                                THEN "passed" ELSE "failed"
                   /\ UNCHANGED <<vars, test, answered>>

-------------------------------------------------------------------------------
(* The server, with these clients.                                          *)

ServerTakes(A) == A /\ UNCHANGED testVars

ServerWorks(c) ==
  \/ ServePlain(c) \/ OffloadHandshake(c) \/ StartHandshake(c) \/ ConnEnds(c)
  \/ HandshakeSucceeds(c) /\ client[c] \notin {"shaking", "rejected"}
  \/ HandshakeFails(c) /\ client[c] = "rejected"
  \/ ObserveShutdown(c) /\ (http'[c].closing = "asked" => test.http2)
  \/ RequestArrives(c) /\ client[c] = "waiting"
  \/ Disconnect(c) /\ client[c] = "left"

(* The client has its response, which an assertion forbids if the server    *)
(* should be gone: "Should fail as connection is shutting down".            *)
Answered(c) ==
  /\ Becomes(c, "ready")
  /\ answered' = [answered EXCEPT ![c] = @ + 1]
  /\ driver' = IF test.last = "request" /\ driver = "slept" THEN "failed" ELSE driver

(* Mutant: the client takes the first part of a response for all of it.     *)
RespondsInPart(c) ==
  /\ client[c] = "waiting" /\ stage[c] = "serving" /\ http[c].phase = "busy"
  /\ Slow /\ test.sleepsOutlast => driver = "slept"
  /\ Answered(c)
  /\ UNCHANGED <<vars, test>>

(* test_handler answers every path of the tests with 200; "/delay" sleeps   *)
(* for longer than the test does before it signals, if that sleep is what   *)
(* it should be.                                                            *)
Responds(c) ==
  /\ client[c] = "waiting" /\ Respond(c)
  /\ Slow /\ test.sleepsOutlast => driver = "slept"
  /\ Answered(c)
  /\ UNCHANGED test

Work == \/ ServerTakes(MainStep)
        \/ \E c \in Clients : \/ Connect(c) \/ Refused(c) \/ Judge(c) \/ Ask(c)
                              \/ Leave(c) \/ RequestFails(c)
                              \/ ServerTakes(ServerWorks(c)) \/ Responds(c)

(* Sleeps that are long enough end when nothing else is left to happen.     *)
SleepMayEnd == test.sleepsOutlast => ~ENABLED Work

-------------------------------------------------------------------------------
(* The main task of a test.                                                 *)

(* What it waits for before it signals: its clients, or with a slow request *)
(* in progress a sleep.                                                     *)
ClientsDone == \A c \in Clients : client[c] \in {"left", "rejected"} \/ Served(c)
ReadyToSignal == IF Slow THEN SleepMayEnd ELSE ClientsDone

(* shutdown_tx.send(()).unwrap() panics if the server future is gone.       *)
Signal == /\ driver = "running" /\ ReadyToSignal
          /\ \/ /\ ~Over(pc) /\ SignalFires
                /\ driver' = IF LeansOnSleep THEN "signalled" ELSE "passed"
             \/ Over(pc) /\ driver' = "failed" /\ UNCHANGED vars
          /\ UNCHANGED <<test, client, answered>>

SleepEnds == /\ driver = "signalled" /\ SleepMayEnd
             /\ driver' = "slept"
             /\ UNCHANGED <<vars, test, client, answered>>

(* The slow request should have been answered.                              *)
CheckSlow == /\ driver = "slept" /\ Slow /\ ClientsDone
             /\ driver' = "passed"
             /\ UNCHANGED <<vars, test, client, answered>>

(* "Attempt to connect should fail": nothing listens any more.              *)
CheckConnect == /\ driver = "slept" /\ test.last = "connect"
                /\ driver' = IF Over(pc) THEN "passed" ELSE "failed"
                /\ UNCHANGED <<vars, test, client, answered>>

(* "Try to send another request on the same connection": RequestFails is    *)
(* what the test wants, Answered what fails it.                             *)
AskAgain(c) == /\ driver = "slept" /\ test.last = "request" /\ Served(c)
               /\ Becomes(c, "waiting")
               /\ UNCHANGED <<vars, test, driver, answered>>

Ended == driver \in {"passed", "failed"}

TestNext == \/ ~Ended /\ (\/ Work \/ Signal \/ SleepEnds \/ CheckSlow \/ CheckConnect
                          \/ \E c \in Clients : AskAgain(c))
            \/ Ended /\ UNCHANGED allVars

(* The runtime does not stop while it can go on; no more is needed, because *)
(* a test does nothing twice.                                               *)
TestSpec == TestInit /\ [][TestNext]_allVars /\ WF_allVars(TestNext)

-------------------------------------------------------------------------------
TestTypeOK ==
  /\ test \in Tests
  /\ driver \in {"running", "signalled", "slept", "passed", "failed"}
  /\ client \in [Conn -> {"new", "shaking", "ready", "waiting", "left", "rejected", "failed"}]
  /\ answered \in [Conn -> 0..3]

(* The server works on a request only while its client waits for it, and a  *)
(* client that never finished its handshake is never served.                *)
ClientsAgree ==
  \A c \in Conn :
    /\ client[c] = "new" => stage[c] = "absent"
    /\ client[c] \in {"shaking", "rejected"} => tls
    /\ stage[c] = "serving" =>
         /\ client[c] \notin {"new", "shaking", "rejected"}
         /\ http[c].phase = "busy" => client[c] = "waiting"
    /\ stage[c] # "serving" => http[c] = Http!Fresh
    /\ item[c] = "ok"

(* No client gets more answers than it asks questions.                      *)
Questions == Len(test.script) + (IF test.last = "request" THEN 1 ELSE 0)
AnswersCounted ==
  \A c \in Conn : /\ answered[c] <= Questions
                  /\ client[c] = "waiting" => answered[c] < Questions

(* Until the test signals, the server tells no connection to shut down, and *)
(* keeps every one whose client is there.                                   *)
KeptUntilSignal ==
  /\ test.tls = tls /\ pc # "aborted"
  /\ signal = IF driver = "running" THEN "pending" ELSE "fired"
  /\ signal = "pending" =>
       \A c \in Conn :
         /\ http[c].closing = "no"
         /\ stage[c] = "serving" /\ http[c].phase = "over" => client[c] = "left"
         /\ client[c] \in {"ready", "waiting"} => stage[c] # "absent"

(* The tests that signal when their clients are done.                       *)
DoneAtSignal ==
  driver \in {"signalled", "slept"} /\ ~Slow =>
    \A c \in Clients :
      /\ client[c] \notin {"new", "shaking"}
      /\ client[c] = "waiting" => driver = "slept" /\ test.last = "request"
      /\ client[c] \in {"ready", "waiting"} => answered[c] >= Len(test.script)

(* Three tests can fail, by a sleep that is too short and in one way each:  *)
(* the slow request had not reached the server when it was told to shut     *)
(* down, the server still listened at the last connect, or the connection   *)
(* had not been told when it took the last request.                         *)
OnlySleepsCanFail ==
  driver = "failed" =>
    \/ Slow
    \/ test.last = "connect"
    \/ test.last = "request" /\ \E c \in Clients : answered[c] = Questions

(* A test is in step with its server (src/http.rs:416-442, 538-935): its    *)
(* clients are where the server takes them to be, they are kept until the   *)
(* signal, and no test fails for an order of events that its sleeps do not  *)
(* decide.                                                                  *)
TestInv == /\ TestTypeOK
           /\ ClientsAgree
           /\ AnswersCounted
           /\ KeptUntilSignal
           /\ DoneAtSignal
           /\ OnlySleepsCanFail

(* In every order of its tasks a test comes to its end, and with none of    *)
(* its assertions and unwraps failed if it does not sleep, or sleeps long   *)
(* enough (src/http.rs:538-935).                                            *)
EveryTestPasses == /\ <>Ended
                   /\ test.sleepsOutlast \/ ~LeansOnSleep => <>(driver = "passed")
===============================================================================
