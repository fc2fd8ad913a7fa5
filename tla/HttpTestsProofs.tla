---------------------------- MODULE HttpTestsProofs ----------------------------
(****************************************************************************)
(* Theorems about HttpTests, for any finite set of connections and any      *)
(* pool, and for sleeps of any length: when one may end (SleepMayEnd) is    *)
(* never looked into.                                                       *)
(****************************************************************************)
EXTENDS HttpTests, ServerProofs, FunctionTheorems

-------------------------------------------------------------------------------
(* The scenarios.                                                           *)

Plausible(t) == /\ t.tls \in BOOLEAN
                /\ t.clients \in Nat
                /\ Len(t.script) \in 0..3
                /\ t.last = "request" => Len(t.script) = 1 /\ t.script[1] # "/delay"

LEMMA ScenariosPlausible == ASSUME NEW t \in Scenarios PROVE Plausible(t)
  <1> USE DEF Plausible, Scenario
  <1>1. /\ Plausible(test_large_payload)
        /\ Plausible(test_concurrent_large_payloads)
        /\ Plausible(test_graceful_shutdown_with_active_requests)
        /\ Plausible(test_shutdown_rejects_new_connections)
    BY DEF test_large_payload, test_concurrent_large_payloads,
       test_graceful_shutdown_with_active_requests, test_shutdown_rejects_new_connections
  <1>2. /\ Plausible(test_tls_basic_request)
        /\ Plausible(test_tls_multiple_requests_same_connection)
        /\ Plausible(test_tls_concurrent_connections)
        /\ Plausible(test_invalid_client_cert)
    BY DEF test_tls_basic_request, test_tls_multiple_requests_same_connection,
       test_tls_concurrent_connections, test_invalid_client_cert
  <1>3. /\ Plausible(test_wrong_hostname)
        /\ Plausible(test_tls_large_payload)
        /\ Plausible(test_tls_graceful_shutdown)
        /\ Plausible(test_grpc_health_check)
    BY DEF test_wrong_hostname, test_tls_large_payload, test_tls_graceful_shutdown,
       test_grpc_health_check
  <1> HIDE DEF Plausible, Scenario
  <1> QED
    BY <1>1, <1>2, <1>3 DEF Scenarios

(* How long the sleeps are makes no difference to the rest of a test.       *)
LEMMA TestsPlausible == ASSUME NEW t \in Tests PROVE Plausible(t)
  <1>1. PICK u \in Scenarios : \E b \in BOOLEAN : t = [u EXCEPT !.sleepsOutlast = b]
    BY DEF Tests
  <1>2. Plausible(u)
    BY ScenariosPlausible
  <1>3. t.tls = u.tls /\ t.clients = u.clients /\ t.script = u.script /\ t.last = u.last
    BY <1>1
  <1> QED
    BY <1>2, <1>3 DEF Plausible

LEMMA QuickLastRequest == ASSUME test \in Tests, test.last = "request" PROVE ~Slow
  <1>1. Plausible(test)
    BY TestsPlausible
  <1> QED
    BY <1>1 DEF Plausible, Slow

LEMMA QuestionsBound ==
  ASSUME test \in Tests
  PROVE  Len(test.script) \in Nat /\ Questions \in 0..3 /\ Len(test.script) <= Questions
  <1>1. Plausible(test)
    BY TestsPlausible
  <1>2. CASE test.last = "request"
    <2>1. Questions = Len(test.script) + 1 /\ Len(test.script) = 1
      BY <1>1, <1>2 DEF Questions, Plausible
    <2> QED
      BY <2>1
  <1>3. CASE test.last # "request"
    <2>1. Len(test.script) \in 0..3 /\ Questions = Len(test.script) + 0
      BY <1>1, <1>3 DEF Questions, Plausible
    <2> QED
      BY <2>1
  <1> QED
    BY <1>2, <1>3

(* A finite set has subsets of every size up to its own.                    *)
LEMMA SubsetOfSize ==
  ASSUME NEW S, IsFiniteSet(S), NEW k \in Nat, k <= Cardinality(S)
  PROVE  \E T \in SUBSET S : Cardinality(T) = k
  <1>1. Cardinality(S) \in Nat
    BY FS_CardinalityType
  <1>2. PICK f \in Bijection(1..Cardinality(S), S) : TRUE
    BY FS_CardinalityType, Fun_ExistsBij
  <1> DEFINE T == {f[i] : i \in 1..k}
             g == [i \in 1..k |-> f[i]]
  <1>3. \A i \in 1..k : i \in 1..Cardinality(S)
    BY <1>1
  <1>4. /\ \A i \in 1..Cardinality(S) : f[i] \in S
        /\ \A i, j \in 1..Cardinality(S) : f[i] = f[j] => i = j
    BY <1>2 DEF Bijection, Injection, IsInjective
  <1>5. T \in SUBSET S
    BY <1>3, <1>4
  <1>6. g \in Bijection(1..k, T)
    BY <1>3, <1>4 DEF Bijection, Injection, Surjection, IsInjective
  <1>7. Cardinality(T) = k
    BY <1>6, FS_CountingElements, Fun_ExistsBij
  <1> QED
    BY <1>5, <1>7

LEMMA ClientsConnect == ASSUME test \in Tests PROVE Clients \subseteq Conn
  <1> DEFINE size == IF test.clients <= Cardinality(Conn) THEN test.clients
                     ELSE Cardinality(Conn)
  <1>1. size \in Nat /\ size <= Cardinality(Conn)
    BY TestsPlausible, FiniteAssumption, FS_CardinalityType DEF Plausible
  <1>2. \E S \in SUBSET Conn : Cardinality(S) = size
    BY <1>1, FiniteAssumption, SubsetOfSize
  <1> QED
    BY <1>2 DEF Clients

-------------------------------------------------------------------------------
(* A test is the server and its environment.                                *)

LEMMA ServerStep == test \in Tests /\ TestNext => [Next]_vars
  <1> SUFFICES ASSUME test \in Tests, TestNext PROVE [Next]_vars
    OBVIOUS
  <1>c. Clients \subseteq Conn
    BY ClientsConnect
  <1>1. CASE ServerTakes(MainStep)
    BY <1>1 DEF ServerTakes, Next
  <1>2. ASSUME NEW c \in Clients, Connect(c) PROVE [Next]_vars
    BY <1>2, <1>c DEF Connect, Next, Environment
  <1>3. ASSUME NEW c \in Clients, Refused(c) \/ Judge(c) \/ Ask(c) \/ Leave(c) \/ RequestFails(c)
                                \/ AskAgain(c)
        PROVE  [Next]_vars
    BY <1>3 DEF Refused, Judge, Ask, Leave, RequestFails, AskAgain
  <1>4. ASSUME NEW c \in Clients, ServerTakes(ServerWorks(c)) PROVE [Next]_vars
    <2>1. TaskStep(c) \/ PeerStep(c)
      BY <1>4 DEF ServerTakes, ServerWorks, TaskStep, PeerStep
    <2> QED
      BY <2>1, <1>c DEF Next
  <1>5. ASSUME NEW c \in Clients, Responds(c) PROVE [Next]_vars
    BY <1>5, <1>c DEF Responds, PeerStep, Next
  <1>6. CASE Signal
    BY <1>6 DEF Signal, Next, Environment
  <1>7. CASE SleepEnds \/ CheckSlow \/ CheckConnect
    BY <1>7 DEF SleepEnds, CheckSlow, CheckConnect
  <1>8. CASE Ended /\ UNCHANGED allVars
    BY <1>8 DEF allVars
  <1> QED
    BY <1>1, <1>2, <1>3, <1>4, <1>5, <1>6, <1>7, <1>8 DEF TestNext, Work

LEMMA TestKept == [TestNext]_allVars => UNCHANGED test
  BY DEF TestNext, Work, ServerTakes, Connect, Refused, Judge, Ask, Leave, RequestFails, Responds,
     Signal, SleepEnds, CheckSlow, CheckConnect, AskAgain, testVars, allVars

(* What the tests drive is the server, so that every theorem of             *)
(* ServerProofs holds in every one of them (src/http.rs:465-938).           *)
THEOREM ImplementsServer == TestSpec => Spec
  <1>1. TestInit => Init /\ test \in Tests
    BY DEF TestInit
  <1>2. test \in Tests /\ [TestNext]_allVars => (test \in Tests)'
    BY TestKept
  <1>3. test \in Tests /\ [TestNext]_allVars => [Next]_vars
    BY ServerStep DEF allVars
  <1> QED
    BY <1>1, <1>2, <1>3, PTL DEF TestSpec, Spec

-------------------------------------------------------------------------------
(* The inductive invariant: what a step of the server, and what a step of a *)
(* client, has to respect.                                                  *)

LEMMA TestInvInit == TestInit => TestInv
  <1> SUFFICES ASSUME TestInit PROVE TestInv
    OBVIOUS
  <1> USE DEF TestInit, Init
  <1>1. TestTypeOK
    BY DEF TestTypeOK
  <1>2. ClientsAgree
    BY DEF ClientsAgree
  <1>3. AnswersCounted
    BY QuestionsBound DEF AnswersCounted
  <1>4. KeptUntilSignal
    BY DEF KeptUntilSignal, Http!Fresh
  <1>5. DoneAtSignal /\ OnlySleepsCanFail
    BY DEF DoneAtSignal, OnlySleepsCanFail
  <1> QED
    BY <1>1, <1>2, <1>3, <1>4, <1>5 DEF TestInv

(* The server takes a step that leaves the test alone.                      *)
LEMMA ServerKeepsTest ==
  ASSUME TestInv, UNCHANGED testVars, ClientsAgree', KeptUntilSignal'
  PROVE  TestInv'
  <1> USE DEF TestInv, testVars
  <1>1. TestTypeOK'
    BY DEF TestTypeOK
  <1>2. AnswersCounted'
    BY DEF AnswersCounted, Questions
  <1>3. DoneAtSignal' /\ OnlySleepsCanFail'
    BY DEF DoneAtSignal, OnlySleepsCanFail, Clients, Slow, Questions
  <1> QED
    BY <1>1, <1>2, <1>3

(* The task of c moves on, in a way that suits its client.                  *)
Suits(c, s, h) ==
  /\ client[c] = "new" => s = "absent"
  /\ s = "serving" => /\ client[c] \notin {"new", "shaking", "rejected"}
                      /\ h.phase = "busy" => client[c] = "waiting"
  /\ s # "serving" => h = Http!Fresh
  /\ signal = "pending" => /\ h.closing = "no"
                           /\ s = "serving" /\ h.phase = "over" => client[c] = "left"
                           /\ client[c] \in {"ready", "waiting"} => s # "absent"

LEMMA TaskMoves ==
  ASSUME TypeOK, TestInv, UNCHANGED testVars, UNCHANGED <<tls, pc, signal>>,
         \A d \in Conn : item'[d] = "ok",
         NEW c \in Conn, NEW s, NEW h, Suits(c, s, h),
         stage' = [stage EXCEPT ![c] = s], http' = [http EXCEPT ![c] = h]
  PROVE  TestInv'
  <1>1. ClientsAgree'
    BY DEF TypeOK, TestInv, ClientsAgree, Suits, testVars
  <1>2. KeptUntilSignal'
    BY DEF TypeOK, TestInv, KeptUntilSignal, Suits, testVars
  <1> QED
    BY <1>1, <1>2, ServerKeepsTest

(* Before the signal there is nothing for a connection to observe.          *)
LEMMA NothingToObserve ==
  ASSUME IInv, TestInv, signal = "pending", NEW c \in Conn
  PROVE  ~ObserveShutdown(c)
  <1> SUFFICES ASSUME ObserveShutdown(c) PROVE FALSE
    OBVIOUS
  <1>1. pc = "select" /\ version = 0 /\ senderAlive
    BY DEF IInv, TestInv, KeptUntilSignal, ChannelFollowsMain, TypeOK, Over
  <1>2. seen[c] = 0
    BY DEF IInv, UntoldUnseen, Running, RunningStage, Graceful, ObserveShutdown
  <1> QED
    BY <1>1, <1>2 DEF ObserveShutdown, Watch!MarkSeen, Watch!HasChanged

LEMMA WorksSuit ==
  ASSUME IInv, TestInv, NEW c \in Conn, ServerTakes(ServerWorks(c))
  PROVE  TestInv'
  <1> USE DEF IInv, TypeOK, TestInv, ServerTakes, loopVars, taskVars
  <1>a. http[c] \in Http!State /\ \A d \in Conn : item[d] = "ok"
    BY DEF ClientsAgree
  <1>b. UNCHANGED testVars
    OBVIOUS
  <1>1. ASSUME NEW s \in {"serving", "waitingThread", "handshaking"}, Suits(c, s, http[c]),
               stage' = [stage EXCEPT ![c] = s], UNCHANGED <<tls, pc, signal, item, http>>
        PROVE  TestInv'
    BY <1>1, <1>a, <1>b, TaskMoves
  <1>2. ASSUME NEW h, stage[c] = "serving", Suits(c, "serving", h),
               http' = [http EXCEPT ![c] = h], UNCHANGED <<tls, pc, signal, item, stage>>
        PROVE  TestInv'
    BY <1>2, <1>a, <1>b, TaskMoves
  <1>3. ASSUME EndTask(c, "absent"), Suits(c, "absent", Http!Fresh), UNCHANGED <<tls, pc, signal>>
        PROVE  TestInv'
    BY <1>3, <1>a, <1>b, TaskMoves DEF EndTask
  <1>4. CASE ServePlain(c)
    BY <1>1, <1>4 DEF ServePlain, StartServing, Suits, ClientsAgree, KeptUntilSignal, Http!Fresh
  <1>5. CASE OffloadHandshake(c)
    BY <1>1, <1>5 DEF OffloadHandshake, Suits, ClientsAgree, KeptUntilSignal
  <1>6. CASE StartHandshake(c)
    BY <1>1, <1>6, HeadWaits DEF StartHandshake, QueuesExact, Suits, ClientsAgree, KeptUntilSignal
  <1>7. CASE ConnEnds(c)
    BY <1>3, <1>7 DEF ConnEnds, Suits, ClientsAgree, KeptUntilSignal, Http!Fresh
  <1>8. CASE HandshakeSucceeds(c) /\ client[c] \notin {"shaking", "rejected"}
    BY <1>1, <1>8 DEF HandshakeSucceeds, StartServing, Suits, ClientsAgree, KeptUntilSignal,
       Http!Fresh
  <1>9. CASE HandshakeFails(c) /\ client[c] = "rejected"
    BY <1>3, <1>9 DEF HandshakeFails, Suits, ClientsAgree, KeptUntilSignal, Http!Fresh
  <1>10. CASE ObserveShutdown(c)
    <2>1. PICK h \in Http!AfterGracefulShutdown(http[c]) : http' = [http EXCEPT ![c] = h]
      BY <1>10 DEF ObserveShutdown
    <2>2. h.phase = "busy" => http[c].phase = "busy"
      BY <1>a, <2>1 DEF Http!AfterGracefulShutdown, Http!State, Http!Phase, Http!Closing
    <2>3. signal # "pending"
      BY <1>10, NothingToObserve
    <2> QED
      BY <1>2, <1>10, <2>1, <2>2, <2>3 DEF ObserveShutdown, Suits, ClientsAgree
  <1>11. CASE RequestArrives(c) /\ client[c] = "waiting"
    BY <1>2, <1>11, <1>a DEF RequestArrives, HttpStep, Suits, ClientsAgree, KeptUntilSignal,
       Http!Received, Http!State
  <1>12. CASE Disconnect(c) /\ client[c] = "left"
    BY <1>2, <1>12, <1>a DEF Disconnect, HttpStep, Suits, ClientsAgree, KeptUntilSignal,
       Http!Over, Http!State
  <1> QED
    BY <1>4, <1>5, <1>6, <1>7, <1>8, <1>9, <1>10, <1>11, <1>12 DEF ServerWorks

LEMMA MainKeepsTest ==
  ASSUME IInv, TestInv, ServerTakes(MainStep)
  PROVE  TestInv'
  <1> USE DEF IInv, TypeOK, TestInv, ServerTakes, taskVars
  <1>a. UNCHANGED testVars /\ \A c \in Conn : item[c] = "ok"
    BY DEF ClientsAgree
  <1>1. ASSUME NEW c \in Conn, Spawn(c) PROVE TestInv'
    <2>1. stage[c] = "queued"
      BY <1>1, HeadWaits DEF Spawn, QueuesExact
    <2>2. Suits(c, "spawned", http[c])
      BY <1>1, <2>1 DEF Suits, ClientsAgree, KeptUntilSignal
    <2>3. http' = [http EXCEPT ![c] = http[c]]
      BY <1>1 DEF Spawn
    <2> QED
      BY <1>1, <1>a, <2>2, <2>3, TaskMoves DEF Spawn
  <1>2. ASSUME NEW c \in Conn PROVE ~SkipNonFatal(c)
    BY <1>a DEF SkipNonFatal
  <1>3. CASE LeaveLoop \/ Broadcast \/ ReleaseReceiver
    <2>1. UNCHANGED <<tls, signal, taskVars>> /\ pc' # "aborted"
      BY <1>3 DEF LeaveLoop, Broadcast, ReleaseReceiver
    <2>2. ClientsAgree' /\ KeptUntilSignal'
      BY <1>a, <2>1 DEF ClientsAgree, KeptUntilSignal, testVars
    <2> QED
      BY <1>a, <2>2, ServerKeepsTest
  <1>4. CASE Return
    <2>1. signal = "fired"
      BY <1>4 DEF Return, ChannelFollowsMain
    <2>2. ClientsAgree'
      BY <1>4, <1>a DEF Return, CloseListener, ClientsAgree, testVars
    <2>3. KeptUntilSignal'
      BY <1>4, <1>a, <2>1 DEF Return, KeptUntilSignal, testVars
    <2> QED
      BY <1>a, <2>2, <2>3, ServerKeepsTest
  <1> QED
    BY <1>1, <1>2, <1>3, <1>4 DEF MainStep

LEMMA ConnectStep ==
  ASSUME IInv, TestInv, ~Ended, NEW c \in Clients, c \in Conn, Connect(c)
  PROVE  TestInv'
  <1> USE DEF IInv, TypeOK, TestInv, Connect, Becomes, Arrive
  <1>1. TestTypeOK'
    BY DEF TestTypeOK
  <1>2. ClientsAgree'
    BY DEF TestTypeOK, ClientsAgree
  <1>3. AnswersCounted'
    BY DEF TestTypeOK, AnswersCounted, Questions
  <1>4. KeptUntilSignal'
    BY DEF TestTypeOK, ClientsAgree, KeptUntilSignal
  <1>5. DoneAtSignal' /\ OnlySleepsCanFail'
    BY DEF DoneAtSignal, OnlySleepsCanFail, Ended, Clients, Slow
  <1> QED
    BY <1>1, <1>2, <1>3, <1>4, <1>5

LEMMA RespondsStep ==
  ASSUME IInv, TestInv, ~Ended, NEW c \in Clients, c \in Conn, Responds(c)
  PROVE  TestInv'
  <1> USE DEF IInv, TypeOK, TestInv, Responds, Respond, Answered, HttpStep, Becomes, loopVars
  <1>1. Questions \in 0..3 /\ Len(test.script) \in Nat
    BY QuestionsBound DEF TestTypeOK
  <1>2. /\ answered[c] \in 0..3 /\ answered[c] < Questions
        /\ answered' = [answered EXCEPT ![c] = answered[c] + 1]
    <2>1. answered[c] \in 0..3
      BY DEF TestTypeOK
    <2>2. client[c] = "waiting" /\ AnswersCounted /\ c \in Conn
      OBVIOUS
    <2>3. answered[c] < Questions
      BY <2>2 DEF AnswersCounted
    <2> QED
      BY <2>1, <2>3
  <1>q. Questions' = Questions
    BY DEF Questions
  <1>d. /\ driver' = driver \/ (driver = "slept" /\ driver' = "failed")
        /\ driver' \in {"running", "signalled", "slept", "passed", "failed"}
    BY DEF TestTypeOK
  <1>3. TestTypeOK'
    <2>1. answered[c] + 1 \in 0..3
      BY <1>1, <1>2
    <2> QED
      BY <1>2, <1>d, <2>1 DEF TestTypeOK
  <1>4. ClientsAgree'
    BY DEF TestTypeOK, ClientsAgree, Http!Responded, Http!State
  <1>5. AnswersCounted'
    <2>1. answered[c] + 1 <= Questions
      BY <1>1, <1>2
    <2> QED
      BY <1>2, <1>q, <2>1 DEF TestTypeOK, AnswersCounted
  <1>6. KeptUntilSignal'
    BY <1>d DEF TestTypeOK, KeptUntilSignal, Http!Responded, Http!State
  <1>7. DoneAtSignal'
    <2>1. answered[c] >= Len(test.script) => answered[c] + 1 >= Len(test.script)
      BY <1>1, <1>2
    <2> QED
      BY <1>2, <1>d, <2>1 DEF TestTypeOK, DoneAtSignal, Clients, Slow
  <1>8. OnlySleepsCanFail'
    <2>1. CASE test.last = "request" /\ driver = "slept"
      <3>1. answered[c] >= Len(test.script) /\ Questions = Len(test.script) + 1
        BY <2>1, QuickLastRequest DEF TestTypeOK, DoneAtSignal, Questions
      <3>2. answered[c] + 1 = Questions
        BY <1>1, <1>2, <3>1
      <3>3. answered'[c] = Questions' /\ c \in Clients' /\ test'.last = "request"
        BY <1>2, <1>q, <2>1, <3>2 DEF TestTypeOK, Clients
      <3> QED
        BY <3>3 DEF OnlySleepsCanFail
    <2>2. CASE ~(test.last = "request" /\ driver = "slept")
      BY <2>2 DEF OnlySleepsCanFail, Ended
    <2> QED
      BY <2>1, <2>2
  <1> QED
    BY <1>3, <1>4, <1>5, <1>6, <1>7, <1>8

(* A client moves and the server does not.                                  *)
LEMMA ClientStep ==
  ASSUME IInv, TestInv, ~Ended, NEW c \in Clients, c \in Conn,
         Judge(c) \/ Ask(c) \/ Leave(c) \/ AskAgain(c)
  PROVE  TestInv'
  <1> USE DEF IInv, TypeOK, TestInv, Judge, Ask, Leave, AskAgain, Becomes, Served,
              vars, loopVars, taskVars
  <1>1. Len(test.script) \in Nat /\ Questions \in 0..3 /\ Len(test.script) <= Questions
    BY QuestionsBound DEF TestTypeOK
  <1>2. TestTypeOK'
    BY DEF TestTypeOK
  <1>3. ClientsAgree'
    BY DEF TestTypeOK, ClientsAgree
  <1>4. AnswersCounted'
    <2>1. ASSUME AskAgain(c) PROVE answered[c] < Questions
      <3>1. Questions = Len(test.script) + 1 /\ answered[c] = Len(test.script)
        BY <2>1 DEF Questions
      <3> QED
        BY <1>1, <3>1
    <2>2. ASSUME Ask(c) PROVE answered[c] < Questions
      <3>1. answered[c] \in Nat /\ answered[c] < Len(test.script)
        BY <2>2 DEF TestTypeOK
      <3> QED
        BY <1>1, <3>1
    <2>3. client'[c] = "waiting" => answered[c] < Questions
      BY <2>1, <2>2 DEF TestTypeOK
    <2>4. Questions' = Questions
      BY DEF Questions
    <2> QED
      BY <2>3, <2>4 DEF TestTypeOK, AnswersCounted
  <1>5. KeptUntilSignal'
    BY DEF TestTypeOK, KeptUntilSignal
  <1>6. DoneAtSignal'
    <2>1. Clients' = Clients /\ Slow' = Slow /\ UNCHANGED <<test, driver, answered>>
      BY DEF Clients, Slow
    <2>2. CASE driver \in {"signalled", "slept"} /\ ~Slow
      <3>1. /\ client[c] \notin {"new", "shaking"} /\ ~Judge(c) /\ answered[c] \in Nat
            /\ client[c] = "ready" => answered[c] >= Len(test.script)
        BY <2>2 DEF TestTypeOK, DoneAtSignal
      <3>2. ~Ask(c)
        BY <1>1, <3>1
      <3>3. CASE Leave(c)
        BY <2>1, <3>1, <3>3 DEF TestTypeOK, DoneAtSignal
      <3>4. CASE AskAgain(c)
        BY <2>1, <3>1, <3>4 DEF TestTypeOK, DoneAtSignal
      <3> QED
        BY <3>1, <3>2, <3>3, <3>4
    <2> QED
      BY <2>1, <2>2 DEF DoneAtSignal
  <1>7. OnlySleepsCanFail'
    BY DEF OnlySleepsCanFail, Ended
  <1> QED
    BY <1>2, <1>3, <1>4, <1>5, <1>6, <1>7

(* A request fails after the signal only, and with nobody to blame but the  *)
(* sleeps, or as the test wants it to.                                      *)
LEMMA RequestFailsStep ==
  ASSUME IInv, TestInv, ~Ended, NEW c \in Clients, c \in Conn, RequestFails(c)
  PROVE  TestInv'
  <1> USE DEF IInv, TypeOK, TestInv, RequestFails, Becomes, vars, loopVars, taskVars
  <1>1. signal = "fired" /\ driver \in {"signalled", "slept"}
    BY DEF TestTypeOK, KeptUntilSignal, Ended
  <1>2. driver' \in {"passed", "failed"}
    OBVIOUS
  <1>3. TestTypeOK'
    BY <1>2 DEF TestTypeOK
  <1>4. ClientsAgree'
    BY DEF TestTypeOK, ClientsAgree
  <1>5. AnswersCounted'
    BY DEF TestTypeOK, AnswersCounted, Questions
  <1>6. KeptUntilSignal'
    BY <1>1, <1>2 DEF TestTypeOK, KeptUntilSignal
  <1>7. DoneAtSignal'
    BY <1>2 DEF DoneAtSignal
  <1>8. OnlySleepsCanFail'
    <2>1. Slow \/ (test.last = "request" /\ driver = "slept")
      BY <1>1 DEF DoneAtSignal
    <2> QED
      BY <2>1 DEF OnlySleepsCanFail, Slow
  <1> QED
    BY <1>3, <1>4, <1>5, <1>6, <1>7, <1>8

(* Nothing listens any more before the last of the clients has connected:   *)
(* the slow request never got going.                                        *)
LEMMA RefusedStep ==
  ASSUME IInv, TestInv, ~Ended, NEW c \in Clients, c \in Conn, Refused(c)
  PROVE  TestInv'
  <1> USE DEF IInv, TypeOK, TestInv, Refused, Becomes, vars, loopVars, taskVars
  <1>1. signal = "fired" /\ driver \in {"signalled", "slept"}
    BY DEF TestTypeOK, KeptUntilSignal, ChannelFollowsMain, Over, Ended
  <1>2. TestTypeOK'
    BY DEF TestTypeOK
  <1>3. ClientsAgree'
    BY DEF TestTypeOK, ClientsAgree
  <1>4. AnswersCounted'
    BY DEF TestTypeOK, AnswersCounted, Questions
  <1>5. KeptUntilSignal'
    BY <1>1 DEF TestTypeOK, KeptUntilSignal
  <1>6. DoneAtSignal'
    BY DEF DoneAtSignal
  <1>7. OnlySleepsCanFail'
    BY <1>1 DEF DoneAtSignal, OnlySleepsCanFail, Slow
  <1> QED
    BY <1>2, <1>3, <1>4, <1>5, <1>6, <1>7

(* The test's own task: no connection moves.                                *)
LEMMA DriverStep ==
  ASSUME IInv, TestInv, ~Ended, Signal \/ SleepEnds \/ CheckSlow \/ CheckConnect
  PROVE  TestInv'
  <1> USE DEF IInv, TypeOK, TestInv, Signal, SignalFires, SleepEnds, CheckSlow, CheckConnect,
              vars, loopVars, taskVars
  <1>1. ~(driver = "running" /\ Over(pc))
    BY DEF KeptUntilSignal, ChannelFollowsMain, Over
  <1>2. UNCHANGED <<tls, pc, stage, item, http, test, client, answered>>
    BY <1>1
  <1>3. driver' \in {"signalled", "slept", "passed", "failed"} /\ signal' = "fired"
    BY <1>1 DEF KeptUntilSignal, TestTypeOK
  <1>4. TestTypeOK'
    BY <1>2, <1>3 DEF TestTypeOK
  <1>5. ClientsAgree' /\ AnswersCounted'
    BY <1>2 DEF ClientsAgree, AnswersCounted, Questions
  <1>6. KeptUntilSignal'
    BY <1>2, <1>3 DEF KeptUntilSignal
  <1>7. DoneAtSignal'
    <2>1. Clients' = Clients /\ Slow' = Slow
      BY <1>2 DEF Clients, Slow
    <2>2. CASE Signal /\ ~Slow
      <3>1. \A c \in Clients : client[c] \in {"left", "rejected"} \/ Served(c)
        BY <2>2 DEF ReadyToSignal, ClientsDone
      <3>2. \A c \in Clients : client[c] = "ready" => answered[c] >= Len(test.script)
        BY <3>1, QuestionsBound DEF Served, TestTypeOK
      <3> QED
        BY <1>2, <2>1, <3>1, <3>2 DEF DoneAtSignal, Served
    <2>3. CASE Slow \/ ~Signal
      BY <1>2, <2>1, <2>3 DEF DoneAtSignal
    <2> QED
      BY <2>2, <2>3
  <1>8. OnlySleepsCanFail'
    BY <1>1, <1>2 DEF OnlySleepsCanFail, Ended
  <1> QED
    BY <1>4, <1>5, <1>6, <1>7, <1>8

LEMMA TestInvStep == IInv /\ TestInv /\ [TestNext]_allVars => TestInv'
  <1> SUFFICES ASSUME IInv, TestInv, [TestNext]_allVars PROVE TestInv'
    OBVIOUS
  <1>c. Clients \subseteq Conn
    BY ClientsConnect DEF TestInv, TestTypeOK
  <1>1. ASSUME Work, ~Ended PROVE TestInv'
    BY <1>1, <1>c, MainKeepsTest, WorksSuit, ConnectStep, RespondsStep, ClientStep,
       RequestFailsStep, RefusedStep DEF Work
  <1>2. ASSUME ~Ended, NEW c \in Clients, AskAgain(c) PROVE TestInv'
    BY <1>2, <1>c, ClientStep
  <1>3. CASE ~Ended /\ (Signal \/ SleepEnds \/ CheckSlow \/ CheckConnect)
    BY <1>3, DriverStep
  <1>4. CASE UNCHANGED allVars
    <2>1. UNCHANGED testVars /\ UNCHANGED vars
      BY <1>4 DEF allVars
    <2>2. ClientsAgree' /\ KeptUntilSignal'
      BY <2>1 DEF TestInv, ClientsAgree, KeptUntilSignal, testVars, vars, loopVars, taskVars
    <2> QED
      BY <2>1, <2>2, ServerKeepsTest
  <1> QED
    BY <1>1, <1>2, <1>3, <1>4 DEF TestNext

(* A test and its server stay in step, and only the three tests that lean   *)
(* on a sleep can fail, each in its way, whether the sleeps are long enough *)
(* or not (src/http.rs:538-935, tests/main.rs:108-129).                     *)
THEOREM TestsInStep == TestSpec => []TestInv
  <1>1. TestSpec => []IInv
    BY ImplementsServer, Inductive, PTL
  <1> QED
    BY <1>1, TestInvInit, TestInvStep, PTL DEF TestSpec

(* The server of a test keeps its promise whatever the test does            *)
(* (src/http.rs:352-463, 465-938).                                          *)
THEOREM TestsDrain == TestSpec => ImplementsGracefulShutdown
  BY ImplementsServer, Refinement, PTL
===============================================================================
