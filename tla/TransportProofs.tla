---------------------------- MODULE TransportProofs ----------------------------
(****************************************************************************)
(* Theorems about Transport, for any number of bytes and any buffers.       *)
(****************************************************************************)
EXTENDS Transport, TLAPS

LEMMA InvInit == Init => IInv
  <1> SUFFICES ASSUME Init PROVE IInv
    OBVIOUS
  <1>1. TypeOK
    BY DEF Init, TypeOK
  <1>2. 0 - 0 = 0
    OBVIOUS
  <1>3. sent - received = 0 /\ accepted - sent = 0
    BY <1>2 DEF Init
  <1>4. 0 <= SocketBuffer /\ 0 <= SessionBuffer
    BY SocketAssumption, SessionAssumption
  <1>5. sent - received <= SocketBuffer /\ accepted - sent <= SessionBuffer
    BY <1>3, <1>4, Zenon
  <1>6. Counted
    BY <1>5 DEF Init, Counted
  <1>7. OutputOrder
    BY DEF Init, OutputOrder, SocketClosed
  <1> QED
    BY <1>1, <1>6, <1>7 DEF IInv

-------------------------------------------------------------------------------
(* What one write and one drain of the session do to the counters.          *)

LEMMA WriteCounts ==
  ASSUME IInv, Write
  PROVE  /\ accepted' \in Nat /\ sent' \in Nat
         /\ accepted < accepted' /\ accepted' <= produced
         /\ sent <= sent' /\ sent' <= accepted'
         /\ sent' - received <= SocketBuffer /\ accepted' - sent' <= SessionBuffer
         /\ transport = "Plain" => sent' = accepted'
  <1> PICK n \in 1..(produced - accepted) :
         /\ accepted' = accepted + n
         /\ \/ transport = "Plain" /\ WritePlain(n)
            \/ transport = "Tls" /\ WriteTls(n)
    BY DEF Write
  <1> USE SocketAssumption, SessionAssumption DEF IInv, TypeOK, Counted, Room, InSession
  <1>1. CASE transport = "Plain" /\ WritePlain(n)
    BY <1>1 DEF WritePlain
  <1>2. CASE transport = "Tls" /\ WriteTls(n)
    <2>1. Room \in Int /\ InSession + n \in Int
      OBVIOUS
    <2>2. sent' = sent + MinOf(Room, InSession + n) /\ n <= Room + SessionBuffer - InSession
      BY <1>2 DEF WriteTls
    <2> QED
      BY <1>2, <2>1, <2>2 DEF MinOf
  <1> QED
    BY <1>1, <1>2

LEMMA DrainCounts ==
  ASSUME IInv, Drain
  PROVE  /\ sent' \in Nat
         /\ sent <= sent' /\ sent' <= accepted
         /\ sent' - received <= SocketBuffer
  <1> USE SocketAssumption DEF IInv, TypeOK, Counted, Room, InSession
  <1>1. CASE Room < InSession
    BY <1>1 DEF Drain, MinOf
  <1>2. CASE ~(Room < InSession)
    BY <1>2 DEF Drain, MinOf
  <1> QED
    BY <1>1, <1>2

LEMMA InvNext == IInv /\ [Next]_vars => IInv'
  <1> SUFFICES ASSUME IInv, [Next]_vars PROVE IInv'
    OBVIOUS
  <1> USE MaxBytesAssumption, SocketAssumption, SessionAssumption
      DEF IInv, TypeOK, Counted, OutputOrder, SocketClosed, outVars, inVars, kind
  <1>1. CASE Produce
    <2>1. /\ hyper = "serving" /\ produced' = produced + 1 /\ flushed' = FALSE
          /\ UNCHANGED <<kind, hyper, accepted, sent, received, notified, outEnd, inVars>>
      BY <1>1 DEF Produce
    <2> DEFINE more == produced + 1
    <2>2. more \in Nat /\ accepted <= more
      OBVIOUS
    <2>3. produced' = more
      BY <2>1
    <2> HIDE DEF more
    <2>5. TypeOK' /\ Counted'
      BY <2>1, <2>2, <2>3
    <2>4. OutputOrder'
      BY <2>1
    <2> QED
      BY <2>4, <2>5
  <1>2. CASE Write
    <2>1. UNCHANGED <<kind, hyper, produced, received, flushed, notified, outEnd, inVars>>
      BY <1>2 DEF Write
    <2>2. hyper = "serving" /\ ~flushed
      BY <1>2, WriteCounts DEF Write
    <2> QED
      BY <2>1, <2>2, <1>2, WriteCounts
  <1>3. CASE PollFlush
    <2>1. CASE transport = "Plain"
      BY <1>3, <2>1 DEF PollFlush, Drained
    <2>2. CASE transport = "Tls"
      <3>1. Drain /\ flushed' = (sent' = accepted)
        BY <1>3, <2>2 DEF PollFlush, Drained
      <3> HIDE DEF Drained, Drain
      <3> QED
        BY <1>3, <2>2, <3>1, DrainCounts DEF PollFlush
    <2> QED
      BY <2>1, <2>2
  <1>4. CASE BeginShutdown
    BY <1>4 DEF BeginShutdown
  <1>5. CASE PollShutdown
    <2>1. CASE transport = "Plain"
      BY <1>5, <2>1 DEF PollShutdown, Drained
    <2>2. CASE transport = "Tls"
      <3>1. Drain /\ notified' = (sent' = accepted)
        BY <1>5, <2>2 DEF PollShutdown, Drained
      <3>2. hyper' = IF notified' THEN "closed" ELSE "closing"
        BY <1>5, <3>1 DEF PollShutdown, Drained
      <3> QED
        BY <1>5, <2>2, <3>1, <3>2, DrainCounts DEF PollShutdown
    <2> QED
      BY <2>1, <2>2
  <1>6. CASE DropTransport
    BY <1>6 DEF DropTransport
  <1>7. CASE PeerReads
    <2> DEFINE more == received'
    <2>1. more \in Nat /\ received < more /\ more <= sent
      BY <1>7 DEF PeerReads
    <2>2. UNCHANGED <<kind, hyper, produced, accepted, sent, flushed, notified, outEnd, inVars>>
          /\ outEnd = "open"
      BY <1>7 DEF PeerReads
    <2> HIDE DEF more
    <2>3. sent - more <= SocketBuffer
      BY <2>1
    <2>4. received' = more
      BY DEF more
    <2>5. TypeOK' /\ Counted'
      BY <2>1, <2>2, <2>3, <2>4
    <2>6. OutputOrder'
      BY <2>2
    <2> QED
      BY <2>5, <2>6
  <1>8. CASE PeerSeesEnd
    BY <1>8 DEF PeerSeesEnd
  <1>9. CASE PeerSends
    BY <1>9 DEF PeerSends
  <1>10. ASSUME NEW how \in {"closed", "cut"}, PeerEnds(how) PROVE IInv'
    BY <1>10 DEF PeerEnds
  <1>11. CASE PollRead
    BY <1>11 DEF PollRead, EndOfInput
  <1>12. CASE UNCHANGED vars
    BY <1>12 DEF vars
  <1> QED
    BY <1>1, <1>2, <1>3, <1>4, <1>5, <1>6, <1>7, <1>8, <1>9, <1>10, <1>11, <1>12
    DEF Next, PollWrite, PollWriteVectored, Finished

(* Bytes are counted rightly, and what a flush and a shutdown reported is   *)
(* true, whatever the buffers (src/io.rs:104-173).                          *)
THEOREM Inductive == Spec => []IInv
  BY InvInit, InvNext, PTL DEF Spec

(* Every variable keeps its type.                                           *)
THEOREM TypeCorrect == Spec => []TypeOK
  <1>1. IInv => TypeOK
    BY DEF IInv
  <1> QED
    BY <1>1, Inductive, PTL
-------------------------------------------------------------------------------
(* The refinement: each step is a step of either stream, or of neither.     *)

LEMMA OutputInit == Init => Output!Init
  BY DEF Init, Output!Init, OutputEnd, SocketClosed

LEMMA InputInit == Init => Input!Init
  BY DEF Init, Input!Init, InputEnd

LEMMA OutputSteps == IInv /\ [Next]_vars => [Output!Next]_(Output!vars)
  <1> SUFFICES ASSUME IInv, [Next]_vars PROVE Output!Next \/ UNCHANGED Output!vars
    OBVIOUS
  <1> USE DEF outVars, inVars, kind, OutputEnd, SocketClosed, Output!vars
  <1>1. CASE Write
    <2>1. UNCHANGED OutputEnd /\ UNCHANGED received /\ OutputEnd = "open"
      BY <1>1 DEF Write, IInv, OutputOrder
    <2>2. accepted' \in Nat /\ accepted' > accepted
      BY <1>1, WriteCounts DEF IInv, TypeOK
    <2> HIDE DEF OutputEnd
    <2> QED
      BY <2>1, <2>2 DEF Output!Next, Output!Write
  <1>2. CASE PollShutdown
    <2>1. accepted' = accepted /\ received' = received /\ outEnd' = outEnd /\ outEnd = "open"
      BY <1>2 DEF PollShutdown, IInv, TypeOK, OutputOrder
    <2>2. OutputEnd = "open" /\ OutputEnd' \in {"open", "closed"}
      BY <1>2, <2>1 DEF PollShutdown
    <2> HIDE DEF OutputEnd
    <2> QED
      BY <2>1, <2>2 DEF Output!Next, Output!Close
  <1>3. CASE DropTransport
    <2>1. accepted' = accepted /\ received' = received /\ outEnd' = outEnd /\ outEnd = "open"
      BY <1>3 DEF DropTransport, IInv, TypeOK, OutputOrder
    <2>2. OutputEnd = "open" /\ OutputEnd' \in {"closed", "broken"}
      BY <1>3, <2>1 DEF DropTransport
    <2> HIDE DEF OutputEnd
    <2> QED
      BY <2>1, <2>2 DEF Output!Next, Output!Close, Output!Break
  <1>4. CASE PeerReads
    <2>1. UNCHANGED OutputEnd /\ OutputEnd # "ended" /\ accepted' = accepted
      BY <1>4 DEF PeerReads
    <2>2. received' \in Nat /\ received < received' /\ received' <= accepted
      BY <1>4 DEF PeerReads, IInv, TypeOK, Counted
    <2> HIDE DEF OutputEnd
    <2> QED
      BY <2>1, <2>2 DEF Output!Next, Output!Deliver
  <1>5. CASE PeerSeesEnd
    <2>1. accepted' = accepted /\ received' = received
      BY <1>5 DEF PeerSeesEnd
    <2>2. CASE transport = "Tls" /\ ~notified
      BY <1>5, <2>1, <2>2 DEF PeerSeesEnd
    <2>3. CASE transport = "Plain" \/ notified
      <3>1. OutputEnd = "closed" /\ OutputEnd' = "ended"
        BY <1>5, <2>3 DEF PeerSeesEnd, IInv, TypeOK, OutputOrder
      <3>2. received = accepted
        BY <1>5, <2>3 DEF PeerSeesEnd, IInv, TypeOK, Counted, OutputOrder
      <3> HIDE DEF OutputEnd
      <3> QED
        BY <2>1, <3>1, <3>2 DEF Output!Next, Output!End
    <2> QED
      BY <2>2, <2>3 DEF IInv, TypeOK
  <1>6. CASE Produce
    BY <1>6 DEF Produce
  <1>7. CASE PollFlush
    BY <1>7 DEF PollFlush
  <1>8. CASE BeginShutdown
    BY <1>8 DEF BeginShutdown
  <1>9. CASE PeerSends \/ PollRead \/ PeerEnds("closed") \/ PeerEnds("cut")
    BY <1>9 DEF PeerSends, PollRead, PeerEnds
  <1>10. CASE UNCHANGED vars
    BY <1>10 DEF vars
  <1> QED
    BY <1>1, <1>2, <1>3, <1>4, <1>5, <1>6, <1>7, <1>8, <1>9, <1>10
    DEF Next, PollWrite, PollWriteVectored, Finished

LEMMA InputSteps == IInv /\ [Next]_vars => [Input!Next]_(Input!vars)
  <1> SUFFICES ASSUME IInv, [Next]_vars PROVE Input!Next \/ UNCHANGED Input!vars
    OBVIOUS
  <1> USE DEF outVars, inVars, kind, InputEnd, Input!vars
  <1>1. CASE PeerSends
    <2>1. UNCHANGED InputEnd /\ InputEnd = "open" /\ read' = read
      BY <1>1 DEF PeerSends, IInv, TypeOK, OutputOrder
    <2>2. peerSent' \in Nat /\ peerSent' > peerSent
      BY <1>1 DEF PeerSends, IInv, TypeOK
    <2> HIDE DEF InputEnd
    <2> QED
      BY <2>1, <2>2 DEF Input!Next, Input!Write
  <1>2. ASSUME NEW how \in {"closed", "cut"}, PeerEnds(how)
        PROVE  Input!Next \/ UNCHANGED Input!vars
    <2>1. peerSent' = peerSent /\ read' = read /\ InputEnd = "open"
      BY <1>2 DEF PeerEnds, IInv, TypeOK, OutputOrder
    <2>2. InputEnd' \in {"closed", "broken"}
      BY <1>2 DEF PeerEnds, IInv, TypeOK, OutputOrder
    <2> HIDE DEF InputEnd
    <2> QED
      BY <2>1, <2>2 DEF Input!Next, Input!Close, Input!Break
  <1>3. CASE PollRead
    <2>1. CASE read' \in (read + 1)..peerSent /\ UNCHANGED inEnd
      <3>1. UNCHANGED InputEnd /\ InputEnd # "ended" /\ peerSent' = peerSent
        BY <1>3, <2>1 DEF PollRead
      <3>2. read' \in Nat /\ read < read' /\ read' <= peerSent
        BY <2>1 DEF IInv, TypeOK
      <3> HIDE DEF InputEnd
      <3> QED
        BY <3>1, <3>2 DEF Input!Next, Input!Deliver
    <2>2. CASE /\ peer # "open" /\ read = peerSent
               /\ inEnd' = EndOfInput /\ UNCHANGED read
      <3>1. peerSent' = peerSent /\ peer' = peer /\ inEnd = "open" /\ transport' = transport
        BY <1>3 DEF PollRead
      <3>2. CASE transport = "Tls" /\ peer = "cut"
        BY <2>2, <3>1, <3>2 DEF EndOfInput
      <3>3. CASE ~(transport = "Tls" /\ peer = "cut")
        <4>1. InputEnd = "closed" /\ InputEnd' = "ended"
          BY <2>2, <3>1, <3>3 DEF EndOfInput
        <4> HIDE DEF InputEnd
        <4> QED
          BY <2>2, <3>1, <4>1 DEF Input!Next, Input!End
      <3> QED
        BY <3>2, <3>3
    <2> QED
      BY <1>3, <2>1, <2>2 DEF PollRead
  <1>4. CASE UNCHANGED <<kind, inVars>>
    BY <1>4
  <1> QED
    BY <1>1, <1>2, <1>3, <1>4
    DEF Next, vars, Produce, PollWrite, PollWriteVectored, Write, PollFlush, BeginShutdown,
        PollShutdown, DropTransport, PeerReads, PeerSeesEnd, Finished

(* Either direction of a transport, plain or TLS, is a stream of bytes that *)
(* ends for its reader only after all of it (src/io.rs:72-186).             *)
THEOREM Implements == Spec => ImplementsByteStreams
  <1>1. Spec => Output!Spec
    BY OutputInit, OutputSteps, Inductive, PTL DEF Spec, Output!Spec
  <1>2. Spec => Input!Spec
    BY InputInit, InputSteps, Inductive, PTL DEF Spec, Input!Spec
  <1> QED
    BY <1>1, <1>2, PTL DEF ImplementsByteStreams

-------------------------------------------------------------------------------
(* What follows for the bytes themselves.                                   *)

(* A peer that sees a clean end has read every byte a write had taken, and  *)
(* after an orderly close every byte hyper had to say: an end that comes    *)
(* too early is never clean (src/io.rs:126-150).                            *)
THEOREM CleanEndComplete ==
  Spec => [](outEnd = "clean" => /\ received = accepted
                                 /\ hyper = "closed" => received = produced)
  <1>1. IInv => (outEnd = "clean" => /\ received = accepted
                                     /\ hyper = "closed" => received = produced)
    BY DEF IInv, TypeOK, Counted, OutputOrder
  <1> QED
    BY <1>1, Inductive, PTL

(* Whatever the socket and the session hold, somebody can move the next     *)
(* byte (src/io.rs:104-150).                                                *)
THEOREM OutputGoesOn == Spec => []OutputNeverStuck
  <1>1. IInv => OutputNeverStuck
    <2> SUFFICES ASSUME IInv, SocketBuffer > 0, received < produced, hyper # "dropped",
                        ~(received < sent)
                 PROVE  \/ hyper = "serving" /\ accepted < produced /\ WritesTaken > 0
                        \/ MoreToPush /\ MinOf(Room, InSession) > 0
      BY DEF OutputNeverStuck
    <2> USE SocketAssumption, SessionAssumption DEF IInv, TypeOK, Counted, OutputOrder
    <2>1. received = sent /\ Room = SocketBuffer
      BY DEF Room
    <2>2. CASE accepted < produced
      <3>1. hyper = "serving"
        BY <2>2
      <3>2. WritesTaken > 0
        <4>1. InSession \in Int /\ SessionBuffer - InSession >= 0
          BY DEF InSession
        <4>2. CASE transport = "Tls"
          BY <2>1, <4>1, <4>2 DEF WritesTaken
        <4>3. CASE transport # "Tls"
          BY <2>1, <4>3 DEF WritesTaken
        <4> QED
          BY <4>2, <4>3
      <3> QED
        BY <2>2, <3>1, <3>2
    <2>3. CASE accepted = produced
      <3>1. InSession \in Int /\ InSession > 0
        BY <2>1, <2>3 DEF InSession
      <3>2. MinOf(Room, InSession) > 0
        BY <2>1, <3>1 DEF MinOf
      <3>3. MoreToPush
        BY <2>1, <2>3 DEF MoreToPush
      <3> QED
        BY <3>2, <3>3
    <2> QED
      BY <2>2, <2>3
  <1> QED
    BY <1>1, Inductive, PTL
===============================================================================
