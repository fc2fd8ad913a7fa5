------------------------------- MODULE Transport -------------------------------
(****************************************************************************)
(* Transport (src/io.rs): the six poll functions hyper drives a connection  *)
(* with, each passed on to a plain socket or to a TLS stream over one.  The *)
(* two differ in what a write, a flush and a shutdown leave to be done: the *)
(* TLS stream keeps bytes in its session while the socket has no room, and  *)
(* it ends with a close_notify of its own.                                  *)
(*                                                                          *)
(* Bytes are counted, never named.  hyper, the socket, the TLS session and  *)
(* the peer are external, modelled from how io.rs and http.rs use them.     *)
(****************************************************************************)
EXTENDS Integers

CONSTANTS MaxBytes,       \* bound: bytes each end writes in all
          SocketBuffer,   \* bytes the socket holds for a slow peer
          SessionBuffer   \* bytes the TLS session holds for a full socket

ASSUME MaxBytesAssumption == MaxBytes \in Nat
ASSUME SocketAssumption == SocketBuffer \in Nat
ASSUME SessionAssumption == SessionBuffer \in Nat

VARIABLES
  transport,  \* the variant: "Plain" or "Tls"
  vectored,   \* what the socket's is_write_vectored says
  hyper,      \* "serving", "closing", "closed" in order or "dropped"
  produced,   \* bytes hyper has to write
  accepted,   \* of these, bytes that a write has taken
  sent,       \* of these, bytes that have left for the socket
  received,   \* of these, bytes that the peer has read
  flushed,    \* a flush completed since the last write
  notified,   \* close_notify has left for the socket
  outEnd,     \* the end of output the peer saw: "open", "clean", "truncated"
  peer,       \* "open", "closed" in order or "cut" off
  peerSent,   \* bytes of the peer
  read,       \* of these, bytes hyper has read
  inEnd       \* the end of input hyper read: "open", "eof", "error"

outVars == <<produced, accepted, sent, received, flushed, notified, outEnd>>
inVars == <<peer, peerSent, read, inEnd>>
kind == <<transport, vectored>>
vars == <<kind, hyper, outVars, inVars>>

TypeOK ==
  /\ transport \in {"Plain", "Tls"} /\ vectored \in BOOLEAN
  /\ hyper \in {"serving", "closing", "closed", "dropped"}
  /\ produced \in Nat /\ accepted \in Nat /\ sent \in Nat /\ received \in Nat
  /\ flushed \in BOOLEAN /\ notified \in BOOLEAN
  /\ outEnd \in {"open", "clean", "truncated"}
  /\ peer \in {"open", "closed", "cut"}
  /\ peerSent \in Nat /\ read \in Nat
  /\ inEnd \in {"open", "eof", "error"}

(* new_plain and new_tls                                                    *)
Init == /\ transport \in {"Plain", "Tls"} /\ vectored \in BOOLEAN
        /\ hyper = "serving"
        /\ produced = 0 /\ accepted = 0 /\ sent = 0 /\ received = 0
        /\ flushed = TRUE /\ notified = FALSE
        /\ outEnd = "open"
        /\ peer = "open" /\ peerSent = 0 /\ read = 0
        /\ inEnd = "open"

MinOf(a, b) == IF a < b THEN a ELSE b

Room == SocketBuffer - (sent - received)
InSession == accepted - sent

-------------------------------------------------------------------------------
(* Output.                                                                  *)

Produce == /\ hyper = "serving" /\ produced < MaxBytes
           /\ produced' = produced + 1
           /\ flushed' = FALSE
           /\ UNCHANGED <<kind, hyper, accepted, sent, received, notified, outEnd, inVars>>

(* Of the buffers it is given, a plain socket takes what it has room for;   *)
(* a TLS session takes more, and passes on what the socket has room for.    *)
WritePlain(n) == /\ n <= Room
                 /\ sent' = sent + n

WriteTls(n) == /\ n <= Room + SessionBuffer - InSession
               /\ sent' = sent + MinOf(Room, InSession + n)

(* hyper offers all it has not written yet; the write may be short.         *)
Write ==
  /\ hyper = "serving"
  /\ \E n \in 1..(produced - accepted) :
       /\ accepted' = accepted + n
       /\ \/ transport = "Plain" /\ WritePlain(n)
          \/ transport = "Tls" /\ WriteTls(n)
  /\ UNCHANGED <<kind, hyper, produced, received, flushed, notified, outEnd, inVars>>

(* A TLS session gathers buffers whatever its socket does.                  *)
IsWriteVectored == transport = "Tls" \/ vectored

(* hyper keeps its buffers apart where that pays, and else flattens them.   *)
PollWrite == ~IsWriteVectored /\ Write
PollWriteVectored == IsWriteVectored /\ Write

(* A poll of the TLS stream moves to the socket what there is room for, and *)
(* is ready when nothing is left.                                           *)
Drain == sent' = sent + MinOf(Room, InSession)
Drained == sent' = accepted

(* Mutant: the flush is not passed on to the TLS stream.                    *)
PollFlushNotPassedOn ==
  /\ hyper = "serving" /\ accepted = produced /\ ~flushed
  /\ flushed' = TRUE
  /\ UNCHANGED <<kind, hyper, produced, accepted, sent, received, notified, outEnd, inVars>>

(* poll_flush, which hyper repeats until it is ready; a plain socket has    *)
(* nothing to flush.                                                        *)
PollFlush ==
  /\ hyper = "serving" /\ accepted = produced /\ ~flushed
  /\ \/ transport = "Plain" /\ UNCHANGED sent
     \/ transport = "Tls" /\ Drain
  /\ flushed' = Drained
  /\ UNCHANGED <<kind, hyper, produced, accepted, received, notified, outEnd, inVars>>

(* hyper closes a connection once it has written everything, flushed or not. *)
BeginShutdown == /\ hyper = "serving" /\ accepted = produced
                 /\ hyper' = "closing"
                 /\ UNCHANGED <<kind, outVars, inVars>>

(* Mutant: the socket under the TLS stream is shut down.                    *)
PollShutdownOfSocket ==
  /\ hyper = "closing"
  /\ hyper' = "closed"
  /\ UNCHANGED <<kind, outVars, inVars>>

(* poll_shutdown, which hyper repeats until it is ready: the TLS stream     *)
(* first sends what it holds and its close_notify, to which the model gives *)
(* no size; then the socket's output is closed, and the transport dropped.  *)
PollShutdown ==
  /\ hyper = "closing"
  /\ \/ transport = "Plain" /\ UNCHANGED <<sent, notified>>
     \/ transport = "Tls" /\ Drain /\ notified' = Drained
  /\ hyper' = IF Drained THEN "closed" ELSE "closing"
  /\ UNCHANGED <<kind, produced, accepted, received, flushed, outEnd, inVars>>

(* hyper gives the connection up; what the TLS session holds is lost.       *)
DropTransport == /\ hyper \in {"serving", "closing"}
                 /\ hyper' = "dropped"
                 /\ UNCHANGED <<kind, outVars, inVars>>

SocketClosed == hyper \in {"closed", "dropped"}

PeerReads == /\ outEnd = "open"
             /\ received' \in (received + 1)..sent
             /\ UNCHANGED <<kind, hyper, produced, accepted, sent, flushed,
                            notified, outEnd, inVars>>

(* A TLS peer knows an end that no close_notify announced for a truncation. *)
PeerSeesEnd == /\ outEnd = "open" /\ SocketClosed /\ received = sent
               /\ outEnd' = IF transport = "Tls" /\ ~notified THEN "truncated" ELSE "clean"
               /\ UNCHANGED <<kind, hyper, produced, accepted, sent, received,
                              flushed, notified, inVars>>

-------------------------------------------------------------------------------
(* Input.                                                                   *)

PeerSends == /\ peer = "open" /\ peerSent < MaxBytes
             /\ peerSent' = peerSent + 1
             /\ UNCHANGED <<kind, hyper, outVars, peer, read, inEnd>>

(* The peer closes, with a close_notify if it speaks TLS, or is cut off.    *)
PeerEnds(how) == /\ peer = "open"
                 /\ peer' = how
                 /\ UNCHANGED <<kind, hyper, outVars, peerSent, read, inEnd>>

(* Mutant: the end of the socket is taken for the end of the TLS stream.    *)
EndOfInputOfSocket == "eof"

(* To a plain socket a peer that was cut off has closed; a TLS stream       *)
(* misses its close_notify.                                                 *)
EndOfInput == IF transport = "Tls" /\ peer = "cut" THEN "error" ELSE "eof"

(* poll_read                                                                *)
PollRead ==
  /\ ~SocketClosed /\ inEnd = "open"
  /\ \/ read' \in (read + 1)..peerSent /\ UNCHANGED inEnd
     \/ peer # "open" /\ read = peerSent /\ inEnd' = EndOfInput /\ UNCHANGED read
  /\ UNCHANGED <<kind, hyper, outVars, peer, peerSent>>

-------------------------------------------------------------------------------
(* Nothing is left to do on either side.                                    *)
Finished == /\ SocketClosed /\ outEnd # "open" /\ peer # "open"
            /\ UNCHANGED vars

Next == \/ Produce \/ PollWrite \/ PollWriteVectored \/ PollFlush
        \/ BeginShutdown \/ PollShutdown \/ DropTransport
        \/ PeerReads \/ PeerSeesEnd
        \/ PeerSends \/ PeerEnds("closed") \/ PeerEnds("cut")
        \/ PollRead
        \/ Finished

(* hyper polls what is not ready when the socket's waker tells it to, and a *)
(* peer reads what it is sent.                                              *)
Spec == Init /\ [][Next]_vars
FairSpec == Spec /\ WF_vars(Write) /\ WF_vars(PollFlush) /\ WF_vars(PollShutdown)
                 /\ WF_vars(PeerReads) /\ WF_vars(PeerSeesEnd)

-------------------------------------------------------------------------------
(* Counters never overtake each other, no buffer overflows, what a flush    *)
(* reported is true, and a close_notify is the last thing sent.             *)
Counted == /\ received <= sent /\ sent <= accepted /\ accepted <= produced
           /\ sent - received <= SocketBuffer /\ accepted - sent <= SessionBuffer
           /\ transport = "Plain" => sent = accepted
           /\ read <= peerSent
OutputOrder ==
  /\ flushed => sent = produced
  /\ hyper \in {"closing", "closed"} => accepted = produced
  /\ hyper = "closed" => sent = accepted
  /\ notified <=> transport = "Tls" /\ hyper = "closed"
  /\ outEnd # "open" => SocketClosed /\ received = sent
  /\ outEnd = "clean" => transport = "Plain" \/ notified
  /\ inEnd # "open" => peer # "open" /\ read = peerSent
IInv == TypeOK /\ Counted /\ OutputOrder

(* The two directions of a transport, plain or TLS, are streams of bytes: a *)
(* peer that sees a clean end has everything hyper wrote, even if hyper     *)
(* dropped the transport; hyper takes a TLS peer that was cut off for one   *)
(* that was (src/io.rs:72-82, 104-186).                                     *)
OutputEnd == CASE outEnd = "clean" -> "ended"
               [] outEnd # "clean" /\ ~SocketClosed -> "open"
               [] OTHER -> IF transport = "Tls" /\ hyper = "dropped" THEN "broken" ELSE "closed"
InputEnd == CASE inEnd = "eof" -> "ended"
              [] inEnd # "eof" /\ peer = "open" -> "open"
              [] OTHER -> IF transport = "Tls" /\ peer = "cut" THEN "broken" ELSE "closed"
Output == INSTANCE ByteStream WITH written <- accepted, delivered <- received, end <- OutputEnd
Input == INSTANCE ByteStream WITH written <- peerSent, delivered <- read, end <- InputEnd
ImplementsByteStreams == Output!Spec /\ Input!Spec

(* No byte is left where nobody will move it: as long as the peer lacks one *)
(* of hyper's, there is something for the peer to read, or the call hyper   *)
(* has to make next (a write, a flush that is not done, a shutdown) moves   *)
(* at least one byte (src/io.rs:104-150).                                   *)
WritesTaken == Room + (IF transport = "Tls" THEN SessionBuffer - InSession ELSE 0)
MoreToPush == \/ hyper = "serving" /\ accepted = produced /\ ~flushed
              \/ hyper = "closing"
OutputNeverStuck ==
  SocketBuffer > 0 /\ received < produced /\ hyper # "dropped" =>
    \/ received < sent
    \/ hyper = "serving" /\ accepted < produced /\ WritesTaken > 0
    \/ MoreToPush /\ MinOf(Room, InSession) > 0

(* What hyper wrote reaches a peer that reads, while hyper does nothing but *)
(* wait for it: no byte stays behind in a session whose socket was full     *)
(* when it was written (src/io.rs:126-132).                                 *)
OutputDelivered ==
  \A n \in 1..MaxBytes : produced >= n ~> received >= n \/ hyper = "dropped"

(* A connection that hyper closed in order ends cleanly for its peer, with  *)
(* all that hyper had to say (src/io.rs:144-150).                           *)
OrderlyEnd == hyper = "closing" ~> hyper = "dropped" \/ (outEnd = "clean" /\ received = produced)
===============================================================================
