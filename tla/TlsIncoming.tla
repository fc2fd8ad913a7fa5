------------------------------ MODULE TlsIncoming ------------------------------
(****************************************************************************)
(* serve_tls_incoming (src/tls.rs:69-124): a generator that pulls a stream  *)
(* of connections and errors, shakes hands with each connection before it   *)
(* pulls the next, and yields what comes of it.  Whoever polls it may stop  *)
(* at any time and come back: the generator, with the handshake it is in,   *)
(* keeps its place.                                                         *)
(****************************************************************************)
EXTENDS Naturals, Sequences, AcceptErrors

CONSTANTS Error,            \* the errors the stream of connections gives
          HandshakeError,   \* the errors a handshake may end with
          MaxItems          \* bound: items the stream gives in all

ASSUME ErrorAssumption == Error \subseteq AcceptError
ASSUME HandshakeErrorAssumption == HandshakeError \subseteq AcceptError
ASSUME MaxItemsAssumption == MaxItems \in Nat

VARIABLES
  tcp_stream, \* its items not pulled yet, in order
  closed,     \* it will give no more
  place,      \* of the generator: "pulling", "accepting" or "done"
  polled,     \* the generator is being polled
  result,     \* history: what each item pulled came to, Pending while its
              \* peer has not done its part of the handshake
  yielded     \* history: what was yielded, with the number of its item

vars == <<tcp_stream, closed, place, polled, result, yielded>>

Connection == [type |-> "connection"]
Pending == [type |-> "pending"]
TlsStream == [type |-> "tls"]

Item == {Connection} \cup Error
Result == {Pending, TlsStream} \cup Error \cup HandshakeError
Fatal(r) == r \in AcceptError /\ HandleAcceptError(r) = "Break"
Yielded == [item : Nat, value : {TlsStream} \cup {e \in Error \cup HandshakeError : Fatal(e)}]

TypeOK == /\ tcp_stream \in Seq(Item)
          /\ closed \in BOOLEAN
          /\ place \in {"pulling", "accepting", "done"}
          /\ polled \in BOOLEAN
          /\ result \in Seq(Result)
          /\ yielded \in Seq(Yielded)

Init == /\ tcp_stream = <<>>
        /\ closed = FALSE
        /\ place = "pulling"
        /\ polled = FALSE
        /\ result = <<>>
        /\ yielded = <<>>

-------------------------------------------------------------------------------
(* The stream of connections, the peer in the handshake, and the consumer.  *)
Arrive(i) == /\ ~closed /\ Len(tcp_stream) + Len(result) < MaxItems
             /\ tcp_stream' = Append(tcp_stream, i)
             /\ UNCHANGED <<closed, place, polled, result, yielded>>

Close == /\ ~closed
         /\ closed' = TRUE
         /\ UNCHANGED <<tcp_stream, place, polled, result, yielded>>

Current == Len(result)
AwaitsPeer == place = "accepting" /\ result[Current] = Pending

(* The peer has done its part, or broken the connection off.                *)
PeerActs(r) == /\ AwaitsPeer
               /\ result' = [result EXCEPT ![Current] = r]
               /\ UNCHANGED <<tcp_stream, closed, place, polled, yielded>>

Poll == /\ ~polled /\ place # "done"
        /\ polled' = TRUE
        /\ UNCHANGED <<tcp_stream, closed, place, result, yielded>>

-------------------------------------------------------------------------------
(* The generator, while it is polled.                                       *)

Pulls(i, r) == /\ polled /\ place = "pulling"
               /\ tcp_stream # <<>> /\ Head(tcp_stream) = i
               /\ tcp_stream' = Tail(tcp_stream)
               /\ result' = Append(result, r)
               /\ UNCHANGED closed

(* A yield ends the poll; the generator goes on from here in the next.      *)
YieldItem(n, r) == /\ place' = "pulling"
                   /\ polled' = FALSE
                   /\ yielded' = Append(yielded, [item |-> n, value |-> r])

Skip == /\ place' = "pulling"
        /\ UNCHANGED <<polled, yielded>>

(* Mutant: what is fatal is dropped as well.                                *)
JudgeDropsAll(n, e) == Skip

(* Mutant: a fatal error ends the generator.                                *)
JudgeEnds(n, e) ==
  \/ HandleAcceptError(e) = "Continue" /\ Skip
  \/ /\ HandleAcceptError(e) = "Break"
     /\ place' = "done"
     /\ polled' = FALSE
     /\ yielded' = Append(yielded, [item |-> n, value |-> e])

(* Both places that judge an error do the same with it: `continue`, or      *)
(* yield it and go on.                                                      *)
Judge(n, e) ==
  \/ HandleAcceptError(e) = "Continue" /\ Skip
  \/ HandleAcceptError(e) = "Break" /\ YieldItem(n, e)

PullConnection == /\ Pulls(Connection, Pending)
                  /\ place' = "accepting"
                  /\ UNCHANGED <<polled, yielded>>

PullError(e) == Pulls(e, e) /\ Judge(Current + 1, e)

(* Mutant: a handshake is dropped along with the poll that found it         *)
(* pending.                                                                 *)
PendForgets == /\ polled
               /\ polled' = FALSE
               /\ \/ place = "pulling" /\ tcp_stream = <<>> /\ ~closed /\ UNCHANGED place
                  \/ AwaitsPeer /\ place' = "pulling"
               /\ UNCHANGED <<tcp_stream, closed, result, yielded>>

(* Nothing to pull, or nothing from the peer: the poll is pending.          *)
Pend == /\ polled
        /\ (place = "pulling" /\ tcp_stream = <<>> /\ ~closed) \/ AwaitsPeer
        /\ polled' = FALSE
        /\ UNCHANGED <<tcp_stream, closed, place, result, yielded>>

(* tls.accept(io) is ready.                                                 *)
HandshakeReady == polled /\ place = "accepting" /\ result[Current] # Pending

YieldTlsStream == /\ HandshakeReady /\ result[Current] = TlsStream
                  /\ YieldItem(Current, TlsStream)
                  /\ UNCHANGED <<tcp_stream, closed, result>>

JudgeHandshake == /\ HandshakeReady /\ result[Current] # TlsStream
                  /\ Judge(Current, result[Current])
                  /\ UNCHANGED <<tcp_stream, closed, result>>

(* The stream of connections has ended, and so does the generator.          *)
Finish == /\ polled /\ place = "pulling" /\ tcp_stream = <<>> /\ closed
          /\ place' = "done"
          /\ polled' = FALSE
          /\ UNCHANGED <<tcp_stream, closed, result, yielded>>

(* A finished stream may be polled again, and gives None again.             *)
PollDone == place = "done" /\ UNCHANGED vars

Generator == \/ PullConnection
             \/ \E e \in Error : PullError(e)
             \/ Pend
             \/ YieldTlsStream
             \/ JudgeHandshake
             \/ Finish

Next == \/ \E i \in Item : Arrive(i)
        \/ Close
        \/ \E r \in {TlsStream} \cup HandshakeError : PeerActs(r)
        \/ Poll
        \/ Generator
        \/ PollDone

(* A consumer that keeps polling, as the server's loop does, and nothing    *)
(* asked of peers.                                                          *)
Spec == Init /\ [][Next]_vars
ConsumerSpec == Spec /\ WF_vars(Poll) /\ WF_vars(Generator)

-------------------------------------------------------------------------------
(* Every item pulled is accounted for: a connection whose handshake         *)
(* succeeded and a fatal error of either kind were yielded once each, as    *)
(* what they are and in the order in which they came; what is not fatal     *)
(* never was; and only the last item can be undecided, and only while the   *)
(* generator is in its handshake, however often the consumer gave up and    *)
(* came back (src/tls.rs:81-122).                                           *)
Undecided(n) == n = Current /\ place = "accepting"
InOrder == \A i, j \in 1..Len(yielded) : i < j => yielded[i].item < yielded[j].item
OnlyResults ==
  \A i \in 1..Len(yielded) :
    LET n == yielded[i].item IN
    n \in 1..Current /\ ~Undecided(n) /\ yielded[i].value = result[n]
AllResults ==
  \A n \in 1..Current :
    \/ Undecided(n)
    \/ \E i \in 1..Len(yielded) : yielded[i].item = n
    \/ result[n] \in AcceptError /\ ~Fatal(result[n])
Accounted == InOrder /\ OnlyResults /\ AllResults

(* No peer ends the stream for the others, whatever its handshake ends      *)
(* with, and no error of accept does: that takes the end of the stream of   *)
(* connections (src/tls.rs:81, 90-104, 107-120).                            *)
EndsOnlyWithSource == place = "done" => closed /\ tcp_stream = <<>>

(* Inductive, with what relates the generator's place to the last item.     *)
IInv == /\ TypeOK
        /\ place = "accepting" => Current > 0
        /\ \A n \in 1..Current : result[n] = Pending => Undecided(n)
        /\ Accounted
        /\ EndsOnlyWithSource

(* With a consumer that keeps polling, an item that arrived is pulled,      *)
(* unless a peer keeps the generator in its handshake for ever: nothing     *)
(* else holds up the others (src/tls.rs:81-85).                             *)
OnlyHandshakesHoldUp ==
  \A n \in 1..MaxItems :
    Len(tcp_stream) + Current >= n ~> Current >= n \/ []AwaitsPeer
===============================================================================
