------------------------------ MODULE TcpIncoming ------------------------------
(****************************************************************************)
(* serve_tcp_incoming (src/tcp.rs:57-86): a generator between the listener's *)
(* stream and whoever polls it.  The consumer polls when it likes and drops  *)
(* its Next futures when it likes, as the select! of the server does: the    *)
(* generator keeps its place.                                                *)
(****************************************************************************)
EXTENDS Naturals, Sequences, AcceptErrors

CONSTANTS Error,      \* the accept errors the listener gives
          MaxItems    \* bound: items the listener gives in all

ASSUME ErrorAssumption == Error \subseteq AcceptError
ASSUME MaxItemsAssumption == MaxItems \in Nat

VARIABLES
  arrived,    \* history: all items of the listener, in order
  pulled,     \* how many of them the generator has pulled
  closed,     \* the listener's stream will give no more
  gen,        \* the generator: "idle", "polled" or "done"
  delivered   \* history: the items the consumer got, by their number

vars == <<arrived, pulled, closed, gen, delivered>>

Connection == [type |-> "connection"]
Item == {Connection} \cup Error

TypeOK == /\ arrived \in Seq(Item)
          /\ pulled \in Nat
          /\ closed \in BOOLEAN
          /\ gen \in {"idle", "polled", "done"}
          /\ delivered \in Seq(Nat)

Init == /\ arrived = <<>>
        /\ pulled = 0
        /\ closed = FALSE
        /\ gen = "idle"
        /\ delivered = <<>>

-------------------------------------------------------------------------------
(* The listener.                                                            *)
Ready == pulled < Len(arrived)

Arrive(i) == /\ ~closed /\ Len(arrived) < MaxItems
             /\ arrived' = Append(arrived, i)
             /\ UNCHANGED <<pulled, closed, gen, delivered>>

Close == /\ ~closed
         /\ closed' = TRUE
         /\ UNCHANGED <<arrived, pulled, gen, delivered>>

(* The consumer.                                                            *)
Poll == /\ gen = "idle"
        /\ gen' = "polled"
        /\ UNCHANGED <<arrived, pulled, closed, delivered>>

-------------------------------------------------------------------------------
(* The generator, once polled.                                              *)

Pulls(i) == /\ gen = "polled" /\ Ready /\ arrived[pulled + 1] = i
            /\ pulled' = pulled + 1
            /\ UNCHANGED <<arrived, closed>>

Yield == /\ gen' = "idle"
         /\ delivered' = Append(delivered, pulled + 1)

YieldConnection == Pulls(Connection) /\ Yield

(* Mutant: the arm ends the loop instead of the turn.                       *)
BreakOnNonFatal(e) == /\ Pulls(e)
                      /\ HandleAcceptError(e) = "Continue"
                      /\ gen' = "done"
                      /\ UNCHANGED delivered

(* `continue`: pull again, in the same poll.                                *)
SkipNonFatal(e) == /\ Pulls(e)
                   /\ HandleAcceptError(e) = "Continue"
                   /\ UNCHANGED <<gen, delivered>>

(* Mutant: a fatal error is logged like any other, and not yielded.         *)
SkipFatal(e) == /\ Pulls(e)
                /\ HandleAcceptError(e) = "Break"
                /\ UNCHANGED <<gen, delivered>>

(* ControlFlow::Break only chooses what is yielded: the loop goes on.       *)
YieldFatal(e) == /\ Pulls(e)
                 /\ HandleAcceptError(e) = "Break"
                 /\ Yield

(* The listener has nothing: the poll is pending.                           *)
Pend == /\ gen = "polled" /\ ~Ready /\ ~closed
        /\ gen' = "idle"
        /\ UNCHANGED <<arrived, pulled, closed, delivered>>

(* The listener's stream has ended, and so has the generator's.             *)
Finish == /\ gen = "polled" /\ ~Ready /\ closed
          /\ gen' = "done"
          /\ UNCHANGED <<arrived, pulled, closed, delivered>>

(* A finished stream may be polled again, and gives None again.             *)
PollDone == gen = "done" /\ UNCHANGED vars

Next == \/ \E i \in Item : Arrive(i)
        \/ Close
        \/ Poll
        \/ YieldConnection
        \/ \E e \in Error : SkipNonFatal(e) \/ YieldFatal(e)
        \/ Pend
        \/ Finish
        \/ PollDone

Spec == Init /\ [][Next]_vars

-------------------------------------------------------------------------------
(* The non-fatal errors, as the documentation of handle_accept_error lists  *)
(* them (src/error.rs:24-30).                                               *)
NonFatal(i) == i \in [type : {"io"}, kind : {"ConnectionAborted", "Interrupted",
                                             "InvalidData", "WouldBlock"}]
Wanted(n) == ~NonFatal(arrived[n])

(* Whatever the interleaving of arrivals, polls and abandoned polls, the    *)
(* consumer gets every connection and every fatal error that was pulled,    *)
(* once and in order, and no non-fatal error (src/tcp.rs:70-83).            *)
NothingLostOrReordered ==
  /\ \A i, j \in 1..Len(delivered) : i < j => delivered[i] < delivered[j]
  /\ \A i \in 1..Len(delivered) : delivered[i] \in 1..pulled /\ Wanted(delivered[i])
  /\ \A n \in 1..pulled : Wanted(n) => \E i \in 1..Len(delivered) : delivered[i] = n

(* A non-fatal error does not end the stream: that takes the end of the     *)
(* listener's own, with everything before it pulled, or an error that was   *)
(* yielded.  Whether a fatal one should end it is another question, see     *)
(* NothingAfterFatal (src/tcp.rs:70-83).                                    *)
NonFatalNeverEnds ==
  gen = "done" => \/ closed /\ pulled = Len(arrived)
                  \/ pulled > 0 /\ arrived[pulled] # Connection /\ Wanted(pulled)

(* Whatever arrives, is skipped or is yielded, the generator's place,   *)
(* its history and its end agree (src/tcp.rs:63-85).  Inductive.            *)
IInv == /\ TypeOK
        /\ pulled <= Len(arrived)
        /\ NothingLostOrReordered
        /\ NonFatalNeverEnds

(* What the documentation and the tests say: the stream terminates after a  *)
(* fatal error (src/tcp.rs:10-12, 33-36, 79-81, 226-227, 259-260).          *)
NothingAfterFatal ==
  \A i \in 1..Len(delivered) : arrived[delivered[i]] # Connection => i = Len(delivered)
===============================================================================
