--------------------------- MODULE TlsIncomingProofs ---------------------------
(****************************************************************************)
(* Theorems about TlsIncoming, for every set of errors, every set of ends   *)
(* that a handshake may have, and any number of items.                      *)
(****************************************************************************)
EXTENDS TlsIncoming, TLAPS

-------------------------------------------------------------------------------
(* Sequences.                                                               *)

LEMMA Appended ==
  ASSUME NEW S, NEW s \in Seq(S), NEW e \in S
  PROVE  /\ Append(s, e) \in Seq(S)
         /\ Len(s) \in Nat
         /\ Len(Append(s, e)) = Len(s) + 1
         /\ \A i \in 1..Len(s) : Append(s, e)[i] = s[i]
         /\ Append(s, e)[Len(s) + 1] = e
  OBVIOUS

LEMMA LastReplaced ==
  ASSUME NEW S, NEW s \in Seq(S), NEW e \in S, Len(s) > 0
  PROVE  /\ [s EXCEPT ![Len(s)] = e] \in Seq(S)
         /\ Len([s EXCEPT ![Len(s)] = e]) = Len(s)
         /\ \A i \in 1..Len(s) : i # Len(s) => [s EXCEPT ![Len(s)] = e][i] = s[i]
         /\ [s EXCEPT ![Len(s)] = e][Len(s)] = e
  OBVIOUS

-------------------------------------------------------------------------------
(* The items and results are of four types, none of which is another.       *)
LEMMA ErrorsAreErrors ==
  /\ \A e \in AcceptError : e # Pending /\ e # TlsStream /\ e # Connection
  /\ Pending # TlsStream
  /\ Error \cup HandshakeError \subseteq AcceptError
  <1>1. \A e \in AcceptError : e.type \in {"io", "wrapped", "other"}
    BY DEF AcceptError
  <1> QED
    BY <1>1, ErrorAssumption, HandshakeErrorAssumption
    DEF Pending, TlsStream, Connection

(* The policy has two answers.                                              *)
LEMMA Judged == \A e \in AcceptError : Fatal(e) <=> HandleAcceptError(e) # "Continue"
  BY DEF Fatal, HandleAcceptError

LEMMA InvInit == Init => IInv
  <1> SUFFICES ASSUME Init PROVE IInv
    OBVIOUS
  <1>1. Len(result) = 0 /\ Len(yielded) = 0
    BY DEF Init
  <1>2. TypeOK
    <2>1. tcp_stream \in Seq(Item) /\ result \in Seq(Result) /\ yielded \in Seq(Yielded)
      BY DEF Init
    <2> QED
      BY <2>1 DEF Init, TypeOK
  <1>3. Accounted
    BY <1>1 DEF Accounted, InOrder, OnlyResults, AllResults, Current
  <1> QED
    BY <1>1, <1>2, <1>3 DEF Init, IInv, Current, EndsOnlyWithSource

-------------------------------------------------------------------------------
(* What yielding an item does: the item is one that was not yielded yet,    *)
(* and newer than all that were.                                            *)
LEMMA YieldAccounts ==
  ASSUME TypeOK, TypeOK', InOrder, OnlyResults, AllResults,
         NEW n \in Nat \ {0}, NEW r, YieldItem(n, r),
         Current' = n, result'[n] = r,
         (n = Current /\ place = "accepting") \/ n = Current + 1,
         \A k \in 1..Current : k # n => result'[k] = result[k],
         n = Current + 1 => place # "accepting"
  PROVE  Accounted'
  <1>1. /\ Len(yielded) \in Nat /\ Len(yielded') = Len(yielded) + 1
        /\ \A i \in 1..Len(yielded) : yielded'[i] = yielded[i]
        /\ yielded'[Len(yielded) + 1] = [item |-> n, value |-> r]
    BY DEF YieldItem, TypeOK
  <1>2. Current \in Nat /\ Current' = n /\ place' = "pulling"
    BY DEF Current, YieldItem, TypeOK
  <1>3. ASSUME NEW i \in 1..Len(yielded)
        PROVE  /\ yielded[i].item \in 1..Current
               /\ yielded[i].item < n
               /\ yielded[i].value = result[yielded[i].item]
    BY <1>2 DEF OnlyResults, Undecided
  <1>4. InOrder'
    <2> SUFFICES ASSUME NEW i \in 1..Len(yielded'), NEW j \in 1..Len(yielded'), i < j
                 PROVE  yielded'[i].item < yielded'[j].item
      BY DEF InOrder
    <2>1. CASE j \in 1..Len(yielded)
      <3>1. i \in 1..Len(yielded)
        BY <1>1, <2>1
      <3> QED
        BY <1>1, <2>1, <3>1 DEF InOrder
    <2>2. CASE j = Len(yielded) + 1
      <3>1. i \in 1..Len(yielded)
        BY <1>1, <2>2
      <3>2. yielded'[i].item = yielded[i].item /\ yielded'[j].item = n
        BY <1>1, <2>2, <3>1
      <3> QED
        BY <1>3, <3>1, <3>2
    <2> QED
      BY <1>1, <2>1, <2>2
  <1>5. OnlyResults'
    <2> SUFFICES ASSUME NEW i \in 1..Len(yielded')
                 PROVE  /\ yielded'[i].item \in 1..n
                        /\ yielded'[i].value = result'[yielded'[i].item]
      BY <1>2 DEF OnlyResults, Undecided
    <2>1. CASE i \in 1..Len(yielded)
      <3> DEFINE k == yielded[i].item
      <3>1. k \in 1..Current /\ k < n /\ yielded[i].value = result[k]
        BY <1>3, <2>1
      <3>2. k \in 1..n /\ result'[k] = result[k]
        BY <1>2, <3>1
      <3> QED
        BY <1>1, <2>1, <3>1, <3>2
    <2>2. CASE i = Len(yielded) + 1
      <3>1. yielded'[i].item = n /\ yielded'[i].value = r
        BY <1>1, <2>2
      <3>2. n \in 1..n
        OBVIOUS
      <3> QED
        BY <3>1, <3>2
    <2> QED
      BY <1>1, <2>1, <2>2
  <1>6. AllResults'
    <2> SUFFICES ASSUME NEW k \in 1..n
                 PROVE  \/ \E i \in 1..Len(yielded') : yielded'[i].item = k
                        \/ result'[k] \in AcceptError /\ ~Fatal(result'[k])
      BY <1>2 DEF AllResults, Fatal
    <2>1. CASE k = n
      BY <1>1, <2>1
    <2>2. CASE k # n
      <3>1. k \in 1..Current /\ result'[k] = result[k] /\ ~Undecided(k)
        BY <1>2, <2>2 DEF Undecided
      <3> QED
        BY <1>1, <3>1 DEF AllResults
    <2> QED
      BY <2>1, <2>2
  <1> QED
    BY <1>4, <1>5, <1>6 DEF Accounted
-------------------------------------------------------------------------------
(* Judging keeps the types.                                                 *)
LEMMA YieldTypes ==
  ASSUME TypeOK, NEW n \in Nat,
         NEW r \in {TlsStream} \cup {e \in Error \cup HandshakeError : Fatal(e)},
         YieldItem(n, r)
  PROVE  place' \in {"pulling", "accepting", "done"} /\ polled' \in BOOLEAN
         /\ yielded' \in Seq(Yielded)
  <1>1. [item |-> n, value |-> r] \in Yielded
    BY DEF Yielded
  <1>2. Append(yielded, [item |-> n, value |-> r]) \in Seq(Yielded)
    BY <1>1, Appended DEF TypeOK
  <1> QED
    BY <1>2 DEF YieldItem

LEMMA JudgeTypes ==
  ASSUME TypeOK, NEW n \in Nat, NEW e \in Error \cup HandshakeError, Judge(n, e)
  PROVE  place' \in {"pulling", "accepting", "done"} /\ polled' \in BOOLEAN
         /\ yielded' \in Seq(Yielded)
  <1>1. CASE Skip
    BY <1>1 DEF Skip, TypeOK
  <1>2. CASE HandleAcceptError(e) = "Break" /\ YieldItem(n, e)
    <2>1. Fatal(e)
      BY <1>2, ErrorsAreErrors DEF Fatal
    <2> QED
      BY <1>2, <2>1, YieldTypes
  <1> QED
    BY <1>1, <1>2 DEF Judge

LEMMA TypeStep ==
  ASSUME TypeOK, place = "accepting" => Current > 0, [Next]_vars
  PROVE  TypeOK'
  <1>1. Current \in Nat /\ Current + 1 \in Nat
    BY DEF Current, TypeOK
  <1>2. ASSUME NEW i \in Item, Arrive(i) PROVE TypeOK'
    BY <1>2, Appended DEF Arrive, TypeOK
  <1>3. CASE Close \/ Poll \/ Pend \/ Finish \/ UNCHANGED vars
    BY <1>3 DEF Close, Poll, Pend, Finish, vars, TypeOK
  <1>4. ASSUME NEW r \in {TlsStream} \cup HandshakeError, PeerActs(r) PROVE TypeOK'
    <2>1. result' \in Seq(Result)
      BY <1>4, LastReplaced DEF PeerActs, AwaitsPeer, Current, Result, TypeOK
    <2> QED
      BY <1>4, <2>1 DEF PeerActs, TypeOK
  <1>5. ASSUME NEW i, NEW r \in Result, Pulls(i, r)
        PROVE  tcp_stream' \in Seq(Item) /\ closed' \in BOOLEAN /\ result' \in Seq(Result)
    BY <1>5, Appended DEF Pulls, TypeOK
  <1>6. CASE PullConnection
    BY <1>5, <1>6 DEF PullConnection, Result, TypeOK
  <1>7. ASSUME NEW e \in Error, PullError(e) PROVE TypeOK'
    BY <1>1, <1>5, <1>7, JudgeTypes DEF PullError, Result, TypeOK
  <1>8. CASE YieldTlsStream
    <2>1. YieldItem(Current, TlsStream) /\ UNCHANGED <<tcp_stream, closed, result>>
      BY <1>8 DEF YieldTlsStream
    <2>2. /\ place' \in {"pulling", "accepting", "done"}
          /\ polled' \in BOOLEAN
          /\ yielded' \in Seq(Yielded)
      BY <1>1, <2>1, YieldTypes
    <2> QED
      BY <2>1, <2>2 DEF TypeOK
  <1>9. CASE JudgeHandshake
    <2>1. result[Current] \in Error \cup HandshakeError
      BY <1>1, <1>9 DEF JudgeHandshake, HandshakeReady, Current, Result, TypeOK
    <2> QED
      BY <1>1, <1>9, <2>1, JudgeTypes DEF JudgeHandshake, TypeOK
  <1> QED
    BY <1>2, <1>3, <1>4, <1>6, <1>7, <1>8, <1>9 DEF Next, Generator, PollDone

-------------------------------------------------------------------------------
(* A skipped item is accounted for because it is not fatal.                 *)
LEMMA SkipAccounts ==
  ASSUME TypeOK, TypeOK', InOrder, OnlyResults, AllResults,
         NEW n \in Nat \ {0}, NEW e \in AcceptError, HandleAcceptError(e) = "Continue", Skip,
         Current' = n, result'[n] = e,
         (n = Current /\ place = "accepting") \/ n = Current + 1,
         \A k \in 1..Current : k # n => result'[k] = result[k],
         n = Current + 1 => place # "accepting"
  PROVE  Accounted'
  <1>1. Current \in Nat /\ place' = "pulling" /\ yielded' = yielded /\ ~Fatal(e)
    BY Judged DEF Current, Skip, TypeOK
  <1>2. ASSUME NEW i \in 1..Len(yielded)
        PROVE  yielded[i].item \in 1..n /\ yielded[i].value = result'[yielded[i].item]
    <2> DEFINE k == yielded[i].item
    <2>1. k \in 1..Current /\ k # n /\ yielded[i].value = result[k]
      BY <1>1 DEF OnlyResults, Undecided
    <2>2. k \in 1..n /\ result'[k] = result[k]
      BY <1>1, <2>1
    <2> QED
      BY <2>1, <2>2
  <1>3. ASSUME NEW k \in 1..n
        PROVE  \/ \E i \in 1..Len(yielded) : yielded[i].item = k
               \/ result'[k] \in AcceptError /\ ~Fatal(result'[k])
    <2>1. CASE k = n
      BY <1>1, <2>1
    <2>2. CASE k # n
      <3>1. k \in 1..Current /\ result'[k] = result[k] /\ ~Undecided(k)
        BY <1>1, <2>2 DEF Undecided
      <3> QED
        BY <3>1 DEF AllResults
    <2> QED
      BY <2>1, <2>2
  <1>4. InOrder'
    BY <1>1 DEF InOrder
  <1>5. OnlyResults'
    BY <1>1, <1>2 DEF OnlyResults, Undecided
  <1>6. AllResults'
    BY <1>1, <1>3 DEF AllResults, Fatal
  <1> QED
    BY <1>4, <1>5, <1>6 DEF Accounted

(* Both, as Judge combines them.                                            *)
LEMMA JudgeAccounts ==
  ASSUME TypeOK, TypeOK', InOrder, OnlyResults, AllResults,
         NEW n \in Nat \ {0}, NEW e \in AcceptError, Judge(n, e),
         Current' = n, result'[n] = e,
         (n = Current /\ place = "accepting") \/ n = Current + 1,
         \A k \in 1..Current : k # n => result'[k] = result[k],
         n = Current + 1 => place # "accepting"
  PROVE  Accounted' /\ place' = "pulling"
  <1>1. CASE HandleAcceptError(e) = "Continue" /\ Skip
    BY <1>1, SkipAccounts DEF Skip
  <1>2. CASE HandleAcceptError(e) = "Break" /\ YieldItem(n, e)
    BY <1>2, YieldAccounts DEF YieldItem
  <1> QED
    BY <1>1, <1>2 DEF Judge

(* Where the generator stands tells whether the last item is decided.       *)
AtPlace == /\ place = "accepting" => Current > 0
           /\ \A n \in 1..Current : result[n] = Pending => Undecided(n)

LEMMA AccountStep ==
  ASSUME TypeOK, TypeOK', AtPlace, Accounted, [Next]_vars
  PROVE  AtPlace' /\ Accounted'
  <1>1. InOrder /\ OnlyResults /\ AllResults /\ Current \in Nat
    BY DEF Accounted, Current, TypeOK
  <1>2. ASSUME UNCHANGED <<place, result, yielded>> PROVE AtPlace' /\ Accounted'
    BY <1>2 DEF AtPlace, Accounted, InOrder, OnlyResults, AllResults, Current, Undecided, Fatal
  <1>3. ASSUME NEW i \in Item, Arrive(i) PROVE AtPlace' /\ Accounted'
    BY <1>2, <1>3 DEF Arrive
  <1>4. CASE Close \/ Poll \/ Pend \/ UNCHANGED vars
    BY <1>2, <1>4 DEF Close, Poll, Pend, vars
  <1>5. ASSUME NEW r \in {TlsStream} \cup HandshakeError, PeerActs(r)
        PROVE  AtPlace' /\ Accounted'
    <2>1. /\ place = "accepting" /\ UNCHANGED <<place, yielded>>
          /\ result' = [result EXCEPT ![Current] = r]
          /\ r \in Result
      BY <1>5 DEF PeerActs, AwaitsPeer, Result
    <2>2. Current' = Current /\ result'[Current] = r /\ r # Pending /\ Current > 0
      BY <1>1, <2>1, LastReplaced, ErrorsAreErrors DEF Current, TypeOK, AtPlace
    <2>3. \A k \in 1..Current : k # Current => result'[k] = result[k]
      <3>1. result \in Seq(Result) /\ Len(result) > 0 /\ Current = Len(result)
        BY <2>2 DEF TypeOK, Current
      <3>2. \A k \in 1..Len(result) :
              k # Len(result) => [result EXCEPT ![Len(result)] = r][k] = result[k]
        BY <2>1, <3>1, LastReplaced
      <3> QED
        BY <2>1, <3>1, <3>2
    <2>4. AtPlace'
      BY <2>1, <2>2, <2>3 DEF AtPlace, Undecided
    <2>5. InOrder' /\ OnlyResults'
      BY <1>1, <2>1, <2>2, <2>3 DEF InOrder, OnlyResults, Undecided
    <2>6. AllResults'
      BY <1>1, <2>1, <2>2, <2>3 DEF AllResults, Undecided, Fatal
    <2> QED
      BY <2>4, <2>5, <2>6 DEF Accounted
  <1>6. ASSUME NEW i, NEW r \in Result, Pulls(i, r)
        PROVE  /\ Current' = Current + 1
               /\ result'[Current + 1] = r
               /\ \A k \in 1..Current : result'[k] = result[k]
               /\ place = "pulling"
    BY <1>6, Appended DEF Pulls, Current, TypeOK
  <1>7. CASE PullConnection
    <2>1. /\ Current' = Current + 1 /\ result'[Current + 1] = Pending
          /\ \A k \in 1..Current : result'[k] = result[k]
          /\ place = "pulling" /\ place' = "accepting" /\ yielded' = yielded
      BY <1>6, <1>7 DEF PullConnection, Result
    <2>2. \A n \in 1..Current' : n \in 1..Current \/ n = Current'
      BY <1>1, <2>1
    <2>3. \A n \in 1..Current : n \in 1..Current' /\ ~Undecided(n) /\ ~Undecided(n)'
      BY <1>1, <2>1 DEF Undecided
    <2>4. AtPlace'
      BY <1>1, <2>1, <2>2, <2>3 DEF AtPlace, Undecided
    <2>5. InOrder' /\ OnlyResults'
      BY <1>1, <2>1, <2>3 DEF InOrder, OnlyResults
    <2>6. AllResults'
      BY <1>1, <2>1, <2>2, <2>3 DEF AllResults, Undecided, Fatal
    <2> QED
      BY <2>4, <2>5, <2>6 DEF Accounted
  <1>8. ASSUME NEW e \in Error, PullError(e) PROVE AtPlace' /\ Accounted'
    <2>1. e \in AcceptError /\ e # Pending
      BY ErrorsAreErrors
    <2>2. /\ Current' = Current + 1 /\ result'[Current + 1] = e
          /\ \A k \in 1..Current : result'[k] = result[k]
          /\ place = "pulling"
      BY <1>6, <1>8 DEF PullError, Result
    <2>3. Accounted' /\ place' = "pulling"
      <3>1. Current + 1 \in Nat \ {0} /\ Judge(Current + 1, e)
        BY <1>1, <1>8 DEF PullError
      <3> QED
        BY <1>1, <2>1, <2>2, <3>1, JudgeAccounts
    <2>4. \A n \in 1..Current' : n \in 1..Current \/ n = Current'
      BY <1>1, <2>2
    <2>5. AtPlace'
      BY <1>1, <2>1, <2>2, <2>3, <2>4 DEF AtPlace, Undecided
    <2> QED
      BY <2>3, <2>5
  <1>9. ASSUME HandshakeReady, result' = result, place' = "pulling" PROVE AtPlace'
    BY <1>9 DEF HandshakeReady, AtPlace, Undecided, Current
  <1>10. HandshakeReady => Current \in Nat \ {0} /\ place = "accepting"
    BY <1>1 DEF HandshakeReady, AtPlace
  <1>11. CASE YieldTlsStream
    <2>1. /\ HandshakeReady /\ result' = result /\ result[Current] = TlsStream
          /\ YieldItem(Current, TlsStream)
      BY <1>11 DEF YieldTlsStream
    <2>2. Current' = Current /\ place' = "pulling"
      BY <2>1 DEF Current, YieldItem
    <2>3. Accounted'
      BY <1>1, <1>10, <2>1, <2>2, YieldAccounts
    <2> QED
      BY <1>9, <2>1, <2>2, <2>3
  <1>12. CASE JudgeHandshake
    <2> DEFINE e == result[Current]
    <2>1. /\ HandshakeReady /\ result' = result /\ e # TlsStream /\ e # Pending
          /\ Judge(Current, e)
      BY <1>12 DEF JudgeHandshake, HandshakeReady
    <2>2. e \in AcceptError
      BY <1>10, <2>1, ErrorsAreErrors DEF TypeOK, Result, Current
    <2>3. Current' = Current
      BY <2>1 DEF Current
    <2>4. Accounted' /\ place' = "pulling"
      BY <1>1, <1>10, <2>1, <2>2, <2>3, JudgeAccounts
    <2> QED
      BY <1>9, <2>1, <2>4
  <1>13. CASE Finish
    BY <1>1, <1>13 DEF Finish, AtPlace, Accounted, InOrder, OnlyResults, AllResults, Current,
       Undecided, Fatal
  <1> QED
    BY <1>3, <1>4, <1>5, <1>7, <1>8, <1>11, <1>12, <1>13 DEF Next, Generator, PollDone

(* The last thing pulled was the end of the stream.                         *)
LEMMA EndStep ==
  ASSUME TypeOK, EndsOnlyWithSource, [Next]_vars
  PROVE  EndsOnlyWithSource'
  <1> USE DEF EndsOnlyWithSource
  <1>1. ASSUME NEW n, NEW e, Judge(n, e) PROVE place' = "pulling"
    BY <1>1 DEF Judge, Skip, YieldItem
  <1>2. ASSUME NEW i \in Item, Arrive(i) PROVE EndsOnlyWithSource'
    BY <1>2 DEF Arrive
  <1>3. CASE Close \/ Poll \/ Pend \/ Finish \/ UNCHANGED vars
    BY <1>3 DEF Close, Poll, Pend, Finish, vars
  <1>4. ASSUME NEW r, PeerActs(r) PROVE EndsOnlyWithSource'
    BY <1>4 DEF PeerActs
  <1>5. CASE PullConnection \/ YieldTlsStream
    BY <1>5 DEF PullConnection, YieldTlsStream, YieldItem
  <1>6. ASSUME NEW e, PullError(e) \/ JudgeHandshake PROVE EndsOnlyWithSource'
    BY <1>1, <1>6 DEF PullError, JudgeHandshake
  <1> QED
    BY <1>2, <1>3, <1>4, <1>5, <1>6 DEF Next, Generator, PollDone

LEMMA InvStep == IInv /\ [Next]_vars => IInv'
  <1> SUFFICES ASSUME IInv, [Next]_vars PROVE IInv'
    OBVIOUS
  <1>1. TypeOK /\ AtPlace /\ Accounted /\ EndsOnlyWithSource
    BY DEF IInv, AtPlace
  <1>2. TypeOK'
    BY <1>1, TypeStep DEF AtPlace
  <1>3. AtPlace' /\ Accounted'
    BY <1>1, <1>2, AccountStep
  <1>4. EndsOnlyWithSource'
    BY <1>1, EndStep
  <1> QED
    BY <1>2, <1>3, <1>4 DEF IInv, AtPlace

-------------------------------------------------------------------------------
(* The inductive invariant of serve_tls_incoming, whatever the consumer,    *)
(* the peers and the stream of connections do (src/tls.rs:69-124).          *)
THEOREM Inductive == Spec => []IInv
  BY InvInit, InvStep, PTL DEF Spec

(* The generator's variables keep their types (src/tls.rs:69-124).          *)
THEOREM TypeCorrect == Spec => []TypeOK
  <1>1. IInv => TypeOK
    BY DEF IInv
  <1> QED
    BY <1>1, Inductive, PTL

(* Every item that serve_tls_incoming pulled is yielded once, as what came  *)
(* of it, in order, or was an error that is not fatal (src/tls.rs:81-122).  *)
THEOREM EveryItemAccountedFor == Spec => []Accounted
  <1>1. IInv => Accounted
    BY DEF IInv
  <1> QED
    BY <1>1, Inductive, PTL

(* No handshake and no accept error ends the stream of serve_tls_incoming   *)
(* (src/tls.rs:81, 90-120).                                                 *)
THEOREM EndsWithItsSource == Spec => []EndsOnlyWithSource
  <1>1. IInv => EndsOnlyWithSource
    BY DEF IInv
  <1> QED
    BY <1>1, Inductive, PTL
===============================================================================
