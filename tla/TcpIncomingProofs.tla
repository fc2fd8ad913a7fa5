--------------------------- MODULE TcpIncomingProofs ---------------------------
(****************************************************************************)
(* Theorems about TcpIncoming, for any set of accept errors and any number  *)
(* of items.                                                                *)
(****************************************************************************)
EXTENDS TcpIncoming, TLAPS

LEMMA Appended ==
  ASSUME NEW S, NEW s \in Seq(S), NEW e \in S
  PROVE  /\ Append(s, e) \in Seq(S)
         /\ Len(s) \in Nat
         /\ Len(Append(s, e)) = Len(s) + 1
         /\ \A i \in 1..Len(s) : Append(s, e)[i] = s[i]
         /\ Append(s, e)[Len(s) + 1] = e
  OBVIOUS

(* The code's test of an error agrees with the list of the documentation,   *)
(* and a connection is no error.                                            *)
LEMMA Policy ==
  /\ \A e \in Error : HandleAcceptError(e) = "Continue" <=> NonFatal(e)
  /\ ~NonFatal(Connection)
  <1>1. ASSUME NEW e \in Error PROVE HandleAcceptError(e) = "Continue" <=> NonFatal(e)
    <2>1. e \in AcceptError
      BY ErrorAssumption
    <2>2. CASE e \in [type : {"io", "wrapped"}, kind : IoErrorKind]
      BY <2>2 DEF HandleAcceptError, NonFatal
    <2>3. CASE e \in [type : {"other"}, kind : {"none"}]
      BY <2>3 DEF HandleAcceptError, NonFatal
    <2> QED
      BY <2>1, <2>2, <2>3 DEF AcceptError
  <1>2. \A i : NonFatal(i) => i.type = "io"
    BY DEF NonFatal
  <1>3. Connection.type = "connection"
    BY DEF Connection
  <1> QED
    BY <1>1, <1>2, <1>3

LEMMA InvInit == Init => IInv
  <1> SUFFICES ASSUME Init PROVE IInv
    OBVIOUS
  <1>1. Len(arrived) = 0 /\ Len(delivered) = 0
    BY DEF Init
  <1>2. TypeOK
    <2>1. arrived \in Seq(Item) /\ delivered \in Seq(Nat)
      BY DEF Init
    <2> QED
      BY <2>1 DEF Init, TypeOK
  <1>3. NothingLostOrReordered
    BY <1>1 DEF Init, NothingLostOrReordered
  <1>4. NonFatalNeverEnds
    BY DEF Init, NonFatalNeverEnds
  <1> QED
    BY <1>1, <1>2, <1>3, <1>4 DEF Init, IInv

-------------------------------------------------------------------------------
(* The generator pulls one item, and yields it or not.                      *)

LEMMA YieldStep ==
  ASSUME IInv, NEW i, Pulls(i), Yield, ~NonFatal(i)
  PROVE  IInv'
  <1>1. /\ pulled \in Nat /\ pulled' = pulled + 1 /\ pulled' \in 1..Len(arrived)
        /\ Len(arrived) \in Nat /\ arrived' = arrived /\ closed' = closed
        /\ delivered \in Seq(Nat) /\ delivered' = Append(delivered, pulled + 1)
        /\ gen' = "idle" /\ arrived[pulled + 1] = i
    BY DEF IInv, TypeOK, Pulls, Yield, Ready
  <1>2. /\ delivered' \in Seq(Nat) /\ Len(delivered) \in Nat
        /\ Len(delivered') = Len(delivered) + 1
        /\ \A k \in 1..Len(delivered) : delivered'[k] = delivered[k]
        /\ delivered'[Len(delivered) + 1] = pulled + 1
    BY <1>1, Appended
  <1>3. TypeOK'
    BY <1>1, <1>2 DEF IInv, TypeOK
  <1>4. \A n \in Nat : Wanted(n)' <=> Wanted(n)
    BY <1>1 DEF Wanted
  <1>5. \A k \in 1..Len(delivered) : delivered[k] \in 1..pulled /\ Wanted(delivered[k])
    BY DEF IInv, NothingLostOrReordered
  <1>6. \A k, l \in 1..Len(delivered') : k < l => delivered'[k] < delivered'[l]
    <2> SUFFICES ASSUME NEW k \in 1..Len(delivered'), NEW l \in 1..Len(delivered'), k < l
                 PROVE  delivered'[k] < delivered'[l]
      OBVIOUS
    <2>1. CASE l = Len(delivered) + 1
      <3>1. k \in 1..Len(delivered) /\ delivered[k] \in 1..pulled
        BY <1>2, <1>5, <2>1
      <3> QED
        BY <1>1, <1>2, <2>1, <3>1
    <2>2. CASE l # Len(delivered) + 1
      <3>1. k \in 1..Len(delivered) /\ l \in 1..Len(delivered)
        BY <1>2, <2>2
      <3> QED
        BY <1>2, <3>1 DEF IInv, NothingLostOrReordered
    <2> QED
      BY <2>1, <2>2
  <1>7. \A k \in 1..Len(delivered') : delivered'[k] \in 1..pulled' /\ ~NonFatal(arrived'[delivered'[k]])
    <2> SUFFICES ASSUME NEW k \in 1..Len(delivered')
                 PROVE  delivered'[k] \in 1..pulled' /\ ~NonFatal(arrived'[delivered'[k]])
      OBVIOUS
    <2>1. CASE k = Len(delivered) + 1
      BY <1>1, <1>2, <2>1 DEF Wanted
    <2>2. CASE k # Len(delivered) + 1
      <3>1. k \in 1..Len(delivered)
        BY <1>2, <2>2
      <3> QED
        BY <1>1, <1>2, <1>5, <3>1 DEF Wanted
    <2> QED
      BY <2>1, <2>2
  <1>8. \A n \in 1..pulled' : Wanted(n)' => \E k \in 1..Len(delivered') : delivered'[k] = n
    <2> SUFFICES ASSUME NEW n \in 1..pulled', Wanted(n)'
                 PROVE  \E k \in 1..Len(delivered') : delivered'[k] = n
      OBVIOUS
    <2>1. CASE n = pulled + 1
      BY <1>2, <2>1
    <2>2. CASE n # pulled + 1
      <3>1. n \in 1..pulled /\ Wanted(n)
        BY <1>1, <1>4, <2>2
      <3>2. PICK k \in 1..Len(delivered) : delivered[k] = n
        BY <3>1 DEF IInv, NothingLostOrReordered
      <3> QED
        BY <1>2, <3>2
    <2> QED
      BY <2>1, <2>2
  <1>9. NothingLostOrReordered'
    BY <1>6, <1>7, <1>8 DEF NothingLostOrReordered, Wanted
  <1>10. NonFatalNeverEnds'
    BY <1>1 DEF NonFatalNeverEnds
  <1> QED
    BY <1>1, <1>3, <1>9, <1>10 DEF IInv

LEMMA SkipStep ==
  ASSUME IInv, NEW i, Pulls(i), UNCHANGED <<gen, delivered>>, NonFatal(i)
  PROVE  IInv'
  <1>1. /\ pulled \in Nat /\ pulled' = pulled + 1 /\ pulled' \in 1..Len(arrived)
        /\ Len(arrived) \in Nat /\ arrived' = arrived /\ closed' = closed
        /\ delivered' = delivered /\ gen' = "polled" /\ arrived[pulled + 1] = i
    BY DEF IInv, TypeOK, Pulls, Ready
  <1>2. TypeOK'
    BY <1>1 DEF IInv, TypeOK
  <1>3. \A k \in 1..Len(delivered) : delivered'[k] \in 1..pulled' /\ ~NonFatal(arrived'[delivered'[k]])
    BY <1>1 DEF IInv, NothingLostOrReordered, Wanted
  <1>4. \A n \in 1..pulled' : Wanted(n)' => n \in 1..pulled /\ Wanted(n)
    BY <1>1 DEF Wanted
  <1>5. NothingLostOrReordered'
    BY <1>1, <1>3, <1>4 DEF IInv, NothingLostOrReordered, Wanted
  <1>6. NonFatalNeverEnds'
    BY <1>1 DEF NonFatalNeverEnds
  <1> QED
    BY <1>1, <1>2, <1>5, <1>6 DEF IInv

LEMMA ArriveStep ==
  ASSUME IInv, NEW i \in Item, Arrive(i)
  PROVE  IInv'
  <1>1. /\ pulled \in Nat /\ pulled <= Len(arrived) /\ arrived \in Seq(Item)
        /\ arrived' = Append(arrived, i) /\ ~closed /\ closed' = closed /\ gen' = gen
        /\ pulled' = pulled /\ delivered' = delivered
    BY DEF IInv, TypeOK, Arrive
  <1>2. /\ arrived' \in Seq(Item) /\ Len(arrived) \in Nat /\ Len(arrived') = Len(arrived) + 1
        /\ \A n \in 1..Len(arrived) : arrived'[n] = arrived[n]
    BY <1>1, Appended
  <1>3. TypeOK' /\ pulled' <= Len(arrived')
    BY <1>1, <1>2 DEF IInv, TypeOK
  <1>4. \A n \in 1..pulled : Wanted(n)' <=> Wanted(n)
    BY <1>1, <1>2 DEF Wanted
  <1>5. NothingLostOrReordered'
    <2>1. \A k \in 1..Len(delivered) : delivered'[k] \in 1..pulled' /\ ~NonFatal(arrived'[delivered'[k]])
      BY <1>1, <1>2 DEF IInv, NothingLostOrReordered, Wanted
    <2> QED
      BY <1>1, <1>4, <2>1 DEF IInv, NothingLostOrReordered, Wanted
  <1>6. NonFatalNeverEnds'
    <2>1. ASSUME gen = "done"
          PROVE  pulled > 0 /\ arrived[pulled] # Connection /\ Wanted(pulled)
      BY <1>1, <2>1 DEF IInv, NonFatalNeverEnds
    <2>2. ASSUME pulled > 0 PROVE arrived'[pulled] = arrived[pulled]
      BY <1>1, <1>2, <2>2
    <2> QED
      BY <1>1, <2>1, <2>2 DEF NonFatalNeverEnds, Wanted
  <1> QED
    BY <1>3, <1>5, <1>6 DEF IInv

LEMMA InvStep == IInv /\ [Next]_vars => IInv'
  <1> SUFFICES ASSUME IInv, [Next]_vars PROVE IInv'
    OBVIOUS
  <1>1. ASSUME NEW i \in Item, Arrive(i) PROVE IInv'
    BY <1>1, ArriveStep
  <1>2. CASE YieldConnection
    BY <1>2, YieldStep, Policy DEF YieldConnection
  <1>3. ASSUME NEW e \in Error, YieldFatal(e) PROVE IInv'
    BY <1>3, YieldStep, Policy DEF YieldFatal
  <1>4. ASSUME NEW e \in Error, SkipNonFatal(e) PROVE IInv'
    BY <1>4, SkipStep, Policy DEF SkipNonFatal
  <1>5. CASE Close \/ Poll \/ Pend \/ Finish \/ UNCHANGED vars
    <2>1. /\ UNCHANGED <<arrived, pulled, delivered>>
          /\ closed' \in BOOLEAN /\ (closed => closed')
          /\ gen' \in {"idle", "polled", "done"}
          /\ gen' = "done" => gen = "done" \/ (closed /\ ~Ready)
      BY <1>5 DEF IInv, TypeOK, Close, Poll, Pend, Finish, vars
    <2>2. TypeOK'
      BY <2>1 DEF IInv, TypeOK
    <2>3. NothingLostOrReordered'
      BY <2>1 DEF IInv, NothingLostOrReordered, Wanted
    <2>4. NonFatalNeverEnds'
      BY <2>1 DEF IInv, TypeOK, NonFatalNeverEnds, Wanted, Ready
    <2> QED
      BY <2>1, <2>2, <2>3, <2>4 DEF IInv
  <1> QED
    BY <1>1, <1>2, <1>3, <1>4, <1>5 DEF Next, PollDone

-------------------------------------------------------------------------------
(* The generator's place in the stream, its history and its end agree       *)
(* (src/tcp.rs:63-85).                                                      *)
THEOREM Inductive == Spec => []IInv
  BY InvInit, InvStep, PTL DEF Spec

(* Every variable keeps its type.                                           *)
THEOREM TypeCorrect == Spec => []TypeOK
  <1>1. IInv => TypeOK
    BY DEF IInv
  <1> QED
    BY <1>1, Inductive, PTL

(* No item is lost, repeated or moved, whenever the consumer polls          *)
(* (src/tcp.rs:70-83).                                                      *)
THEOREM Complete == Spec => []NothingLostOrReordered
  <1>1. IInv => NothingLostOrReordered
    BY DEF IInv
  <1> QED
    BY <1>1, Inductive, PTL
===============================================================================
