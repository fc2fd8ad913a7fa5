---------------------------- MODULE ConnectionSteps ----------------------------
(****************************************************************************)
(* ConnectionLoop against the steps that Server lets a served connection    *)
(* take (src/http.rs:86-142, 416-442): what Server does in one step takes   *)
(* the loop polls, rounds and wakeups.                                      *)
(****************************************************************************)
EXTENDS ConnectionLoop

(* The shutdown, or the age limit, calls for the end of the connection.     *)
(* Server gives no age limit; to a connection that has one, its end is like *)
(* a shutdown of its own.                                                   *)
Called == sig = "ready" \/ age = "ready" \/ conn.closing # "no"

Over == task = "done"
The(value) == [c \in {"c"} |-> value]

(* A server with one plain connection that is being served, about to        *)
(* broadcast its shutdown until somebody calls for the end.                 *)
Coarse == INSTANCE Server WITH
  Conn <- {"c"}, Main <- "main", BlockingThreads <- 1,
  tls <- FALSE, signal <- "fired", incoming <- <<>>, ended <- FALSE, pool <- <<>>,
  pc <- IF Called THEN "release" ELSE "broadcast",
  item <- The("ok"),
  stage <- The(IF Over THEN "absent" ELSE "serving"),
  http <- The(IF Over THEN Http!Fresh ELSE conn),
  version <- IF Called THEN 1 ELSE 0,
  senderAlive <- TRUE,
  holders <- IF Over THEN {"main"} ELSE {"c", "main"},
  seen <- [h \in {"c", "main"} |-> IF h = "c" /\ conn.closing # "no" THEN 1 ELSE 0]

(* Whatever the order in which select! polls its branches, and whatever is  *)
(* ready in the same round, a connection does what Server has it do: hyper  *)
(* is told once, only after a call for the end, and the task ends with      *)
(* hyper's connection and takes its receiver with it (src/http.rs:119-142). *)
StepsOfServer ==
  [][Coarse!TaskStep("c") \/ Coarse!PeerStep("c") \/ Coarse!Broadcast]_(Coarse!vars)
===============================================================================
