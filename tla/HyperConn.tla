------------------------------ MODULE HyperConn ------------------------------
(****************************************************************************)
(* What hyper_util's auto connection does, as far as http.rs relies on it   *)
(* (src/http.rs:116-137): it serves requests, it may be asked to shut down  *)
(* gracefully, and it completes.  External code, modelled from its use.     *)
(*                                                                          *)
(* phase    "fresh"  no protocol yet: the version is being read, or the     *)
(*                   HTTP/2 preface exchanged                               *)
(*          "idle"   between requests                                       *)
(*          "busy"   a request is being received, served or answered        *)
(*          "over"   the future is ready (closed, failed or upgraded away)  *)
(* closing  "no"     graceful_shutdown has not been called                  *)
(*          "asked"  HTTP/2 sent a first GOAWAY and its ping: streams that  *)
(*                   the peer had under way are still accepted              *)
(*          "final"  no further request is accepted                         *)
(****************************************************************************)
Phase == {"fresh", "idle", "busy", "over"}
Closing == {"no", "asked", "final"}
State == [phase : Phase, closing : Closing]

Fresh == [phase |-> "fresh", closing |-> "no"]
Over(h) == [h EXCEPT !.phase = "over"]

(* The states graceful_shutdown() may leave: a connection without a         *)
(* protocol is cancelled, HTTP/1 turns keep-alive off (an idle connection   *)
(* closes at once), HTTP/2 asks its peer.  A second call changes nothing.   *)
AfterGracefulShutdown(h) ==
  IF h.closing # "no" THEN {h}
  ELSE CASE h.phase \in {"fresh", "over"} ->
              {[phase |-> "over", closing |-> "final"]}
         [] h.phase = "idle" ->
              {[phase |-> "over", closing |-> "final"], [h EXCEPT !.closing = "asked"]}
         [] h.phase = "busy" ->
              {[h EXCEPT !.closing = c] : c \in {"asked", "final"}}

CanReceive(h) == h.phase \in {"fresh", "idle"} /\ h.closing # "final"
Received(h) == [h EXCEPT !.phase = "busy"]

(* The last response of a connection that takes no more requests ends it.   *)
Responded(h) == [h EXCEPT !.phase = IF h.closing = "final" THEN "over" ELSE "idle"]

AwaitsAck(h) == h.closing = "asked" /\ h.phase \in {"idle", "busy"}
Acked(h) == [phase |-> IF h.phase = "idle" THEN "over" ELSE h.phase, closing |-> "final"]
==============================================================================
