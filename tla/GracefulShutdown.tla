--------------------------- MODULE GracefulShutdown ---------------------------
(****************************************************************************)
(* What serve_http_with_shutdown promises (src/http.rs:352-463), without    *)
(* its channel, its accept loop or its tasks: connections are admitted only *)
(* while the server is open, and a server that stops has no connection      *)
(* under way.  A server whose future is dropped abandons its connections to *)
(* themselves; it may admit no more, but it does not wait for them.         *)
(****************************************************************************)
CONSTANT Conn
VARIABLES phase,  \* "open", "draining", "stopped" or "abandoned"
          live    \* the connections whose task runs

vars == <<phase, live>>

TypeOK == /\ phase \in {"open", "draining", "stopped", "abandoned"}
          /\ live \subseteq Conn

Init == phase = "open" /\ live = {}

Admit(c) == /\ phase = "open"
            /\ c \notin live
            /\ live' = live \cup {c}
            /\ UNCHANGED phase

Leave(c) == /\ c \in live
            /\ live' = live \ {c}
            /\ UNCHANGED phase

BeginDrain == /\ phase = "open"
              /\ phase' = "draining"
              /\ UNCHANGED live

Stop == /\ phase = "draining"
        /\ live = {}
        /\ phase' = "stopped"
        /\ UNCHANGED live

Abandon == /\ phase \in {"open", "draining"}
           /\ phase' = "abandoned"
           /\ UNCHANGED live

Next == \/ \E c \in Conn : Admit(c) \/ Leave(c)
        \/ BeginDrain
        \/ Stop
        \/ Abandon

Spec == Init /\ [][Next]_vars
==============================================================================
