------------------------------ MODULE ByteStream ------------------------------
(****************************************************************************)
(* One direction of a connection, as both its ends rely on it: what was     *)
(* written is delivered in full before a writer that closed is seen to have *)
(* ended, and a writer that broke off is never taken for one that closed.   *)
(* Bytes are in order, so that it is enough to count them.                  *)
(****************************************************************************)
EXTENDS Naturals

VARIABLES written,    \* bytes the writer has given to the connection
          delivered,  \* bytes the reader has got from it
          end         \* "open", "closed" or "broken" by the writer; "ended"
                      \* once the reader has seen the end

vars == <<written, delivered, end>>

Init == written = 0 /\ delivered = 0 /\ end = "open"

Write == /\ end = "open"
         /\ written' \in Nat /\ written' > written
         /\ UNCHANGED <<delivered, end>>

Deliver == /\ end # "ended"
           /\ delivered' \in Nat /\ delivered < delivered' /\ delivered' <= written
           /\ UNCHANGED <<written, end>>

Close == end = "open" /\ end' = "closed" /\ UNCHANGED <<written, delivered>>
Break == end = "open" /\ end' = "broken" /\ UNCHANGED <<written, delivered>>

End == /\ end = "closed" /\ delivered = written
       /\ end' = "ended"
       /\ UNCHANGED <<written, delivered>>

Next == Write \/ Deliver \/ Close \/ Break \/ End

Spec == Init /\ [][Next]_vars
===============================================================================
