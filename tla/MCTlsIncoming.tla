----------------------------- MODULE MCTlsIncoming -----------------------------
(* TlsIncoming for TLC.                                                       *)
EXTENDS TlsIncoming

(* One error that is not fatal, one that is, and one of no kind.              *)
MCError == {[type |-> "io", kind |-> "ConnectionAborted"],
            [type |-> "io", kind |-> "Other"],
            [type |-> "other", kind |-> "none"]}

(* What rustls makes of a bad hello, a connection reset, or cut short, and    *)
(* one that aborted.                                                          *)
MCHandshakeError == {[type |-> "io", kind |-> "InvalidData"],
                     [type |-> "io", kind |-> "Other"],
                     [type |-> "io", kind |-> "ConnectionAborted"]}
===============================================================================
