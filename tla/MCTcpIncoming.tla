----------------------------- MODULE MCTcpIncoming -----------------------------
(* TcpIncoming for TLC, with every kind of accept error.                      *)
EXTENDS TcpIncoming

(* All io::Errors, one wrapped io::Error of a kind that is not fatal by       *)
(* itself, and an error of no kind.                                           *)
MCError == [type : {"io"}, kind : IoErrorKind]
           \cup {[type |-> "wrapped", kind |-> "WouldBlock"],
                 [type |-> "other", kind |-> "none"]}
===============================================================================
