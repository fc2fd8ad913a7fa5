----------------------------- MODULE AcceptErrors -----------------------------
(****************************************************************************)
(* Which errors of accept are fatal: handle_accept_error (src/error.rs).    *)
(*                                                                          *)
(* An error is known by its outermost type, which is all that downcast_ref  *)
(* looks at, and by the io::ErrorKind it holds, if it holds one:            *)
(*   "io"       an io::Error, boxed as such                                 *)
(*   "wrapped"  another error with an io::Error as its source, such as the  *)
(*              crate's own Error                                           *)
(*   "other"    no io::Error at all                                         *)
(****************************************************************************)
IoErrorKind == {"ConnectionAborted", "Interrupted", "InvalidData", "WouldBlock", "Other"}

AcceptError == [type : {"io", "wrapped"}, kind : IoErrorKind]
               \cup [type : {"other"}, kind : {"none"}]

(* "Continue" or "Break"                                                    *)
HandleAcceptError(e) ==
  IF e.type = "io"
     /\ e.kind \in {"ConnectionAborted", "Interrupted", "InvalidData", "WouldBlock"}
  THEN "Continue" ELSE "Break"
===============================================================================
