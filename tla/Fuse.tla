--------------------------------- MODULE Fuse ---------------------------------
(****************************************************************************)
(* Futures, and the Fuse around one (src/fuse.rs).  A future is known by    *)
(* what a poll of it would give: "pending" for now, "never" anything else,  *)
(* "ready", or a panic because it has completed already ("spent").  A fuse  *)
(* holds a future, or "none".                                               *)
(****************************************************************************)
Future == {"pending", "never", "ready", "spent"}
FuseState == Future \cup {"none"}

(* A poll gives a result and leaves the future in a state.                  *)
PollFuture(f) ==
  CASE f \in {"pending", "never"} -> [result |-> "pending", after |-> f]
    [] f = "ready"                -> [result |-> "ready", after |-> "spent"]
    [] f = "spent"                -> [result |-> "panic", after |-> f]

(* Mutant: the inner future is kept after it has completed.                 *)
PollUnfused(f) ==
  IF f = "none" THEN [result |-> "pending", after |-> "none"] ELSE PollFuture(f)

(* Fuse::poll: a completed inner future is set to None, and None is pending *)
(* for ever.                                                                *)
PollFuse(f) ==
  CASE f = "none"  -> [result |-> "pending", after |-> "none"]
    [] f = "ready" -> [result |-> "ready", after |-> "none"]
    [] OTHER       -> PollFuture(f)
===============================================================================
