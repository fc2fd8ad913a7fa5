----------------------------- MODULE WatchChannel -----------------------------
(****************************************************************************)
(* tokio::sync::watch::channel(()), as far as http.rs relies on it: the     *)
(* value is (), so only its version counts.  External code, modelled from   *)
(* its use at src/http.rs:103-105, 372-373, 404 and 450-459.                *)
(*                                                                          *)
(* One sender, and a receiver handle for every member of holders; seen[h]   *)
(* is the version the receiver h has marked as seen.                        *)
(****************************************************************************)
EXTENDS Naturals

CONSTANT Handle
VARIABLES version, senderAlive, holders, seen

watchVars == <<version, senderAlive, holders, seen>>

TypeOK == /\ version \in Nat
          /\ senderAlive \in BOOLEAN
          /\ holders \subseteq Handle
          /\ seen \in [Handle -> Nat]

(* channel(()): the receiver that comes with the channel has seen the       *)
(* initial version.                                                         *)
Channel(first) == /\ version = 0
                  /\ senderAlive = TRUE
                  /\ holders = {first}
                  /\ seen = [h \in Handle |-> 0]

(* Receiver::clone: the clone has seen what the original has seen.          *)
Clone(from, to) == /\ holders' = holders \cup {to}
                   /\ seen' = [seen EXCEPT ![to] = seen[from]]
                   /\ UNCHANGED <<version, senderAlive>>

Drop(h) == /\ holders' = holders \ {h}
           /\ UNCHANGED <<version, senderAlive, seen>>

(* Sender::send fails, and the version stays, when nobody holds a receiver. *)
Send == /\ version' = IF holders = {} THEN version ELSE version + 1
        /\ UNCHANGED <<senderAlive, holders, seen>>

DropSender == /\ senderAlive' = FALSE
              /\ UNCHANGED <<version, holders, seen>>

(* The future that owns the sender and the receiver h is dropped.           *)
DropSenderAnd(h) == /\ senderAlive' = FALSE
                    /\ holders' = holders \ {h}
                    /\ UNCHANGED <<version, seen>>

(* Receiver::changed() is ready: with Ok for a version not seen yet, with   *)
(* an error once the sender is gone.  The caller discards which.            *)
HasChanged(h) == h \in holders /\ (seen[h] # version \/ ~senderAlive)

MarkSeen(h) == /\ HasChanged(h)
               /\ seen' = [seen EXCEPT ![h] = version]
               /\ UNCHANGED <<version, senderAlive, holders>>

(* Sender::closed() is ready.                                               *)
Closed == holders = {}
==============================================================================
