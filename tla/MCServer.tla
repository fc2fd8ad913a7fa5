------------------------------- MODULE MCServer -------------------------------
(* Server for TLC: Conn, Main and BlockingThreads are given by the cfg.       *)
EXTENDS Server, TLC

(* No definition of Server tells two connections apart; sound for the safety  *)
(* runs only.                                                                 *)
ConnSymmetry == Permutations(Conn)
===============================================================================
