----------------------------- MODULE MCApplication -----------------------------
(* Application for TLC: one pair of files that can be used, and a file for    *)
(* each way in which one cannot.                                              *)
EXTENDS Application

MCCertFiles == {Holding(<<"key", "cert", "cert">>), Missing, Holding(<<"key">>),
                Holding(<<"cert", "bad">>)}
MCKeyFiles == {Holding(<<"cert", "key", "bad">>), Missing, Holding(<<"cert">>),
               Holding(<<"bad", "key">>)}
===============================================================================
