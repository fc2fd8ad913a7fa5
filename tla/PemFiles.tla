------------------------------- MODULE PemFiles -------------------------------
(****************************************************************************)
(* load_certs and load_private_key (src/tls.rs:126-170).                    *)
(*                                                                          *)
(* A file may be missing; one that can be opened is a sequence of sections: *)
(* a certificate, a private key, another well-formed section, or one whose  *)
(* encoding is bad.  Both functions see sections through rustls_pemfile,    *)
(* which passes over the ones that are not asked for.                       *)
(****************************************************************************)
EXTENDS Naturals, Sequences

Section == {"cert", "key", "other", "bad"}
File == [exists : BOOLEAN, sections : Seq(Section)]
Missing == [exists |-> FALSE, sections |-> <<>>]
Holding(s) == [exists |-> TRUE, sections |-> s]

At(file, s) == {i \in DOMAIN file.sections : file.sections[i] = s}

Failure(kind) == [ok |-> FALSE, kind |-> kind, loaded |-> {}]
Success(positions) == [ok |-> TRUE, kind |-> "none", loaded |-> positions]

(* Mutant: sections that cannot be read are passed over (filter_map(ok)).   *)
load_certs_lenient(file) ==
  IF ~file.exists THEN Failure("NotFound") ELSE Success(At(file, "cert"))

(* collect() gathers every certificate of the file, or the first error.  No *)
(* certificate at all is no error here.                                     *)
load_certs(file) ==
  IF ~file.exists THEN Failure("NotFound")
  ELSE IF At(file, "bad") # {} THEN Failure("Malformed")
  ELSE Success(At(file, "cert"))

(* The first section that is a key, or bad, decides; what follows a key is  *)
(* not read.                                                                *)
load_private_key(file) ==
  LET deciding == {i \in At(file, "key") \cup At(file, "bad") :
                     \A j \in 1..(i - 1) : file.sections[j] \notin {"key", "bad"}}
  IN IF ~file.exists THEN Failure("NotFound")
     ELSE IF deciding \subseteq At(file, "key")
          THEN IF deciding = {} THEN Failure("InvalidData") ELSE Success(deciding)
          ELSE Failure("Malformed")
===============================================================================
