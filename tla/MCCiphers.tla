------------------------------ MODULE MCCiphers ------------------------------
(***************************************************************************)
(* Ciphers on the keys and plaintexts of the test benches, TestKeys and    *)
(* TestTexts.                                                              *)
(***************************************************************************)
EXTENDS Ciphers
=============================================================================
