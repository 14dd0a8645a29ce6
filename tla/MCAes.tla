-------------------------------- MODULE MCAes --------------------------------
(***************************************************************************)
(* Small instances of Aes for TLC; the configurations give the constants.  *)
(***************************************************************************)
EXTENDS AesInvariant, TLC

KeySymmetry == Permutations(Keys)
=============================================================================
