---------------------------- MODULE MCPeripheral ----------------------------
(***************************************************************************)
(* Small instances of Peripheral for TLC.                                  *)
(***************************************************************************)
EXTENDS Peripheral

\* The words of a key differ from those after a reset in every lane; one may be
\* written again.
NewWords == {[data |-> [l \in Lanes |-> 1], strb |-> Lanes]}
=============================================================================
