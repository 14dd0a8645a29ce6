----------------------------- MODULE MCAxiSlave -----------------------------
(***************************************************************************)
(* Small instances of AxiSlave for TLC.                                    *)
(***************************************************************************)
EXTENDS AxiSlave
=============================================================================
