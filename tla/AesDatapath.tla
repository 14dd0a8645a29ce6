----------------------------- MODULE AesDatapath -----------------------------
(***************************************************************************)
(* The data of one block on its way through the pipeline, which Aes leaves *)
(* symbolic: the rounds that hdl/aes_rounder.sv chains.  A step is one     *)
(* stage, with the key the expansion unit derives in that cycle.           *)
(***************************************************************************)
EXTENDS RoundLogic

CONSTANTS CipherKeys, Texts  \* the contents of the registers and the stream tried

VARIABLES data_matrix,   \* in_states[stage - 1], and data_matrix_out at 11
          previous_key,  \* of the expansion unit
          round_constant,
          stage,
          given          \* the key and the text it all began with

vars == << data_matrix, previous_key, round_constant, stage, given >>

-----------------------------------------------------------------------------
Init ==
  /\ given \in CipherKeys \X Texts
  /\ previous_key = Matrix(given[1])
  /\ data_matrix = Matrix(given[2])
  /\ round_constant = ROUND_G_CONSTANTS[1]
  /\ stage = 0

\* The expansion unit derives the next key while the stage adds this one; the
\* constant behind the end of the table is loaded and never used.
DeriveKey ==
  IF stage = 10 THEN UNCHANGED << previous_key, round_constant >>
  ELSE /\ previous_key' = expand_key(previous_key, round_constant)
       /\ round_constant' = IF stage = 9 THEN 0 ELSE ROUND_G_CONSTANTS[stage + 2]

FirstStage ==
  /\ stage = 0
  /\ data_matrix' = add_key(data_matrix, previous_key)
  /\ stage' = 1
  /\ DeriveKey
  /\ UNCHANGED given

RoundStage ==
  /\ stage \in 1..10
  /\ data_matrix' = aes_round_pe(stage # 10, data_matrix, previous_key)
  /\ stage' = stage + 1
  /\ DeriveKey
  /\ UNCHANGED given

Next == FirstStage \/ RoundStage

Spec == Init /\ [][Next]_vars
=============================================================================
