----------------------------- MODULE CoreInBytes -----------------------------
(***************************************************************************)
(* The core with its data.  Aes leaves keys and blocks symbolic; here the  *)
(* keys are blocks of sixteen bytes, and beside every register that Aes    *)
(* has a symbol for stands the matrix of bytes that it holds, clocked with *)
(* it through the logic of RoundLogic.  What the core should deliver is    *)
(* said with FIPS-197's cipher (AesRounds).                                *)
(*                                                                         *)
(* A matrix under a cleared valid bit is not looked at and is Unseen.      *)
(***************************************************************************)
EXTENDS Aes, RoundLogic, AesRounds

CONSTANTS
  Texts,       \* the words of the stream
  PowerUp,     \* what the registers that have no reset may hold at power-up
  BehindTable  \* what the index behind the end of ROUND_G_CONSTANTS reads

\* There is a constant for each of ten rounds; AES-128 has all of them.
ASSUME CoreInBytesAssumption ==
  /\ Rounds <= 10
  /\ Keys \subseteq Block
  /\ Texts \subseteq Block
  /\ PowerUp \subseteq Block
  /\ BehindTable \in Byte

VARIABLES
  key_matrices,         \* expanded_keys
  previous_key_matrix,  \* previous_key
  round_constant_byte,  \* round_constant
  local_key_matrices,   \* round_keys
  data_matrices,        \* in_states[i], and data_matrix_out at Rounds
  texts                 \* history: the words taken in since reset

expansionData == << key_matrices, previous_key_matrix, round_constant_byte >>
dataVars      == << expansionData, local_key_matrices, data_matrices, texts >>

ZeroBytes == [p \in Places |-> 0]
Unseen  == Matrix(ZeroBytes)

-----------------------------------------------------------------------------
(* Key expansion *)

RoundConstant(i) == IF i < Rounds THEN ROUND_G_CONSTANTS[i + 1] ELSE BehindTable

ExpansionData(key, consumed) ==
  LET derived == expand_key(previous_key_matrix, round_constant_byte)
      entries == IF state = "IDLE" THEN key_matrices
                 ELSE [key_matrices EXCEPT ![round_counter] = derived]
  IN  \/ /\ consumed
         /\ key_matrices' = [entries EXCEPT ![0] = Matrix(key)]
         /\ previous_key_matrix' = Matrix(key)
         /\ round_constant_byte' = RoundConstant(0)
      \/ /\ ~consumed
         /\ state = "ROUND_KEY_GENERATION"
         /\ key_matrices' = entries
         /\ previous_key_matrix' = derived
         /\ round_constant_byte' = RoundConstant(round_counter)
      \/ ~consumed /\ state = "IDLE" /\ UNCHANGED expansionData

-----------------------------------------------------------------------------
(* The rounder *)

\* Mutant: the refresh reads one entry further on.
RefreshDataAhead ==
  local_key_matrices' =
    IF key_syncing
    THEN [local_key_matrices EXCEPT
            ![key_syncing_counter] = key_matrices[(key_select + 1) % (Rounds + 1)]]
    ELSE local_key_matrices

RefreshData ==
  local_key_matrices' =
    IF key_syncing
    THEN [local_key_matrices EXCEPT ![key_syncing_counter] = key_matrices[key_select]]
    ELSE local_key_matrices

\* What stage i makes of the matrix before it; the last round mixes no columns.
out_state(matrix, i) ==
  IF i = 0 THEN add_key(matrix, local_key_matrices[0])
           ELSE aes_round_pe(i # Rounds, matrix, local_key_matrices[i])

PipelineData(data_matrix_in, tready) ==
  data_matrices' =
    IF ~tready THEN data_matrices
    ELSE [i \in Stages |->
            IF parallel_status_pipeline'[i].valid
            THEN out_state(IF i = 0 THEN data_matrix_in ELSE data_matrices[i - 1], i)
            ELSE Unseen]

-----------------------------------------------------------------------------
DataInit ==
  /\ key_matrices \in [Stages -> {Matrix(b) : b \in PowerUp}]
  /\ previous_key_matrix \in {Matrix(b) : b \in PowerUp}
  /\ round_constant_byte \in {b[0] : b \in PowerUp}
  /\ local_key_matrices \in [Stages -> {Matrix(b) : b \in PowerUp}]
  /\ data_matrices = [i \in Stages |-> Unseen]
  /\ texts = << >>

BytesInit == Init /\ DataInit

\* A cycle of the core that is offered this text.
BytesClock(tvalid, tlast, wready, write, key, text) ==
  /\ Clock(tvalid, tlast, wready, write, key)
  /\ ExpansionData(aes_key, key_expansion_ack)
  /\ RefreshData
  /\ PipelineData(Matrix(text), read_tready(wready))
  /\ texts' = IF tvalid /\ read_tready(wready) THEN Append(texts, text) ELSE texts

\* Only previous_key has a reset among the data.
BytesReset ==
  /\ Reset
  /\ previous_key_matrix' = Matrix(ZeroBytes)
  /\ data_matrices' = [i \in Stages |-> Unseen]
  /\ texts' = << >>
  /\ UNCHANGED << key_matrices, round_constant_byte, local_key_matrices >>

\* With no beat offered nobody looks at the data lines.
Offered(tvalid) == IF tvalid THEN Texts ELSE {ZeroBytes}

BytesNext ==
  \/ \E tvalid, tlast, wready, write \in BOOLEAN, key \in Keys :
       \E text \in Offered(tvalid) : BytesClock(tvalid, tlast, wready, write, key, text)
  \/ BytesReset

BytesSpec == BytesInit /\ [][BytesNext]_<< vars, dataVars >>

-----------------------------------------------------------------------------
(* Properties *)

\* What README.md promises of the accelerator, from the key registers to the
\* output stream: the word offered at the output is the ciphertext, by FIPS-197, of
\* the text next due, under the key that the registers held when its packet was
\* first offered; if a key had been written since reset.
DeliversCiphertexts ==
  write_tvalid /\ data_matrix_out.want # NoKey =>
    BytesOf(data_matrices[Rounds])
      = Ciphertext(data_matrix_out.want, texts[delivered + 1], Rounds)
=============================================================================
