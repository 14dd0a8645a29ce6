------------------------------ MODULE RoundLogic ------------------------------
(***************************************************************************)
(* The combinational logic of the hardware: a round (hdl/aes_round_pe.sv,  *)
(* hdl/combinatorial_matrix_multiplier.sv) and the derivation of a round   *)
(* key (expand_key of hdl/KeyExpansion/key_expansion.sv).  Matrices are    *)
(* [column][row], as in hdl/tables.svh, and their byte 0 is the first of   *)
(* the stream's word.                                                      *)
(***************************************************************************)
EXTENDS AesTables

Matrix(bytes) == [c \in 0..3 |-> [r \in 0..3 |-> bytes[4 * c + r]]]

\* Every column times the constant matrix, a row of it at a time.
product_matrix(matrix_in) ==
  LET row_1_mac(to_mac) ==
        scale_by_2(to_mac[0]) (+) (scale_by_3(to_mac[1]) (+) (to_mac[2] (+) to_mac[3]))
      row_2_mac(to_mac) ==
        to_mac[0] (+) (scale_by_2(to_mac[1]) (+) (scale_by_3(to_mac[2]) (+) to_mac[3]))
      row_3_mac(to_mac) ==
        to_mac[0] (+) (to_mac[1] (+) (scale_by_2(to_mac[2]) (+) scale_by_3(to_mac[3])))
      row_4_mac(to_mac) ==
        scale_by_3(to_mac[0]) (+) (to_mac[1] (+) (to_mac[2] (+) scale_by_2(to_mac[3])))
  IN  [c \in 0..3 |-> [r \in 0..3 |->
         CASE r = 0 -> row_1_mac(matrix_in[c])
           [] r = 1 -> row_2_mac(matrix_in[c])
           [] r = 2 -> row_3_mac(matrix_in[c])
           [] r = 3 -> row_4_mac(matrix_in[c])]]

\* Mutant: the rows are shifted the other way.
shifted_wrong_way(state_in) ==
  [c \in 0..3 |-> [r \in 0..3 |-> lookup_table_256x8(state_in[(4 + c - r) % 4][r])]]

shifted_and_substituted(state_in) ==
  [c \in 0..3 |-> [r \in 0..3 |-> lookup_table_256x8(state_in[(c + r) % 4][r])]]

add_key(matrix, round_key) == [c \in 0..3 |-> XorAll(matrix[c], round_key[c])]

aes_round_pe(MIX_COLUMNS, state_in, round_key) ==
  LET substituted == shifted_and_substituted(state_in)
  IN  add_key(IF MIX_COLUMNS THEN product_matrix(substituted) ELSE substituted, round_key)

\* The last column of previous_key through the S-box, turned by a byte.
g_of_column(previous, constant) ==
  LET sbox(r) == lookup_table_256x8(previous[3][r])
  IN  [r \in 0..3 |-> CASE r = 0 -> sbox(1) (+) constant
                        [] r = 1 -> sbox(2)
                        [] r = 2 -> sbox(3)
                        [] r = 3 -> sbox(0)]

\* Mutant: every column is added to the one before it in the old key.
expand_key_unchained(previous, constant) ==
  [c \in 0..3 |-> XorAll(previous[c], IF c = 0 THEN g_of_column(previous, constant)
                                               ELSE previous[c - 1])]

expand_key(previous, constant) ==
  LET new_column[c \in 0..3] ==
        XorAll(previous[c], IF c = 0 THEN g_of_column(previous, constant)
                                     ELSE new_column[c - 1])
  IN  new_column

BytesOf(matrix) == [p \in Places |-> matrix[p \div 4][p % 4]]
=============================================================================
