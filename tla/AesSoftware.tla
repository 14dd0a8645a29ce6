----------------------------- MODULE AesSoftware -----------------------------
(***************************************************************************)
(* The software cipher (aes.c).  aes_encrypt_block first expands the key   *)
(* into an array and then runs the rounds on the block in place.  A step   *)
(* is one iteration of either loop (loop is its i), or what stands before  *)
(* or after it.                                                            *)
(* Words are their bytes in memory order: the code takes a uint32_t to be  *)
(* little endian.                                                          *)
(***************************************************************************)
EXTENDS AesTables

CONSTANTS CipherKeys, Texts  \* the arguments tried

VARIABLES data, expanded_keys, last_word_g_ed, loop, at

vars == << data, expanded_keys, last_word_g_ed, loop, at >>

sbox(b) == aes_sbox[b + 1]

words(key, n) == [b \in 0..3 |-> key[4 * n + b]]

aes_g_function(word, round_iteration) ==
  [b \in 0..3 |->
     IF b = 0 THEN sbox(word[1]) (+) aes_round_constants[round_iteration + 1]
              ELSE sbox(word[(b + 1) % 4])]

\* One iteration of the loop in aes_key_expansion.
expand(previous, g_ed) ==
  LET word[n \in 0..3] == XorAll(words(previous, n), IF n = 0 THEN g_ed ELSE word[n - 1])
  IN  [p \in Places |-> word[p \div 4][p % 4]]

\* Where each byte comes from, as the assignments have it.
ShiftedFrom == << 0, 5, 10, 15, 4, 9, 14, 3, 8, 13, 2, 7, 12, 1, 6, 11 >>

aes_row_mix_and_sub(inout) == [p \in Places |-> sbox(inout[ShiftedFrom[p + 1]])]

\* Row r of the matrix of aes_mix_column.
Scales == << << 2, 3, 1, 1 >>, << 1, 2, 3, 1 >>, << 1, 1, 2, 3 >>, << 3, 1, 1, 2 >> >>

aes_mix_column(column) ==
  [r \in 0..3 |->
     XorOf([j \in 0..3 |-> gf_multiply_123(Scales[r + 1][j + 1], column[j])], 4)]

\* Mutant: a column is mixed in place, its bytes one after the other.
MixColumnsInPlace(block) ==
  LET byte[p \in Places] ==
        XorOf([j \in 0..3 |->
                 gf_multiply_123(Scales[(p % 4) + 1][j + 1],
                   IF j < p % 4 THEN byte[p - (p % 4) + j]
                                ELSE block[p - (p % 4) + j])], 4)
  IN  byte

MixColumns(block) == [p \in Places |-> aes_mix_column(words(block, p \div 4))[p % 4]]

aes_add_round_key(block, round_key) == XorAll(block, round_key)

-----------------------------------------------------------------------------
\* The head of aes_key_expansion.
Init ==
  /\ data \in Texts
  /\ \E key \in CipherKeys :
       /\ expanded_keys = [n \in 0..10 |-> IF n = 0 THEN key ELSE [p \in Places |-> 0]]
       /\ last_word_g_ed = aes_g_function(words(key, 3), 0)
  /\ loop = 1
  /\ at = "expansion"

ExpandKey ==
  /\ at = "expansion" /\ loop < 11
  /\ LET key == expand(expanded_keys[loop - 1], last_word_g_ed)
     IN  /\ expanded_keys' = [expanded_keys EXCEPT ![loop] = key]
         /\ last_word_g_ed' = aes_g_function(words(key, 3), loop)
  /\ loop' = loop + 1
  /\ UNCHANGED << data, at >>

AddFirstKey ==
  /\ at = "expansion" /\ loop = 11
  /\ data' = aes_add_round_key(data, expanded_keys[0])
  /\ loop' = 1
  /\ at' = "rounds"
  /\ UNCHANGED << expanded_keys, last_word_g_ed >>

EncryptRound ==
  /\ at = "rounds" /\ loop < 10
  /\ data' = aes_add_round_key(MixColumns(aes_row_mix_and_sub(data)), expanded_keys[loop])
  /\ loop' = loop + 1
  /\ UNCHANGED << expanded_keys, last_word_g_ed, at >>

LastRound ==
  /\ at = "rounds" /\ loop = 10
  /\ data' = aes_add_round_key(aes_row_mix_and_sub(data), expanded_keys[10])
  /\ at' = "returned"
  /\ UNCHANGED << expanded_keys, last_word_g_ed, loop >>

Next == ExpandKey \/ AddFirstKey \/ EncryptRound \/ LastRound

Spec == Init /\ [][Next]_vars

-----------------------------------------------------------------------------
RoundsDone == CASE at = "expansion" -> 0 [] at = "rounds" -> loop [] OTHER -> 11

\* The key the next round adds, or the last one added.
RoundKeyInUse == expanded_keys[IF at = "returned" THEN 10 ELSE RoundsDone]
=============================================================================
