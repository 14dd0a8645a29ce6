------------------------------ MODULE MicroAes ------------------------------
(***************************************************************************)
(* The library cipher that the demonstration program compares the          *)
(* accelerator with (AES_ECB_encrypt of sw/src/micro-AES/micro_aes.c): the *)
(* key is expanded word by word into a static array, then the blocks are   *)
(* encrypted in place, one after the other.  A step is a word of the       *)
(* expansion, or a block's rounds cut after each AddRoundKey.              *)
(***************************************************************************)
EXTENDS AesTables

CONSTANTS
  CipherKeys, Plaintexts, \* the keys tried and the buffers, sequences of blocks
  Blocks                  \* n, the length of every buffer in blocks

VARIABLES
  crtxt,     \* the output buffer, which starts as a copy of the input
  RoundKey,
  rcon, i,   \* of KeyExpansion
  y,         \* the block of the loop in AES_ECB_encrypt
  r,         \* of rijndaelEncrypt
  at         \* in "expansion", before a "block" or in its "rounds"

vars == << crtxt, RoundKey, rcon, i, y, r, at >>

KeyBytes == 0..175

SBoxValue(x) == micro_sbox[x + 1]

\* memcpy of the last sixteen bytes to the next, before they are added to.
CopiedAhead ==
  [p \in KeyBytes |-> IF i % 16 = 0 /\ p \in i..(i + 15) THEN RoundKey[p - 16] ELSE RoundKey[p]]

constant == IF rcon = 0 THEN \h1b ELSE rcon

\* What byte j of word i is added to.
WordAddend(j) ==
  IF i % 16 = 0 THEN SBoxValue(RoundKey[i - 4 + ((j + 1) % 4)])
                       (+) (IF j = 0 THEN constant ELSE 0)
                ELSE RoundKey[i - 4 + j]

AddRoundKey(round, state) == [p \in Places |-> state[p] (+) RoundKey[16 * round + p]]

SubBytes(state) == [p \in Places |-> SBoxValue(state[p])]

ShiftRows(state) == [p \in Places |-> state[4 * (((p \div 4) + (p % 4)) % 4) + (p % 4)]]

\* The array C of MixColumns as it is added to the bytes of one column.
ColumnMask(c) ==
  LET even == xtime(c[0] (+) c[2])
      odd  == xtime(c[1] (+) c[3])
      mask[n \in 0..3] ==
        IF n = 0 THEN XorOf(c, 4) (+) xtime(c[0] (+) c[1])
                 ELSE mask[n - 1] (+) (IF n = 2 THEN odd ELSE even)
  IN  mask

\* Mutant: the sums of C end a line early.
MixColumnsNoSum(state) ==
  LET mask[c \in 0..3] == ColumnMask([n \in 0..3 |-> state[4 * c + n]])
  IN  [p \in Places |-> state[p] (+) mask[p \div 4][IF p % 4 = 3 THEN 2 ELSE p % 4]]

MixColumns(state) ==
  LET mask[c \in 0..3] == ColumnMask([n \in 0..3 |-> state[4 * c + n]])
  IN  [p \in Places |-> state[p] (+) mask[p \div 4][p % 4]]

-----------------------------------------------------------------------------
Init ==
  /\ crtxt \in Plaintexts
  /\ \E key \in CipherKeys :
       RoundKey = [p \in KeyBytes |-> IF p < 16 THEN key[p] ELSE 0]
  /\ rcon = 1
  /\ i = 16
  /\ y = 1
  /\ r = 0
  /\ at = "expansion"

ExpandWord ==
  /\ at = "expansion"
  /\ RoundKey' = [p \in KeyBytes |-> IF p \in i..(i + 3)
                                     THEN CopiedAhead[p] (+) WordAddend(p - i)
                                     ELSE CopiedAhead[p]]
  /\ rcon' = IF i % 16 = 0 THEN (2 * constant) % 256 ELSE rcon
  /\ i' = i + 4
  /\ at' = IF i' = 176 THEN "block" ELSE at
  /\ UNCHANGED << crtxt, y, r >>

BeginBlock ==
  /\ at = "block"
  /\ y <= Blocks
  /\ crtxt' = [crtxt EXCEPT ![y] = AddRoundKey(0, @)]
  /\ at' = "rounds"
  /\ UNCHANGED << RoundKey, rcon, i, y, r >>

EncryptRound ==
  /\ at = "rounds"
  /\ LET shifted == ShiftRows(SubBytes(crtxt[y]))
     IN  crtxt' = [crtxt EXCEPT ![y] =
                     AddRoundKey(r + 1, IF r + 1 # 10 THEN MixColumns(shifted) ELSE shifted)]
  /\ IF r + 1 # 10 THEN r' = r + 1 /\ UNCHANGED << at, y >>
                   ELSE r' = 0 /\ at' = "block" /\ y' = y + 1
  /\ UNCHANGED << RoundKey, rcon, i >>

Next == ExpandWord \/ BeginBlock \/ EncryptRound

Spec == Init /\ [][Next]_vars

-----------------------------------------------------------------------------
RoundsDone(b) == IF b < y THEN 11 ELSE IF b = y /\ at = "rounds" THEN r + 1 ELSE 0

\* The key the next round of block b adds, or the last one added.
RoundKeyInUse(b) ==
  LET n == IF RoundsDone(b) = 11 THEN 10 ELSE RoundsDone(b)
  IN  [p \in Places |-> RoundKey[16 * n + p]]
=============================================================================
