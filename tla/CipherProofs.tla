---------------------------- MODULE CipherProofs ----------------------------
(***************************************************************************)
(* Proofs that aes.c, the library of the demonstration program and the     *)
(* stages of the hardware each implement FIPS-197's AES-128, for every key *)
(* and text and any length of the library's buffer, and so end with its    *)
(* ciphertext.                                                             *)
(***************************************************************************)
EXTENDS Ciphers, AesRoundsProofs

-----------------------------------------------------------------------------
(* The byte operations, in every state *)

\* The rows of bytes that a run compares are those of the tables.
LEMMA RowType == CiphersSpec => [](row \in 0..15)
<1>1. CiphersInit => row \in 0..15
  BY SMT DEF CiphersInit
<1>2. row \in 0..15 /\ [CiphersNext]_<< row, softwareVars, microVars, hardwareVars >>
        => (row \in 0..15)'
  <2> SUFFICES ASSUME row \in 0..15, [CiphersNext]_<< row, softwareVars, microVars, hardwareVars >>
               PROVE  row' \in 0..15
    OBVIOUS
  <2>1. row' = (row + 1) % 16 \/ row' = row
    BY Zenon DEF CiphersNext
  <2> QED BY <2>1, SMT
<1> QED BY <1>1, <1>2, PTL DEF CiphersSpec

\* They are rows of bytes.
LEMMA RowBytesType ==
  ASSUME row \in 0..15
  PROVE  RowBytes \subseteq Byte
BY SMT DEF RowBytes, Byte

\* The three substitution tables are FIPS-197's, for every byte: the ROMs of
\* hdl/lookup_table_256x8.sv, the table of aes.c and the one of micro_aes.c.
THEOREM SubstitutionsStandardCorrect == CiphersSpec => []SubstitutionsStandard
<1>1. row \in 0..15 => SubstitutionsStandard
  BY RowBytesType, Substitutions, Zenon DEF SubstitutionsStandard
<1> QED BY <1>1, RowType, PTL

\* The shifts and conditional reductions of the three implementations are
\* products in GF(2^8), for every byte.
THEOREM ScalingsAreProductsCorrect == CiphersSpec => []ScalingsAreProducts
<1>1. row \in 0..15 => ScalingsAreProducts
  <2> SUFFICES ASSUME row \in 0..15, NEW byte \in RowBytes
               PROVE  /\ scale_by_2(byte) = Times(byte, 2)
                      /\ scale_by_3(byte) = Times(byte, 3)
                      /\ \A n \in 1..3 : gf_multiply_123(n, byte) = Times(byte, n)
                      /\ xtime(byte) = Times(byte, 2)
    BY Zenon DEF ScalingsAreProducts
  <2>1. byte \in Byte
    BY RowBytesType
  <2>2. \A n \in 1..3 : n = 1 \/ n = 2 \/ n = 3
    BY SMT
  <2> QED BY <2>1, <2>2, Scalings, SmallProducts
<1> QED BY <1>1, RowType, PTL

-----------------------------------------------------------------------------
(* The software cipher *)

\* The operations of aes.c, over the bytes and tables of this module: an instance has its own
\* copy of both.
LEMMA SoftwareTurns ==
  ASSUME NEW b
  PROVE  Software!aes_row_mix_and_sub(b)
           = [p \in Places |-> aes_sbox[b[Software!ShiftedFrom[p + 1]] + 1]]
BY Zenon DEF Software!aes_row_mix_and_sub, Software!sbox, Software!aes_sbox, aes_sbox,
             Software!Places, Places

LEMMA SoftwareMixes ==
  ASSUME NEW b
  PROVE  Software!MixColumns(b)
           = [p \in Places |-> [r \in 0..3 |->
                XorOf([j \in 0..3 |-> gf_multiply_123(Software!Scales[r + 1][j + 1],
                                        [k \in 0..3 |-> b[4 * (p \div 4) + k]][j])], 4)][p % 4]]
BY Zenon DEF Software!MixColumns, Software!aes_mix_column, Software!words,
             Software!gf_multiply_123, gf_multiply_123, Software!XorOf, XorOf,
             Software!(+), (+), Software!Xor, Xor, Software!Bit, Bit, Software!Byte, Byte, Software!Places, Places

LEMMA SoftwareAdds ==
  ASSUME NEW b, NEW k
  PROVE  Software!aes_add_round_key(b, k) = XorAll(b, k)
BY Zenon DEF Software!aes_add_round_key, Software!XorAll, XorAll,
             Software!(+), (+), Software!Xor, Xor, Software!Bit, Bit, Software!Byte, Byte

LEMMA SoftwareG ==
  ASSUME NEW word, NEW i
  PROVE  Software!aes_g_function(word, i)
           = [b \in 0..3 |-> IF b = 0 THEN aes_sbox[word[1] + 1] (+) aes_round_constants[i + 1]
                                      ELSE aes_sbox[word[(b + 1) % 4] + 1]]
BY Zenon DEF Software!aes_g_function, Software!sbox, Software!aes_sbox, aes_sbox,
             Software!aes_round_constants, aes_round_constants,
             Software!(+), (+), Software!Xor, Xor, Software!Bit, Bit, Software!Byte, Byte

LEMMA SoftwareExpands ==
  ASSUME NEW key, NEW g
  PROVE  Software!expand(key, g)
           = Joined(CHOOSE s : s = [n \in 0..3 |->
               XorAll([b \in 0..3 |-> key[4 * n + b]], IF n = 0 THEN g ELSE s[n - 1])])
BY Zenon DEF Software!expand, Software!words, Software!XorAll, XorAll, Joined,
             Software!(+), (+), Software!Xor, Xor, Software!Bit, Bit, Software!Byte, Byte, Software!Places, Places

\* The transformations of aes.c are those of FIPS-197.
LEMMA SoftwareRound ==
  ASSUME NEW b \in Block
  PROVE  /\ Software!aes_row_mix_and_sub(b) = ShiftRows(SubBytes(b))
         /\ Software!MixColumns(b) = MixColumns(b)
<1>1. Software!aes_row_mix_and_sub(b) = ShiftRows(SubBytes(b))
  <2>1. \A p \in Places : Software!ShiftedFrom[p + 1] = From(p)
    BY SMTT(30) DEF Software!ShiftedFrom, From, Places
  <2>2. \A p \in Places : b[From(p)] \in Byte
    BY FromType DEF Block
  <2>3. \A p \in Places : aes_sbox[b[Software!ShiftedFrom[p + 1]] + 1] = Substitution[b[From(p)]]
    BY <2>1, <2>2, Substitutions, Zenon
  <2> QED BY <2>3, SoftwareTurns, ShiftedBytes, Zenon
<1>2. Software!MixColumns(b) = MixColumns(b)
  <2> DEFINE x(c) == [k \in 0..3 |-> b[4 * c + k]]
             products(r, c) == [j \in 0..3 |-> gf_multiply_123(Software!Scales[r + 1][j + 1], x(c)[j])]
             column(c) == [r \in 0..3 |-> XorOf(products(r, c), 4)]
  <2>1. Software!MixColumns(b) = [p \in Places |-> column(p \div 4)[p % 4]]
    BY SoftwareMixes, Zenon
  <2>2. ASSUME NEW r \in 0..3, NEW c \in 0..3
        PROVE  XorOf(products(r, c), 4) = MixedAt(b, r, c)
    <3> DEFINE y(j) == b[j + 4 * c]
               f == products(r, c)
               scale(j) == Software!Scales[r + 1][j + 1]
    <3>1. y(0) \in Byte /\ y(1) \in Byte /\ y(2) \in Byte /\ y(3) \in Byte
      BY BytesOfColumn, RowCases
    <3>2. x(c)[0] = y(0) /\ x(c)[1] = y(1) /\ x(c)[2] = y(2) /\ x(c)[3] = y(3)
      BY RowsAndColumns, RowCases, ZenonT(60)
    <3>3. /\ f[0] = gf_multiply_123(scale(0), x(c)[0])
          /\ f[1] = gf_multiply_123(scale(1), x(c)[1])
          /\ f[2] = gf_multiply_123(scale(2), x(c)[2])
          /\ f[3] = gf_multiply_123(scale(3), x(c)[3])
      BY RowCases, Zenon
    <3>4. XorOf(f, 4) = (((0 (+) f[0]) (+) f[1]) (+) f[2]) (+) f[3]
      BY XorOfFour
    <3>5. /\ (((0 (+) Double[y(0)]) (+) (Double[y(1)] (+) y(1))) (+) y(2)) (+) y(3) = MixedAt(b, 0, c)
          /\ (((0 (+) y(0)) (+) Double[y(1)]) (+) (Double[y(2)] (+) y(2))) (+) y(3) = MixedAt(b, 1, c)
          /\ (((0 (+) y(0)) (+) y(1)) (+) Double[y(2)]) (+) (Double[y(3)] (+) y(3)) = MixedAt(b, 2, c)
          /\ (((0 (+) (Double[y(0)] (+) y(0))) (+) y(1)) (+) y(2)) (+) Double[y(3)] = MixedAt(b, 3, c)
      BY RowSums
    <3>6. /\ r = 0 => scale(0) = 2 /\ scale(1) = 3 /\ scale(2) = 1 /\ scale(3) = 1
          /\ r = 1 => scale(0) = 1 /\ scale(1) = 2 /\ scale(2) = 3 /\ scale(3) = 1
          /\ r = 2 => scale(0) = 1 /\ scale(1) = 1 /\ scale(2) = 2 /\ scale(3) = 3
          /\ r = 3 => scale(0) = 3 /\ scale(1) = 1 /\ scale(2) = 1 /\ scale(3) = 2
      BY SMT DEF Software!Scales
    <3> HIDE DEF x, y, f, scale
    <3>7. /\ gf_multiply_123(1, y(0)) = y(0) /\ gf_multiply_123(2, y(0)) = Double[y(0)]
          /\ gf_multiply_123(3, y(0)) = Double[y(0)] (+) y(0)
          /\ gf_multiply_123(1, y(1)) = y(1) /\ gf_multiply_123(2, y(1)) = Double[y(1)]
          /\ gf_multiply_123(3, y(1)) = Double[y(1)] (+) y(1)
          /\ gf_multiply_123(1, y(2)) = y(2) /\ gf_multiply_123(2, y(2)) = Double[y(2)]
          /\ gf_multiply_123(3, y(2)) = Double[y(2)] (+) y(2)
          /\ gf_multiply_123(1, y(3)) = y(3) /\ gf_multiply_123(2, y(3)) = Double[y(3)]
          /\ gf_multiply_123(3, y(3)) = Double[y(3)] (+) y(3)
      BY <3>1, Scalings
    <3>8. CASE r = 0
      <4>1. /\ f[0] = Double[y(0)] /\ f[1] = Double[y(1)] (+) y(1)
            /\ f[2] = y(2) /\ f[3] = y(3)
        BY <3>2, <3>3, <3>6, <3>7, <3>8, Zenon
      <4> QED BY <3>4, <3>5, <3>8, <4>1, Zenon DEF f
    <3>9. CASE r = 1
      <4>1. /\ f[0] = y(0) /\ f[1] = Double[y(1)]
            /\ f[2] = Double[y(2)] (+) y(2) /\ f[3] = y(3)
        BY <3>2, <3>3, <3>6, <3>7, <3>9, Zenon
      <4> QED BY <3>4, <3>5, <3>9, <4>1, Zenon DEF f
    <3>10. CASE r = 2
      <4>1. /\ f[0] = y(0) /\ f[1] = y(1)
            /\ f[2] = Double[y(2)] /\ f[3] = Double[y(3)] (+) y(3)
        BY <3>2, <3>3, <3>6, <3>7, <3>10, Zenon
      <4> QED BY <3>4, <3>5, <3>10, <4>1, Zenon DEF f
    <3>11. CASE r = 3
      <4>1. /\ f[0] = Double[y(0)] (+) y(0) /\ f[1] = y(1)
            /\ f[2] = y(2) /\ f[3] = Double[y(3)]
        BY <3>2, <3>3, <3>6, <3>7, <3>11, Zenon
      <4> QED BY <3>4, <3>5, <3>11, <4>1, Zenon DEF f
    <3> QED BY <3>8, <3>9, <3>10, <3>11, RowCases, Zenon
  <2> HIDE DEF products
  <2>3. \A p \in Places : column(p \div 4)[p % 4] = MixedAt(b, p % 4, p \div 4)
    BY <2>2, RowsAndColumns, Zenon
  <2> HIDE DEF column
  <2> QED BY <2>1, <2>3, MixColumnsBytes, Zenon
<1> QED BY <1>1, <1>2

\* The round constants of aes.c are the powers of x.
LEMMA SoftwareConstants ==
  ASSUME NEW n \in 1..10
  PROVE  aes_round_constants[n] = PowerOfX(n - 1)
<1>1. n = 1 \/ n = 2 \/ n = 3 \/ n = 4 \/ n = 5 \/ n = 6 \/ n = 7 \/ n = 8 \/ n = 9 \/ n = 10
  BY SMT
<1>2. /\ 1 - 1 = 0 /\ 2 - 1 = 1 /\ 3 - 1 = 2 /\ 4 - 1 = 3 /\ 5 - 1 = 4 /\ 6 - 1 = 5
      /\ 7 - 1 = 6 /\ 8 - 1 = 7 /\ 9 - 1 = 8 /\ 10 - 1 = 9
  BY SMT
<1>3. /\ aes_round_constants[1] = 1 /\ aes_round_constants[2] = 2
      /\ aes_round_constants[3] = 4 /\ aes_round_constants[4] = 8
      /\ aes_round_constants[5] = 16 /\ aes_round_constants[6] = 32
      /\ aes_round_constants[7] = 64 /\ aes_round_constants[8] = 128
      /\ aes_round_constants[9] = 27 /\ aes_round_constants[10] = 54
  BY SMT DEF aes_round_constants
<1> DEFINE Right(m) == aes_round_constants[m] = PowerOfX(m - 1)
<1>4. Right(1) /\ Right(2) /\ Right(3) /\ Right(4) /\ Right(5) /\ Right(6) /\ Right(7) /\ Right(8)
      /\ Right(9) /\ Right(10)
  BY <1>2, <1>3, RoundConstants
<1> HIDE DEF Right
<1>5. Right(n)
  BY <1>1, <1>4, Zenon
<1> QED BY <1>5 DEF Right

\* aes_key_expansion makes of a key and the word that stood before it the next one.
LEMMA SoftwareNextKey ==
  ASSUME NEW key \in Block, NEW n \in 1..10
  PROVE  Software!expand(key, Software!aes_g_function(Software!words(key, 3), n - 1))
           = NextRoundKey(key, n)
<1> DEFINE g == Software!aes_g_function(Software!words(key, 3), n - 1)
           word == [c \in 0..3 |-> [b \in 0..3 |-> key[4 * c + b]]]
           Chain(s) == s = [c \in 0..3 |->
             XorAll([b \in 0..3 |-> key[4 * c + b]], IF c = 0 THEN g ELSE s[c - 1])]
           column == CHOOSE s : Chain(s)
<1>1. Addends(g, key, n)
  <2> DEFINE last == Software!words(key, 3)
  <2>1. \A r \in 0..3 : last[r] = key[r + 4 * 3]
    BY RowsAndColumns, RowCases, Zenon DEF Software!words
  <2>2. \A r \in 0..3 : key[r + 4 * 3] \in Byte
    BY BytesOfColumn, RowCases
  <2>3. \A r \in 0..3 : aes_sbox[last[r] + 1] = Substitution[key[r + 4 * 3]]
                        /\ Substitution[key[r + 4 * 3]] \in Byte
    BY <2>1, <2>2, Substitutions, Zenon
  <2>4. aes_round_constants[(n - 1) + 1] = PowerOfX(n - 1)
    BY SoftwareConstants, SMT
  <2> HIDE DEF last
  <2>5. \A r \in 0..3 : g[r] = IF r = 0 THEN aes_sbox[last[1] + 1] (+) aes_round_constants[(n - 1) + 1]
                                        ELSE aes_sbox[last[(r + 1) % 4] + 1]
    BY SoftwareG, Zenon DEF last
  <2> HIDE DEF g
  <2>6. ASSUME NEW r \in 0..3
        PROVE  g[r] = KeyAddend(key, n, r)
    <3>1. CASE r = 0
      BY <2>3, <2>4, <2>5, <3>1, RowCases, Zenon DEF KeyAddend
    <3>2. CASE r # 0
      <4>1. (r + 1) % 4 \in 0..3
        BY SMT
      <4>2. g[r] = Substitution[key[((r + 1) % 4) + 4 * 3]]
        BY <2>3, <2>5, <3>2, <4>1, Zenon
      <4>3. KeyAddend(key, n, r) = Substitution[key[((r + 1) % 4) + 4 * 3]] (+) 0
        BY <3>2, Zenon DEF KeyAddend
      <4> QED BY <2>3, <4>1, <4>2, <4>3, XorZero
    <3> QED BY <3>1, <3>2
  <2> QED BY <2>6 DEF Addends
<1>2. Software!expand(key, g) = Joined(column)
  BY SoftwareExpands, Zenon
<1> HIDE DEF g
<1>3. ColumnsOf(word, key)
  <2>1. \A c \in 0..3, b \in 0..3 : key[4 * c + b] = key[b + 4 * c]
    BY RowsAndColumns, Zenon
  <2> QED BY <2>1, Zenon DEF ColumnsOf
<1>4. \A s : Chain(s) <=> Chained(s, word, g)
  <2>1. \A c \in 0..3 : word[c] = [b \in 0..3 |-> key[4 * c + b]]
    BY Zenon
  <2> HIDE DEF word
  <2> QED BY <2>1, Zenon DEF Chained
<1> HIDE DEF word
<1>5. Chained(column, word, g)
  <2>1. \E s : Chain(s)
    BY <1>4, ChainedColumns, Zenon
  <2> HIDE DEF Chain
  <2> QED BY <1>4, <2>1, Zenon
<1> HIDE DEF Chain, column
<1> QED BY <1>1, <1>2, <1>3, <1>5, ChainIsNextRoundKey DEF g

\* A round of FIPS-197, from one state to the next.
StandardRound(block, key, round, next_block, next_key, next_round) ==
  /\ round \in 0..10
  /\ next_round = round + 1
  /\ next_block = XorAll(CASE round = 0  -> block
                           [] round = 10 -> ShiftRows(SubBytes(block))
                           [] OTHER      -> MixColumns(ShiftRows(SubBytes(block))), key)
  /\ next_key = IF round = 10 THEN key ELSE NextRoundKey(key, round + 1)

\* The refinement speaks of the same transformations.
LEMMA SoftwareStandardOperators ==
  /\ \A b, k : SoftwareStandard!XorAll(b, k) = XorAll(b, k)
  /\ \A b : SoftwareStandard!SubBytes(b) = SubBytes(b)
  /\ \A b : SoftwareStandard!ShiftRows(b) = ShiftRows(b)
  /\ \A b : SoftwareStandard!MixColumns(b) = MixColumns(b)
  /\ \A k, n : SoftwareStandard!NextRoundKey(k, n) = NextRoundKey(k, n)
<1>1. \A b, k : SoftwareStandard!XorAll(b, k) = XorAll(b, k)
  BY Zenon DEF SoftwareStandard!XorAll, XorAll,
               SoftwareStandard!(+), (+), SoftwareStandard!Xor, Xor, SoftwareStandard!Bit, Bit, SoftwareStandard!Byte, Byte
<1>2. \A b : SoftwareStandard!SubBytes(b) = SubBytes(b)
  BY Zenon DEF SoftwareStandard!SubBytes, SubBytes, SoftwareStandard!Substitution, Substitution,
               SoftwareStandard!SubstitutionTable, SubstitutionTable,
               SoftwareStandard!Affine, Affine, SoftwareStandard!Reciprocal, Reciprocal,
               SoftwareStandard!Times, Times, SoftwareStandard!Double, Double,
               SoftwareStandard!XorOf, XorOf, SoftwareStandard!(+), (+), SoftwareStandard!Xor, Xor,
               SoftwareStandard!Bit, Bit, SoftwareStandard!Byte, Byte, SoftwareStandard!Places, Places
<1>3. \A b : SoftwareStandard!ShiftRows(b) = ShiftRows(b)
  BY Zenon DEF SoftwareStandard!ShiftRows, ShiftRows, SoftwareStandard!ByRowAndColumn, ByRowAndColumn,
               SoftwareStandard!At, At, SoftwareStandard!Places, Places
<1>4. \A b : SoftwareStandard!MixColumns(b) = MixColumns(b)
  BY Zenon DEF SoftwareStandard!MixColumns, MixColumns,
               SoftwareStandard!ByRowAndColumn, ByRowAndColumn,
               SoftwareStandard!At, At, SoftwareStandard!Times, Times, SoftwareStandard!Double, Double,
               SoftwareStandard!XorOf, XorOf, SoftwareStandard!(+), (+), SoftwareStandard!Xor, Xor,
               SoftwareStandard!Bit, Bit, SoftwareStandard!Byte, Byte, SoftwareStandard!Places, Places
<1>5. \A k, n : SoftwareStandard!NextRoundKey(k, n) = NextRoundKey(k, n)
  BY Zenon DEF SoftwareStandard!NextRoundKey, NextRoundKey,
               SoftwareStandard!ByRowAndColumn, ByRowAndColumn, SoftwareStandard!Column, Column,
               SoftwareStandard!At, At, SoftwareStandard!XorAll, XorAll,
               SoftwareStandard!PowerOfX, PowerOfX,
               SoftwareStandard!Substitution, Substitution,
               SoftwareStandard!SubstitutionTable, SubstitutionTable,
               SoftwareStandard!Affine, Affine, SoftwareStandard!Reciprocal, Reciprocal,
               SoftwareStandard!Times, Times, SoftwareStandard!Double, Double,
               SoftwareStandard!XorOf, XorOf, SoftwareStandard!(+), (+), SoftwareStandard!Xor, Xor,
               SoftwareStandard!Bit, Bit, SoftwareStandard!Byte, Byte, SoftwareStandard!Places, Places
<1> QED BY <1>1, <1>2, <1>3, <1>4, <1>5

\* A round of FIPS-197 on the block of aes.c is a step of the refinement.
LEMMA SoftwareStandardRound ==
  StandardRound(data, Software!RoundKeyInUse, Software!RoundsDone,
                data', Software!RoundKeyInUse', Software!RoundsDone')
    => SoftwareStandard!Round
<1> SUFFICES ASSUME StandardRound(data, Software!RoundKeyInUse, Software!RoundsDone,
                                  data', Software!RoundKeyInUse', Software!RoundsDone')
             PROVE  SoftwareStandard!Round
  OBVIOUS
<1> QED BY SoftwareStandardOperators, Zenon DEF SoftwareStandard!Round, StandardRound

\* The keys up to the n-th each follow from the one before.
Expanded(n) ==
  \A m \in 1..n : expanded_keys[m] = NextRoundKey(expanded_keys[m - 1], m)

\* The inductive invariant of aes.c: how far the expansion has come, and that the rounds run
\* on the complete array.
SoftwareInv ==
  /\ data \in Block
  /\ expanded_keys \in [0..10 -> Block]
  /\ \/ /\ at = "expansion"
        /\ loop \in 1..11
        /\ Expanded(loop - 1)
        /\ last_word_g_ed
             = Software!aes_g_function(Software!words(expanded_keys[loop - 1], 3), loop - 1)
     \/ /\ at = "rounds"
        /\ loop \in 1..10
        /\ Expanded(10)
     \/ /\ at = "returned"
        /\ loop = 10

\* The invariant holds before the first word is expanded.
LEMMA SoftwareInitial == CiphersInit => SoftwareInv
<1> SUFFICES ASSUME CiphersInit
             PROVE  SoftwareInv
  OBVIOUS
<1>1. Software!Init /\ CipherKeys \subseteq Block /\ Texts \subseteq Block
  BY CiphersAssumption DEF CiphersInit
<1>2. PICK key \in CipherKeys :
        /\ expanded_keys = [n \in 0..10 |-> IF n = 0 THEN key ELSE [p \in Software!Places |-> 0]]
        /\ last_word_g_ed = Software!aes_g_function(Software!words(key, 3), 0)
  BY <1>1 DEF Software!Init
<1>3. data \in Block /\ loop = 1 /\ at = "expansion"
  BY <1>1 DEF Software!Init
<1>4. expanded_keys \in [0..10 -> Block] /\ expanded_keys[0] = key
  <2>1. [p \in Software!Places |-> 0] \in Block
    BY SMT DEF Block, Places, Software!Places, Byte
  <2>2. 0 \in 0..10
    BY SMT
  <2> QED BY <1>1, <1>2, <2>1, <2>2
<1>5. loop \in 1..11 /\ loop - 1 = 0 /\ 1..0 = {}
  BY <1>3, SMT
<1>6. Expanded(loop - 1)
  BY <1>5, Zenon DEF Expanded
<1>7. last_word_g_ed
        = Software!aes_g_function(Software!words(expanded_keys[loop - 1], 3), loop - 1)
  BY <1>2, <1>4, <1>5, Zenon
<1> QED BY <1>3, <1>4, <1>5, <1>6, <1>7 DEF SoftwareInv

\* A round takes blocks to blocks.
LEMMA RoundType ==
  ASSUME NEW b \in Block
  PROVE  ShiftRows(SubBytes(b)) \in Block /\ MixColumns(ShiftRows(SubBytes(b))) \in Block
BY ShiftedBytes, MixColumnsBytes

\* A step of aes.c is a round or changes nothing that FIPS-197 speaks of.
LEMMA SoftwareStep ==
  ASSUME SoftwareInv, Software!Next
  PROVE  /\ SoftwareInv'
         /\ SoftwareStandard!Round \/ UNCHANGED SoftwareStandard!vars
<1>1. /\ data \in Block /\ expanded_keys \in [0..10 -> Block]
      /\ \A n \in 0..10 : expanded_keys[n] \in Block
  BY DEF SoftwareInv
<1>2. /\ at = "expansion" => Software!RoundsDone = 0
      /\ at = "rounds" => Software!RoundsDone = loop
      /\ at = "returned" => Software!RoundsDone = 11
      /\ at' = "expansion" => Software!RoundsDone' = 0
      /\ at' = "rounds" => Software!RoundsDone' = loop'
      /\ at' = "returned" => Software!RoundsDone' = 11
  <2>1. "expansion" # "rounds" /\ "expansion" # "returned" /\ "rounds" # "returned"
    OBVIOUS
  <2> QED BY <2>1, Zenon DEF Software!RoundsDone
<1>3. /\ at # "returned" => Software!RoundKeyInUse = expanded_keys[Software!RoundsDone]
      /\ at = "returned" => Software!RoundKeyInUse = expanded_keys[10]
      /\ at' # "returned" => Software!RoundKeyInUse' = expanded_keys'[Software!RoundsDone']
      /\ at' = "returned" => Software!RoundKeyInUse' = expanded_keys'[10]
  BY Zenon DEF Software!RoundKeyInUse
<1>4. CASE Software!ExpandKey
  <2> DEFINE key == Software!expand(expanded_keys[loop - 1], last_word_g_ed)
  <2>1. /\ at = "expansion" /\ loop \in 1..10 /\ loop - 1 \in 0..10
        /\ Expanded(loop - 1)
        /\ last_word_g_ed
             = Software!aes_g_function(Software!words(expanded_keys[loop - 1], 3), loop - 1)
    BY <1>4, SMT DEF Software!ExpandKey, SoftwareInv
  <2>2. /\ expanded_keys' = [expanded_keys EXCEPT ![loop] = key]
        /\ last_word_g_ed' = Software!aes_g_function(Software!words(key, 3), loop)
        /\ loop' = loop + 1 /\ data' = data /\ at' = at
    BY <1>4, Zenon DEF Software!ExpandKey
  <2>3. key = NextRoundKey(expanded_keys[loop - 1], loop)
    BY <1>1, <2>1, SoftwareNextKey, Zenon
  <2> HIDE DEF key
  <2>4. key \in Block
    BY <1>1, <2>1, <2>3, NextRoundKeyBytes
  <2>5. /\ expanded_keys' \in [0..10 -> Block] /\ expanded_keys'[loop] = key
        /\ \A m \in 0..10 : m # loop => expanded_keys'[m] = expanded_keys[m]
    BY <1>1, <2>1, <2>2, <2>4
  <2>6. loop' \in 1..11 /\ loop' - 1 = loop /\ loop \in 0..10 /\ 0 \in 0..10 /\ 0 # loop
    BY <2>1, <2>2, SMT
  <2>7. \A m \in 1..loop : expanded_keys'[m] = NextRoundKey(expanded_keys'[m - 1], m)
    <3> TAKE m \in 1..loop
    <3>1. m \in 0..10 /\ m - 1 \in 0..10 /\ m - 1 # loop
      BY <2>1, SMT
    <3>2. CASE m = loop
      BY <2>3, <2>5, <3>1, <3>2, Zenon
    <3>3. CASE m # loop
      <4>1. m \in 1..(loop - 1)
        BY <2>1, <3>3, SMT
      <4> QED BY <2>1, <2>5, <3>1, <3>3, <4>1, Zenon DEF Expanded
    <3> QED BY <3>2, <3>3
  <2>8. SoftwareInv'
    BY <1>1, <2>1, <2>2, <2>5, <2>6, <2>7, Zenon DEF SoftwareInv, Expanded
  <2>9. /\ Software!RoundsDone' = Software!RoundsDone
        /\ Software!RoundKeyInUse' = Software!RoundKeyInUse
    BY <1>2, <1>3, <2>1, <2>2, <2>5, <2>6
  <2> QED BY <2>2, <2>8, <2>9, Zenon DEF SoftwareStandard!vars
<1>5. ASSUME NEW n \in 0..10, n = Software!RoundsDone,
             Software!RoundKeyInUse = expanded_keys[n],
             Software!RoundsDone' = n + 1, Expanded(10), expanded_keys' = expanded_keys,
             Software!RoundKeyInUse' = IF n = 10 THEN expanded_keys[10] ELSE expanded_keys[n + 1],
             data' = XorAll(CASE n = 0  -> data
                              [] n = 10 -> ShiftRows(SubBytes(data))
                              [] OTHER  -> MixColumns(ShiftRows(SubBytes(data))), expanded_keys[n])
      PROVE  SoftwareStandard!Round
  <2>1. CASE n = 10
    BY <1>5, <2>1, SoftwareStandardRound, Zenon DEF StandardRound
  <2>2. CASE n # 10
    <3>1. n + 1 \in 1..10 /\ (n + 1) - 1 = n
      BY <2>2, SMT
    <3>2. expanded_keys[n + 1] = NextRoundKey(expanded_keys[n], n + 1)
      BY <1>5, <3>1, Zenon DEF Expanded
    <3> QED BY <1>5, <2>2, <3>2, SoftwareStandardRound, Zenon DEF StandardRound
  <2> QED BY <2>1, <2>2
<1>6. CASE Software!AddFirstKey
  <2>1. /\ at = "expansion" /\ loop = 11 /\ at' = "rounds" /\ loop' = 1
        /\ expanded_keys' = expanded_keys
        /\ data' = Software!aes_add_round_key(data, expanded_keys[0])
    BY <1>6, Zenon DEF Software!AddFirstKey
  <2>2. 0 \in 0..10 /\ 11 - 1 = 10 /\ 0 + 1 = 1 /\ 0 # 10 /\ 1 \in 1..10
    BY SMT
  <2>3. Expanded(10)
    BY <2>1, <2>2 DEF SoftwareInv
  <2>4. data' = XorAll(data, expanded_keys[0])
    BY <2>1, SoftwareAdds
  <2>5. data' \in Block
    BY <1>1, <2>2, <2>4, XorAllBlocks
  <2>6. SoftwareInv'
    BY <1>1, <2>1, <2>2, <2>3, <2>5, Zenon DEF SoftwareInv, Expanded
  <2>7. SoftwareStandard!Round
    BY <1>2, <1>3, <1>5, <2>1, <2>2, <2>3, <2>4
  <2> QED BY <2>6, <2>7
<1>7. CASE Software!EncryptRound
  <2>1. /\ at = "rounds" /\ loop < 10 /\ at' = at /\ loop' = loop + 1
        /\ expanded_keys' = expanded_keys
        /\ data' = Software!aes_add_round_key(
             Software!MixColumns(Software!aes_row_mix_and_sub(data)), expanded_keys[loop])
    BY <1>7, Zenon DEF Software!EncryptRound
  <2>2. loop \in 0..10 /\ loop # 0 /\ loop # 10 /\ loop' \in 1..10 /\ Expanded(10)
    BY <2>1, SMT DEF SoftwareInv
  <2>3. data' = XorAll(MixColumns(ShiftRows(SubBytes(data))), expanded_keys[loop])
    <3>1. ShiftRows(SubBytes(data)) \in Block
      BY <1>1, RoundType
    <3> QED BY <1>1, <2>1, <3>1, SoftwareRound, SoftwareAdds
  <2>4. data' \in Block
    BY <1>1, <2>2, <2>3, RoundType, XorAllBlocks
  <2>5. SoftwareInv'
    BY <1>1, <2>1, <2>2, <2>4, Zenon DEF SoftwareInv, Expanded
  <2>6. SoftwareStandard!Round
    BY <1>2, <1>3, <1>5, <2>1, <2>2, <2>3
  <2> QED BY <2>5, <2>6
<1>8. CASE Software!LastRound
  <2>1. /\ at = "rounds" /\ loop = 10 /\ at' = "returned" /\ loop' = loop
        /\ expanded_keys' = expanded_keys
        /\ data' = Software!aes_add_round_key(
             Software!aes_row_mix_and_sub(data), expanded_keys[10])
    BY <1>8, Zenon DEF Software!LastRound
  <2>2. 10 \in 0..10 /\ 10 # 0 /\ 10 + 1 = 11 /\ Expanded(10)
    BY <2>1, SMT DEF SoftwareInv
  <2>3. data' = XorAll(ShiftRows(SubBytes(data)), expanded_keys[10])
    BY <1>1, <2>1, SoftwareRound, SoftwareAdds
  <2>4. data' \in Block
    BY <1>1, <2>2, <2>3, RoundType, XorAllBlocks
  <2>5. SoftwareInv'
    BY <1>1, <2>1, <2>4, Zenon DEF SoftwareInv, Expanded
  <2>6. SoftwareStandard!Round
    BY <1>2, <1>3, <1>5, <2>1, <2>2, <2>3
  <2> QED BY <2>5, <2>6
<1> QED BY <1>4, <1>6, <1>7, <1>8 DEF Software!Next

\* Round for round, aes.c computes FIPS-197's AES-128, for every key and text.
THEOREM SoftwareIsStandardCorrect == CiphersSpec => SoftwareIsStandard
<1>1. CiphersInit => SoftwareStandard!Init
  <2> SUFFICES ASSUME CiphersInit
               PROVE  SoftwareStandard!Init
    OBVIOUS
  <2>1. Software!Init
    BY DEF CiphersInit
  <2>2. PICK key \in CipherKeys :
          expanded_keys = [n \in 0..10 |-> IF n = 0 THEN key ELSE [p \in Software!Places |-> 0]]
    BY <2>1 DEF Software!Init
  <2>3. data \in Texts /\ at = "expansion" /\ "expansion" # "returned"
    BY <2>1 DEF Software!Init
  <2>4. Software!RoundsDone = 0 /\ 0 \in 0..10
    BY <2>3, Zenon, SMT DEF Software!RoundsDone
  <2>5. Software!RoundKeyInUse = key
    BY <2>2, <2>3, <2>4 DEF Software!RoundKeyInUse
  <2> QED BY <2>3, <2>4, <2>5 DEF SoftwareStandard!Init
<1>2. SoftwareInv /\ [CiphersNext]_<< row, softwareVars, microVars, hardwareVars >>
        => SoftwareInv' /\ [SoftwareStandard!Round]_SoftwareStandard!vars
  <2> SUFFICES ASSUME SoftwareInv,
                      [CiphersNext]_<< row, softwareVars, microVars, hardwareVars >>
               PROVE  SoftwareInv' /\ [SoftwareStandard!Round]_SoftwareStandard!vars
    OBVIOUS
  <2>1. Software!Next \/ UNCHANGED softwareVars
    BY Zenon DEF CiphersNext
  <2>2. CASE Software!Next
    BY <2>2, SoftwareStep
  <2>3. CASE UNCHANGED softwareVars
    <3>1. data' = data /\ expanded_keys' = expanded_keys /\ last_word_g_ed' = last_word_g_ed
          /\ loop' = loop /\ at' = at
      BY <2>3 DEF softwareVars
    <3>2. SoftwareInv'
      BY <3>1, Zenon DEF SoftwareInv, Expanded
    <3>3. UNCHANGED SoftwareStandard!vars
      BY <3>1, Zenon DEF SoftwareStandard!vars, Software!RoundsDone, Software!RoundKeyInUse
    <3> QED BY <3>2, <3>3
  <2> QED BY <2>1, <2>2, <2>3
<1> QED BY <1>1, <1>2, SoftwareInitial, PTL DEF CiphersSpec, SoftwareIsStandard, SoftwareStandard!Spec

-----------------------------------------------------------------------------
(* The hardware *)

\* The instance's logic is the one that AesRoundsProofs speaks of.
LEMMA HardwareLogic ==
  /\ \A b : Hardware!Matrix(b) = Matrix(b)
  /\ \A m : Hardware!BytesOf(m) = BytesOf(m)
  /\ \A m : Hardware!shifted_and_substituted(m) = shifted_and_substituted(m)
  /\ \A m : Hardware!product_matrix(m) = product_matrix(m)
  /\ \A m, k : Hardware!add_key(m, k) = add_key(m, k)
  /\ \A m, constant : Hardware!expand_key(m, constant) = expand_key(m, constant)
  /\ Hardware!ROUND_G_CONSTANTS = ROUND_G_CONSTANTS
<1>0. Hardware!Xor = Xor
  BY Zenon DEF Hardware!Xor, Xor, Hardware!Bit, Bit, Hardware!Byte, Byte
<1>1. \A b, k : Hardware!XorAll(b, k) = XorAll(b, k)
  BY <1>0, Zenon DEF Hardware!XorAll, XorAll, Hardware!(+), (+)
<1>2. \A x : Hardware!lookup_table_256x8(x) = lookup_table_256x8(x)
  BY Zenon DEF Hardware!lookup_table_256x8, lookup_table_256x8, Hardware!RomWords, RomWords,
               Hardware!RomBits, RomBits, Hardware!ith_bit_from_entries, ith_bit_from_entries,
               Hardware!S_BOX_TABLE, S_BOX_TABLE, Hardware!XorOf, XorOf,
               Hardware!(+), (+), Hardware!Xor, Xor, Hardware!Bit, Bit, Hardware!Byte, Byte
<1>3. \A b : Hardware!Matrix(b) = Matrix(b)
  BY Zenon DEF Hardware!Matrix, Matrix
<1>4. \A m : Hardware!BytesOf(m) = BytesOf(m)
  BY Zenon DEF Hardware!BytesOf, BytesOf, Hardware!Places, Places
<1>5. \A m : Hardware!shifted_and_substituted(m) = shifted_and_substituted(m)
  BY <1>2, Zenon DEF Hardware!shifted_and_substituted, shifted_and_substituted
<1>6. \A m : Hardware!product_matrix(m) = product_matrix(m)
  BY Zenon DEF Hardware!product_matrix, product_matrix,
               Hardware!scale_by_2, scale_by_2, Hardware!scale_by_3, scale_by_3,
               Hardware!(+), (+), Hardware!Xor, Xor, Hardware!Bit, Bit, Hardware!Byte, Byte
<1>7. \A m, k : Hardware!add_key(m, k) = add_key(m, k)
  BY <1>1, Zenon DEF Hardware!add_key, add_key
<1>8. \A m, constant : Hardware!g_of_column(m, constant) = g_of_column(m, constant)
  BY ZenonT(60)
     DEF Hardware!g_of_column, g_of_column, Hardware!lookup_table_256x8, lookup_table_256x8,
         Hardware!RomWords, RomWords, Hardware!RomBits, RomBits,
         Hardware!ith_bit_from_entries, ith_bit_from_entries,
         Hardware!S_BOX_TABLE, S_BOX_TABLE, Hardware!XorOf, XorOf,
         Hardware!(+), (+), Hardware!Xor, Xor, Hardware!Bit, Bit, Hardware!Byte, Byte
<1>9. \A m, constant : Hardware!expand_key(m, constant) = expand_key(m, constant)
  BY <1>1, <1>8, Zenon DEF Hardware!expand_key, expand_key
<1>10. Hardware!ROUND_G_CONSTANTS = ROUND_G_CONSTANTS
  BY Zenon DEF Hardware!ROUND_G_CONSTANTS, ROUND_G_CONSTANTS
<1> QED BY <1>3, <1>4, <1>5, <1>6, <1>7, <1>9, <1>10

\* The refinement speaks of the same transformations.
LEMMA HardwareStandardOperators ==
  /\ \A b, k : HardwareStandard!XorAll(b, k) = XorAll(b, k)
  /\ \A b : HardwareStandard!SubBytes(b) = SubBytes(b)
  /\ \A b : HardwareStandard!ShiftRows(b) = ShiftRows(b)
  /\ \A b : HardwareStandard!MixColumns(b) = MixColumns(b)
  /\ \A k, n : HardwareStandard!NextRoundKey(k, n) = NextRoundKey(k, n)
<1>1. \A b, k : HardwareStandard!XorAll(b, k) = XorAll(b, k)
  BY Zenon DEF HardwareStandard!XorAll, XorAll,
               HardwareStandard!(+), (+), HardwareStandard!Xor, Xor, HardwareStandard!Bit, Bit, HardwareStandard!Byte, Byte
<1>2. \A b : HardwareStandard!SubBytes(b) = SubBytes(b)
  BY Zenon DEF HardwareStandard!SubBytes, SubBytes, HardwareStandard!Substitution, Substitution,
               HardwareStandard!SubstitutionTable, SubstitutionTable,
               HardwareStandard!Affine, Affine, HardwareStandard!Reciprocal, Reciprocal,
               HardwareStandard!Times, Times, HardwareStandard!Double, Double,
               HardwareStandard!XorOf, XorOf, HardwareStandard!(+), (+), HardwareStandard!Xor, Xor,
               HardwareStandard!Bit, Bit, HardwareStandard!Byte, Byte, HardwareStandard!Places, Places
<1>3. \A b : HardwareStandard!ShiftRows(b) = ShiftRows(b)
  BY Zenon DEF HardwareStandard!ShiftRows, ShiftRows, HardwareStandard!ByRowAndColumn, ByRowAndColumn,
               HardwareStandard!At, At, HardwareStandard!Places, Places
<1>4. \A b : HardwareStandard!MixColumns(b) = MixColumns(b)
  BY Zenon DEF HardwareStandard!MixColumns, MixColumns,
               HardwareStandard!ByRowAndColumn, ByRowAndColumn,
               HardwareStandard!At, At, HardwareStandard!Times, Times, HardwareStandard!Double, Double,
               HardwareStandard!XorOf, XorOf, HardwareStandard!(+), (+), HardwareStandard!Xor, Xor,
               HardwareStandard!Bit, Bit, HardwareStandard!Byte, Byte, HardwareStandard!Places, Places
<1>5. \A k, n : HardwareStandard!NextRoundKey(k, n) = NextRoundKey(k, n)
  BY Zenon DEF HardwareStandard!NextRoundKey, NextRoundKey,
               HardwareStandard!ByRowAndColumn, ByRowAndColumn, HardwareStandard!Column, Column,
               HardwareStandard!At, At, HardwareStandard!XorAll, XorAll,
               HardwareStandard!PowerOfX, PowerOfX,
               HardwareStandard!Substitution, Substitution,
               HardwareStandard!SubstitutionTable, SubstitutionTable,
               HardwareStandard!Affine, Affine, HardwareStandard!Reciprocal, Reciprocal,
               HardwareStandard!Times, Times, HardwareStandard!Double, Double,
               HardwareStandard!XorOf, XorOf, HardwareStandard!(+), (+), HardwareStandard!Xor, Xor,
               HardwareStandard!Bit, Bit, HardwareStandard!Byte, Byte, HardwareStandard!Places, Places
<1> QED BY <1>1, <1>2, <1>3, <1>4, <1>5

\* A round of FIPS-197 on the bytes of the matrices is a step of the refinement.
LEMMA HardwareStandardRound ==
  StandardRound(BytesOf(data_matrix), BytesOf(previous_key), stage,
                BytesOf(data_matrix'), BytesOf(previous_key'), stage')
    => HardwareStandard!Round
<1> SUFFICES ASSUME StandardRound(BytesOf(data_matrix), BytesOf(previous_key), stage,
                                  BytesOf(data_matrix'), BytesOf(previous_key'), stage')
             PROVE  HardwareStandard!Round
  OBVIOUS
<1> QED BY HardwareStandardOperators, HardwareLogic, Zenon DEF HardwareStandard!Round, StandardRound

\* The round constant in the register is the one of the next key, while there is one.
HardwareInv ==
  /\ data_matrix \in Matrices
  /\ previous_key \in Matrices
  /\ stage \in 0..11
  /\ stage < 10 => round_constant = PowerOfX(stage)

\* The pipeline begins as FIPS-197 does.
LEMMA HardwareInitial == CiphersInit => HardwareInv /\ HardwareStandard!Init
<1> SUFFICES ASSUME CiphersInit
             PROVE  HardwareInv /\ HardwareStandard!Init
  OBVIOUS
<1>1. /\ given[1] \in CipherKeys /\ given[2] \in Texts
      /\ previous_key = Matrix(given[1]) /\ data_matrix = Matrix(given[2])
      /\ round_constant = ROUND_G_CONSTANTS[1] /\ stage = 0
  BY HardwareLogic DEF CiphersInit, Hardware!Init
<1>2. given[1] \in Block /\ given[2] \in Block
  BY <1>1, CiphersAssumption
<1>3. /\ previous_key \in Matrices /\ BytesOf(previous_key) = given[1]
      /\ data_matrix \in Matrices /\ BytesOf(data_matrix) = given[2]
  BY <1>1, <1>2, MatrixOfBlock
<1>4. round_constant = PowerOfX(stage) /\ stage \in 0..11
  <2>1. 0 + 1 = 1 /\ 0 \in 0..9 /\ 0 \in 0..11
    BY SMT
  <2> QED BY <1>1, <2>1, HardwareConstants
<1> QED BY <1>1, <1>3, <1>4, HardwareLogic DEF HardwareInv, HardwareStandard!Init

\* A stage of the pipeline is a round.
LEMMA HardwareStep ==
  ASSUME HardwareInv, Hardware!Next
  PROVE  HardwareInv' /\ HardwareStandard!Round
<1> DEFINE text == BytesOf(data_matrix)
           key == BytesOf(previous_key)
<1>1. /\ data_matrix \in Matrices /\ previous_key \in Matrices /\ stage \in 0..10
      /\ stage' = stage + 1 /\ Hardware!DeriveKey
  <2>1. Hardware!FirstStage \/ Hardware!RoundStage
    BY DEF Hardware!Next
  <2>2. CASE Hardware!FirstStage
    BY <2>2, SMT DEF Hardware!FirstStage, HardwareInv
  <2>3. CASE Hardware!RoundStage
    BY <2>3, SMT DEF Hardware!RoundStage, HardwareInv
  <2> QED BY <2>1, <2>2, <2>3
<1>2. /\ previous_key' \in Matrices
      /\ BytesOf(previous_key') = IF stage = 10 THEN key ELSE NextRoundKey(key, stage + 1)
      /\ stage' < 10 => round_constant' = PowerOfX(stage')
  <2>1. CASE stage = 10
    <3>1. previous_key' = previous_key /\ ~(stage' < 10)
      BY <1>1, <2>1, SMT DEF Hardware!DeriveKey
    <3> QED BY <1>1, <2>1, <3>1
  <2>2. CASE stage # 10
    <3>1. /\ previous_key' = expand_key(previous_key, round_constant)
          /\ round_constant' = IF stage = 9 THEN 0 ELSE ROUND_G_CONSTANTS[stage + 2]
      BY <1>1, <2>2, HardwareLogic, Zenon DEF Hardware!DeriveKey
    <3>2. stage < 10 /\ stage + 1 \in 1..10 /\ (stage + 1) - 1 = stage
      BY <1>1, <2>2, SMT
    <3>3. round_constant = PowerOfX((stage + 1) - 1)
      BY <3>2 DEF HardwareInv
    <3>4. previous_key' \in Matrices /\ BytesOf(previous_key') = NextRoundKey(key, stage + 1)
      BY <1>1, <3>1, <3>2, <3>3, HardwareNextKey
    <3>5. stage' < 10 => round_constant' = PowerOfX(stage')
      <4> SUFFICES ASSUME stage' < 10
                   PROVE  round_constant' = PowerOfX(stage')
        OBVIOUS
      <4>1. stage # 9 /\ stage' \in 0..9 /\ stage + 2 = stage' + 1
        BY <1>1, SMT
      <4> QED BY <3>1, <4>1, HardwareConstants
    <3> QED BY <2>2, <3>4, <3>5
  <2> QED BY <2>1, <2>2
<1>3. /\ data_matrix' \in Matrices
      /\ BytesOf(data_matrix') = XorAll(CASE stage = 0  -> text
                                       [] stage = 10 -> ShiftRows(SubBytes(text))
                                       [] OTHER      -> MixColumns(ShiftRows(SubBytes(text))), key)
  <2>0. 0 # 10 /\ 0 \notin 1..10
    BY SMT
  <2>1. CASE Hardware!FirstStage
    <3>1. data_matrix' = add_key(data_matrix, previous_key) /\ stage = 0
      BY <2>1, HardwareLogic DEF Hardware!FirstStage
    <3>2. data_matrix' \in Matrices /\ BytesOf(data_matrix') = XorAll(text, key)
      BY <1>1, <3>1, HardwareKeyAdded
    <3> QED BY <2>0, <3>1, <3>2, Zenon
  <2>2. CASE Hardware!RoundStage
    <3> DEFINE substituted == shifted_and_substituted(data_matrix)
               mixed == product_matrix(substituted)
    <3>1. /\ stage # 0
          /\ data_matrix' = add_key(IF stage # 10 THEN mixed ELSE substituted, previous_key)
      BY <2>0, <2>2, HardwareLogic, Zenon DEF Hardware!RoundStage, Hardware!aes_round_pe
    <3>2. substituted \in Matrices /\ BytesOf(substituted) = ShiftRows(SubBytes(text))
      BY <1>1, HardwareRound
    <3> HIDE DEF substituted
    <3>3. mixed \in Matrices /\ BytesOf(mixed) = MixColumns(ShiftRows(SubBytes(text)))
      BY <3>2, HardwareRound
    <3> HIDE DEF mixed
    <3>4. CASE stage = 10
      <4>1. data_matrix' = add_key(substituted, previous_key)
        BY <3>1, <3>4, Zenon
      <4>2. /\ data_matrix' \in Matrices
            /\ BytesOf(data_matrix') = XorAll(ShiftRows(SubBytes(text)), key)
        BY <1>1, <3>2, <4>1, HardwareKeyAdded
      <4> QED BY <2>0, <3>4, <4>2, Zenon
    <3>5. CASE stage # 10
      <4>1. data_matrix' = add_key(mixed, previous_key)
        BY <3>1, <3>5, Zenon
      <4>2. /\ data_matrix' \in Matrices
            /\ BytesOf(data_matrix') = XorAll(MixColumns(ShiftRows(SubBytes(text))), key)
        BY <1>1, <3>3, <4>1, HardwareKeyAdded
      <4> QED BY <3>1, <3>5, <4>2, Zenon
    <3> QED BY <3>4, <3>5
  <2> QED BY <2>1, <2>2 DEF Hardware!Next
<1>4. HardwareInv'
  <2>1. stage' \in 0..11
    BY <1>1, SMT
  <2> QED BY <1>2, <1>3, <2>1 DEF HardwareInv
<1>5. HardwareStandard!Round
  BY <1>1, <1>2, <1>3, HardwareStandardRound, Zenon DEF StandardRound
<1> QED BY <1>4, <1>5

\* Stage for stage, the pipeline computes FIPS-197's AES-128, for every key and text.
THEOREM DatapathIsStandardCorrect == CiphersSpec => DatapathIsStandard
<1>1. HardwareInv /\ [CiphersNext]_<< row, softwareVars, microVars, hardwareVars >>
        => HardwareInv' /\ [HardwareStandard!Round]_HardwareStandard!vars
  <2> SUFFICES ASSUME HardwareInv,
                      [CiphersNext]_<< row, softwareVars, microVars, hardwareVars >>
               PROVE  HardwareInv' /\ [HardwareStandard!Round]_HardwareStandard!vars
    OBVIOUS
  <2>1. Hardware!Next \/ UNCHANGED hardwareVars
    BY Zenon DEF CiphersNext
  <2>2. CASE Hardware!Next
    BY <2>2, HardwareStep
  <2>3. CASE UNCHANGED hardwareVars
    <3>1. data_matrix' = data_matrix /\ previous_key' = previous_key
          /\ round_constant' = round_constant /\ stage' = stage
      BY <2>3 DEF hardwareVars
    <3>2. HardwareInv'
      BY <3>1, Zenon DEF HardwareInv
    <3>3. UNCHANGED HardwareStandard!vars
      BY <3>1, HardwareLogic, Zenon DEF HardwareStandard!vars
    <3> QED BY <3>2, <3>3
  <2> QED BY <2>1, <2>2, <2>3
<1> QED BY <1>1, HardwareInitial, PTL DEF CiphersSpec, DatapathIsStandard, HardwareStandard!Spec

-----------------------------------------------------------------------------
(* The library of the demonstration program *)

\* The operations of the library, over the bytes and tables of this module.
LEMMA MicroTurns ==
  ASSUME NEW b
  PROVE  Micro!ShiftRows(Micro!SubBytes(b))
           = [p \in Places |-> [q \in Places |-> micro_sbox[b[q] + 1]]
                                 [4 * (((p \div 4) + (p % 4)) % 4) + (p % 4)]]
BY Zenon DEF Micro!ShiftRows, Micro!SubBytes, Micro!SBoxValue, Micro!micro_sbox, micro_sbox,
             Micro!Places, Places

LEMMA MicroMasks ==
  ASSUME NEW c
  PROVE  Micro!ColumnMask(c)
           = CHOOSE s : s = [n \in 0..3 |->
               IF n = 0 THEN XorOf(c, 4) (+) xtime(c[0] (+) c[1])
                        ELSE s[n - 1] (+) (IF n = 2 THEN xtime(c[1] (+) c[3])
                                                    ELSE xtime(c[0] (+) c[2]))]
BY Zenon DEF Micro!ColumnMask, Micro!xtime, xtime, Micro!XorOf, XorOf,
             Micro!(+), (+), Micro!Xor, Xor, Micro!Bit, Bit, Micro!Byte, Byte

LEMMA MicroMixes ==
  ASSUME NEW b
  PROVE  Micro!MixColumns(b)
           = [p \in Places |-> b[p] (+)
                [c \in 0..3 |-> Micro!ColumnMask([n \in 0..3 |-> b[4 * c + n]])][p \div 4][p % 4]]
BY Zenon DEF Micro!MixColumns,
             Micro!(+), (+), Micro!Xor, Xor, Micro!Bit, Bit, Micro!Byte, Byte, Micro!Places, Places

LEMMA MicroAdds ==
  ASSUME NEW n, NEW b \in Block
  PROVE  Micro!AddRoundKey(n, b) = XorAll(b, [p \in Places |-> RoundKey[16 * n + p]])
<1>1. Micro!AddRoundKey(n, b) = [p \in Places |-> b[p] (+) RoundKey[16 * n + p]]
  BY Zenon DEF Micro!AddRoundKey, Micro!(+), (+), Micro!Xor, Xor, Micro!Bit, Bit, Micro!Byte, Byte,
               Micro!Places, Places
<1>2. DOMAIN b = Places
  BY DEF Block
<1> QED BY <1>1, <1>2, Zenon DEF XorAll

LEMMA MicroExpands ==
  ASSUME Micro!ExpandWord
  PROVE  LET copied == [p \in 0..175 |-> IF micro_i % 16 = 0 /\ p \in micro_i..(micro_i + 15)
                                         THEN RoundKey[p - 16] ELSE RoundKey[p]]
             constant == IF rcon = 0 THEN 27 ELSE rcon
             addend(j) ==
               IF micro_i % 16 = 0 THEN micro_sbox[RoundKey[micro_i - 4 + ((j + 1) % 4)] + 1]
                                          (+) (IF j = 0 THEN constant ELSE 0)
                                   ELSE RoundKey[micro_i - 4 + j]
         IN  /\ RoundKey' = [p \in 0..175 |-> IF p \in micro_i..(micro_i + 3)
                                              THEN copied[p] (+) addend(p - micro_i)
                                              ELSE copied[p]]
             /\ rcon' = IF micro_i % 16 = 0 THEN (2 * constant) % 256 ELSE rcon
<1>1. \h1b = 27
  BY SMT
<1> QED BY <1>1, Zenon DEF Micro!ExpandWord, Micro!CopiedAhead, Micro!WordAddend, Micro!constant,
             Micro!KeyBytes, Micro!SBoxValue, Micro!micro_sbox, micro_sbox,
             Micro!(+), (+), Micro!Xor, Xor, Micro!Bit, Bit, Micro!Byte, Byte

\* The refinement of a block speaks of the same transformations.
LEMMA MicroStandardOperators ==
  ASSUME NEW i \in 1..Blocks
  PROVE  /\ \A b, k : MicroStandard(i)!XorAll(b, k) = XorAll(b, k)
         /\ \A b : MicroStandard(i)!SubBytes(b) = SubBytes(b)
         /\ \A b : MicroStandard(i)!ShiftRows(b) = ShiftRows(b)
         /\ \A b : MicroStandard(i)!MixColumns(b) = MixColumns(b)
         /\ \A k, n : MicroStandard(i)!NextRoundKey(k, n) = NextRoundKey(k, n)
<1>1. \A b, k : MicroStandard(i)!XorAll(b, k) = XorAll(b, k)
  BY Zenon DEF MicroStandard!XorAll, XorAll,
               MicroStandard!(+), (+), MicroStandard!Xor, Xor, MicroStandard!Bit, Bit, MicroStandard!Byte, Byte
<1>2. \A b : MicroStandard(i)!SubBytes(b) = SubBytes(b)
  BY Zenon DEF MicroStandard!SubBytes, SubBytes, MicroStandard!Substitution, Substitution,
               MicroStandard!SubstitutionTable, SubstitutionTable,
               MicroStandard!Affine, Affine, MicroStandard!Reciprocal, Reciprocal,
               MicroStandard!Times, Times, MicroStandard!Double, Double,
               MicroStandard!XorOf, XorOf, MicroStandard!(+), (+), MicroStandard!Xor, Xor,
               MicroStandard!Bit, Bit, MicroStandard!Byte, Byte, MicroStandard!Places, Places
<1>3. \A b : MicroStandard(i)!ShiftRows(b) = ShiftRows(b)
  BY Zenon DEF MicroStandard!ShiftRows, ShiftRows, MicroStandard!ByRowAndColumn, ByRowAndColumn,
               MicroStandard!At, At, MicroStandard!Places, Places
<1>4. \A b : MicroStandard(i)!MixColumns(b) = MixColumns(b)
  BY Zenon DEF MicroStandard!MixColumns, MixColumns,
               MicroStandard!ByRowAndColumn, ByRowAndColumn,
               MicroStandard!At, At, MicroStandard!Times, Times, MicroStandard!Double, Double,
               MicroStandard!XorOf, XorOf, MicroStandard!(+), (+), MicroStandard!Xor, Xor,
               MicroStandard!Bit, Bit, MicroStandard!Byte, Byte, MicroStandard!Places, Places
<1>5. \A k, n : MicroStandard(i)!NextRoundKey(k, n) = NextRoundKey(k, n)
  BY Zenon DEF MicroStandard!NextRoundKey, NextRoundKey,
               MicroStandard!ByRowAndColumn, ByRowAndColumn, MicroStandard!Column, Column,
               MicroStandard!At, At, MicroStandard!XorAll, XorAll,
               MicroStandard!PowerOfX, PowerOfX,
               MicroStandard!Substitution, Substitution,
               MicroStandard!SubstitutionTable, SubstitutionTable,
               MicroStandard!Affine, Affine, MicroStandard!Reciprocal, Reciprocal,
               MicroStandard!Times, Times, MicroStandard!Double, Double,
               MicroStandard!XorOf, XorOf, MicroStandard!(+), (+), MicroStandard!Xor, Xor,
               MicroStandard!Bit, Bit, MicroStandard!Byte, Byte, MicroStandard!Places, Places
<1> QED BY <1>1, <1>2, <1>3, <1>4, <1>5

\* The array C of MixColumns, and what it makes of a column.
LEMMA MaskSums ==
  ASSUME NEW s \in Byte, NEW x \in Byte, NEW y \in Byte, NEW z \in Byte
  PROVE  (s (+) (x (+) y)) (+) (x (+) z) = s (+) (y (+) z)
<1>1. x (+) y \in Byte /\ x (+) z \in Byte /\ y (+) z \in Byte /\ x (+) x = 0
  BY XorBits, XorSelf
<1>2. (s (+) (x (+) y)) (+) (x (+) z) = s (+) ((x (+) y) (+) (x (+) z))
  BY <1>1, XorAssociates
<1>3. (x (+) y) (+) (x (+) z) = (x (+) x) (+) (y (+) z)
  BY XorSwap
<1> QED BY <1>1, <1>2, <1>3, XorZero

\* A byte and what the array C has for it make the mixed byte.
LEMMA MaskedByte ==
  ASSUME NEW a \in Byte, NEW b \in Byte, NEW c \in Byte, NEW d \in Byte
  PROVE  a (+) (((a (+) b) (+) (c (+) d)) (+) (Double[a] (+) Double[b])) = Mixed(a, b, c, d)
<1> DEFINE a2 == Double[a]
           b2 == Double[b]
           rest == c (+) d
<1>1. a2 \in Byte /\ b2 \in Byte /\ rest \in Byte
  BY DoubleType, XorBits
<1>2. Mixed(a, b, c, d) = (a2 (+) (b2 (+) b)) (+) rest
  BY DEF Mixed
<1> HIDE DEF a2, b2, rest
<1>3. /\ a (+) b \in Byte /\ a2 (+) b2 \in Byte /\ b (+) rest \in Byte /\ a (+) a = 0
      /\ (a (+) b) (+) rest \in Byte /\ b2 (+) b \in Byte
  BY <1>1, XorBits, XorSelf
<1>4. a (+) (((a (+) b) (+) rest) (+) (a2 (+) b2)) = (a (+) ((a (+) b) (+) rest)) (+) (a2 (+) b2)
  BY <1>1, <1>3, XorAssociates
<1>5. a (+) ((a (+) b) (+) rest) = b (+) rest
  <2>1. (a (+) b) (+) rest = a (+) (b (+) rest)
    BY <1>1, XorAssociates
  <2>2. a (+) (a (+) (b (+) rest)) = (a (+) a) (+) (b (+) rest)
    BY <1>1, <1>3, XorAssociates
  <2> QED BY <1>3, <2>1, <2>2, XorZero
<1>6. (a2 (+) (b2 (+) b)) (+) rest = (a2 (+) b2) (+) (b (+) rest)
  <2>1. a2 (+) (b2 (+) b) = (a2 (+) b2) (+) b
    BY <1>1, XorAssociates
  <2> QED BY <1>1, <1>3, <2>1, XorAssociates
<1>7. (b (+) rest) (+) (a2 (+) b2) = (a2 (+) b2) (+) (b (+) rest)
  BY <1>1, <1>3, XorCommutes
<1> QED BY <1>2, <1>4, <1>5, <1>6, <1>7 DEF a2, b2, rest

\* The entries of C for a column, each from the one before it.
LEMMA MasksOfColumn ==
  ASSUME NEW c \in [0..3 -> Byte]
  PROVE  LET s == (c[0] (+) c[1]) (+) (c[2] (+) c[3])
             mask == Micro!ColumnMask(c)
         IN  /\ mask[0] = s (+) (Double[c[0]] (+) Double[c[1]])
             /\ mask[1] = s (+) (Double[c[1]] (+) Double[c[2]])
             /\ mask[2] = s (+) (Double[c[2]] (+) Double[c[3]])
             /\ mask[3] = s (+) (Double[c[3]] (+) Double[c[0]])
<1> DEFINE s == (c[0] (+) c[1]) (+) (c[2] (+) c[3])
           first == XorOf(c, 4) (+) xtime(c[0] (+) c[1])
           even == xtime(c[0] (+) c[2])
           odd == xtime(c[1] (+) c[3])
           Masks(m) == m = [n \in 0..3 |->
             IF n = 0 THEN first ELSE m[n - 1] (+) (IF n = 2 THEN odd ELSE even)]
           mask == CHOOSE m : Masks(m)
<1>1. c[0] \in Byte /\ c[1] \in Byte /\ c[2] \in Byte /\ c[3] \in Byte
  BY RowCases
<1>2. /\ Double[c[0]] \in Byte /\ Double[c[1]] \in Byte /\ Double[c[2]] \in Byte
      /\ Double[c[3]] \in Byte /\ s \in Byte
  BY <1>1, DoubleType, XorBits
<1>3. /\ c[0] (+) c[1] \in Byte /\ c[0] (+) c[2] \in Byte /\ c[1] (+) c[3] \in Byte
  BY <1>1, XorBits
<1>4. /\ xtime(c[0] (+) c[1]) = Double[c[0]] (+) Double[c[1]]
      /\ even = Double[c[0]] (+) Double[c[2]]
      /\ odd = Double[c[1]] (+) Double[c[3]]
  BY <1>1, <1>3, Scalings, DoubleXor
<1>5. first = s (+) (Double[c[0]] (+) Double[c[1]])
  BY <1>1, <1>4, XorOfFour, XorRotates
<1>6. Micro!ColumnMask(c) = mask
  BY MicroMasks, Zenon
<1> HIDE DEF s, first, even, odd
<1>7. \E m : Masks(m)
  <2> DEFINE m0 == first
             m1 == m0 (+) even
             m2 == m1 (+) odd
             m3 == m2 (+) even
             m == [n \in 0..3 |-> << m0, m1, m2, m3 >>[n + 1]]
  <2>1. m0 = first /\ m1 = m0 (+) even /\ m2 = m1 (+) odd /\ m3 = m2 (+) even
    OBVIOUS
  <2> HIDE DEF m0, m1, m2, m3
  <2>2. m[0] = m0 /\ m[1] = m1 /\ m[2] = m2 /\ m[3] = m3 /\ m = [n \in 0..3 |-> m[n]]
    BY SMT
  <2> HIDE DEF m
  <2>3. ASSUME NEW n \in 0..3
        PROVE  m[n] = IF n = 0 THEN first ELSE m[n - 1] (+) (IF n = 2 THEN odd ELSE even)
    <3>1. 1 - 1 = 0 /\ 2 - 1 = 1 /\ 3 - 1 = 2
      BY SMT
    <3>2. CASE n = 0
      BY <2>1, <2>2, <3>2, Zenon
    <3>3. CASE n = 1
      BY <2>1, <2>2, <3>1, <3>3, RowCases, Zenon
    <3>4. CASE n = 2
      BY <2>1, <2>2, <3>1, <3>4, RowCases, Zenon
    <3>5. CASE n = 3
      BY <2>1, <2>2, <3>1, <3>5, RowCases, Zenon
    <3> QED BY <3>2, <3>3, <3>4, <3>5, RowCases, Zenon
  <2>4. Masks(m)
    <3>1. [n \in 0..3 |-> m[n]] = [n \in 0..3 |-> IF n = 0 THEN first
                                   ELSE m[n - 1] (+) (IF n = 2 THEN odd ELSE even)]
      BY <2>3, Zenon
    <3> QED BY <2>2, <3>1
  <2> HIDE DEF Masks
  <2> QED BY <2>4, Zenon
<1>8. Masks(mask)
  <2> HIDE DEF Masks
  <2> QED BY <1>7, Zenon
<1> HIDE DEF mask
<1>9. /\ mask[0] = first /\ mask[1] = mask[0] (+) even
      /\ mask[2] = mask[1] (+) odd /\ mask[3] = mask[2] (+) even
  <2>1. 1 - 1 = 0 /\ 2 - 1 = 1 /\ 3 - 1 = 2 /\ 1 # 2 /\ 3 # 2
    BY SMT
  <2>2. \A n \in 0..3 : mask[n] = IF n = 0 THEN first
                                  ELSE mask[n - 1] (+) (IF n = 2 THEN odd ELSE even)
    BY <1>8, Zenon
  <2> HIDE DEF Masks
  <2> QED BY <2>1, <2>2, RowCases, Zenon
<1>10. mask[1] = s (+) (Double[c[1]] (+) Double[c[2]])
  BY <1>2, <1>4, <1>5, <1>9, MaskSums, SMTT(30)
<1>11. mask[2] = s (+) (Double[c[2]] (+) Double[c[3]])
  BY <1>2, <1>4, <1>9, <1>10, MaskSums, SMTT(30)
<1>12. mask[3] = s (+) (Double[c[3]] (+) Double[c[0]])
  <2>1. even = Double[c[2]] (+) Double[c[0]]
    BY <1>2, <1>4, XorCommutes
  <2> QED BY <1>2, <1>9, <1>11, <2>1, MaskSums
<1> QED BY <1>5, <1>6, <1>9, <1>10, <1>11, <1>12 DEF s

\* The transformations of micro_aes.c are those of FIPS-197.
LEMMA MicroRound ==
  ASSUME NEW b \in Block
  PROVE  /\ Micro!ShiftRows(Micro!SubBytes(b)) = ShiftRows(SubBytes(b))
         /\ Micro!MixColumns(b) = MixColumns(b)
<1>1. Micro!ShiftRows(Micro!SubBytes(b)) = ShiftRows(SubBytes(b))
  <2>1. \A p \in Places : 4 * (((p \div 4) + (p % 4)) % 4) + (p % 4) = From(p)
    BY SMT DEF From, Places
  <2>2. \A p \in Places : From(p) \in Places /\ b[From(p)] \in Byte
    BY FromType DEF Block
  <2>3. \A p \in Places : micro_sbox[b[From(p)] + 1] = Substitution[b[From(p)]]
    BY <2>2, Substitutions
  <2> DEFINE substituted == [q \in Places |-> micro_sbox[b[q] + 1]]
  <2>4. \A p \in Places : substituted[From(p)] = Substitution[b[From(p)]]
    BY <2>2, <2>3, Zenon
  <2>5. Micro!ShiftRows(Micro!SubBytes(b))
          = [p \in Places |-> substituted[4 * (((p \div 4) + (p % 4)) % 4) + (p % 4)]]
    BY MicroTurns, Zenon
  <2> HIDE DEF substituted
  <2>6. \A p \in Places : substituted[4 * (((p \div 4) + (p % 4)) % 4) + (p % 4)]
                          = Substitution[b[From(p)]]
    <3> TAKE p \in Places
    <3>1. 4 * (((p \div 4) + (p % 4)) % 4) + (p % 4) = From(p)
      BY <2>1
    <3> QED BY <2>4, <3>1, Zenon
  <2>7. ShiftRows(SubBytes(b)) = [p \in Places |-> Substitution[b[From(p)]]]
    BY ShiftedBytes
  <2> QED BY <2>5, <2>6, <2>7
<1>2. Micro!MixColumns(b) = MixColumns(b)
  <2> DEFINE column(c) == [n \in 0..3 |-> b[4 * c + n]]
             masks == [c \in 0..3 |-> Micro!ColumnMask(column(c))]
  <2>1. Micro!MixColumns(b) = [p \in Places |-> b[p] (+) masks[p \div 4][p % 4]]
    BY MicroMixes, Zenon
  <2>2. ASSUME NEW r \in 0..3, NEW c \in 0..3
        PROVE  b[r + 4 * c] (+) Micro!ColumnMask(column(c))[r] = MixedAt(b, r, c)
    <3> DEFINE y(j) == b[j + 4 * c]
               x == column(c)
    <3>1. y(0) \in Byte /\ y(1) \in Byte /\ y(2) \in Byte /\ y(3) \in Byte
      BY BytesOfColumn, RowCases
    <3>2. x[0] = y(0) /\ x[1] = y(1) /\ x[2] = y(2) /\ x[3] = y(3)
      BY RowsAndColumns, RowCases, ZenonT(60)
    <3>3. x \in [0..3 -> Byte]
      BY RowsAndColumns, BytesOfColumn
    <3>4. /\ MixedAt(b, 0, c) = Mixed(y(0), y(1), y(2), y(3))
          /\ MixedAt(b, 1, c) = Mixed(y(1), y(2), y(3), y(0))
          /\ MixedAt(b, 2, c) = Mixed(y(2), y(3), y(0), y(1))
          /\ MixedAt(b, 3, c) = Mixed(y(3), y(0), y(1), y(2))
      BY RowCases, Zenon DEF MixedAt
    <3> DEFINE mask == Micro!ColumnMask(x)
               s == (y(0) (+) y(1)) (+) (y(2) (+) y(3))
    <3>5. \A j \in 0..3 : b[j + 4 * c] = y(j)
      OBVIOUS
    <3> HIDE DEF x, y, mask
    <3>6. /\ mask[0] = s (+) (Double[y(0)] (+) Double[y(1)])
          /\ mask[1] = s (+) (Double[y(1)] (+) Double[y(2)])
          /\ mask[2] = s (+) (Double[y(2)] (+) Double[y(3)])
          /\ mask[3] = s (+) (Double[y(3)] (+) Double[y(0)])
      BY <3>2, <3>3, MasksOfColumn, Zenon DEF mask
    <3>7. /\ s = (y(1) (+) y(2)) (+) (y(3) (+) y(0))
          /\ s = (y(2) (+) y(3)) (+) (y(0) (+) y(1))
          /\ s = (y(3) (+) y(0)) (+) (y(1) (+) y(2))
      <4>1. s = (y(1) (+) y(2)) (+) (y(3) (+) y(0))
        BY <3>1, XorRotates
      <4>2. (y(1) (+) y(2)) (+) (y(3) (+) y(0)) = (y(2) (+) y(3)) (+) (y(0) (+) y(1))
        BY <3>1, XorRotates
      <4>3. (y(2) (+) y(3)) (+) (y(0) (+) y(1)) = (y(3) (+) y(0)) (+) (y(1) (+) y(2))
        BY <3>1, XorRotates
      <4> QED BY <4>1, <4>2, <4>3
    <3>8. y(0) (+) mask[0] = MixedAt(b, 0, c)
      BY <3>1, <3>4, <3>6, MaskedByte
    <3> HIDE DEF s
    <3>9. y(1) (+) mask[1] = MixedAt(b, 1, c)
      BY <3>1, <3>4, <3>6, <3>7, MaskedByte
    <3>10. y(2) (+) mask[2] = MixedAt(b, 2, c)
      BY <3>1, <3>4, <3>6, <3>7, MaskedByte
    <3>11. y(3) (+) mask[3] = MixedAt(b, 3, c)
      BY <3>1, <3>4, <3>6, <3>7, MaskedByte
    <3> QED BY <3>5, <3>8, <3>9, <3>10, <3>11, RowCases, Zenon DEF mask, x
  <2>3. \A p \in Places : b[p] (+) masks[p \div 4][p % 4] = MixedAt(b, p % 4, p \div 4)
    <3> TAKE p \in Places
    <3>1. p % 4 \in 0..3 /\ p \div 4 \in 0..3 /\ p = (p % 4) + 4 * (p \div 4)
      BY RowsAndColumns
    <3>2. masks[p \div 4] = Micro!ColumnMask(column(p \div 4))
      BY <3>1, Zenon
    <3> HIDE DEF masks, column
    <3> QED BY <2>2, <3>1, <3>2
  <2> HIDE DEF masks
  <2> QED BY <2>1, <2>3, MixColumnsBytes, Zenon
<1> QED BY <1>1, <1>2

\* The n-th key in the array of the expansion, and what column c of it should be.
KeyOf(k, n) == [p \in Places |-> k[16 * n + p]]
ColumnFollows(k, n, c) ==
  \A r \in 0..3 :
    k[16 * n + (r + 4 * c)]
      = k[16 * (n - 1) + (r + 4 * c)]
          (+) (IF c = 0 THEN KeyAddend(KeyOf(k, n - 1), n, r) ELSE k[16 * n + (r + 4 * (c - 1))])

\* The array holds eleven blocks.
LEMMA KeysInArray ==
  ASSUME NEW k \in [0..175 -> Byte], NEW n \in 0..10
  PROVE  KeyOf(k, n) \in Block
<1>1. \A p \in Places : 16 * n + p \in 0..175
  BY SMT DEF Places
<1> QED BY <1>1 DEF KeyOf, Block

\* A key all of whose columns follow is the next round key.
LEMMA KeyFollows ==
  ASSUME NEW k \in [0..175 -> Byte], NEW n \in 1..10, \A c \in 0..3 : ColumnFollows(k, n, c)
  PROVE  KeyOf(k, n) = NextRoundKey(KeyOf(k, n - 1), n)
<1> DEFINE next == KeyOf(k, n)
           key == KeyOf(k, n - 1)
<1>1. key \in Block
  <2>1. n - 1 \in 0..10
    BY SMT
  <2> QED BY <2>1, KeysInArray
<1>2. /\ \A p \in Places : next[p] = k[16 * n + p] /\ key[p] = k[16 * (n - 1) + p]
      /\ next = [p \in Places |-> next[p]]
  BY Zenon DEF KeyOf
<1>3. \A r \in 0..3 : next[r] = key[r] (+) KeyAddend(key, n, r)
  <2> TAKE r \in 0..3
  <2>1. r + 4 * 0 = r /\ r \in Places /\ 0 \in 0..3
    BY SMT DEF Places
  <2>2. k[16 * n + (r + 4 * 0)] = k[16 * (n - 1) + (r + 4 * 0)] (+) KeyAddend(key, n, r)
    BY <2>1, Zenon DEF ColumnFollows
  <2> HIDE DEF next, key
  <2> QED BY <1>2, <2>1, <2>2, Zenon
<1>4. \A r \in 0..3, c \in 1..3 : next[r + 4 * c] = key[r + 4 * c] (+) next[r + 4 * (c - 1)]
  <2> TAKE r \in 0..3, c \in 1..3
  <2>1. c \in 0..3 /\ c # 0 /\ c - 1 \in 0..3
    BY SMT
  <2>2. r + 4 * c \in Places /\ r + 4 * (c - 1) \in Places
    BY <2>1, RowsAndColumns
  <2>3. k[16 * n + (r + 4 * c)]
          = k[16 * (n - 1) + (r + 4 * c)] (+) k[16 * n + (r + 4 * (c - 1))]
    BY <2>1, Zenon DEF ColumnFollows
  <2> HIDE DEF next, key
  <2> QED BY <1>2, <2>2, <2>3, Zenon
<1> HIDE DEF next, key
<1>5. FollowsFrom(next, key, n)
  BY <1>3, <1>4 DEF FollowsFrom
<1>6. next = NextRoundKey(key, n)
  BY <1>1, <1>2, <1>5, OneRoundKeyFollows
<1> QED BY <1>6 DEF next, key

\* What stands before a word does not change any more.
LEMMA EarlierColumns ==
  ASSUME NEW k \in [0..175 -> Byte], NEW k2 \in [0..175 -> Byte], NEW i \in 16..176,
         \A p \in 0..(i - 1) : k2[p] = k[p],
         NEW m \in 1..10, NEW d \in 0..3, 16 * m + 4 * d + 4 <= i, ColumnFollows(k, m, d)
  PROVE  ColumnFollows(k2, m, d)
<1> SUFFICES ASSUME NEW r \in 0..3
             PROVE  k2[16 * m + (r + 4 * d)]
                      = k2[16 * (m - 1) + (r + 4 * d)]
                          (+) (IF d = 0 THEN KeyAddend(KeyOf(k2, m - 1), m, r)
                                        ELSE k2[16 * m + (r + 4 * (d - 1))])
  BY DEF ColumnFollows
<1>1. /\ 16 * m + (r + 4 * d) \in 0..(i - 1)
      /\ 16 * (m - 1) + (r + 4 * d) \in 0..(i - 1)
      /\ d # 0 => 16 * m + (r + 4 * (d - 1)) \in 0..(i - 1)
      /\ \A p \in Places : 16 * (m - 1) + p \in 0..(i - 1)
  BY SMT DEF Places
<1>2. KeyOf(k2, m - 1) = KeyOf(k, m - 1)
  BY <1>1, Zenon DEF KeyOf
<1>3. k[16 * m + (r + 4 * d)]
        = k[16 * (m - 1) + (r + 4 * d)]
            (+) (IF d = 0 THEN KeyAddend(KeyOf(k, m - 1), m, r)
                          ELSE k[16 * m + (r + 4 * (d - 1))])
  BY Zenon DEF ColumnFollows
<1>4. /\ k2[16 * m + (r + 4 * d)] = k[16 * m + (r + 4 * d)]
      /\ k2[16 * (m - 1) + (r + 4 * d)] = k[16 * (m - 1) + (r + 4 * d)]
      /\ d # 0 => k2[16 * m + (r + 4 * (d - 1))] = k[16 * m + (r + 4 * (d - 1))]
  BY <1>1, Zenon
<1>5. CASE d = 0
  BY <1>2, <1>3, <1>4, <1>5, Zenon
<1>6. CASE d # 0
  BY <1>3, <1>4, <1>6, Zenon
<1> QED BY <1>5, <1>6, Zenon

\* Where column c of the n-th key stands in the array.
LEMMA PlacesOfWord ==
  ASSUME NEW n \in 1..10, NEW c \in 0..3, NEW i, i = 16 * n + 4 * c
  PROVE  i \in 16..172 /\ (i % 16 = 0 <=> c = 0) /\ 16 * n + 15 \in 0..175
BY SMT

\* Byte r of word i is at place p, and what it is made of stands before the word.
PlaceInWord(i, p, n, c, r) ==
  /\ p \in 0..175 /\ p \in i..(i + 3) /\ p \in i..(16 * n + 15) /\ p - i = r
  /\ p - 16 = 16 * (n - 1) + (r + 4 * c)
  /\ 16 * (n - 1) + (r + 4 * c) \in 0..(i - 1)
  /\ c # 0 => 16 * n + (r + 4 * (c - 1)) \in 0..(i - 1)

\* Every byte of a word has its place.
LEMMA PlacesInWord ==
  ASSUME NEW n \in 1..10, NEW c \in 0..3, NEW r \in 0..3
  PROVE  PlaceInWord(16 * n + 4 * c, 16 * n + (r + 4 * c), n, c, r)
BY SMT DEF PlaceInWord

\* An iteration of the expansion: at a new key the sixteen bytes before are copied ahead,
\* and one word of the copy is added to.
Ahead(k, i) ==
  [p \in 0..175 |-> IF i % 16 = 0 /\ p \in i..(i + 15) THEN k[p - 16] ELSE k[p]]
WithWord(k, i, addend) ==
  [p \in 0..175 |-> IF p \in i..(i + 3) THEN Ahead(k, i)[p] (+) addend[p - i] ELSE Ahead(k, i)[p]]
CopiedFrom(k, i, n, c) == c # 0 => \A p \in i..(16 * n + 15) : k[p] = k[p - 16]
AddendsOfWord(addend, k, n, c) ==
  \A r \in 0..3 : addend[r] = IF c = 0 THEN KeyAddend(KeyOf(k, n - 1), n, r)
                                       ELSE k[16 * n + (r + 4 * (c - 1))]
WordDone(k2, k, i, n, c) ==
  /\ k2 \in [0..175 -> Byte]
  /\ \A p \in 0..(i - 1) : k2[p] = k[p]
  /\ ColumnFollows(k2, n, c)
  /\ c # 3 => \A p \in (i + 4)..(16 * n + 15) : k2[p] = k2[p - 16]

\* An iteration makes column c of the n-th key and leaves what stands before it.
LEMMA OneWord ==
  ASSUME NEW k \in [0..175 -> Byte], NEW n \in 1..10, NEW c \in 0..3,
         NEW i, i = 16 * n + 4 * c, CopiedFrom(k, i, n, c),
         NEW addend, AddendsOfWord(addend, k, n, c)
  PROVE  WordDone(WithWord(k, i, addend), k, i, n, c)
<1> DEFINE copied == Ahead(k, i)
           k2 == WithWord(k, i, addend)
<1>a. /\ copied = [p \in 0..175 |-> IF i % 16 = 0 /\ p \in i..(i + 15) THEN k[p - 16] ELSE k[p]]
      /\ k2 = [p \in 0..175 |-> IF p \in i..(i + 3) THEN copied[p] (+) addend[p - i]
                                                      ELSE copied[p]]
  BY Zenon DEF Ahead, WithWord
<1>b. c # 0 => \A p \in i..(16 * n + 15) : k[p] = k[p - 16]
  BY Zenon DEF CopiedFrom
<1>c. \A r \in 0..3 : addend[r] = IF c = 0 THEN KeyAddend(KeyOf(k, n - 1), n, r)
                                           ELSE k[16 * n + (r + 4 * (c - 1))]
  BY Zenon DEF AddendsOfWord
<1> HIDE DEF copied, k2
<1>1. /\ i \in 16..172 /\ (i % 16 = 0 <=> c = 0)
      /\ 16 * n + 15 \in 0..175
  BY PlacesOfWord, SMTT(30)
<1>2. \A p \in 0..175 : copied[p] \in Byte
  <2> TAKE p \in 0..175
  <2>1. p \in i..(i + 15) => p - 16 \in 0..175
    BY <1>1, SMT
  <2> QED BY <1>a, <2>1
<1>3. \A p \in i..(16 * n + 15) : copied[p] = k[p - 16]
  <2> TAKE p \in i..(16 * n + 15)
  <2>1. p \in 0..175 /\ (c = 0 => p \in i..(i + 15))
    BY <1>1, SMT
  <2>2. CASE c = 0
    BY <1>1, <1>a, <2>1, <2>2, Zenon
  <2>3. CASE c # 0
    BY <1>1, <1>a, <1>b, <2>1, <2>3, Zenon
  <2> QED BY <2>2, <2>3
<1>4. \A p \in 0..(i - 1) : copied[p] = k[p]
  <2> TAKE p \in 0..(i - 1)
  <2>1. p \in 0..175 /\ p \notin i..(i + 15)
    BY <1>1, SMT
  <2> QED BY <1>a, <2>1, Zenon
<1>5. \A r \in 0..3 : addend[r] \in Byte
  <2> TAKE r \in 0..3
  <2>1. CASE c = 0
    <3>1. n - 1 \in 0..10
      BY SMT
    <3> QED BY <1>c, <2>1, <3>1, KeysInArray, KeyAddendType
  <2>2. CASE c # 0
    <3>1. 16 * n + (r + 4 * (c - 1)) \in 0..175
      BY <2>2, SMT
    <3> QED BY <1>c, <2>2, <3>1
  <2> QED BY <2>1, <2>2
<1>6. k2 \in [0..175 -> Byte]
  <2>1. \A p \in 0..175 : p \in i..(i + 3) => p - i \in 0..3
    BY <1>1, SMT
  <2>2. \A p \in 0..175 : p \in i..(i + 3) => copied[p] (+) addend[p - i] \in Byte
    BY <1>2, <1>5, <2>1, XorBits
  <2> QED BY <1>2, <1>a, <2>2, Zenon
<1>7. \A p \in 0..(i - 1) : k2[p] = k[p]
  <2> TAKE p \in 0..(i - 1)
  <2>1. p \in 0..175 /\ p \notin i..(i + 3)
    BY <1>1, SMT
  <2> QED BY <1>4, <1>a, <2>1, Zenon
<1>8. ColumnFollows(k2, n, c)
  <2> SUFFICES ASSUME NEW r \in 0..3
               PROVE  k2[16 * n + (r + 4 * c)]
                        = k2[16 * (n - 1) + (r + 4 * c)]
                            (+) (IF c = 0 THEN KeyAddend(KeyOf(k2, n - 1), n, r)
                                          ELSE k2[16 * n + (r + 4 * (c - 1))])
    BY DEF ColumnFollows
  <2>0. PICK p : p = 16 * n + (r + 4 * c)
    OBVIOUS
  <2>1. /\ p \in 0..175 /\ p \in i..(i + 3) /\ p \in i..(16 * n + 15) /\ p - i = r
        /\ p - 16 = 16 * (n - 1) + (r + 4 * c)
        /\ 16 * (n - 1) + (r + 4 * c) \in 0..(i - 1)
        /\ c # 0 => 16 * n + (r + 4 * (c - 1)) \in 0..(i - 1)
    <3>1. PlaceInWord(i, p, n, c, r)
      BY <2>0, PlacesInWord, Zenon
    <3> QED BY <3>1, Zenon DEF PlaceInWord
  <2>2. \A q \in Places : 16 * (n - 1) + q \in 0..(i - 1)
    BY <1>1, SMT DEF Places
  <2>3. KeyOf(k2, n - 1) = KeyOf(k, n - 1)
    BY <1>7, <2>2, Zenon DEF KeyOf
  <2>4. k2[p] = k[p - 16] (+) addend[r]
    <3>1. k2[p] = copied[p] (+) addend[p - i]
      BY <1>a, <2>1, Zenon
    <3>2. copied[p] = k[p - 16]
      BY <1>3, <2>1, Zenon
    <3> QED BY <2>1, <3>1, <3>2, Zenon
  <2>5. k2[16 * (n - 1) + (r + 4 * c)] = k[p - 16]
    BY <1>7, <2>1, Zenon
  <2>6. CASE c = 0
    <3>1. k2[p] = k[p - 16] (+) KeyAddend(KeyOf(k, n - 1), n, r)
      BY <1>c, <2>4, <2>6, Zenon
    <3> QED BY <2>0, <2>3, <2>5, <2>6, <3>1, Zenon
  <2>7. CASE c # 0
    <3>1. k2[p] = k[p - 16] (+) k[16 * n + (r + 4 * (c - 1))]
      BY <1>c, <2>4, <2>7, Zenon
    <3>2. k2[16 * n + (r + 4 * (c - 1))] = k[16 * n + (r + 4 * (c - 1))]
      BY <1>7, <2>1, <2>7, Zenon
    <3> QED BY <2>0, <2>5, <2>7, <3>1, <3>2, Zenon
  <2> QED BY <2>6, <2>7
<1>9. c # 3 => \A p \in (i + 4)..(16 * n + 15) : k2[p] = k2[p - 16]
  <2> SUFFICES ASSUME c # 3, NEW p \in (i + 4)..(16 * n + 15)
               PROVE  k2[p] = k2[p - 16]
    OBVIOUS
  <2>1. /\ p \in 0..175 /\ p \notin i..(i + 3) /\ p \in i..(16 * n + 15)
        /\ p - 16 \in 0..(i - 1)
    BY <1>1, SMT
  <2>2. k2[p] = copied[p]
    BY <1>a, <2>1, Zenon
  <2> QED BY <1>3, <1>7, <2>1, <2>2, Zenon
<1> QED BY <1>6, <1>7, <1>8, <1>9, Zenon DEF WordDone, k2

\* The round constant: rcon, or 27 where it has left its byte.
Constant(n) == (IF n = 0 THEN 27 ELSE n)

\* The round constant is doubled in a byte and replaced by 27 where it has left it: with the
\* ten that are needed this makes the powers of x.
LEMMA ConstantDoubles ==
  ASSUME NEW n \in 1..9
  PROVE  Constant((2 * PowerOfX(n - 1)) % 256) = PowerOfX(n)
<1>1. n = 1 \/ n = 2 \/ n = 3 \/ n = 4 \/ n = 5 \/ n = 6 \/ n = 7 \/ n = 8 \/ n = 9
  BY SMT
<1>2. /\ 1 - 1 = 0 /\ 2 - 1 = 1 /\ 3 - 1 = 2 /\ 4 - 1 = 3 /\ 5 - 1 = 4 /\ 6 - 1 = 5
      /\ 7 - 1 = 6 /\ 8 - 1 = 7 /\ 9 - 1 = 8
  BY SMT
<1> DEFINE Right(m) == Constant((2 * PowerOfX(m - 1)) % 256) = PowerOfX(m)
<1>3. /\ (2 * 1) % 256 = 2   /\ (2 * 2) % 256 = 4   /\ (2 * 4) % 256 = 8   /\ (2 * 8) % 256 = 16
      /\ (2 * 16) % 256 = 32 /\ (2 * 32) % 256 = 64 /\ (2 * 64) % 256 = 128
      /\ (2 * 128) % 256 = 0 /\ (2 * 27) % 256 = 54
  BY SMT
<1>4. /\ Constant(2) = 2   /\ Constant(4) = 4   /\ Constant(8) = 8     /\ Constant(16) = 16
      /\ Constant(32) = 32 /\ Constant(64) = 64 /\ Constant(128) = 128 /\ Constant(0) = 27
      /\ Constant(54) = 54
  BY SMT DEF Constant
<1>5. Right(1) /\ Right(2) /\ Right(3) /\ Right(4) /\ Right(5) /\ Right(6) /\ Right(7) /\ Right(8)
      /\ Right(9)
  BY <1>2, <1>3, <1>4, RoundConstants
<1> HIDE DEF Right
<1>6. Right(n)
  BY <1>1, <1>5, Zenon
<1> QED BY <1>6 DEF Right

\* The expansion has come to column c of the n-th key: the columns before follow from one
\* another, the rest of that key is a copy of the one before, and the round constant is the
\* one of the next first column.
ExpandedTo(n, c) ==
  /\ micro_i = 16 * n + 4 * c
  /\ \A m \in 1..10, d \in 0..3 : 16 * m + 4 * d + 4 <= micro_i => ColumnFollows(RoundKey, m, d)
  /\ c # 0 => \A p \in micro_i..(16 * n + 15) : RoundKey[p] = RoundKey[p - 16]
  /\ c = 0 => Constant(rcon) = PowerOfX(n - 1)
  /\ c # 0 /\ n < 10 => Constant(rcon) = PowerOfX(n)

\* The expansion is complete.
FullyExpanded == \A m \in 1..10, d \in 0..3 : ColumnFollows(RoundKey, m, d)

\* The inductive invariant of the library: how far the expansion has come, and that the loop
\* over the blocks runs on the complete array.
MicroInv ==
  /\ crtxt \in [1..Blocks -> Block]
  /\ RoundKey \in [0..175 -> Byte]
  /\ micro_y \in 1..(Blocks + 1)
  /\ micro_r \in 0..9
  /\ \/ /\ micro_at = "expansion" /\ micro_y = 1 /\ micro_r = 0
        /\ \E n \in 1..10, c \in 0..3 : ExpandedTo(n, c)
     \/ micro_at = "block" /\ micro_r = 0 /\ FullyExpanded
     \/ micro_at = "rounds" /\ micro_y \in 1..Blocks /\ FullyExpanded

\* The library begins with the key in front of the array, and every block before its rounds.
LEMMA MicroInitial == CiphersInit => MicroInv /\ \A b \in 1..Blocks : MicroStandard(b)!Init
<1> SUFFICES ASSUME CiphersInit
             PROVE  MicroInv /\ \A b \in 1..Blocks : MicroStandard(b)!Init
  OBVIOUS
<1>1. /\ crtxt \in [1..Blocks -> Texts] /\ rcon = 1 /\ micro_i = 16
      /\ micro_y = 1 /\ micro_r = 0 /\ micro_at = "expansion"
  BY DEF CiphersInit, Micro!Init
<1>2. PICK key \in CipherKeys : RoundKey = [p \in 0..175 |-> IF p < 16 THEN key[p] ELSE 0]
  BY DEF CiphersInit, Micro!Init, Micro!KeyBytes
<1>3. key \in Block /\ Texts \subseteq Block /\ Blocks \in Nat \ {0}
  BY CiphersAssumption
<1>4. RoundKey \in [0..175 -> Byte]
  <2>1. \A p \in 0..175 : p < 16 => p \in Places
    BY SMT DEF Places
  <2>2. 0 \in Byte
    BY SMT DEF Byte
  <2> QED BY <1>2, <1>3, <2>1, <2>2 DEF Block
<1>5. ExpandedTo(1, 0)
  <2>1. \A m \in 1..10, d \in 0..3 : ~(16 * m + 4 * d + 4 <= 16)
    BY SMT
  <2>2. 16 = 16 * 1 + 4 * 0 /\ 1 # 0 /\ 1 - 1 = 0
    BY SMT
  <2> QED BY <1>1, <2>1, <2>2, RoundConstants, Zenon DEF ExpandedTo, Constant
<1>6. MicroInv
  <2>1. micro_y \in 1..(Blocks + 1) /\ micro_r \in 0..9 /\ 1 \in 1..10 /\ 0 \in 0..3
    BY <1>1, <1>3, SMT
  <2>2. crtxt \in [1..Blocks -> Block]
    BY <1>1, <1>3
  <2> QED BY <1>1, <1>4, <1>5, <2>1, <2>2, Zenon DEF MicroInv
<1>7. ASSUME NEW b \in 1..Blocks
      PROVE  MicroStandard(b)!Init
  <2>1. ~(b < 1) /\ 0 # 11 /\ "expansion" # "rounds"
    BY SMT
  <2>2. Micro!RoundsDone(b) = 0
    BY <1>1, <2>1, Zenon DEF Micro!RoundsDone
  <2>3. Micro!RoundKeyInUse(b) = [p \in Places |-> RoundKey[16 * 0 + p]]
    BY <2>1, <2>2, Zenon DEF Micro!RoundKeyInUse, Micro!Places, Places
  <2>4. \A p \in Places : RoundKey[16 * 0 + p] = key[p]
    <3> TAKE p \in Places
    <3>1. 16 * 0 + p = p /\ p \in 0..175 /\ p < 16
      BY SMT DEF Places
    <3> QED BY <1>2, <3>1, Zenon
  <2>5. Micro!RoundKeyInUse(b) = key
    BY <1>3, <2>3, <2>4 DEF Block
  <2>6. crtxt[b] \in Texts
    BY <1>1
  <2> QED BY <2>2, <2>5, <2>6, Zenon DEF MicroStandard!Init
<1> QED BY <1>6, <1>7

\* A word of the expansion.
LEMMA MicroWord ==
  ASSUME MicroInv, Micro!ExpandWord
  PROVE  MicroInv' /\ \A p \in Places : RoundKey'[p] = RoundKey[p]
<1>1. /\ micro_at = "expansion" /\ RoundKey \in [0..175 -> Byte]
      /\ micro_y = 1 /\ micro_r = 0 /\ "expansion" # "block" /\ "expansion" # "rounds"
  BY Zenon DEF MicroInv, Micro!ExpandWord
<1>2. PICK n \in 1..10, c \in 0..3 : ExpandedTo(n, c)
  BY <1>1, Zenon DEF MicroInv
<1> DEFINE k == RoundKey
           i == micro_i
           copied == Ahead(k, i)
           addend(j) == IF i % 16 = 0 THEN micro_sbox[k[i - 4 + ((j + 1) % 4)] + 1]
                                             (+) (IF j = 0 THEN Constant(rcon) ELSE 0)
                                      ELSE k[i - 4 + j]
           addends == [j \in 0..3 |-> addend(j)]
           k2 == WithWord(k, i, addends)
<1>3. /\ i = 16 * n + 4 * c /\ i \in 16..172 /\ (i % 16 = 0 <=> c = 0) /\ 16 * n + 15 \in 0..175
  BY <1>2, PlacesOfWord DEF ExpandedTo
<1>4. /\ k' = [p \in 0..175 |-> IF p \in i..(i + 3) THEN copied[p] (+) addend(p - i) ELSE copied[p]]
      /\ rcon' = IF i % 16 = 0 THEN (2 * Constant(rcon)) % 256 ELSE rcon
  BY MicroExpands, Zenon DEF Constant, Ahead
<1>5. k' = k2
  <2>1. \A p \in i..(i + 3) : p - i \in 0..3
    BY <1>3, SMT
  <2>2. \A p \in i..(i + 3) : addends[p - i] = addend(p - i)
    BY <2>1, Zenon
  <2> HIDE DEF addend, addends
  <2> QED BY <1>4, <2>2, Zenon DEF WithWord
<1>6. AddendsOfWord(addends, k, n, c)
  <2> SUFFICES ASSUME NEW r \in 0..3
               PROVE  addends[r] = IF c = 0 THEN KeyAddend(KeyOf(k, n - 1), n, r)
                                            ELSE k[16 * n + (r + 4 * (c - 1))]
    BY Zenon DEF AddendsOfWord
  <2>1. addends[r] = addend(r)
    BY Zenon
  <2>2. CASE c = 0
    <3> DEFINE q == ((r + 1) % 4) + 4 * 3
    <3>1. q \in Places /\ 16 * (n - 1) + q = i - 4 + ((r + 1) % 4) /\ i - 4 + ((r + 1) % 4) \in 0..175
      BY <1>3, <2>2, SMT DEF Places
    <3>2. KeyOf(k, n - 1)[q] = k[i - 4 + ((r + 1) % 4)] /\ k[i - 4 + ((r + 1) % 4)] \in Byte
      BY <1>1, <3>1 DEF KeyOf
    <3>3. Constant(rcon) = PowerOfX(n - 1)
      BY <1>2, <2>2, Zenon DEF ExpandedTo
    <3>4. micro_sbox[k[i - 4 + ((r + 1) % 4)] + 1] = Substitution[KeyOf(k, n - 1)[q]]
      BY <3>2, Substitutions
    <3>5. addend(r) = Substitution[KeyOf(k, n - 1)[q]] (+) (IF r = 0 THEN PowerOfX(n - 1) ELSE 0)
      BY <1>3, <2>2, <3>3, <3>4, Zenon
    <3> HIDE DEF addend, addends
    <3> QED BY <2>1, <2>2, <3>5, Zenon DEF KeyAddend
  <2>3. CASE c # 0
    <3>1. i - 4 + r = 16 * n + (r + 4 * (c - 1))
      BY <1>3, SMT
    <3>2. addend(r) = k[i - 4 + r]
      BY <1>3, <2>3, Zenon
    <3> QED BY <2>1, <2>3, <3>1, <3>2, Zenon
  <2> QED BY <2>2, <2>3
<1>7. CopiedFrom(k, i, n, c)
  BY <1>2, Zenon DEF ExpandedTo, CopiedFrom
<1>8. /\ k2 \in [0..175 -> Byte]
      /\ \A p \in 0..(i - 1) : k2[p] = k[p]
      /\ ColumnFollows(k2, n, c)
      /\ c # 3 => \A p \in (i + 4)..(16 * n + 15) : k2[p] = k2[p - 16]
  <2> HIDE DEF addend, addends
  <2>1. WordDone(k2, k, i, n, c)
    BY <1>1, <1>3, <1>6, <1>7, OneWord, Zenon
  <2> QED BY <2>1, Zenon DEF WordDone
<1> HIDE DEF copied, addend, addends, k2
<1>9. \A m \in 1..10, d \in 0..3 : 16 * m + 4 * d + 4 <= i + 4 => ColumnFollows(k', m, d)
  <2> SUFFICES ASSUME NEW m \in 1..10, NEW d \in 0..3, 16 * m + 4 * d + 4 <= i + 4
               PROVE  ColumnFollows(k', m, d)
    OBVIOUS
  <2>1. (m = n /\ d = c) \/ 16 * m + 4 * d + 4 <= i
    BY <1>3, SMT
  <2>2. CASE m = n /\ d = c
    BY <1>5, <1>8, <2>2, Zenon
  <2>3. CASE 16 * m + 4 * d + 4 <= i
    <3>1. ColumnFollows(k, m, d)
      BY <1>2, <2>3 DEF ExpandedTo
    <3>2. i \in 16..176
      BY <1>3, SMT
    <3> QED BY <1>1, <1>5, <1>8, <2>3, <3>1, <3>2, EarlierColumns
  <2> QED BY <2>1, <2>2, <2>3
<1>10. /\ crtxt' = crtxt /\ micro_y' = micro_y /\ micro_r' = micro_r /\ i' = i + 4
       /\ micro_at' = IF i' = 176 THEN "block" ELSE micro_at
  BY Zenon DEF Micro!ExpandWord
<1>11. \A p \in Places : RoundKey'[p] = RoundKey[p]
  <2>1. \A p \in Places : p \in 0..(i - 1)
    BY <1>3, SMT DEF Places
  <2> QED BY <1>5, <1>8, <2>1, Zenon
<1>12. CASE c # 3
  <2>1. /\ c + 1 \in 0..3 /\ c + 1 # 0 /\ i' = 16 * n + 4 * (c + 1) /\ i' # 176
    BY <1>3, <1>10, <1>12, SMT
  <2>2. n < 10 => Constant(rcon') = PowerOfX(n)
    <3>1. CASE c = 0
      <4>1. rcon' = (2 * PowerOfX(n - 1)) % 256
        BY <1>2, <1>3, <1>4, <3>1, Zenon DEF ExpandedTo
      <4>2. n < 10 => n \in 1..9
        BY SMT
      <4> QED BY <4>1, <4>2, ConstantDoubles, Zenon
    <3>2. CASE c # 0
      BY <1>2, <1>3, <1>4, <3>2, Zenon DEF ExpandedTo
    <3> QED BY <3>1, <3>2
  <2>3. ExpandedTo(n, c + 1)'
    BY <1>5, <1>8, <1>9, <1>10, <1>12, <2>1, <2>2, Zenon DEF ExpandedTo
  <2>4. MicroInv'
    BY <1>1, <1>5, <1>8, <1>10, <2>1, <2>3, Zenon DEF MicroInv
  <2> QED BY <1>11, <2>4
<1>13. CASE c = 3 /\ n # 10
  <2>1. /\ n + 1 \in 1..10 /\ n < 10 /\ i' = 16 * (n + 1) + 4 * 0 /\ i' # 176 /\ (n + 1) - 1 = n
        /\ 0 \in 0..3 /\ c # 0
    BY <1>3, <1>10, <1>13, SMT
  <2>2. Constant(rcon') = PowerOfX((n + 1) - 1)
    BY <1>2, <1>3, <1>4, <2>1, Zenon DEF ExpandedTo
  <2>3. ExpandedTo(n + 1, 0)'
    BY <1>9, <1>10, <2>1, <2>2, Zenon DEF ExpandedTo
  <2>4. MicroInv'
    BY <1>1, <1>5, <1>8, <1>10, <2>1, <2>3, Zenon DEF MicroInv
  <2> QED BY <1>11, <2>4
<1>14. CASE c = 3 /\ n = 10
  <2>1. i' = 176 /\ \A m \in 1..10, d \in 0..3 : 16 * m + 4 * d + 4 <= i + 4
    BY <1>3, <1>10, <1>14, SMT
  <2>2. FullyExpanded'
    BY <1>9, <2>1, Zenon DEF FullyExpanded
  <2>3. MicroInv'
    BY <1>1, <1>5, <1>8, <1>10, <2>1, <2>2, Zenon DEF MicroInv
  <2> QED BY <1>11, <2>3
<1> QED BY <1>12, <1>13, <1>14

\* What FIPS-197 speaks of, of a block: how many rounds it has gone through, and a key.
LEMMA MicroProgress ==
  ASSUME NEW b \in 1..Blocks
  PROVE  /\ Micro!RoundsDone(b)
              = IF b < micro_y THEN 11
                ELSE IF b = micro_y /\ micro_at = "rounds" THEN micro_r + 1 ELSE 0
         /\ Micro!RoundKeyInUse(b)
              = KeyOf(RoundKey, IF Micro!RoundsDone(b) = 11 THEN 10 ELSE Micro!RoundsDone(b))
         /\ Micro!RoundsDone(b)'
              = IF b < micro_y' THEN 11
                ELSE IF b = micro_y' /\ micro_at' = "rounds" THEN micro_r' + 1 ELSE 0
         /\ Micro!RoundKeyInUse(b)'
              = KeyOf(RoundKey', IF Micro!RoundsDone(b)' = 11 THEN 10 ELSE Micro!RoundsDone(b)')
<1>1. Micro!RoundsDone(b)
        = IF b < micro_y THEN 11
          ELSE IF b = micro_y /\ micro_at = "rounds" THEN micro_r + 1 ELSE 0
  BY Zenon DEF Micro!RoundsDone
<1>2. Micro!RoundsDone(b)'
        = IF b < micro_y' THEN 11
          ELSE IF b = micro_y' /\ micro_at' = "rounds" THEN micro_r' + 1 ELSE 0
  BY Zenon DEF Micro!RoundsDone
<1>3. Micro!RoundKeyInUse(b)
        = KeyOf(RoundKey, IF Micro!RoundsDone(b) = 11 THEN 10 ELSE Micro!RoundsDone(b))
  BY Zenon DEF Micro!RoundKeyInUse, KeyOf, Micro!Places, Places
<1>4. Micro!RoundKeyInUse(b)'
        = KeyOf(RoundKey', IF Micro!RoundsDone(b)' = 11 THEN 10 ELSE Micro!RoundsDone(b)')
  BY Zenon DEF Micro!RoundKeyInUse, KeyOf, Micro!Places, Places
<1> QED BY <1>1, <1>2, <1>3, <1>4

\* A round of FIPS-197 on a block of the buffer is a step of that block's refinement.
LEMMA MicroStandardRound ==
  ASSUME NEW b \in 1..Blocks,
         StandardRound(crtxt[b], Micro!RoundKeyInUse(b), Micro!RoundsDone(b),
                       crtxt'[b], Micro!RoundKeyInUse(b)', Micro!RoundsDone(b)')
  PROVE  MicroStandard(b)!Round
<1> DEFINE n == Micro!RoundsDone(b)
           key == Micro!RoundKeyInUse(b)
           turned == ShiftRows(SubBytes(crtxt[b]))
           sum == XorAll(CASE n = 0 -> crtxt[b] [] n = 10 -> turned [] OTHER -> MixColumns(turned),
                         key)
<1>1. /\ n \in 0..10 /\ n' = n + 1 /\ crtxt'[b] = sum
      /\ key' = IF n = 10 THEN key ELSE NextRoundKey(key, n + 1)
  BY Zenon DEF StandardRound
<1>2. MicroStandard(b)!ShiftRows(MicroStandard(b)!SubBytes(crtxt[b])) = turned
  BY MicroStandardOperators, Zenon
<1>3. MicroStandard(b)!MixColumns(turned) = MixColumns(turned)
  BY MicroStandardOperators, Zenon
<1>4. MicroStandard(b)!XorAll(CASE n = 0  -> crtxt[b]
                                [] n = 10 -> turned
                                [] OTHER  -> MixColumns(turned), key) = sum
  BY MicroStandardOperators, Zenon
<1>5. MicroStandard(b)!NextRoundKey(key, n + 1) = NextRoundKey(key, n + 1)
  BY MicroStandardOperators, Zenon
<1> HIDE DEF turned, sum
<1> QED BY <1>1, <1>2, <1>3, <1>4, <1>5, Zenon DEF MicroStandard!Round

\* A block that a step neither adds to nor counts a round of has not moved.
LEMMA MicroStandardStutters ==
  ASSUME NEW b \in 1..Blocks, crtxt'[b] = crtxt[b],
         Micro!RoundKeyInUse(b)' = Micro!RoundKeyInUse(b),
         Micro!RoundsDone(b)' = Micro!RoundsDone(b)
  PROVE  UNCHANGED MicroStandard(b)!vars
BY Zenon DEF MicroStandard!vars

\* A round of a block, with the array expanded: n is the number of the key it adds.
LEMMA MicroAddsRoundKey ==
  ASSUME NEW b \in 1..Blocks, NEW n \in 0..10, MicroInv, FullyExpanded, RoundKey' = RoundKey,
         Micro!RoundsDone(b) = n, Micro!RoundsDone(b)' = n + 1,
         crtxt'[b] = XorAll(CASE n = 0  -> crtxt[b]
                              [] n = 10 -> ShiftRows(SubBytes(crtxt[b]))
                              [] OTHER  -> MixColumns(ShiftRows(SubBytes(crtxt[b]))),
                            KeyOf(RoundKey, n))
  PROVE  MicroStandard(b)!Round
<1>1. /\ n # 11 /\ (n + 1 = 11 <=> n = 10)
      /\ n # 10 => n + 1 \in 1..10 /\ (n + 1) - 1 = n
  BY SMT
<1>2. Micro!RoundKeyInUse(b) = KeyOf(RoundKey, n)
  BY <1>1, MicroProgress, Zenon
<1>3. Micro!RoundKeyInUse(b)' = KeyOf(RoundKey, IF n = 10 THEN 10 ELSE n + 1)
  <2>1. Micro!RoundKeyInUse(b)' = KeyOf(RoundKey, IF n + 1 = 11 THEN 10 ELSE n + 1)
    BY MicroProgress, Zenon
  <2> QED BY <1>1, <2>1, Zenon
<1>4. n # 10 => KeyOf(RoundKey, n + 1) = NextRoundKey(KeyOf(RoundKey, n), n + 1)
  <2> SUFFICES ASSUME n # 10
               PROVE  KeyOf(RoundKey, n + 1) = NextRoundKey(KeyOf(RoundKey, n), n + 1)
    OBVIOUS
  <2>1. \A c \in 0..3 : ColumnFollows(RoundKey, n + 1, c)
    BY <1>1 DEF FullyExpanded
  <2>2. KeyOf(RoundKey, n + 1) = NextRoundKey(KeyOf(RoundKey, (n + 1) - 1), n + 1)
    BY <1>1, <2>1, KeyFollows DEF MicroInv
  <2> QED BY <1>1, <2>2, Zenon
<1> QED BY <1>2, <1>3, <1>4, MicroStandardRound, Zenon DEF StandardRound

\* The library adds the n-th key of the array.
LEMMA MicroRoundBytes ==
  ASSUME NEW b \in Block, NEW n \in 0..10, RoundKey \in [0..175 -> Byte]
  PROVE  /\ XorAll(b, KeyOf(RoundKey, n)) \in Block
         /\ Micro!AddRoundKey(n, b) = XorAll(b, KeyOf(RoundKey, n))
<1>1. KeyOf(RoundKey, n) \in Block
  BY KeysInArray
<1> QED BY <1>1, MicroAdds, XorAllBlocks DEF KeyOf

\* A step of the library takes at most one block through one round.
LEMMA MicroStep ==
  ASSUME MicroInv, Micro!Next
  PROVE  /\ MicroInv'
         /\ \A b \in 1..Blocks : MicroStandard(b)!Round \/ UNCHANGED MicroStandard(b)!vars
<1>1. /\ crtxt \in [1..Blocks -> Block] /\ RoundKey \in [0..175 -> Byte]
      /\ micro_y \in 1..(Blocks + 1) /\ micro_r \in 0..9 /\ Blocks \in Nat \ {0}
  BY CiphersAssumption, Zenon DEF MicroInv
<1>2. CASE Micro!ExpandWord
  <2>1. MicroInv' /\ \A p \in Places : RoundKey'[p] = RoundKey[p]
    BY <1>2, MicroWord
  <2>2. /\ micro_y = 1 /\ micro_y' = 1 /\ crtxt' = crtxt /\ micro_at = "expansion"
        /\ micro_at' # "rounds" /\ micro_at # "rounds"
    BY <1>2, Zenon DEF MicroInv, Micro!ExpandWord
  <2>3. \A b \in 1..Blocks : UNCHANGED MicroStandard(b)!vars
    <3> TAKE b \in 1..Blocks
    <3>1. ~(b < 1) /\ 0 # 11 /\ \A p \in Places : 16 * 0 + p = p
      BY <1>1, SMT DEF Places
    <3>2. Micro!RoundsDone(b) = 0 /\ Micro!RoundsDone(b)' = 0
      BY <2>2, <3>1, MicroProgress, Zenon
    <3>3. Micro!RoundKeyInUse(b) = KeyOf(RoundKey, 0) /\ Micro!RoundKeyInUse(b)' = KeyOf(RoundKey', 0)
      BY <3>1, <3>2, MicroProgress, Zenon
    <3>4. KeyOf(RoundKey', 0) = KeyOf(RoundKey, 0)
      BY <2>1, <3>1, Zenon DEF KeyOf
    <3> QED BY <2>2, <3>2, <3>3, <3>4, MicroStandardStutters
  <2> QED BY <2>1, <2>3
<1>3. ASSUME NEW n \in 0..10, FullyExpanded, RoundKey' = RoundKey, micro_y \in 1..Blocks,
             NEW text \in Block, crtxt' = [crtxt EXCEPT ![micro_y] = text],
             text = XorAll(CASE n = 0  -> crtxt[micro_y]
                             [] n = 10 -> ShiftRows(SubBytes(crtxt[micro_y]))
                             [] OTHER  -> MixColumns(ShiftRows(SubBytes(crtxt[micro_y]))),
                           KeyOf(RoundKey, n)),
             n = IF micro_at = "rounds" THEN micro_r + 1 ELSE 0,
             IF n = 10 THEN micro_at' # "rounds" /\ micro_y' = micro_y + 1
                       ELSE micro_at' = "rounds" /\ micro_r' = n /\ micro_y' = micro_y
      PROVE  \A b \in 1..Blocks : MicroStandard(b)!Round \/ UNCHANGED MicroStandard(b)!vars
  <2> TAKE b \in 1..Blocks
  <2>1. ~(micro_y < micro_y) /\ micro_y < micro_y + 1 /\ 10 + 1 = 11
    BY <1>1, SMT
  <2>2. CASE b = micro_y
    <3>1. Micro!RoundsDone(b) = n
      BY <1>3, <2>1, <2>2, MicroProgress, Zenon
    <3>2. Micro!RoundsDone(b)' = n + 1
      BY <1>3, <2>1, <2>2, MicroProgress, Zenon
    <3>3. crtxt'[b] = text
      BY <1>1, <1>3, <2>2
    <3> QED BY <1>3, <2>2, <3>1, <3>2, <3>3, MicroAddsRoundKey, Zenon
  <2>3. CASE b # micro_y
    <3>1. crtxt'[b] = crtxt[b]
      BY <1>1, <1>3, <2>3
    <3>2. /\ b < micro_y' <=> b < micro_y
          /\ ~(b = micro_y' /\ micro_at' = "rounds")
      <4>1. b < micro_y + 1 <=> b < micro_y
        <5>1. b \in Int /\ micro_y \in Int /\ b # micro_y
          BY <1>1, <1>3, <2>3
        <5> QED BY <5>1, SMT
      <4> QED BY <1>3, <2>3, <4>1, Zenon
    <3>3. Micro!RoundsDone(b)' = Micro!RoundsDone(b)
      BY <2>3, <3>2, MicroProgress, Zenon
    <3>4. Micro!RoundKeyInUse(b)' = Micro!RoundKeyInUse(b)
      BY <1>3, <3>3, MicroProgress, Zenon
    <3> QED BY <3>1, <3>3, <3>4, MicroStandardStutters
  <2> QED BY <2>2, <2>3
<1>4. CASE Micro!BeginBlock
  <2>1. /\ micro_at = "block" /\ micro_r = 0 /\ FullyExpanded
        /\ RoundKey' = RoundKey /\ micro_y' = micro_y /\ micro_r' = micro_r /\ micro_at' = "rounds"
        /\ micro_y <= Blocks
        /\ crtxt' = [crtxt EXCEPT ![micro_y] = Micro!AddRoundKey(0, crtxt[micro_y])]
    BY <1>4, Zenon DEF MicroInv, Micro!BeginBlock
  <2>2. micro_y \in 1..Blocks /\ 0 \in 0..10 /\ 0 # 10
    BY <1>1, <2>1, SMT
  <2>3. crtxt[micro_y] \in Block
    BY <1>1, <2>2
  <2> DEFINE text == XorAll(crtxt[micro_y], KeyOf(RoundKey, 0))
  <2>4. text \in Block /\ crtxt' = [crtxt EXCEPT ![micro_y] = text]
    BY <1>1, <2>1, <2>2, <2>3, MicroRoundBytes, Zenon
  <2>5. text = XorAll(CASE 0 = 0  -> crtxt[micro_y]
                        [] 0 = 10 -> ShiftRows(SubBytes(crtxt[micro_y]))
                        [] OTHER  -> MixColumns(ShiftRows(SubBytes(crtxt[micro_y]))),
                      KeyOf(RoundKey, 0))
    BY <2>2, Zenon
  <2> HIDE DEF text
  <2>6. crtxt' \in [1..Blocks -> Block]
    BY <1>1, <2>2, <2>4
  <2>7. MicroInv'
    BY <1>1, <2>1, <2>2, <2>6, Zenon DEF MicroInv, FullyExpanded
  <2>8. 0 = IF micro_at = "rounds" THEN micro_r + 1 ELSE 0
    BY <2>1
  <2>9. \A b \in 1..Blocks : MicroStandard(b)!Round \/ UNCHANGED MicroStandard(b)!vars
    BY <1>3, <2>1, <2>2, <2>4, <2>5, <2>8, Zenon
  <2> QED BY <2>7, <2>9
<1>5. CASE Micro!EncryptRound
  <2> DEFINE n == micro_r + 1
             shifted == ShiftRows(SubBytes(crtxt[micro_y]))
             turned == IF n # 10 THEN MixColumns(shifted) ELSE shifted
             text == XorAll(turned, KeyOf(RoundKey, n))
  <2>1. /\ micro_at = "rounds" /\ micro_y \in 1..Blocks /\ FullyExpanded
        /\ RoundKey' = RoundKey
    BY <1>5, Zenon DEF MicroInv, Micro!EncryptRound
  <2>2. IF n # 10 THEN micro_r' = n /\ micro_at' = micro_at /\ micro_y' = micro_y
                  ELSE micro_r' = 0 /\ micro_at' = "block" /\ micro_y' = micro_y + 1
    BY <1>5, Zenon DEF Micro!EncryptRound
  <2>3. crtxt[micro_y] \in Block
    BY <1>1, <2>1
  <2>4. shifted \in Block /\ MixColumns(shifted) \in Block
    BY <2>3, RoundType
  <2>5. /\ Micro!ShiftRows(Micro!SubBytes(crtxt[micro_y])) = shifted
        /\ Micro!MixColumns(shifted) = MixColumns(shifted)
    <3>1. Micro!ShiftRows(Micro!SubBytes(crtxt[micro_y])) = shifted
      BY <2>3, MicroRound, Zenon
    <3> HIDE DEF shifted
    <3>2. Micro!MixColumns(shifted) = MixColumns(shifted)
      BY <2>4, MicroRound, Zenon
    <3> QED BY <3>1, <3>2
  <2>6. crtxt' = [crtxt EXCEPT ![micro_y] = Micro!AddRoundKey(n, turned)]
    <3> DEFINE theirs == Micro!ShiftRows(Micro!SubBytes(crtxt[micro_y]))
    <3>1. crtxt' = [crtxt EXCEPT ![micro_y] =
             Micro!AddRoundKey(micro_r + 1,
                               IF micro_r + 1 # 10 THEN Micro!MixColumns(theirs) ELSE theirs)]
      BY <1>5, Zenon DEF Micro!EncryptRound
    <3> HIDE DEF shifted, theirs
    <3>2. theirs = shifted
      BY <2>5, Zenon DEF theirs
    <3> QED BY <2>5, <3>1, <3>2, Zenon
  <2>7. n \in 1..10 /\ n \in 0..10 /\ n # 0 /\ (n # 10 => n \in 0..9) /\ 0 \in 0..9
        /\ micro_y + 1 \in 1..(Blocks + 1)
    <3>1. micro_r \in 0..9 /\ micro_y \in 1..Blocks /\ Blocks \in Nat
      BY <1>1, <2>1
    <3> HIDE DEF shifted, turned, text
    <3> QED BY <3>1, SMT
  <2> HIDE DEF n, shifted
  <2>8. turned \in Block
    BY <2>4
  <2>9. text = XorAll(CASE n = 0  -> crtxt[micro_y]
                        [] n = 10 -> ShiftRows(SubBytes(crtxt[micro_y]))
                        [] OTHER  -> MixColumns(ShiftRows(SubBytes(crtxt[micro_y]))),
                      KeyOf(RoundKey, n))
    <3>1. CASE n = 10
      BY <2>7, <3>1, Zenon DEF shifted
    <3>2. CASE n # 10
      BY <2>7, <3>2, Zenon DEF shifted
    <3> QED BY <3>1, <3>2
  <2> HIDE DEF turned
  <2>10. text \in Block /\ crtxt' = [crtxt EXCEPT ![micro_y] = text]
    BY <1>1, <2>6, <2>7, <2>8, MicroRoundBytes, Zenon
  <2> HIDE DEF text
  <2>11. crtxt' \in [1..Blocks -> Block]
    BY <1>1, <2>1, <2>10
  <2>12. MicroInv'
    <3>1. CASE n # 10
      BY <1>1, <2>1, <2>2, <2>7, <2>11, <3>1, Zenon DEF MicroInv, FullyExpanded
    <3>2. CASE n = 10
      BY <1>1, <2>1, <2>2, <2>7, <2>11, <3>2, Zenon DEF MicroInv, FullyExpanded
    <3> QED BY <3>1, <3>2
  <2>13. n = IF micro_at = "rounds" THEN micro_r + 1 ELSE 0
    BY <2>1 DEF n
  <2>14. IF n = 10 THEN micro_at' # "rounds" /\ micro_y' = micro_y + 1
                   ELSE micro_at' = "rounds" /\ micro_r' = n /\ micro_y' = micro_y
    BY <2>1, <2>2
  <2>15. \A b \in 1..Blocks : MicroStandard(b)!Round \/ UNCHANGED MicroStandard(b)!vars
    BY <1>3, <2>1, <2>7, <2>9, <2>10, <2>13, <2>14, Zenon
  <2> QED BY <2>12, <2>15
<1> QED BY <1>2, <1>4, <1>5 DEF Micro!Next

\* Block for block and round for round, the library computes FIPS-197's AES-128, for every
\* key, every buffer and any number of blocks.
THEOREM EcbIsStandardCorrect == CiphersSpec => EcbIsStandard
<1>1. MicroInv /\ [CiphersNext]_<< row, softwareVars, microVars, hardwareVars >>
        => /\ MicroInv'
           /\ [\A b \in 1..Blocks : [MicroStandard(b)!Round]_(MicroStandard(b)!vars)]_microVars
  <2> SUFFICES ASSUME MicroInv,
                      [CiphersNext]_<< row, softwareVars, microVars, hardwareVars >>
               PROVE  /\ MicroInv'
                      /\ \/ UNCHANGED microVars
                         \/ \A b \in 1..Blocks :
                              MicroStandard(b)!Round \/ UNCHANGED MicroStandard(b)!vars
    OBVIOUS
  <2>1. Micro!Next \/ UNCHANGED microVars
    BY Zenon DEF CiphersNext
  <2>2. CASE Micro!Next
    BY <2>2, MicroStep
  <2>3. CASE UNCHANGED microVars
    <3>1. /\ crtxt' = crtxt /\ RoundKey' = RoundKey /\ rcon' = rcon /\ micro_i' = micro_i
          /\ micro_y' = micro_y /\ micro_r' = micro_r /\ micro_at' = micro_at
      BY <2>3 DEF microVars
    <3>2. MicroInv'
      BY <3>1, Zenon DEF MicroInv, FullyExpanded, ExpandedTo
    <3> QED BY <2>3, <3>2
  <2> QED BY <2>1, <2>2, <2>3
<1> QED BY <1>1, MicroInitial, PTL DEF CiphersSpec, EcbIsStandard

-----------------------------------------------------------------------------
(* All three *)

\* The states of FIPS-197's AES-128 on one block, each with the key that the round after it
\* adds: by rounds as it counts them, of which the addition of the key itself is the first.
Run(key, text) ==
  [n \in 0..11 |-> << IF n = 0 THEN text ELSE Encryption(key, text, 10)[n - 1],
                      KeySchedule(key, 10)[IF n = 11 THEN 10 ELSE n] >>]

\* It begins with text and key, and ends with the ciphertext.
LEMMA RunEnds ==
  ASSUME NEW key \in Block, NEW text \in Block
  PROVE  /\ Run(key, text)[0][1] = text /\ Run(key, text)[0][2] = key
         /\ Run(key, text)[11][1] = Ciphertext(key, text, 10)
<1>1. /\ 0 \in 0..11 /\ 11 \in 0..11 /\ 0 # 11 /\ 11 - 1 = 10 /\ 10 \in 1..10
  BY SMT
<1>2. KeySchedule(key, 10)[0] = key
  BY <1>1, KeySchedules
<1> DEFINE E == Encryption(key, text, 10)
           K == KeySchedule(key, 10)
           t == [n \in 0..11 |-> << IF n = 0 THEN text ELSE E[n - 1],
                                   K[IF n = 11 THEN 10 ELSE n] >>]
<1>3. Run(key, text) = t
  BY Zenon DEF Run
<1> HIDE DEF E, K
<1>4. t[0] = << text, K[0] >> /\ t[11][1] = E[10]
  BY <1>1
<1> HIDE DEF t
<1>5. t[0][1] = text /\ t[0][2] = K[0]
  BY <1>4
<1> QED BY <1>2, <1>3, <1>4, <1>5, Zenon DEF Ciphertext, E, K

\* It goes from each round to the next.
LEMMA RunOfRounds ==
  ASSUME NEW key \in Block, NEW text \in Block, NEW n \in 0..10
  PROVE  StandardRound(Run(key, text)[n][1], Run(key, text)[n][2], n,
                       Run(key, text)[n + 1][1], Run(key, text)[n + 1][2], n + 1)
<1> DEFINE E == Encryption(key, text, 10)
           K == KeySchedule(key, 10)
           t == [m \in 0..11 |-> << IF m = 0 THEN text ELSE E[m - 1],
                                   K[IF m = 11 THEN 10 ELSE m] >>]
<1>1. Run(key, text) = t
  BY Zenon DEF Run
<1>2. 10 \in 1..10 /\ 10 # 0
  BY SMT
<1>3. /\ E[0] = XorAll(text, key) /\ K[0] = key
      /\ \A m \in 1..10 : /\ E[m] = XorAll(BeforeKey(E[m - 1], m, 10), K[m])
                          /\ K[m] = NextRoundKey(K[m - 1], m)
  BY <1>2, KeySchedules, Encryptions
<1> HIDE DEF E, K
<1>4. /\ t[n] = << IF n = 0 THEN text ELSE E[n - 1], K[n] >>
      /\ t[n + 1] = << E[n], K[IF n = 10 THEN 10 ELSE n + 1] >>
  <2>1. /\ n \in 0..11 /\ n # 11 /\ n + 1 \in 0..11 /\ n + 1 # 0 /\ n + 1 - 1 = n
        /\ (n + 1 = 11 <=> n = 10)
    BY SMT
  <2> QED BY <2>1
<1> HIDE DEF t
<1>5. /\ t[n][1] = (IF n = 0 THEN text ELSE E[n - 1]) /\ t[n][2] = K[n]
      /\ t[n + 1][1] = E[n] /\ t[n + 1][2] = K[IF n = 10 THEN 10 ELSE n + 1]
  BY <1>4
<1>6. K[IF n = 10 THEN 10 ELSE n + 1] = IF n = 10 THEN K[n] ELSE NextRoundKey(K[n], n + 1)
  <2>1. CASE n = 10
    BY <2>1
  <2>2. CASE n # 10
    <3>1. n + 1 \in 1..10 /\ n + 1 - 1 = n
      BY <2>2, SMT
    <3> QED BY <1>3, <2>2, <3>1
  <2> QED BY <2>1, <2>2
<1>7. E[n] = XorAll(CASE n = 0  -> t[n][1]
                      [] n = 10 -> ShiftRows(SubBytes(t[n][1]))
                      [] OTHER  -> MixColumns(ShiftRows(SubBytes(t[n][1]))), K[n])
  <2>1. CASE n = 0
    BY <1>3, <1>5, <2>1
  <2>2. CASE n # 0
    <3>1. n \in 1..10
      BY <2>2, SMT
    <3> QED BY <1>3, <1>5, <2>2, <3>1, Zenon DEF BeforeKey
  <2> QED BY <2>1, <2>2
<1> QED BY <1>1, <1>5, <1>6, <1>7, Zenon DEF StandardRound

\* Where an implementation is on the run of the key and the text it was given.
Follows(b, k, n) == b = Run(given[1], given[2])[n][1] /\ k = Run(given[1], given[2])[n][2]

\* A block and its key that a round takes on take the run's next step.
LEMMA RunFollowed ==
  ASSUME given[1] \in Block, given[2] \in Block,
         NEW n, NEW b, NEW k, NEW b2, NEW k2, NEW n2,
         Follows(b, k, n), StandardRound(b, k, n, b2, k2, n2)
  PROVE  Follows(b2, k2, n2)
<1> DEFINE t == Run(given[1], given[2])
<1>1. n \in 0..10 /\ n2 = n + 1
  BY Zenon DEF StandardRound
<1>2. b = t[n][1] /\ k = t[n][2]
  BY Zenon DEF Follows
<1>3. ASSUME NEW key \in Block, NEW text \in Block
      PROVE  StandardRound(Run(key, text)[n][1], Run(key, text)[n][2], n,
                           Run(key, text)[n2][1], Run(key, text)[n2][2], n2)
  BY <1>1, RunOfRounds
<1>4. StandardRound(t[n][1], t[n][2], n, t[n2][1], t[n2][2], n2)
  BY <1>3, Zenon
<1> HIDE DEF t
<1>5. b2 = t[n2][1] /\ k2 = t[n2][2]
  BY <1>2, <1>4, Zenon DEF StandardRound
<1> QED BY <1>5, Zenon DEF Follows, t

\* Each of the three is on the run of the same key and text, which are blocks.
AgreementInv ==
  /\ given[1] \in Block /\ given[2] \in Block
  /\ Follows(data, Software!RoundKeyInUse, Software!RoundsDone)
  /\ Follows(crtxt[1], Micro!RoundKeyInUse(1), Micro!RoundsDone(1))
  /\ Follows(BytesOf(data_matrix), BytesOf(previous_key), stage)

\* The three implementations end with one ciphertext, that of FIPS-197.
CiphertextsAgree ==
  /\ at = "returned" => data = Ciphertext(given[1], given[2], 10)
  /\ MicroDone => crtxt[1] = Ciphertext(given[1], given[2], 10)
  /\ stage = 11 => BytesOf(data_matrix) = Ciphertext(given[1], given[2], 10)

\* The rounds of the refinements are rounds of FIPS-197.
LEMMA RoundsAreStandard ==
  /\ SoftwareStandard!Round
       => StandardRound(data, Software!RoundKeyInUse, Software!RoundsDone,
                        data', Software!RoundKeyInUse', Software!RoundsDone')
  /\ 1 \in 1..Blocks /\ MicroStandard(1)!Round
       => StandardRound(crtxt[1], Micro!RoundKeyInUse(1), Micro!RoundsDone(1),
                        crtxt'[1], Micro!RoundKeyInUse(1)', Micro!RoundsDone(1)')
  /\ HardwareStandard!Round
       => StandardRound(BytesOf(data_matrix), BytesOf(previous_key), stage,
                        BytesOf(data_matrix'), BytesOf(previous_key'), stage')
<1>1. ASSUME SoftwareStandard!Round
      PROVE  StandardRound(data, Software!RoundKeyInUse, Software!RoundsDone,
                           data', Software!RoundKeyInUse', Software!RoundsDone')
  BY <1>1, SoftwareStandardOperators, Zenon DEF SoftwareStandard!Round, StandardRound
<1>2. ASSUME 1 \in 1..Blocks, MicroStandard(1)!Round
      PROVE  StandardRound(crtxt[1], Micro!RoundKeyInUse(1), Micro!RoundsDone(1),
                           crtxt'[1], Micro!RoundKeyInUse(1)', Micro!RoundsDone(1)')
  <2> DEFINE n == Micro!RoundsDone(1)
             key == Micro!RoundKeyInUse(1)
             turned == ShiftRows(SubBytes(crtxt[1]))
             sum == XorAll(CASE n = 0 -> crtxt[1] [] n = 10 -> turned [] OTHER -> MixColumns(turned),
                           key)
  <2>1. MicroStandard(1)!ShiftRows(MicroStandard(1)!SubBytes(crtxt[1])) = turned
    BY <1>2, MicroStandardOperators, Zenon
  <2>2. MicroStandard(1)!MixColumns(turned) = MixColumns(turned)
    BY <1>2, MicroStandardOperators, Zenon
  <2>3. MicroStandard(1)!XorAll(CASE n = 0  -> crtxt[1]
                                  [] n = 10 -> turned
                                  [] OTHER  -> MixColumns(turned), key) = sum
    BY <1>2, MicroStandardOperators, Zenon
  <2>4. MicroStandard(1)!NextRoundKey(key, n + 1) = NextRoundKey(key, n + 1)
    BY <1>2, MicroStandardOperators, Zenon
  <2> HIDE DEF turned, sum
  <2>5. /\ n \in 0..10 /\ n' = n + 1 /\ crtxt'[1] = sum
        /\ key' = IF n = 10 THEN key ELSE NextRoundKey(key, n + 1)
    BY <1>2, <2>1, <2>2, <2>3, <2>4, Zenon DEF MicroStandard!Round
  <2> QED BY <2>5, Zenon DEF StandardRound, turned, sum
<1>3. ASSUME HardwareStandard!Round
      PROVE  StandardRound(BytesOf(data_matrix), BytesOf(previous_key), stage,
                           BytesOf(data_matrix'), BytesOf(previous_key'), stage')
  BY <1>3, HardwareStandardOperators, HardwareLogic, Zenon
     DEF HardwareStandard!Round, StandardRound
<1> QED BY <1>1, <1>2, <1>3

\* They all begin with what the hardware was given.
LEMMA AgreementInitial == CiphersInit => AgreementInv
<1> SUFFICES ASSUME CiphersInit
             PROVE  AgreementInv
  OBVIOUS
<1>1. /\ given = << expanded_keys[0], data >> /\ crtxt[1] = data
      /\ \A p \in Places : RoundKey[p] = expanded_keys[0][p]
  BY DEF CiphersInit, SameInputs
<1>0. given[1] \in Block /\ given[2] \in Block
  <2>1. given[1] \in CipherKeys /\ given[2] \in Texts
    BY DEF CiphersInit, Hardware!Init
  <2> QED BY <2>1, CiphersAssumption
<1>2. Run(given[1], given[2])[0][1] = given[2] /\ Run(given[1], given[2])[0][2] = given[1]
  BY <1>0, RunEnds
<1>3. SoftwareInv /\ HardwareInv /\ MicroInv
  BY SoftwareInitial, HardwareInitial, MicroInitial
<1>4. expanded_keys[0] \in Block /\ Blocks \in Nat \ {0} /\ 1 \in 1..Blocks
  <2>1. 0 \in 0..10 /\ 1 \in 1..Blocks
    BY CiphersAssumption, SMT
  <2> QED BY <1>3, <2>1, CiphersAssumption DEF SoftwareInv
<1>5. Follows(data, Software!RoundKeyInUse, Software!RoundsDone)
  <2>1. at = "expansion" /\ "expansion" # "returned" /\ "expansion" # "rounds"
    BY DEF CiphersInit, Software!Init
  <2>2. Software!RoundsDone = 0
    BY <2>1, Zenon DEF Software!RoundsDone
  <2>3. Software!RoundKeyInUse = expanded_keys[0]
    BY <2>1, <2>2, Zenon DEF Software!RoundKeyInUse
  <2> QED BY <1>1, <1>2, <2>2, <2>3 DEF Follows
<1>6. Follows(crtxt[1], Micro!RoundKeyInUse(1), Micro!RoundsDone(1))
  <2>1. /\ micro_y = 1 /\ micro_at = "expansion" /\ "expansion" # "rounds"
        /\ ~(1 < 1) /\ 0 # 11 /\ \A p \in Places : 16 * 0 + p = p
    BY SMT DEF CiphersInit, Micro!Init, Places
  <2>2. Micro!RoundsDone(1) = 0
    BY <1>4, <2>1, MicroProgress, Zenon
  <2>3. Micro!RoundKeyInUse(1) = KeyOf(RoundKey, 0)
    BY <1>4, <2>1, <2>2, MicroProgress, Zenon
  <2>4. KeyOf(RoundKey, 0) = [p \in Places |-> expanded_keys[0][p]]
    BY <1>1, <2>1, Zenon DEF KeyOf
  <2>5. [p \in Places |-> expanded_keys[0][p]] = expanded_keys[0]
    BY <1>4 DEF Block
  <2> QED BY <1>1, <1>2, <2>2, <2>3, <2>4, <2>5 DEF Follows
<1>7. Follows(BytesOf(data_matrix), BytesOf(previous_key), stage)
  <2>1. /\ given[1] \in CipherKeys /\ given[2] \in Texts
        /\ previous_key = Matrix(given[1]) /\ data_matrix = Matrix(given[2])
        /\ stage = 0
    BY HardwareLogic DEF CiphersInit, Hardware!Init
  <2>2. BytesOf(previous_key) = given[1] /\ BytesOf(data_matrix) = given[2]
    BY <2>1, CiphersAssumption, MatrixOfBlock
  <2> QED BY <1>2, <2>1, <2>2 DEF Follows
<1> QED BY <1>0, <1>5, <1>6, <1>7 DEF AgreementInv

\* What each implementation was given fixes the whole run that it makes.
THEOREM CiphertextsAgreeCorrect == CiphersSpec => []CiphertextsAgree
<1> DEFINE Inv == SoftwareInv /\ MicroInv /\ HardwareInv /\ AgreementInv
<1>1. CiphersInit => Inv
  BY SoftwareInitial, MicroInitial, HardwareInitial, AgreementInitial
<1>2. Inv /\ [CiphersNext]_<< row, softwareVars, microVars, hardwareVars >> => Inv'
  <2> SUFFICES ASSUME Inv, [CiphersNext]_<< row, softwareVars, microVars, hardwareVars >>
               PROVE  Inv'
    OBVIOUS
  <2>0. 1 \in 1..Blocks
    BY CiphersAssumption, SMT
  <2>inputs. given[1] \in Block /\ given[2] \in Block
    BY DEF AgreementInv
  <2>1. SoftwareInv'
        /\ (SoftwareStandard!Round \/ UNCHANGED SoftwareStandard!vars)
    <3>1. CASE Software!Next
      BY <3>1, SoftwareStep
    <3>2. CASE UNCHANGED softwareVars
      <4>1. data' = data /\ expanded_keys' = expanded_keys /\ last_word_g_ed' = last_word_g_ed
            /\ loop' = loop /\ at' = at
        BY <3>2 DEF softwareVars
      <4> QED BY <4>1, Zenon DEF SoftwareInv, Expanded, SoftwareStandard!vars,
                                 Software!RoundsDone, Software!RoundKeyInUse
    <3>3. Software!Next \/ UNCHANGED softwareVars
      BY Zenon DEF CiphersNext
    <3> QED BY <3>1, <3>2, <3>3
  <2>2. MicroInv'
        /\ (MicroStandard(1)!Round \/ UNCHANGED MicroStandard(1)!vars)
    <3>1. CASE Micro!Next
      BY <2>0, <3>1, MicroStep
    <3>2. CASE UNCHANGED microVars
      <4>1. /\ crtxt' = crtxt /\ RoundKey' = RoundKey /\ rcon' = rcon /\ micro_i' = micro_i
            /\ micro_y' = micro_y /\ micro_r' = micro_r /\ micro_at' = micro_at
        BY <3>2 DEF microVars
      <4>2. MicroInv'
        BY <4>1, Zenon DEF MicroInv, FullyExpanded, ExpandedTo
      <4>3. UNCHANGED MicroStandard(1)!vars
        BY <4>1, Zenon DEF MicroStandard!vars, Micro!RoundsDone, Micro!RoundKeyInUse
      <4> QED BY <4>2, <4>3
    <3>3. Micro!Next \/ UNCHANGED microVars
      BY Zenon DEF CiphersNext
    <3> QED BY <3>1, <3>2, <3>3
  <2>3. HardwareInv' /\ given' = given
        /\ (HardwareStandard!Round \/ UNCHANGED HardwareStandard!vars)
    <3>1. CASE Hardware!Next
      <4>1. given' = given
        BY <3>1 DEF Hardware!Next, Hardware!FirstStage, Hardware!RoundStage
      <4> QED BY <3>1, <4>1, HardwareStep
    <3>2. CASE UNCHANGED hardwareVars
      <4>1. data_matrix' = data_matrix /\ previous_key' = previous_key
            /\ round_constant' = round_constant /\ stage' = stage /\ given' = given
        BY <3>2 DEF hardwareVars
      <4> QED BY <4>1, HardwareLogic, Zenon DEF HardwareInv, HardwareStandard!vars
    <3>3. Hardware!Next \/ UNCHANGED hardwareVars
      BY Zenon DEF CiphersNext
    <3> QED BY <3>1, <3>2, <3>3
  <2>4. Follows(data, Software!RoundKeyInUse, Software!RoundsDone)'
    <3>1. CASE SoftwareStandard!Round
      <4>1. StandardRound(data, Software!RoundKeyInUse, Software!RoundsDone,
                          data', Software!RoundKeyInUse', Software!RoundsDone')
        BY <3>1, RoundsAreStandard
      <4>2. Follows(data, Software!RoundKeyInUse, Software!RoundsDone)
        BY Zenon DEF AgreementInv
      <4>3. Follows(data', Software!RoundKeyInUse', Software!RoundsDone')
        BY <2>inputs, <4>1, <4>2, RunFollowed
      <4> QED BY <2>3, <4>3, Zenon DEF Follows
    <3>2. CASE UNCHANGED SoftwareStandard!vars
      BY <2>3, <3>2, Zenon DEF Follows, AgreementInv, SoftwareStandard!vars
    <3> QED BY <2>1, <3>1, <3>2
  <2>5. Follows(crtxt[1], Micro!RoundKeyInUse(1), Micro!RoundsDone(1))'
    <3>1. CASE MicroStandard(1)!Round
      <4>1. StandardRound(crtxt[1], Micro!RoundKeyInUse(1), Micro!RoundsDone(1),
                          crtxt'[1], Micro!RoundKeyInUse(1)', Micro!RoundsDone(1)')
        BY <2>0, <3>1, RoundsAreStandard
      <4>2. Follows(crtxt[1], Micro!RoundKeyInUse(1), Micro!RoundsDone(1))
        BY Zenon DEF AgreementInv
      <4>3. Follows(crtxt'[1], Micro!RoundKeyInUse(1)', Micro!RoundsDone(1)')
        BY <2>inputs, <4>1, <4>2, RunFollowed
      <4> QED BY <2>3, <4>3, Zenon DEF Follows
    <3>2. CASE UNCHANGED MicroStandard(1)!vars
      BY <2>3, <3>2, Zenon DEF Follows, AgreementInv, MicroStandard!vars
    <3> QED BY <2>2, <3>1, <3>2
  <2>6. Follows(BytesOf(data_matrix), BytesOf(previous_key), stage)'
    <3>1. CASE HardwareStandard!Round
      <4>1. StandardRound(BytesOf(data_matrix), BytesOf(previous_key), stage,
                          BytesOf(data_matrix'), BytesOf(previous_key'), stage')
        BY <3>1, RoundsAreStandard
      <4>2. Follows(BytesOf(data_matrix), BytesOf(previous_key), stage)
        BY Zenon DEF AgreementInv
      <4>3. Follows(BytesOf(data_matrix'), BytesOf(previous_key'), stage')
        BY <2>inputs, <4>1, <4>2, RunFollowed
      <4> QED BY <2>3, <4>3, Zenon DEF Follows
    <3>2. CASE UNCHANGED HardwareStandard!vars
      BY <2>3, <3>2, HardwareLogic, Zenon DEF Follows, AgreementInv, HardwareStandard!vars
    <3> QED BY <2>3, <3>1, <3>2
  <2> QED BY <2>1, <2>2, <2>3, <2>4, <2>5, <2>6, <2>inputs DEF AgreementInv
<1>3. Inv => CiphertextsAgree
  <2> SUFFICES ASSUME Inv
               PROVE  CiphertextsAgree
    OBVIOUS
  <2>0. Run(given[1], given[2])[11][1] = Ciphertext(given[1], given[2], 10)
    BY RunEnds DEF AgreementInv
  <2>1. at = "returned" => data = Ciphertext(given[1], given[2], 10)
    <3> SUFFICES ASSUME at = "returned"
                 PROVE  data = Ciphertext(given[1], given[2], 10)
      OBVIOUS
    <3>1. at # "expansion" /\ at # "rounds"
      OBVIOUS
    <3>2. Software!RoundsDone = 11
      BY <3>1, Zenon DEF Software!RoundsDone
    <3> QED BY <2>0, <3>2, Zenon DEF AgreementInv, Follows
  <2>2. MicroDone => crtxt[1] = Ciphertext(given[1], given[2], 10)
    <3> SUFFICES ASSUME MicroDone
                 PROVE  crtxt[1] = Ciphertext(given[1], given[2], 10)
      OBVIOUS
    <3>1. 1 \in 1..Blocks /\ 1 < micro_y
      <4>1. micro_y \in 1..(Blocks + 1)
        BY DEF MicroInv
      <4> QED BY <4>1, CiphersAssumption, SMT DEF MicroDone
    <3>2. Micro!RoundsDone(1) = 11
      BY <3>1, MicroProgress, Zenon
    <3> QED BY <2>0, <3>2, Zenon DEF AgreementInv, Follows
  <2>3. stage = 11 => BytesOf(data_matrix) = Ciphertext(given[1], given[2], 10)
    BY <2>0, Zenon DEF AgreementInv, Follows
  <2> QED BY <2>1, <2>2, <2>3 DEF CiphertextsAgree
<1> QED BY <1>1, <1>2, <1>3, PTL DEF CiphersSpec

\* Given an input of the test benches' files, each implementation ends with the ciphertext of
\* the file: it ends with that of FIPS-197, and TLC has computed what that is for these
\* inputs (StandardAnswers).
THEOREM KnownAnswersCorrect == CiphersSpec => []KnownAnswers
<1>1. ASSUME CiphertextsAgree,
             NEW key, NEW text, NEW cipher, Ciphertext(key, text, 10) = cipher
      PROVE  Answers(key, text, cipher)
  <2> SUFFICES ASSUME given = << key, text >>
               PROVE  /\ at = "returned" => data = cipher
                      /\ MicroDone => crtxt[1] = cipher
                      /\ stage = 11 => BytesOf(data_matrix) = cipher
    BY HardwareLogic, Zenon DEF Answers
  <2>1. given[1] = key /\ given[2] = text
    OBVIOUS
  <2> QED BY <1>1, <2>1, Zenon DEF CiphertextsAgree
<1>2. CiphertextsAgree => KnownAnswers
  BY <1>1, StandardAnswers, Zenon DEF KnownAnswers
<1> QED BY <1>2, CiphertextsAgreeCorrect, PTL
=============================================================================
