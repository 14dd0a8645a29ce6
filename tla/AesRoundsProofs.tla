--------------------------- MODULE AesRoundsProofs ---------------------------
(***************************************************************************)
(* Proofs about the bytes, the blocks and the round keys of AES: that the  *)
(* tables and the shifts of the three implementations compute in GF(2^8)   *)
(* as FIPS-197 has it, for every byte, what a round and a round key are    *)
(* made of, byte by byte, and that the hardware's round logic and its ten  *)
(* rounds are the standard's.                                              *)
(***************************************************************************)
EXTENDS AesTables, RoundLogic, AesRounds, FieldTables, SequenceTheorems, TLAPS

-----------------------------------------------------------------------------
(* Exclusive or *)

\* A byte is its bits.
LEMMA BitsOfByte ==
  ASSUME NEW a \in Byte
  PROVE  /\ \A i \in 0..7 : Bit(a, i) \in {0, 1}
         /\ a = Bit(a, 0) + 2 * Bit(a, 1) + 4 * Bit(a, 2) + 8 * Bit(a, 3)
                + 16 * Bit(a, 4) + 32 * Bit(a, 5) + 64 * Bit(a, 6) + 128 * Bit(a, 7)
<1>1. /\ Bit(a, 0) = a % 2             /\ Bit(a, 1) = (a \div 2) % 2
      /\ Bit(a, 2) = (a \div 4) % 2    /\ Bit(a, 3) = (a \div 8) % 2
      /\ Bit(a, 4) = (a \div 16) % 2   /\ Bit(a, 5) = (a \div 32) % 2
      /\ Bit(a, 6) = (a \div 64) % 2   /\ Bit(a, 7) = (a \div 128) % 2
  BY SMT DEF Bit, Byte
<1>2. \A i \in 0..7 : Bit(a, i) \in {0, 1}
  <2> TAKE i \in 0..7
  <2> i \in {0, 1, 2, 3, 4, 5, 6, 7}
    OBVIOUS
  <2> QED BY <1>1, SMT DEF Byte
<1>3. a = (a % 2) + 2 * ((a \div 2) % 2) + 4 * ((a \div 4) % 2) + 8 * ((a \div 8) % 2)
          + 16 * ((a \div 16) % 2) + 32 * ((a \div 32) % 2) + 64 * ((a \div 64) % 2)
          + 128 * ((a \div 128) % 2)
  BY SMT DEF Byte
<1> QED BY <1>1, <1>2, <1>3

\* Eight bits are a byte.
LEMMA ByteOfBits ==
  ASSUME NEW b0 \in {0, 1}, NEW b1 \in {0, 1}, NEW b2 \in {0, 1}, NEW b3 \in {0, 1},
         NEW b4 \in {0, 1}, NEW b5 \in {0, 1}, NEW b6 \in {0, 1}, NEW b7 \in {0, 1},
         NEW a, a = b0 + 2 * b1 + 4 * b2 + 8 * b3 + 16 * b4 + 32 * b5 + 64 * b6 + 128 * b7
  PROVE  /\ a \in Byte
         /\ Bit(a, 0) = b0 /\ Bit(a, 1) = b1 /\ Bit(a, 2) = b2 /\ Bit(a, 3) = b3
         /\ Bit(a, 4) = b4 /\ Bit(a, 5) = b5 /\ Bit(a, 6) = b6 /\ Bit(a, 7) = b7
BY SMT DEF Bit, Byte

\* Bytes of the same bits are the same.
LEMMA SameBits ==
  ASSUME NEW a \in Byte, NEW b \in Byte, \A i \in 0..7 : Bit(a, i) = Bit(b, i)
  PROVE  a = b
<1>1. /\ Bit(a, 0) = Bit(b, 0) /\ Bit(a, 1) = Bit(b, 1) /\ Bit(a, 2) = Bit(b, 2)
      /\ Bit(a, 3) = Bit(b, 3) /\ Bit(a, 4) = Bit(b, 4) /\ Bit(a, 5) = Bit(b, 5)
      /\ Bit(a, 6) = Bit(b, 6) /\ Bit(a, 7) = Bit(b, 7)
  BY SMT
<1> QED BY <1>1, BitsOfByte

\* The exclusive or of two bytes adds their bits modulo 2.
LEMMA XorBits ==
  ASSUME NEW a \in Byte, NEW b \in Byte
  PROVE  /\ a (+) b \in Byte
         /\ \A i \in 0..7 : Bit(a (+) b, i) = (Bit(a, i) + Bit(b, i)) % 2
<1> DEFINE sum(i) == (Bit(a, i) + Bit(b, i)) % 2
<1>1. \A i \in 0..7 : sum(i) \in {0, 1}
  BY BitsOfByte, SMT
<1>2. a (+) b = sum(0) * 2^0 + sum(1) * 2^1 + sum(2) * 2^2 + sum(3) * 2^3
                + sum(4) * 2^4 + sum(5) * 2^5 + sum(6) * 2^6 + sum(7) * 2^7
  BY SMT DEF (+), Xor
<1> HIDE DEF sum
<1>3. a (+) b = sum(0) + 2 * sum(1) + 4 * sum(2) + 8 * sum(3)
                + 16 * sum(4) + 32 * sum(5) + 64 * sum(6) + 128 * sum(7)
  BY <1>1, <1>2, SMT
<1>4. /\ a (+) b \in Byte
      /\ \A i \in 0..7 : Bit(a (+) b, i) = sum(i)
  BY <1>1, <1>3, ByteOfBits, SMT
<1> QED BY <1>4 DEF sum

\* Exclusive or is commutative.
LEMMA XorCommutes ==
  ASSUME NEW a \in Byte, NEW b \in Byte
  PROVE  a (+) b = b (+) a
BY XorBits, SameBits, BitsOfByte, SMT

\* It is associative.
LEMMA XorAssociates ==
  ASSUME NEW a \in Byte, NEW b \in Byte, NEW c \in Byte
  PROVE  a (+) (b (+) c) = (a (+) b) (+) c
<1>1. \A i \in 0..7 : Bit(a (+) (b (+) c), i) = Bit((a (+) b) (+) c, i)
  <2> TAKE i \in 0..7
  <2>1. Bit(a, i) \in {0, 1} /\ Bit(b, i) \in {0, 1} /\ Bit(c, i) \in {0, 1}
    BY BitsOfByte
  <2>2. Bit(a (+) (b (+) c), i) = (Bit(a, i) + ((Bit(b, i) + Bit(c, i)) % 2)) % 2
    BY XorBits
  <2>3. Bit((a (+) b) (+) c, i) = (((Bit(a, i) + Bit(b, i)) % 2) + Bit(c, i)) % 2
    BY XorBits
  <2> QED BY <2>1, <2>2, <2>3, SMT
<1> QED BY <1>1, XorBits, SameBits

\* Zero is neutral.
LEMMA XorZero ==
  ASSUME NEW a \in Byte
  PROVE  a (+) 0 = a /\ 0 (+) a = a
<1>1. 0 \in Byte
  BY DEF Byte
<1>2. \A i \in 0..7 : Bit(0, i) = 0
  BY ByteOfBits, SMT
<1> QED BY <1>1, <1>2, XorBits, SameBits, BitsOfByte, SMT

\* Every byte is its own inverse.
LEMMA XorSelf ==
  ASSUME NEW a \in Byte
  PROVE  a (+) a = 0
<1>1. 0 \in Byte
  BY DEF Byte
<1>2. \A i \in 0..7 : Bit(0, i) = 0
  BY ByteOfBits, SMT
<1> QED BY <1>1, <1>2, XorBits, SameBits, BitsOfByte, SMT

\* The sum of four bytes, written out: XorOf counts them in from zero.
LEMMA XorOfFour ==
  ASSUME NEW f
  PROVE  XorOf(f, 4) = (((0 (+) f[0]) (+) f[1]) (+) f[2]) (+) f[3]
<1> DEFINE Sums(s) == s = [i \in 0..4 |-> IF i = 0 THEN 0 ELSE s[i - 1] (+) f[i - 1]]
           first == CHOOSE s : Sums(s)
<1>1. \E s : Sums(s)
  <2> WITNESS [i \in 0..4 |->
        << 0, 0 (+) f[0], (0 (+) f[0]) (+) f[1], ((0 (+) f[0]) (+) f[1]) (+) f[2],
           (((0 (+) f[0]) (+) f[1]) (+) f[2]) (+) f[3] >>[i + 1]]
  <2> QED BY SMT
<1>2. Sums(first)
  BY <1>1, Zenon
<1>3. XorOf(f, 4) = first[4]
  BY Zenon DEF XorOf
<1> HIDE DEF first
<1>4. /\ first[0] = 0
      /\ first[1] = first[0] (+) f[0]
      /\ first[2] = first[1] (+) f[1]
      /\ first[3] = first[2] (+) f[2]
      /\ first[4] = first[3] (+) f[3]
  BY <1>2, SMT
<1> QED BY <1>3, <1>4

-----------------------------------------------------------------------------
(* Products *)

\* The double of a byte is a byte.
LEMMA DoubleType ==
  ASSUME NEW a \in Byte
  PROVE  Double[a] \in Byte
<1>1. (2 * a) % 256 \in Byte /\ 27 \in Byte /\ (a < 128 => 2 * a \in Byte)
  BY SMT DEF Byte
<1>2. Double[a] = IF a < 128 THEN 2 * a ELSE ((2 * a) % 256) (+) 27
  BY DEF Double
<1> QED BY <1>1, <1>2, XorBits

\* Counting down from eight, as Horner's rule does, reaches every coefficient.
LEMMA FromEightDown ==
  \A S : 8 \in S /\ (\A i \in 1..8 : i \in S => i - 1 \in S) => 0..8 \subseteq S
<1>1. /\ 8 - 1 = 7 /\ 7 - 1 = 6 /\ 6 - 1 = 5 /\ 5 - 1 = 4
      /\ 4 - 1 = 3 /\ 3 - 1 = 2 /\ 2 - 1 = 1 /\ 1 - 1 = 0
      /\ 8 \in 1..8 /\ 7 \in 1..8 /\ 6 \in 1..8 /\ 5 \in 1..8
      /\ 4 \in 1..8 /\ 3 \in 1..8 /\ 2 \in 1..8 /\ 1 \in 1..8
  BY SMT
<1>2. \A T : /\ 0 \in T /\ 1 \in T /\ 2 \in T /\ 3 \in T /\ 4 \in T
            /\ 5 \in T /\ 6 \in T /\ 7 \in T /\ 8 \in T
            => 0..8 \subseteq T
  BY SMT
<1> TAKE S
<1>3. HAVE 8 \in S /\ (\A i \in 1..8 : i \in S => i - 1 \in S)
<1>4. 7 \in S /\ 6 \in S /\ 5 \in S /\ 4 \in S
  BY <1>1, <1>3, Zenon
<1>5. 3 \in S /\ 2 \in S /\ 1 \in S /\ 0 \in S
  BY <1>1, <1>3, <1>4, Zenon
<1> QED BY <1>2, <1>3, <1>4, <1>5, Zenon

\* Times, from the highest coefficient down.
LEMMA TimesByCoefficient ==
  ASSUME NEW a \in Byte, NEW b \in Byte
  PROVE  \E above :
           /\ \A i \in 0..7 :
                above[i] = Double[above[i + 1]] (+) (IF Bit(b, i) = 1 THEN a ELSE 0)
           /\ above[8] = 0
           /\ \A i \in 0..8 : above[i] \in Byte
           /\ Times(a, b) = above[0]
<1> DEFINE term(i) == IF Bit(b, i) = 1 THEN a ELSE 0
           next(c, i) == Double[c] (+) term(i)
           Horner(s) == s = [i \in 0..8 |-> IF i = 8 THEN 0 ELSE Double[s[i + 1]] (+) term(i)]
           above == CHOOSE s : Horner(s)
<1>1. \E s : Horner(s)
  <2> DEFINE s7 == next(0, 7)  s6 == next(s7, 6)  s5 == next(s6, 5)  s4 == next(s5, 4)
             s3 == next(s4, 3) s2 == next(s3, 2)  s1 == next(s2, 1)  s0 == next(s1, 0)
  <2>1. /\ s7 = Double[0] (+) term(7)  /\ s6 = Double[s7] (+) term(6)
        /\ s5 = Double[s6] (+) term(5) /\ s4 = Double[s5] (+) term(4)
        /\ s3 = Double[s4] (+) term(3) /\ s2 = Double[s3] (+) term(2)
        /\ s1 = Double[s2] (+) term(1) /\ s0 = Double[s1] (+) term(0)
    OBVIOUS
  <2> HIDE DEF term, s7, s6, s5, s4, s3, s2, s1, s0
  <2> DEFINE s == [i \in 0..8 |-> << s0, s1, s2, s3, s4, s5, s6, s7, 0 >>[i + 1]]
  <2>2. /\ s[0] = s0 /\ s[1] = s1 /\ s[2] = s2 /\ s[3] = s3 /\ s[4] = s4
        /\ s[5] = s5 /\ s[6] = s6 /\ s[7] = s7 /\ s[8] = 0
    BY SMT
  <2>3. s = [i \in 0..8 |-> s[i]]
    OBVIOUS
  <2> HIDE DEF s
  <2>4. \A i \in 0..7 : s[i] = Double[s[i + 1]] (+) term(i)
    <3>1. /\ s[0] = Double[s[1]] (+) term(0) /\ s[1] = Double[s[2]] (+) term(1)
          /\ s[2] = Double[s[3]] (+) term(2) /\ s[3] = Double[s[4]] (+) term(3)
          /\ s[4] = Double[s[5]] (+) term(4) /\ s[5] = Double[s[6]] (+) term(5)
          /\ s[6] = Double[s[7]] (+) term(6) /\ s[7] = Double[s[8]] (+) term(7)
      BY <2>1, <2>2, ZenonT(60)
    <3>2. /\ \A i \in 0..7 : i = 0 \/ i = 1 \/ i = 2 \/ i = 3 \/ i = 4 \/ i = 5 \/ i = 6 \/ i = 7
          /\ 0 + 1 = 1 /\ 1 + 1 = 2 /\ 2 + 1 = 3 /\ 3 + 1 = 4
          /\ 4 + 1 = 5 /\ 5 + 1 = 6 /\ 6 + 1 = 7 /\ 7 + 1 = 8
      BY SMT
    <3> DEFINE Right(i) == s[i] = Double[s[i + 1]] (+) term(i)
    <3>3. /\ Right(0) /\ Right(1) /\ Right(2) /\ Right(3)
          /\ Right(4) /\ Right(5) /\ Right(6) /\ Right(7)
      BY <3>1, <3>2
    <3> HIDE DEF Right
    <3>4. \A i \in 0..7 : Right(i)
      BY <3>2, <3>3, Zenon
    <3> QED BY <3>4, Zenon DEF Right
  <2>5. s = [i \in 0..8 |-> IF i = 8 THEN 0 ELSE Double[s[i + 1]] (+) term(i)]
    BY <2>2, <2>3, <2>4, SMT
  <2> QED BY <2>5
<1>2. Horner(above)
  BY <1>1, Zenon
<1>3. Times(a, b) = above[0]
  BY Zenon DEF Times
<1> HIDE DEF above
<1>4. above[8] = 0 /\ \A i \in 0..7 : above[i] = Double[above[i + 1]] (+) term(i)
  BY <1>2, SMT
<1>5. \A i \in 0..8 : above[i] \in Byte
  <2> DEFINE Sound(i) == above[i] \in Byte
  <2>1. Sound(8)
    BY <1>4, SMT DEF Byte
  <2>2. \A i \in 1..8 : Sound(i) => Sound(i - 1)
    <3> TAKE i \in 1..8
    <3> HAVE Sound(i)
    <3>1. Double[above[i]] \in Byte
      BY DoubleType
    <3>2. term(i - 1) \in Byte
      BY <2>1, <1>4
    <3>3. above[i - 1] = Double[above[i]] (+) term(i - 1)
      BY <1>4, SMT
    <3> HIDE DEF term
    <3> QED BY <3>1, <3>2, <3>3, XorBits
  <2> DEFINE S == {i \in 0..8 : Sound(i)}
  <2>3. 8 \in S /\ \A i \in 1..8 : i \in S => i - 1 \in S
    BY <2>1, <2>2, SMT
  <2> HIDE DEF S
  <2>4. 0..8 \subseteq S
    BY <2>3, FromEightDown
  <2> QED BY <2>4 DEF S
<1> QED BY <1>3, <1>4, <1>5

\* The products the implementations need, by 1, 2 and 3.
LEMMA SmallProducts ==
  ASSUME NEW a \in Byte
  PROVE  /\ Times(a, 1) = a
         /\ Times(a, 2) = Double[a]
         /\ Times(a, 3) = Double[a] (+) a
<1>0. 0 \in Byte /\ 0 < 128 /\ 2 * 0 = 0
  BY SMT DEF Byte
<1>1. 0 \in Byte /\ Double[0] = 0 /\ Double[a] \in Byte
  BY <1>0, DoubleType, Zenon DEF Double
<1>2. ASSUME NEW b \in {1, 2, 3}
      PROVE  \E above1 \in Byte :
               /\ above1 = (IF b = 1 THEN 0 ELSE a)
               /\ Times(a, b) = Double[above1] (+) (IF b = 2 THEN 0 ELSE a)
  <2>1. b \in Byte
    BY SMT DEF Byte
  <2>2. /\ Bit(b, 0) = (IF b = 2 THEN 0 ELSE 1) /\ Bit(b, 1) = (IF b = 1 THEN 0 ELSE 1)
        /\ Bit(b, 2) = 0 /\ Bit(b, 3) = 0 /\ Bit(b, 4) = 0
        /\ Bit(b, 5) = 0 /\ Bit(b, 6) = 0 /\ Bit(b, 7) = 0
    BY ByteOfBits, SMT
  <2>3. PICK above :
           /\ \A i \in 0..7 :
                above[i] = Double[above[i + 1]] (+) (IF Bit(b, i) = 1 THEN a ELSE 0)
           /\ above[8] = 0
           /\ Times(a, b) = above[0]
    BY <2>1, TimesByCoefficient
  <2>4. 0 (+) 0 = 0 /\ 0 (+) a = a
    BY <1>1, XorZero
  <2>5. above[7] = 0 /\ above[6] = 0 /\ above[5] = 0
    BY <2>2, <2>3, <2>4, <1>1, SMT
  <2>6. above[4] = 0 /\ above[3] = 0 /\ above[2] = 0
    BY <2>2, <2>3, <2>4, <2>5, <1>1, SMT
  <2>7. above[1] = IF b = 1 THEN 0 ELSE a
    BY <2>2, <2>3, <2>4, <2>6, <1>1, SMT
  <2>8. above[0] = Double[above[1]] (+) (IF b = 2 THEN 0 ELSE a)
    BY <2>2, <2>3, SMT
  <2> QED BY <2>3, <2>7, <2>8, <1>1
<1>3. Times(a, 1) = Double[0] (+) a
  BY <1>2, SMT
<1>4. Times(a, 2) = Double[a] (+) 0
  BY <1>2, SMT
<1>5. Times(a, 3) = Double[a] (+) a
  BY <1>2, SMT
<1> QED BY <1>1, <1>3, <1>4, <1>5, XorZero

\* The shifts and reductions of the implementations.
LEMMA Scalings ==
  ASSUME NEW a \in Byte
  PROVE  /\ scale_by_2(a) = Double[a]
         /\ scale_by_3(a) = Double[a] (+) a
         /\ gf_multiply_123(1, a) = a
         /\ gf_multiply_123(2, a) = Double[a]
         /\ gf_multiply_123(3, a) = Double[a] (+) a
         /\ xtime(a) = Double[a]
<1>1. /\ (2 * a) % 256 \in Byte /\ 0 \in Byte /\ 27 \in Byte
      /\ \h1b = 27
      /\ a < 128 => (2 * a) % 256 = 2 * a
      /\ (Bit(a, 7) = 1) <=> ~(a < 128)
      /\ (a \div 128 > 0) <=> ~(a < 128)
      /\ (a > \h7f) <=> ~(a < 128)
  BY SMT DEF Byte, Bit
<1>2. Double[a] = IF a < 128 THEN 2 * a ELSE ((2 * a) % 256) (+) 27
  BY DEF Double
<1>0. 1 # 2 /\ 2 # 1 /\ 3 # 1 /\ 1 # 3 /\ 2 # 3 /\ 3 # 2
  BY SMT
<1>3. scale_by_2(a) = Double[a]
  BY <1>1, <1>2 DEF scale_by_2
<1>4. gf_multiply_123(2, a) = Double[a]
  BY <1>0, <1>1, <1>2, XorZero, Zenon DEF gf_multiply_123
<1>5. xtime(a) = Double[a]
  BY <1>1, <1>2, XorZero, XorCommutes DEF xtime
<1>6. gf_multiply_123(3, a) = gf_multiply_123(2, a) (+) a
  BY <1>0, Zenon DEF gf_multiply_123
<1>7. gf_multiply_123(1, a) = a
  BY <1>0, Zenon DEF gf_multiply_123
<1>8. scale_by_3(a) = scale_by_2(a) (+) a
  BY DEF scale_by_3
<1> QED BY <1>3, <1>4, <1>5, <1>6, <1>7, <1>8

-----------------------------------------------------------------------------
(* The substitution tables *)

\* The table of FIPS-197 holds bytes.
LEMMA TableType ==
  ASSUME NEW a \in Byte
  PROVE  S_BOX_TABLE[a + 1] \in Byte
BY SMTT(60) DEF S_BOX_TABLE, Byte

\* The three sources have the same table.
LEMMA OneTable == aes_sbox = S_BOX_TABLE /\ micro_sbox = S_BOX_TABLE
BY Zenon DEF S_BOX_TABLE, aes_sbox, micro_sbox

\* The sum of eight bytes adds up their bits modulo 2.
LEMMA XorOfEight ==
  ASSUME NEW f, \A i \in 0..7 : f[i] \in Byte
  PROVE  /\ XorOf(f, 8) \in Byte
         /\ \A k \in 0..7 :
              Bit(XorOf(f, 8), k) = (Bit(f[0], k) + Bit(f[1], k) + Bit(f[2], k) + Bit(f[3], k)
                                     + Bit(f[4], k) + Bit(f[5], k) + Bit(f[6], k) + Bit(f[7], k)) % 2
<1> DEFINE Sums(s) == s = [i \in 0..8 |-> IF i = 0 THEN 0 ELSE s[i - 1] (+) f[i - 1]]
           first == CHOOSE s : Sums(s)
<1>1. \E s : Sums(s)
  <2> DEFINE s1 == 0 (+) f[0]  s2 == s1 (+) f[1] s3 == s2 (+) f[2] s4 == s3 (+) f[3]
             s5 == s4 (+) f[4] s6 == s5 (+) f[5] s7 == s6 (+) f[6] s8 == s7 (+) f[7]
             s == [i \in 0..8 |-> << 0, s1, s2, s3, s4, s5, s6, s7, s8 >>[i + 1]]
  <2>1. /\ s1 = 0 (+) f[0]  /\ s2 = s1 (+) f[1] /\ s3 = s2 (+) f[2] /\ s4 = s3 (+) f[3]
        /\ s5 = s4 (+) f[4] /\ s6 = s5 (+) f[5] /\ s7 = s6 (+) f[6] /\ s8 = s7 (+) f[7]
    OBVIOUS
  <2> HIDE DEF s1, s2, s3, s4, s5, s6, s7, s8
  <2>2. /\ s[0] = 0  /\ s[1] = s1 /\ s[2] = s2 /\ s[3] = s3 /\ s[4] = s4
        /\ s[5] = s5 /\ s[6] = s6 /\ s[7] = s7 /\ s[8] = s8
    BY SMT
  <2>3. s = [i \in 0..8 |-> s[i]]
    OBVIOUS
  <2> HIDE DEF s
  <2>4. \A i \in 1..8 : s[i] = s[i - 1] (+) f[i - 1]
    <3>1. /\ s[1] = s[0] (+) f[0] /\ s[2] = s[1] (+) f[1] /\ s[3] = s[2] (+) f[2]
          /\ s[4] = s[3] (+) f[3] /\ s[5] = s[4] (+) f[4] /\ s[6] = s[5] (+) f[5]
          /\ s[7] = s[6] (+) f[6] /\ s[8] = s[7] (+) f[7]
      BY <2>1, <2>2
    <3> QED BY <3>1, SMT
  <2>5. s = [i \in 0..8 |-> IF i = 0 THEN 0 ELSE s[i - 1] (+) f[i - 1]]
    BY <2>2, <2>3, <2>4, SMT
  <2> QED BY <2>5
<1>2. Sums(first)
  BY <1>1, Zenon
<1>3. XorOf(f, 8) = first[8]
  BY Zenon DEF XorOf
<1> HIDE DEF first
<1>4. /\ first[0] = 0
      /\ \A i \in 0..7 : first[i + 1] = first[i] (+) f[i]
  BY <1>2, SMT
<1> DEFINE Sound(i) == first[i] \in Byte
<1>5. Sound(0)
  BY <1>4, SMT DEF Byte
<1>6. \A i \in 0..7 : Sound(i) =>
        /\ Sound(i + 1)
        /\ \A k \in 0..7 : Bit(first[i + 1], k) = (Bit(first[i], k) + Bit(f[i], k)) % 2
  <2> TAKE i \in 0..7
  <2> HAVE Sound(i)
  <2> f[i] \in Byte /\ first[i + 1] = first[i] (+) f[i]
    BY <1>4
  <2> QED BY XorBits
<1> HIDE DEF Sound
<1>7. /\ Sound(1) /\ Sound(2) /\ Sound(3) /\ Sound(4)
      /\ Sound(5) /\ Sound(6) /\ Sound(7) /\ Sound(8)
  BY <1>5, <1>6, SMT
<1>8. ASSUME NEW k \in 0..7
      PROVE  Bit(XorOf(f, 8), k) = (Bit(f[0], k) + Bit(f[1], k) + Bit(f[2], k) + Bit(f[3], k)
                                     + Bit(f[4], k) + Bit(f[5], k) + Bit(f[6], k) + Bit(f[7], k)) % 2
  <2>1. /\ Bit(first[0], k) = 0
        /\ Bit(f[0], k) \in {0, 1} /\ Bit(f[1], k) \in {0, 1} /\ Bit(f[2], k) \in {0, 1}
        /\ Bit(f[3], k) \in {0, 1} /\ Bit(f[4], k) \in {0, 1} /\ Bit(f[5], k) \in {0, 1}
        /\ Bit(f[6], k) \in {0, 1} /\ Bit(f[7], k) \in {0, 1}
    <3>1. Bit(0, k) = 0
      BY ByteOfBits, SMT
    <3> QED BY <3>1, <1>4, BitsOfByte, SMT
  <2>2. /\ Bit(first[1], k) = (Bit(first[0], k) + Bit(f[0], k)) % 2
        /\ Bit(first[2], k) = (Bit(first[1], k) + Bit(f[1], k)) % 2
        /\ Bit(first[3], k) = (Bit(first[2], k) + Bit(f[2], k)) % 2
        /\ Bit(first[4], k) = (Bit(first[3], k) + Bit(f[3], k)) % 2
        /\ Bit(first[5], k) = (Bit(first[4], k) + Bit(f[4], k)) % 2
        /\ Bit(first[6], k) = (Bit(first[5], k) + Bit(f[5], k)) % 2
        /\ Bit(first[7], k) = (Bit(first[6], k) + Bit(f[6], k)) % 2
        /\ Bit(first[8], k) = (Bit(first[7], k) + Bit(f[7], k)) % 2
    BY <1>5, <1>6, <1>7, SMT
  <2>3. \A s \in Nat, b \in {0, 1} : ((s % 2) + b) % 2 = (s + b) % 2
    BY SMT
  <2> DEFINE b(i) == Bit(f[i], k)
             bits(i) == Bit(first[i], k)
  <2>4. /\ b(0) \in {0, 1} /\ b(1) \in {0, 1} /\ b(2) \in {0, 1} /\ b(3) \in {0, 1}
        /\ b(4) \in {0, 1} /\ b(5) \in {0, 1} /\ b(6) \in {0, 1} /\ b(7) \in {0, 1}
    BY <2>1, Zenon
  <2>5. /\ bits(0) = 0
        /\ bits(1) = (bits(0) + b(0)) % 2 /\ bits(2) = (bits(1) + b(1)) % 2
        /\ bits(3) = (bits(2) + b(2)) % 2 /\ bits(4) = (bits(3) + b(3)) % 2
        /\ bits(5) = (bits(4) + b(4)) % 2 /\ bits(6) = (bits(5) + b(5)) % 2
        /\ bits(7) = (bits(6) + b(6)) % 2 /\ bits(8) = (bits(7) + b(7)) % 2
    BY <2>1, <2>2
  <2> HIDE DEF b, bits
  <2>6. bits(1) = b(0) % 2
    BY <2>4, <2>5, SMT
  <2>7. bits(2) = (b(0) + b(1)) % 2
    BY <2>3, <2>4, <2>5, <2>6, SMT
  <2>8. bits(3) = (b(0) + b(1) + b(2)) % 2
    BY <2>3, <2>4, <2>5, <2>7, SMT
  <2>9. bits(4) = (b(0) + b(1) + b(2) + b(3)) % 2
    BY <2>3, <2>4, <2>5, <2>8, SMT
  <2>10. bits(5) = (b(0) + b(1) + b(2) + b(3) + b(4)) % 2
    BY <2>3, <2>4, <2>5, <2>9, SMT
  <2>11. bits(6) = (b(0) + b(1) + b(2) + b(3) + b(4) + b(5)) % 2
    BY <2>3, <2>4, <2>5, <2>10, SMT
  <2>12. bits(7) = (b(0) + b(1) + b(2) + b(3) + b(4) + b(5) + b(6)) % 2
    BY <2>3, <2>4, <2>5, <2>11, SMT
  <2>13. bits(8) = (b(0) + b(1) + b(2) + b(3) + b(4) + b(5) + b(6) + b(7)) % 2
    BY <2>3, <2>4, <2>5, <2>12, SMT
  <2> QED BY <1>3, <2>13 DEF b, bits
<1> QED BY <1>3, <1>7, <1>8 DEF Sound

\* Bits at their places, put together.
LEMMA PlacedBits ==
  ASSUME NEW e \in [0..7 -> {0, 1}]
  PROVE  /\ XorOf([i \in 0..7 |-> e[i] * 2^i], 8) \in Byte
         /\ \A k \in 0..7 : Bit(XorOf([i \in 0..7 |-> e[i] * 2^i], 8), k) = e[k]
<1> DEFINE f == [i \in 0..7 |-> e[i] * 2^i]
<1>1. /\ e[0] \in {0, 1} /\ e[1] \in {0, 1} /\ e[2] \in {0, 1} /\ e[3] \in {0, 1}
      /\ e[4] \in {0, 1} /\ e[5] \in {0, 1} /\ e[6] \in {0, 1} /\ e[7] \in {0, 1}
  BY SMT
<1>2. /\ f[0] = e[0]      /\ f[1] = e[1] * 2   /\ f[2] = e[2] * 4  /\ f[3] = e[3] * 8
      /\ f[4] = e[4] * 16 /\ f[5] = e[5] * 32  /\ f[6] = e[6] * 64 /\ f[7] = e[7] * 128
  BY <1>1, SMT
<1> HIDE DEF f
<1>3. \A i \in 0..7 : f[i] \in Byte /\ \A k \in 0..7 : Bit(f[i], k) = IF k = i THEN e[i] ELSE 0
  <2>1. ASSUME NEW b \in {0, 1}
        PROVE  /\ b \in Byte /\ b * 2 \in Byte /\ b * 4 \in Byte /\ b * 8 \in Byte
               /\ b * 16 \in Byte /\ b * 32 \in Byte /\ b * 64 \in Byte /\ b * 128 \in Byte
               /\ \A k \in 0..7 : /\ Bit(b, k) = (IF k = 0 THEN b ELSE 0)
                                  /\ Bit(b * 2, k) = (IF k = 1 THEN b ELSE 0)
                                  /\ Bit(b * 4, k) = (IF k = 2 THEN b ELSE 0)
                                  /\ Bit(b * 8, k) = (IF k = 3 THEN b ELSE 0)
                                  /\ Bit(b * 16, k) = (IF k = 4 THEN b ELSE 0)
                                  /\ Bit(b * 32, k) = (IF k = 5 THEN b ELSE 0)
                                  /\ Bit(b * 64, k) = (IF k = 6 THEN b ELSE 0)
                                  /\ Bit(b * 128, k) = (IF k = 7 THEN b ELSE 0)
    <3>1. CASE b = 0
      BY <3>1, ByteOfBits, SMT
    <3>2. CASE b = 1
      BY <3>2, ByteOfBits, SMT
    <3> QED BY <3>1, <3>2
  <2> QED BY <1>1, <1>2, <2>1, SMT
<1>4. /\ XorOf(f, 8) \in Byte
      /\ \A k \in 0..7 :
            Bit(XorOf(f, 8), k) = (Bit(f[0], k) + Bit(f[1], k) + Bit(f[2], k) + Bit(f[3], k)
                                   + Bit(f[4], k) + Bit(f[5], k) + Bit(f[6], k) + Bit(f[7], k)) % 2
  BY <1>3, XorOfEight
<1>5. \A k \in 0..7 : Bit(XorOf(f, 8), k) = e[k]
  BY <1>1, <1>3, <1>4, SMT
<1> QED BY <1>4, <1>5 DEF f

\* Bit by bit, the ROMs answer the entries of the table.
LEMMA RomEntries ==
  ASSUME NEW a \in Byte
  PROVE  lookup_table_256x8(a) = S_BOX_TABLE[a + 1]
<1> DEFINE entry == S_BOX_TABLE[a + 1]
           e == [i \in 0..7 |-> Bit(entry, i)]
           f == [i \in 0..7 |-> RomBits[i][a] * 2^i]
<1>1. entry \in Byte
  BY TableType
<1>2. f = [i \in 0..7 |-> e[i] * 2^i]
  BY Zenon DEF RomBits, ith_bit_from_entries
<1>3. XorOf(f, 8) = lookup_table_256x8(a)
  BY Zenon DEF lookup_table_256x8, RomWords
<1> HIDE DEF entry, f
<1>4. e \in [0..7 -> {0, 1}]
  BY <1>1, BitsOfByte
<1>5. \A i \in 0..7 : e[i] = Bit(entry, i)
  OBVIOUS
<1> HIDE DEF e
<1>6. XorOf(f, 8) = entry
  BY <1>1, <1>2, <1>4, <1>5, PlacedBits, SameBits
<1> QED BY <1>3, <1>6 DEF entry

-----------------------------------------------------------------------------
(* The multiplicative group *)

\* Doubling shifts the bits and folds the highest into four of them.
LEMMA DoubleBits ==
  ASSUME NEW a \in Byte
  PROVE  /\ Bit(Double[a], 0) = Bit(a, 7)
         /\ Bit(Double[a], 1) = (Bit(a, 0) + Bit(a, 7)) % 2
         /\ Bit(Double[a], 2) = Bit(a, 1)
         /\ Bit(Double[a], 3) = (Bit(a, 2) + Bit(a, 7)) % 2
         /\ Bit(Double[a], 4) = (Bit(a, 3) + Bit(a, 7)) % 2
         /\ Bit(Double[a], 5) = Bit(a, 4)
         /\ Bit(Double[a], 6) = Bit(a, 5)
         /\ Bit(Double[a], 7) = Bit(a, 6)
<1> DEFINE shifted == (2 * a) % 256
<1>1. /\ shifted \in Byte /\ 27 \in Byte
      /\ a < 128 => 2 * a = shifted /\ Bit(a, 7) = 0
      /\ ~(a < 128) => Bit(a, 7) = 1
  BY SMT DEF Byte, Bit
<1>2. /\ Bit(27, 0) = 1 /\ Bit(27, 1) = 1 /\ Bit(27, 2) = 0 /\ Bit(27, 3) = 1
      /\ Bit(27, 4) = 1 /\ Bit(27, 5) = 0 /\ Bit(27, 6) = 0 /\ Bit(27, 7) = 0
  BY SMT DEF Bit
<1>3. /\ Bit(shifted, 0) = 0         /\ Bit(shifted, 1) = Bit(a, 0)
      /\ Bit(shifted, 2) = Bit(a, 1) /\ Bit(shifted, 3) = Bit(a, 2)
      /\ Bit(shifted, 4) = Bit(a, 3) /\ Bit(shifted, 5) = Bit(a, 4)
      /\ Bit(shifted, 6) = Bit(a, 5) /\ Bit(shifted, 7) = Bit(a, 6)
  BY SMT DEF Bit, Byte
<1>4. Double[a] = IF a < 128 THEN 2 * a ELSE shifted (+) 27
  BY DEF Double
<1>5. /\ Bit(a, 0) \in {0, 1} /\ Bit(a, 1) \in {0, 1} /\ Bit(a, 2) \in {0, 1}
      /\ Bit(a, 3) \in {0, 1} /\ Bit(a, 4) \in {0, 1} /\ Bit(a, 5) \in {0, 1}
      /\ Bit(a, 6) \in {0, 1}
  BY BitsOfByte
<1> HIDE DEF shifted
<1>6. CASE a < 128
  BY <1>1, <1>3, <1>4, <1>5, <1>6, SMT
<1>7. CASE ~(a < 128)
  <2>1. \A i \in 0..7 : Bit(Double[a], i) = (Bit(shifted, i) + Bit(27, i)) % 2
    BY <1>1, <1>4, <1>7, XorBits
  <2> QED BY <2>1, <1>1, <1>2, <1>3, <1>5, <1>7, SMT
<1> QED BY <1>6, <1>7

\* Doubling is linear.
LEMMA DoubleXor ==
  ASSUME NEW a \in Byte, NEW b \in Byte
  PROVE  Double[a (+) b] = Double[a] (+) Double[b]
<1>1. a (+) b \in Byte /\ Double[a] \in Byte /\ Double[b] \in Byte
  BY XorBits, DoubleType
<1>2. Double[a (+) b] \in Byte /\ Double[a] (+) Double[b] \in Byte
  BY <1>1, XorBits, DoubleType
<1> DEFINE A(i) == Bit(a, i)  B(i) == Bit(b, i)  S(i) == Bit(a (+) b, i)
<1>3. /\ \A i \in 0..7 : A(i) \in {0, 1} /\ B(i) \in {0, 1} /\ S(i) = (A(i) + B(i)) % 2
      /\ \A i \in 0..7 : Bit(Double[a] (+) Double[b], i)
                           = (Bit(Double[a], i) + Bit(Double[b], i)) % 2
  BY <1>1, BitsOfByte, XorBits
<1>4. \A i \in 0..7 : Bit(Double[a (+) b], i) = Bit(Double[a] (+) Double[b], i)
  <2>1. \A x, y, z, w \in {0, 1} :
          (((x + y) % 2) + ((z + w) % 2)) % 2 = (((x + z) % 2) + ((y + w) % 2)) % 2
    BY SMT
  <2> QED BY <1>1, <1>3, <2>1, DoubleBits, SMT
<1> QED BY <1>2, <1>4, SameBits

\* The product with 3, the generator of the group.
Triple(a) == Double[a] (+) a

\* Two of four summands change places.
LEMMA XorSwap ==
  ASSUME NEW a \in Byte, NEW b \in Byte, NEW c \in Byte, NEW d \in Byte
  PROVE  (a (+) b) (+) (c (+) d) = (a (+) c) (+) (b (+) d)
<1>1. /\ a (+) b \in Byte /\ c (+) d \in Byte /\ a (+) c \in Byte /\ b (+) d \in Byte
      /\ b (+) c \in Byte /\ c (+) b \in Byte
  BY XorBits
<1>2. (a (+) b) (+) (c (+) d) = a (+) (b (+) (c (+) d))
  BY <1>1, XorAssociates
<1>3. b (+) (c (+) d) = (c (+) b) (+) d
  BY <1>1, XorAssociates, XorCommutes
<1>4. (c (+) b) (+) d = c (+) (b (+) d)
  BY <1>1, XorAssociates
<1>5. a (+) (c (+) (b (+) d)) = (a (+) c) (+) (b (+) d)
  BY <1>1, XorAssociates
<1> QED BY <1>2, <1>3, <1>4, <1>5

\* The triple of a byte is a byte.
LEMMA TripleType ==
  ASSUME NEW a \in Byte
  PROVE  Triple(a) \in Byte
BY DoubleType, XorBits DEF Triple

\* Tripling is linear.
LEMMA TripleXor ==
  ASSUME NEW a \in Byte, NEW b \in Byte
  PROVE  Triple(a (+) b) = Triple(a) (+) Triple(b)
<1>1. Double[a] \in Byte /\ Double[b] \in Byte
  BY DoubleType
<1>2. (Double[a] (+) Double[b]) (+) (a (+) b) = (Double[a] (+) a) (+) (Double[b] (+) b)
  BY <1>1, XorSwap
<1> QED BY <1>2, DoubleXor DEF Triple

\* Doubling and tripling commute.
LEMMA TripleDouble ==
  ASSUME NEW a \in Byte
  PROVE  Double[Triple(a)] = Triple(Double[a])
BY DoubleType, DoubleXor DEF Triple

\* A factor of 3 can be taken out of a product.
LEMMA TimesTriple ==
  ASSUME NEW a \in Byte, NEW b \in Byte
  PROVE  Times(Triple(a), b) = Triple(Times(a, b))
<1>1. PICK above :
         /\ \A i \in 0..7 : above[i] = Double[above[i + 1]] (+) (IF Bit(b, i) = 1 THEN a ELSE 0)
         /\ above[8] = 0
         /\ \A i \in 0..8 : above[i] \in Byte
         /\ Times(a, b) = above[0]
  BY TimesByCoefficient
<1>2. PICK tripled :
         /\ \A i \in 0..7 : tripled[i] = Double[tripled[i + 1]]
                                           (+) (IF Bit(b, i) = 1 THEN Triple(a) ELSE 0)
         /\ tripled[8] = 0
         /\ \A i \in 0..8 : tripled[i] \in Byte
         /\ Times(Triple(a), b) = tripled[0]
  BY TimesByCoefficient, TripleType
<1>3. 0 \in Byte /\ Triple(0) = 0
  <2>1. 0 \in Byte /\ 0 < 128 /\ 2 * 0 = 0
    BY SMT DEF Byte
  <2>2. Double[0] = 0
    BY <2>1, Zenon DEF Double
  <2> QED BY <2>1, <2>2, XorZero DEF Triple
<1> DEFINE S == {i \in 0..8 : tripled[i] = Triple(above[i])}
<1>4. 8 \in S
  BY <1>1, <1>2, <1>3
<1>5. \A i \in 1..8 : i \in S => i - 1 \in S
  <2> TAKE i \in 1..8
  <2> HAVE i \in S
  <2> DEFINE term == IF Bit(b, i - 1) = 1 THEN a ELSE 0
  <2>1. i - 1 \in 0..7 /\ i - 1 \in 0..8 /\ (i - 1) + 1 = i /\ i \in 0..8
    BY SMT
  <2>2. above[i - 1] = Double[above[i]] (+) term
    BY <2>1, <1>1, Zenon
  <2>3. tripled[i - 1] = Double[tripled[i]] (+) Triple(term)
    BY <2>1, <1>2, <1>3, Zenon
  <2>4. term \in Byte /\ above[i] \in Byte /\ Double[above[i]] \in Byte
    BY <2>1, <1>1, <1>3, DoubleType
  <2>5. tripled[i] = Triple(above[i])
    OBVIOUS
  <2> HIDE DEF term
  <2>6. Triple(above[i - 1]) = Triple(Double[above[i]]) (+) Triple(term)
    BY <2>2, <2>4, TripleXor
  <2> QED BY <2>1, <2>3, <2>4, <2>5, <2>6, TripleDouble
<1> HIDE DEF S
<1>6. 0..8 \subseteq S
  BY <1>4, <1>5, FromEightDown
<1>7. 0 \in S
  BY <1>6, SMT
<1> QED BY <1>1, <1>2, <1>7 DEF S

\* A product with zero is zero.
LEMMA TimesZero ==
  ASSUME NEW a \in Byte
  PROVE  Times(a, 0) = 0
<1>1. 0 \in Byte /\ Double[0] = 0 /\ 0 (+) 0 = 0
  <2>1. 0 \in Byte /\ 0 < 128 /\ 2 * 0 = 0
    BY SMT DEF Byte
  <2>2. Double[0] = 0
    BY <2>1, Zenon DEF Double
  <2> QED BY <2>1, <2>2, XorZero
<1>2. PICK above :
         /\ \A i \in 0..7 : above[i] = Double[above[i + 1]] (+) (IF Bit(0, i) = 1 THEN a ELSE 0)
         /\ above[8] = 0
         /\ Times(a, 0) = above[0]
  BY <1>1, TimesByCoefficient
<1>3. \A i \in 0..7 : Bit(0, i) # 1
  <2> \A i \in 0..7 : Bit(0, i) = 0
    BY ByteOfBits, SMT
  <2> QED BY SMT
<1> DEFINE S == {i \in 0..8 : above[i] = 0}
<1>4. \A i \in 1..8 : i \in S => i - 1 \in S
  <2> TAKE i \in 1..8
  <2> HAVE i \in S
  <2>1. i - 1 \in 0..7 /\ i - 1 \in 0..8 /\ (i - 1) + 1 = i
    BY SMT
  <2>2. above[i - 1] = Double[above[i]] (+) 0
    BY <2>1, <1>2, <1>3, Zenon
  <2> QED BY <1>1, <2>1, <2>2
<1>5. 8 \in S
  BY <1>2
<1> HIDE DEF S
<1>6. 0..8 \subseteq S
  BY <1>4, <1>5, FromEightDown
<1>7. 0 \in S
  BY <1>6, SMT
<1> QED BY <1>2, <1>7 DEF S

\* One is neutral on the left.
LEMMA OneTimes ==
  ASSUME NEW b \in Byte
  PROVE  Times(1, b) = b
<1>1. PICK above :
         /\ \A i \in 0..7 : above[i] = Double[above[i + 1]] (+) (IF Bit(b, i) = 1 THEN 1 ELSE 0)
         /\ above[8] = 0
         /\ Times(1, b) = above[0]
  <2> 1 \in Byte
    BY SMT DEF Byte
  <2> QED BY TimesByCoefficient
<1>2. \A i \in 0..7 : Bit(b, i) \in {0, 1}
  BY BitsOfByte
<1>3. ASSUME NEW c \in 0..127, NEW d \in {0, 1}
      PROVE  Double[c] (+) d = 2 * c + d
  <2>1. /\ c \in Byte /\ d \in Byte /\ 2 * c \in Byte /\ 2 * c + d \in Byte
        /\ \A i \in 1..7 : Bit(d, i) = 0
        /\ Bit(d, 0) = d /\ Bit(2 * c, 0) = 0 /\ Bit(2 * c + d, 0) = d
    <3>1. c \in Byte /\ d \in Byte /\ 2 * c \in Byte /\ 2 * c + d \in Byte
      BY SMT DEF Byte
    <3>2. /\ Bit(d, 0) = d /\ Bit(2 * c, 0) = 0 /\ Bit(2 * c + d, 0) = d
      BY SMT DEF Bit
    <3>3. /\ Bit(d, 1) = 0 /\ Bit(d, 2) = 0 /\ Bit(d, 3) = 0 /\ Bit(d, 4) = 0
          /\ Bit(d, 5) = 0 /\ Bit(d, 6) = 0 /\ Bit(d, 7) = 0
      BY SMT DEF Bit
    <3> QED BY <3>1, <3>2, <3>3, SMT
  <2>2. /\ Bit(2 * c + d, 1) = Bit(2 * c, 1) /\ Bit(2 * c + d, 2) = Bit(2 * c, 2)
        /\ Bit(2 * c + d, 3) = Bit(2 * c, 3) /\ Bit(2 * c + d, 4) = Bit(2 * c, 4)
        /\ Bit(2 * c + d, 5) = Bit(2 * c, 5) /\ Bit(2 * c + d, 6) = Bit(2 * c, 6)
        /\ Bit(2 * c + d, 7) = Bit(2 * c, 7)
    <3>1. CASE d = 0
      BY <3>1, SMT
    <3>2. CASE d = 1
      <4>1. /\ (2 * c + 1) \div 2 = c        /\ (2 * c) \div 2 = c
            /\ (2 * c + 1) \div 4 = c \div 2  /\ (2 * c) \div 4 = c \div 2
            /\ (2 * c + 1) \div 8 = c \div 4  /\ (2 * c) \div 8 = c \div 4
            /\ (2 * c + 1) \div 16 = c \div 8 /\ (2 * c) \div 16 = c \div 8
        BY SMT
      <4>2. /\ (2 * c + 1) \div 32 = c \div 16  /\ (2 * c) \div 32 = c \div 16
            /\ (2 * c + 1) \div 64 = c \div 32  /\ (2 * c) \div 64 = c \div 32
            /\ (2 * c + 1) \div 128 = c \div 64 /\ (2 * c) \div 128 = c \div 64
        BY SMT
      <4> QED BY <3>2, <4>1, <4>2, SMT DEF Bit
    <3> QED BY <3>1, <3>2
  <2>3. Double[c] = 2 * c
    <3> c < 128
      OBVIOUS
    <3> QED BY <2>1, Zenon DEF Double
  <2>4. /\ 2 * c (+) d \in Byte
        /\ \A i \in 0..7 : Bit(2 * c (+) d, i) = (Bit(2 * c, i) + Bit(d, i)) % 2
    BY <2>1, XorBits
  <2>5. \A i \in 0..7 : Bit(2 * c, i) \in {0, 1}
    BY <2>1, BitsOfByte
  <2>6. \A i \in 0..7 : Bit(2 * c (+) d, i) = Bit(2 * c + d, i)
    BY <2>1, <2>2, <2>4, <2>5, SMT
  <2> QED BY <2>1, <2>3, <2>4, <2>6, SameBits, ZenonT(60)
<1> DEFINE bit(i) == Bit(b, i)
<1>4. ASSUME NEW i \in 0..7, NEW c \in 0..127, above[i + 1] = c
      PROVE  above[i] = 2 * c + bit(i)
  <2>1. above[i] = Double[c] (+) bit(i) /\ bit(i) \in {0, 1}
    BY <1>1, <1>2, <1>4
  <2> QED BY <1>3, <2>1, Zenon
<1>5. /\ bit(0) \in {0, 1} /\ bit(1) \in {0, 1} /\ bit(2) \in {0, 1} /\ bit(3) \in {0, 1}
      /\ bit(4) \in {0, 1} /\ bit(5) \in {0, 1} /\ bit(6) \in {0, 1} /\ bit(7) \in {0, 1}
  BY <1>2
<1>6. b = bit(0) + 2 * bit(1) + 4 * bit(2) + 8 * bit(3)
           + 16 * bit(4) + 32 * bit(5) + 64 * bit(6) + 128 * bit(7)
  BY BitsOfByte
<1> HIDE DEF bit
<1>7. above[7] = bit(7)
  BY <1>1, <1>4, <1>5
<1>8. above[6] = 2 * bit(7) + bit(6)
  BY <1>4, <1>5, <1>7
<1>9. above[5] = 4 * bit(7) + 2 * bit(6) + bit(5)
  BY <1>4, <1>5, <1>8
<1>10. above[4] = 8 * bit(7) + 4 * bit(6) + 2 * bit(5) + bit(4)
  BY <1>4, <1>5, <1>9
<1>11. above[3] = 16 * bit(7) + 8 * bit(6) + 4 * bit(5) + 2 * bit(4) + bit(3)
  BY <1>4, <1>5, <1>10
<1>12. above[2] = 32 * bit(7) + 16 * bit(6) + 8 * bit(5) + 4 * bit(4) + 2 * bit(3) + bit(2)
  BY <1>4, <1>5, <1>11
<1>13. above[1] = 64 * bit(7) + 32 * bit(6) + 16 * bit(5) + 8 * bit(4)
                    + 4 * bit(3) + 2 * bit(2) + bit(1)
  BY <1>4, <1>5, <1>12
<1>14. above[0] = 128 * bit(7) + 64 * bit(6) + 32 * bit(5) + 16 * bit(4)
                    + 8 * bit(3) + 4 * bit(2) + 2 * bit(1) + bit(0)
  BY <1>4, <1>5, <1>13
<1> QED BY <1>1, <1>5, <1>6, <1>14, SMT

\* The exponents of the generator, which are added modulo 255, and its powers.
Exponents == 0..254
Units     == 1..255
Power(k)  == Powers[k + 1]
Sum(j, k) == (j + k) % 255

\* The exponents are the numbers modulo 255.
LEMMA Sums ==
  /\ 0 \in Exponents /\ Exponents \subseteq Nat /\ Exponents \subseteq Byte
  /\ Units \subseteq Byte
  /\ \A a \in Byte : a # 0 => a \in Units
  /\ \A j \in Exponents, n \in Nat : Sum(j, n) \in Exponents
  /\ \A j \in Exponents : Sum(j, 0) = j /\ Sum(0, j) = j
  /\ \A j \in Exponents, k \in Exponents : Sum(j, k) = Sum(k, j)
<1>1. /\ 0 \in Exponents /\ Exponents \subseteq Nat /\ Exponents \subseteq Byte
      /\ Units \subseteq Byte
      /\ \A a \in Byte : a # 0 => a \in Units
  BY SMT DEF Exponents, Units, Byte
<1>2. \A j \in Exponents, n \in Nat : Sum(j, n) \in Exponents
  BY SMT DEF Exponents, Sum
<1>3. \A j \in Exponents : Sum(j, 0) = j /\ Sum(0, j) = j
  BY SMT DEF Exponents, Sum
<1>4. \A j \in Exponents, k \in Exponents : Sum(j, k) = Sum(k, j)
  BY SMT DEF Exponents, Sum
<1> QED BY <1>1, <1>2, <1>3, <1>4

\* Adding one number after the other adds their sum.
LEMMA SumOfSums ==
  \A j \in Exponents, m \in Nat, n \in Nat : Sum(Sum(j, m), n) = Sum(j, m + n)
BY SMT DEF Exponents, Sum

\* Every exponent has one opposite.
LEMMA Opposites ==
  /\ \A j \in Exponents : Sum(0, 255 - j) \in Exponents /\ Sum(j, Sum(0, 255 - j)) = 0
  /\ \A j \in Exponents, k \in Exponents : Sum(j, k) = 0 => k = Sum(0, 255 - j)
BY SMT DEF Exponents, Sum

\* The tables of powers and logarithms are inverse to one another.
LEMMA PowersAndLogs ==
  /\ Power(0) = 1
  /\ \A k \in Exponents : Power(k) \in Units /\ Logs[Power(k)] = k
  /\ \A a \in Units : Logs[a] \in Exponents /\ Power(Logs[a]) = a
<1>1. Power(0) = 1
  BY SMT DEF Powers, Power
<1>2. \A k \in Exponents : Power(k) \in Units
  BY SMTT(60) DEF Powers, Power, Exponents, Units
<1>3. \A k \in Exponents : Logs[Power(k)] = k
  BY SMTT(60) DEF Powers, Logs, Power, Exponents
<1>4. \A a \in Units : Logs[a] \in Exponents /\ Power(Logs[a]) = a
  BY SMTT(60) DEF Powers, Logs, Power, Exponents, Units
<1> QED BY <1>1, <1>2, <1>3, <1>4, Zenon

\* The powers of 3 come in the order of the table, and start over.
LEMMA NextPower ==
  ASSUME NEW k \in Exponents
  PROVE  Triple(Power(k)) = Power(Sum(k, 1))
<1> DEFINE x == Power(k)
           y == Power(Sum(k, 1))
<1>1. /\ Bit(y, 0) = (Bit(x, 0) + Bit(x, 7)) % 2
      /\ Bit(y, 1) = (Bit(x, 1) + Bit(x, 0) + Bit(x, 7)) % 2
      /\ Bit(y, 2) = (Bit(x, 2) + Bit(x, 1)) % 2
      /\ Bit(y, 3) = (Bit(x, 3) + Bit(x, 2) + Bit(x, 7)) % 2
      /\ Bit(y, 4) = (Bit(x, 4) + Bit(x, 3) + Bit(x, 7)) % 2
      /\ Bit(y, 5) = (Bit(x, 5) + Bit(x, 4)) % 2
      /\ Bit(y, 6) = (Bit(x, 6) + Bit(x, 5)) % 2
      /\ Bit(y, 7) = (Bit(x, 7) + Bit(x, 6)) % 2
  BY SMTT(60) DEF Powers, Power, Exponents, Sum, Bit
<1>2. x \in Byte /\ y \in Byte
  <2>1. 1 \in Nat
    BY SMT
  <2>2. Sum(k, 1) \in Exponents
    BY <2>1, Sums, Zenon
  <2> QED BY <2>2, PowersAndLogs, Sums, Zenon
<1> HIDE DEF x, y
<1>3. /\ Triple(x) \in Byte
      /\ \A i \in 0..7 : Bit(Triple(x), i) = (Bit(Double[x], i) + Bit(x, i)) % 2
  BY <1>2, DoubleType, XorBits DEF Triple
<1>4. /\ Bit(x, 0) \in {0, 1} /\ Bit(x, 1) \in {0, 1} /\ Bit(x, 2) \in {0, 1}
      /\ Bit(x, 3) \in {0, 1} /\ Bit(x, 4) \in {0, 1} /\ Bit(x, 5) \in {0, 1}
      /\ Bit(x, 6) \in {0, 1} /\ Bit(x, 7) \in {0, 1}
  BY <1>2, BitsOfByte
<1>5. \A i \in 0..7 : Bit(Triple(x), i) = Bit(y, i)
  BY <1>1, <1>2, <1>3, <1>4, DoubleBits, SMT
<1> QED BY <1>2, <1>3, <1>5, SameBits DEF x, y

\* Multiplication adds the exponents.
LEMMA ProductOfPowers ==
  ASSUME NEW k \in Exponents, NEW j \in Exponents
  PROVE  Times(Power(k), Power(j)) = Power(Sum(k, j))
<1> DEFINE Product(a, b, c) == Times(Power(a), Power(b)) = Power(c)
           Ahead(n) == \A a, b, c \in Exponents :
             Product(a, b, c) => Product(Sum(a, n), b, Sum(c, n))
<1>1. \A n \in Exponents : Power(n) \in Byte /\ Triple(Power(n)) = Power(Sum(n, 1))
  BY PowersAndLogs, NextPower, Sums, Zenon
<1>2. Ahead(0)
  BY Sums, Zenon
<1>3. Ahead(1)
  <2> TAKE a, b, c \in Exponents
  <2> HAVE Product(a, b, c)
  <2>1. Times(Triple(Power(a)), Power(b)) = Triple(Power(c))
    BY <1>1, TimesTriple, ZenonT(60)
  <2> QED BY <1>1, <2>1, Zenon
<1> HIDE DEF Product
<1>4. ASSUME NEW m \in Nat, NEW n \in Nat, Ahead(m), Ahead(n)
      PROVE  Ahead(m + n)
  <2> TAKE a, b, c \in Exponents
  <2> HAVE Product(a, b, c)
  <2>1. Sum(a, m) \in Exponents /\ Sum(c, m) \in Exponents
    BY Sums, Zenon
  <2>2. Product(Sum(a, m), b, Sum(c, m))
    BY <1>4, Zenon
  <2>3. Product(Sum(Sum(a, m), n), b, Sum(Sum(c, m), n))
    BY <1>4, <2>1, <2>2, Zenon
  <2> QED BY <2>3, SumOfSums, Zenon
<1> HIDE DEF Ahead
<1>5. /\ Ahead(2) /\ Ahead(4) /\ Ahead(8) /\ Ahead(16)
      /\ Ahead(32) /\ Ahead(64) /\ Ahead(128)
  <2>1. Ahead(1 + 1)
    BY <1>3, <1>4
  <2>2. Ahead(2 + 2)
    BY <2>1, <1>4
  <2>3. Ahead(4 + 4)
    BY <2>2, <1>4
  <2>4. Ahead(8 + 8)
    BY <2>3, <1>4
  <2>5. Ahead(16 + 16)
    BY <2>4, <1>4
  <2>6. Ahead(32 + 32)
    BY <2>5, <1>4
  <2>7. Ahead(64 + 64)
    BY <2>6, <1>4
  <2> QED BY <2>1, <2>2, <2>3, <2>4, <2>5, <2>6, <2>7, SMT
<1>6. Ahead(k)
  <2> DEFINE bit(i) == Bit(k, i)
  <2>1. k \in Byte
    BY Sums
  <2>2. /\ bit(0) \in {0, 1} /\ bit(1) \in {0, 1} /\ bit(2) \in {0, 1} /\ bit(3) \in {0, 1}
        /\ bit(4) \in {0, 1} /\ bit(5) \in {0, 1} /\ bit(6) \in {0, 1} /\ bit(7) \in {0, 1}
        /\ k = bit(0) + 2 * bit(1) + 4 * bit(2) + 8 * bit(3)
               + 16 * bit(4) + 32 * bit(5) + 64 * bit(6) + 128 * bit(7)
    BY <2>1, BitsOfByte
  <2> HIDE DEF bit
  <2>3. /\ Ahead(bit(0)) /\ Ahead(2 * bit(1)) /\ Ahead(4 * bit(2)) /\ Ahead(8 * bit(3))
        /\ Ahead(16 * bit(4)) /\ Ahead(32 * bit(5)) /\ Ahead(64 * bit(6)) /\ Ahead(128 * bit(7))
        /\ bit(0) \in Nat /\ 2 * bit(1) \in Nat /\ 4 * bit(2) \in Nat /\ 8 * bit(3) \in Nat
        /\ 16 * bit(4) \in Nat /\ 32 * bit(5) \in Nat /\ 64 * bit(6) \in Nat
        /\ 128 * bit(7) \in Nat
    <3>1. \A n \in Nat, b \in {0, 1} : Ahead(n) => Ahead(n * b) /\ n * b \in Nat
      <4> TAKE n \in Nat, b \in {0, 1}
      <4> HAVE Ahead(n)
      <4>1. n * 0 = 0 /\ n * 1 = n /\ 0 \in Nat
        BY SMT
      <4> QED BY <4>1, <1>2
    <3>2. bit(0) = 1 * bit(0)
      BY <2>2, SMT
    <3>3. 1 \in Nat /\ 2 \in Nat /\ 4 \in Nat /\ 8 \in Nat /\ 16 \in Nat /\ 32 \in Nat
          /\ 64 \in Nat /\ 128 \in Nat
      BY SMT
    <3>4. Ahead(bit(0)) /\ bit(0) \in Nat
      BY <3>1, <3>2, <3>3, <2>2, <1>3, Zenon
    <3>5. /\ Ahead(2 * bit(1)) /\ Ahead(4 * bit(2)) /\ Ahead(8 * bit(3))
          /\ 2 * bit(1) \in Nat /\ 4 * bit(2) \in Nat /\ 8 * bit(3) \in Nat
      BY <3>1, <3>3, <2>2, <1>5, Zenon
    <3>6. /\ Ahead(16 * bit(4)) /\ Ahead(32 * bit(5)) /\ Ahead(64 * bit(6))
          /\ 16 * bit(4) \in Nat /\ 32 * bit(5) \in Nat /\ 64 * bit(6) \in Nat
      BY <3>1, <3>3, <2>2, <1>5, Zenon
    <3>7. Ahead(128 * bit(7)) /\ 128 * bit(7) \in Nat
      BY <3>1, <3>3, <2>2, <1>5, Zenon
    <3> QED BY <3>4, <3>5, <3>6, <3>7
  <2>4. \A m, n \in Nat : m + n \in Nat
    BY SMT
  <2>5. Ahead(bit(0) + 2 * bit(1))
    BY <2>3, <1>4
  <2>6. Ahead(bit(0) + 2 * bit(1) + 4 * bit(2))
    BY <2>3, <2>4, <2>5, <1>4
  <2>7. Ahead(bit(0) + 2 * bit(1) + 4 * bit(2) + 8 * bit(3))
    BY <2>3, <2>4, <2>6, <1>4
  <2>8. Ahead(bit(0) + 2 * bit(1) + 4 * bit(2) + 8 * bit(3) + 16 * bit(4))
    BY <2>3, <2>4, <2>7, <1>4
  <2>9. Ahead(bit(0) + 2 * bit(1) + 4 * bit(2) + 8 * bit(3) + 16 * bit(4) + 32 * bit(5))
    BY <2>3, <2>4, <2>8, <1>4
  <2>10. Ahead(bit(0) + 2 * bit(1) + 4 * bit(2) + 8 * bit(3) + 16 * bit(4) + 32 * bit(5)
               + 64 * bit(6))
    BY <2>3, <2>4, <2>9, <1>4
  <2>11. Ahead(bit(0) + 2 * bit(1) + 4 * bit(2) + 8 * bit(3) + 16 * bit(4) + 32 * bit(5)
               + 64 * bit(6) + 128 * bit(7))
    BY <2>3, <2>4, <2>10, <1>4
  <2> QED BY <2>2, <2>11
<1>7. Product(0, j, j)
  BY <1>1, PowersAndLogs, OneTimes, Zenon DEF Product
<1>8. Product(Sum(0, k), j, Sum(j, k))
  BY <1>6, <1>7, Sums, Zenon DEF Ahead
<1>9. Sum(0, k) = k /\ Sum(j, k) = Sum(k, j)
  BY Sums, Zenon
<1> QED BY <1>8, <1>9, Zenon DEF Product

\* What the table of inverses has for a byte is the reciprocal that FIPS-197 chooses: the
\* only byte with the product 1, and 0 for 0.
LEMMA InversesAreReciprocals ==
  ASSUME NEW a \in Byte
  PROVE  /\ Inverses[a + 1] \in Byte
         /\ Reciprocal[a] = Inverses[a + 1]
<1>1. Inverses[a + 1] \in Byte
  BY SMTT(60) DEF Inverses, Byte
<1>2. CASE a = 0
  <2>1. Inverses[0 + 1] = 0
    BY SMT DEF Inverses
  <2>2. Reciprocal[a] = 0
    BY <1>2, Zenon DEF Reciprocal
  <2> QED BY <1>1, <1>2, <2>1, <2>2
<1>3. CASE a # 0
  <2> DEFINE k == Logs[a]
             b == Inverses[a + 1]
             opposite == Sum(0, 255 - k)
  <2>1. a \in Units
    BY <1>3, Sums
  <2>2. b = Power(opposite)
    BY <2>1, SMTT(60) DEF Powers, Logs, Inverses, Units, Power, Sum
  <2>3. k \in Exponents /\ a = Power(k)
    BY <2>1, PowersAndLogs
  <2> HIDE DEF k, b
  <2>4. opposite \in Exponents /\ Sum(k, opposite) = 0
    BY <2>3, Opposites, Zenon
  <2>5. Times(a, b) = 1
    <3> HIDE DEF opposite
    <3>1. Times(Power(k), Power(opposite)) = Power(Sum(k, opposite))
      BY <2>3, <2>4, ProductOfPowers
    <3> QED BY <3>1, <2>2, <2>3, <2>4, PowersAndLogs, Zenon
  <2>6. ASSUME NEW c \in Byte, Times(a, c) = 1
        PROVE  c = b
    <3>1. c # 0
      <4>1. 0 # 1
        BY SMT
      <4> QED BY <2>6, <4>1, TimesZero, Zenon
    <3>2. c \in Units
      BY <3>1, Sums
    <3>3. PICK j \in Exponents : c = Power(j)
      BY <3>2, PowersAndLogs, Zenon
    <3>4. Power(Sum(k, j)) = Power(0) /\ Sum(k, j) \in Exponents
      BY <2>3, <2>6, <3>3, ProductOfPowers, PowersAndLogs, Sums, Zenon
    <3>5. Sum(k, j) = 0
      <4>1. Logs[Power(Sum(k, j))] = Sum(k, j) /\ Logs[Power(0)] = 0
        BY <3>4, PowersAndLogs, Sums
      <4> QED BY <4>1, <3>4
    <3>6. j = opposite
      BY <2>3, <3>5, Opposites, Zenon
    <3> QED BY <2>2, <3>3, <3>6
  <2>7. Reciprocal[a] = CHOOSE c \in Byte : Times(a, c) = 1
    BY <1>3, Zenon DEF Reciprocal
  <2>8. b \in Byte
    BY <1>1 DEF b
  <2>9. Reciprocal[a] = b
    BY <2>5, <2>6, <2>7, <2>8, Zenon
  <2> QED BY <1>1, <2>9 DEF b
<1> QED BY <1>2, <1>3

\* The affine map, bit for bit.
LEMMA AffineBits ==
  ASSUME NEW a \in Byte
  PROVE  /\ Affine[a] \in Byte
         /\ \A i \in 0..7 :
              Bit(Affine[a], i) = (Bit(a, i) + Bit(a, (i + 4) % 8) + Bit(a, (i + 5) % 8)
                                   + Bit(a, (i + 6) % 8) + Bit(a, (i + 7) % 8) + Bit(99, i)) % 2
<1> DEFINE bit(i) == (Bit(a, i) + Bit(a, (i + 4) % 8) + Bit(a, (i + 5) % 8)
                      + Bit(a, (i + 6) % 8) + Bit(a, (i + 7) % 8) + Bit(99, i)) % 2
           e == [i \in 0..7 |-> bit(i)]
<1>1. Affine[a] = XorOf([i \in 0..7 |-> e[i] * 2^i], 8)
  BY Zenon DEF Affine
<1>2. \A i \in 0..7 : bit(i) \in {0, 1}
  <2>1. 99 \in Byte
    BY SMT DEF Byte
  <2>2. \A i \in 0..7 : Bit(a, i) \in {0, 1} /\ Bit(99, i) \in {0, 1}
    BY <2>1, BitsOfByte
  <2>3. \A i \in 0..7 : /\ (i + 4) % 8 \in 0..7 /\ (i + 5) % 8 \in 0..7
                        /\ (i + 6) % 8 \in 0..7 /\ (i + 7) % 8 \in 0..7
    BY SMT
  <2>4. \A n \in Nat : n % 2 \in {0, 1}
    BY SMT
  <2>5. \A u, v, w, x, y, z \in {0, 1} : u + v + w + x + y + z \in Nat
    BY SMT
  <2>6. \A u, v, w, x, y, z \in {0, 1} : (u + v + w + x + y + z) % 2 \in {0, 1}
    BY <2>4, <2>5, Zenon
  <2> QED BY <2>2, <2>3, <2>6
<1> HIDE DEF bit
<1>3. e \in [0..7 -> {0, 1}] /\ \A i \in 0..7 : e[i] = bit(i)
  BY <1>2
<1> HIDE DEF e
<1>4. Affine[a] \in Byte /\ \A i \in 0..7 : Bit(Affine[a], i) = bit(i)
  BY <1>1, <1>3, PlacedBits
<1> QED BY <1>4 DEF bit

\* The entries of the S-box are FIPS-197's.
LEMMA TableIsStandard ==
  ASSUME NEW a \in Byte
  PROVE  Substitution[a] = S_BOX_TABLE[a + 1]
<1> DEFINE x == Inverses[a + 1]
           y == S_BOX_TABLE[a + 1]
<1>1. /\ Bit(y, 0) = (Bit(x, 0) + Bit(x, 4) + Bit(x, 5) + Bit(x, 6) + Bit(x, 7) + 1) % 2
      /\ Bit(y, 1) = (Bit(x, 1) + Bit(x, 5) + Bit(x, 6) + Bit(x, 7) + Bit(x, 0) + 1) % 2
  BY SMTT(60) DEF Inverses, S_BOX_TABLE, Bit, Byte
<1>2. /\ Bit(y, 2) = (Bit(x, 2) + Bit(x, 6) + Bit(x, 7) + Bit(x, 0) + Bit(x, 1)) % 2
      /\ Bit(y, 3) = (Bit(x, 3) + Bit(x, 7) + Bit(x, 0) + Bit(x, 1) + Bit(x, 2)) % 2
  BY SMTT(60) DEF Inverses, S_BOX_TABLE, Bit, Byte
<1>3. /\ Bit(y, 4) = (Bit(x, 4) + Bit(x, 0) + Bit(x, 1) + Bit(x, 2) + Bit(x, 3)) % 2
      /\ Bit(y, 5) = (Bit(x, 5) + Bit(x, 1) + Bit(x, 2) + Bit(x, 3) + Bit(x, 4) + 1) % 2
  BY SMTT(60) DEF Inverses, S_BOX_TABLE, Bit, Byte
<1>4. /\ Bit(y, 6) = (Bit(x, 6) + Bit(x, 2) + Bit(x, 3) + Bit(x, 4) + Bit(x, 5) + 1) % 2
      /\ Bit(y, 7) = (Bit(x, 7) + Bit(x, 3) + Bit(x, 4) + Bit(x, 5) + Bit(x, 6)) % 2
  BY SMTT(60) DEF Inverses, S_BOX_TABLE, Bit, Byte
<1>5. x \in Byte /\ y \in Byte /\ Reciprocal[a] = x
  BY InversesAreReciprocals, TableType
<1> HIDE DEF x, y
<1>6. Substitution[a] = Affine[x]
  <2>1. Substitution[a] = Affine[Reciprocal[a]]
    <3> DEFINE table == [n \in 1..256 |-> Affine[Reciprocal[n - 1]]]
    <3>1. table \in Seq({table[n] : n \in 1..256})
      <4>1. \A S : \A n \in Nat : \A f \in [1..n -> S] : f \in Seq(S)
        BY SeqDef
      <4>2. table \in [1..256 -> {table[n] : n \in 1..256}] /\ 256 \in Nat
        BY ZenonT(60)
      <4> QED BY <4>1, <4>2
    <3>2. table \o << >> = table
      BY <3>1, ConcatEmptySeq
    <3>3. a + 1 \in 1..256 /\ (a + 1) - 1 = a
      BY SMT DEF Byte
    <3> QED BY <3>2, <3>3, ZenonT(60) DEF Substitution, SubstitutionTable
  <2> QED BY <2>1, <1>5
<1>7. /\ Bit(99, 0) = 1 /\ Bit(99, 1) = 1 /\ Bit(99, 2) = 0 /\ Bit(99, 3) = 0
      /\ Bit(99, 4) = 0 /\ Bit(99, 5) = 1 /\ Bit(99, 6) = 1 /\ Bit(99, 7) = 0
  BY SMT DEF Bit
<1>8. /\ Bit(x, 0) \in {0, 1} /\ Bit(x, 1) \in {0, 1} /\ Bit(x, 2) \in {0, 1}
      /\ Bit(x, 3) \in {0, 1} /\ Bit(x, 4) \in {0, 1} /\ Bit(x, 5) \in {0, 1}
      /\ Bit(x, 6) \in {0, 1} /\ Bit(x, 7) \in {0, 1}
  BY <1>5, BitsOfByte
<1>9. \A i \in 0..7 : Bit(Affine[x], i) = Bit(y, i)
  BY <1>1, <1>2, <1>3, <1>4, <1>5, <1>7, <1>8, AffineBits, SMT
<1>10. Affine[x] = y
  BY <1>5, <1>9, AffineBits, SameBits
<1> QED BY <1>6, <1>10 DEF y

\* What each implementation looks up.
LEMMA Substitutions ==
  ASSUME NEW a \in Byte
  PROVE  /\ Substitution[a] \in Byte
         /\ lookup_table_256x8(a) = Substitution[a]
         /\ aes_sbox[a + 1] = Substitution[a]
         /\ micro_sbox[a + 1] = Substitution[a]
BY TableIsStandard, RomEntries, OneTable, TableType

-----------------------------------------------------------------------------
(* Blocks *)

\* The places of a block and their rows and columns.
LEMMA RowsAndColumns ==
  /\ \A i \in Places : i % 4 \in 0..3 /\ i \div 4 \in 0..3 /\ i = (i % 4) + 4 * (i \div 4)
  /\ \A r \in 0..3, c \in 0..3 :
       /\ r + 4 * c \in Places /\ 4 * c + r = r + 4 * c
       /\ (r + 4 * c) % 4 = r /\ (r + 4 * c) \div 4 = c
<1>1. \A i \in Places : i % 4 \in 0..3 /\ i \div 4 \in 0..3 /\ i = (i % 4) + 4 * (i \div 4)
  BY SMT DEF Places
<1>2. \A r \in 0..3, c \in 0..3 : r + 4 * c \in Places /\ 4 * c + r = r + 4 * c
  BY SMT DEF Places
<1>3. \A r \in 0..3, c \in 0..3 : (r + 4 * c) % 4 = r /\ (r + 4 * c) \div 4 = c
  BY SMT
<1> QED BY <1>1, <1>2, <1>3

\* Blocks are added byte for byte.
LEMMA XorAllBlocks ==
  ASSUME NEW b \in Block, NEW k \in Block
  PROVE  XorAll(b, k) = [p \in Places |-> b[p] (+) k[p]] /\ XorAll(b, k) \in Block
<1>1. DOMAIN b = Places
  BY DEF Block
<1>2. XorAll(b, k) = [p \in Places |-> b[p] (+) k[p]]
  BY <1>1 DEF XorAll
<1>3. \A p \in Places : b[p] (+) k[p] \in Byte
  BY XorBits DEF Block
<1> QED BY <1>2, <1>3 DEF Block

\* A sum of four, from any of them on.
LEMMA XorRotates ==
  ASSUME NEW x \in Byte, NEW y \in Byte, NEW z \in Byte, NEW w \in Byte
  PROVE  /\ (((0 (+) x) (+) y) (+) z) (+) w = (x (+) y) (+) (z (+) w)
         /\ x (+) (y (+) (z (+) w)) = (x (+) y) (+) (z (+) w)
         /\ (x (+) y) (+) (z (+) w) = (y (+) z) (+) (w (+) x)
<1>1. /\ x (+) y \in Byte /\ z (+) w \in Byte /\ y (+) z \in Byte /\ w (+) x \in Byte
      /\ y (+) x \in Byte
  BY XorBits
<1>2. (((0 (+) x) (+) y) (+) z) (+) w = (x (+) y) (+) (z (+) w)
  BY <1>1, XorZero, XorAssociates
<1>3. x (+) (y (+) (z (+) w)) = (x (+) y) (+) (z (+) w)
  BY <1>1, XorAssociates
<1>4. (x (+) y) (+) (z (+) w) = (y (+) x) (+) (z (+) w)
  BY XorCommutes
<1>5. (y (+) x) (+) (z (+) w) = (y (+) z) (+) (x (+) w)
  BY XorSwap
<1>6. x (+) w = w (+) x
  BY XorCommutes
<1> QED BY <1>2, <1>3, <1>4, <1>5, <1>6

\* A byte of a mixed column: twice a and three times b, with c and d.
Mixed(a, b, c, d) == (Double[a] (+) (Double[b] (+) b)) (+) (c (+) d)

\* A mixed byte is a byte.
LEMMA MixedType ==
  ASSUME NEW a \in Byte, NEW b \in Byte, NEW c \in Byte, NEW d \in Byte
  PROVE  Mixed(a, b, c, d) \in Byte
BY DoubleType, XorBits DEF Mixed

\* Sums of four products, twice a and three times b, from any of them on.
LEMMA MixedSums ==
  ASSUME NEW a \in Byte, NEW b \in Byte, NEW c \in Byte, NEW d \in Byte
  PROVE  LET a2 == Double[a]
             b3 == Double[b] (+) b
         IN  /\ (((0 (+) a2) (+) b3) (+) c) (+) d = Mixed(a, b, c, d)
             /\ (((0 (+) d) (+) a2) (+) b3) (+) c = Mixed(a, b, c, d)
             /\ (((0 (+) c) (+) d) (+) a2) (+) b3 = Mixed(a, b, c, d)
             /\ (((0 (+) b3) (+) c) (+) d) (+) a2 = Mixed(a, b, c, d)
             /\ a2 (+) (b3 (+) (c (+) d)) = Mixed(a, b, c, d)
             /\ d (+) (a2 (+) (b3 (+) c)) = Mixed(a, b, c, d)
             /\ c (+) (d (+) (a2 (+) b3)) = Mixed(a, b, c, d)
             /\ b3 (+) (c (+) (d (+) a2)) = Mixed(a, b, c, d)
<1> DEFINE a2 == Double[a]
           b3 == Double[b] (+) b
<1>1. a2 \in Byte /\ b3 \in Byte /\ Mixed(a, b, c, d) = (a2 (+) b3) (+) (c (+) d)
  BY DoubleType, XorBits DEF Mixed
<1> HIDE DEF a2, b3
<1>2. /\ (d (+) a2) (+) (b3 (+) c) = Mixed(a, b, c, d)
      /\ (c (+) d) (+) (a2 (+) b3) = Mixed(a, b, c, d)
      /\ (b3 (+) c) (+) (d (+) a2) = Mixed(a, b, c, d)
  <2>1. (a2 (+) b3) (+) (c (+) d) = (b3 (+) c) (+) (d (+) a2)
    BY <1>1, XorRotates
  <2>2. (b3 (+) c) (+) (d (+) a2) = (c (+) d) (+) (a2 (+) b3)
    BY <1>1, XorRotates
  <2>3. (c (+) d) (+) (a2 (+) b3) = (d (+) a2) (+) (b3 (+) c)
    BY <1>1, XorRotates
  <2> QED BY <1>1, <2>1, <2>2, <2>3
<1>3. /\ (((0 (+) a2) (+) b3) (+) c) (+) d = Mixed(a, b, c, d)
      /\ a2 (+) (b3 (+) (c (+) d)) = Mixed(a, b, c, d)
  BY <1>1, XorRotates, SMTT(30)
<1>4. /\ (((0 (+) d) (+) a2) (+) b3) (+) c = Mixed(a, b, c, d)
      /\ d (+) (a2 (+) (b3 (+) c)) = Mixed(a, b, c, d)
  BY <1>1, <1>2, XorRotates, SMTT(30)
<1>5. /\ (((0 (+) c) (+) d) (+) a2) (+) b3 = Mixed(a, b, c, d)
      /\ c (+) (d (+) (a2 (+) b3)) = Mixed(a, b, c, d)
  BY <1>1, <1>2, XorRotates, SMTT(30)
<1>6. /\ (((0 (+) b3) (+) c) (+) d) (+) a2 = Mixed(a, b, c, d)
      /\ b3 (+) (c (+) (d (+) a2)) = Mixed(a, b, c, d)
  BY <1>1, <1>2, XorRotates, SMTT(30)
<1> QED BY <1>3, <1>4, <1>5, <1>6 DEF a2, b3

\* A column times the polynomial, byte for byte.
MixedAt(b, r, c) ==
  Mixed(b[r + 4 * c], b[((r + 1) % 4) + 4 * c], b[((r + 2) % 4) + 4 * c], b[((r + 3) % 4) + 4 * c])

\* The bytes of a column of a block.
LEMMA BytesOfColumn ==
  ASSUME NEW b \in Block, NEW c \in 0..3
  PROVE  \A r \in 0..3 : b[r + 4 * c] \in Byte
BY RowsAndColumns, Zenon DEF Block

\* The rows of a column, and those after them.
LEMMA RowCases ==
  /\ \A r \in 0..3 : r = 0 \/ r = 1 \/ r = 2 \/ r = 3
  /\ 0 \in 0..3 /\ 1 \in 0..3 /\ 2 \in 0..3 /\ 3 \in 0..3
  /\ 0 # 1 /\ 0 # 2 /\ 0 # 3 /\ 1 # 2 /\ 1 # 3 /\ 2 # 3
  /\ (0 + 1) % 4 = 1 /\ (0 + 2) % 4 = 2 /\ (0 + 3) % 4 = 3
  /\ (1 + 1) % 4 = 2 /\ (1 + 2) % 4 = 3 /\ (1 + 3) % 4 = 0
  /\ (2 + 1) % 4 = 3 /\ (2 + 2) % 4 = 0 /\ (2 + 3) % 4 = 1
  /\ (3 + 1) % 4 = 0 /\ (3 + 2) % 4 = 1 /\ (3 + 3) % 4 = 2
BY SMT

\* The sums of products in the four rows of a column are what MixColumns asks for.
LEMMA RowSums ==
  ASSUME NEW b \in Block, NEW c \in 0..3
  PROVE  LET x(j) == b[j + 4 * c]
             x2(j) == Double[x(j)]
             x3(j) == Double[x(j)] (+) x(j)
         IN  /\ (((0 (+) x2(0)) (+) x3(1)) (+) x(2)) (+) x(3) = MixedAt(b, 0, c)
             /\ (((0 (+) x(0)) (+) x2(1)) (+) x3(2)) (+) x(3) = MixedAt(b, 1, c)
             /\ (((0 (+) x(0)) (+) x(1)) (+) x2(2)) (+) x3(3) = MixedAt(b, 2, c)
             /\ (((0 (+) x3(0)) (+) x(1)) (+) x(2)) (+) x2(3) = MixedAt(b, 3, c)
             /\ x2(0) (+) (x3(1) (+) (x(2) (+) x(3))) = MixedAt(b, 0, c)
             /\ x(0) (+) (x2(1) (+) (x3(2) (+) x(3))) = MixedAt(b, 1, c)
             /\ x(0) (+) (x(1) (+) (x2(2) (+) x3(3))) = MixedAt(b, 2, c)
             /\ x3(0) (+) (x(1) (+) (x(2) (+) x2(3))) = MixedAt(b, 3, c)
<1> DEFINE x(j) == b[j + 4 * c]
<1>1. x(0) \in Byte /\ x(1) \in Byte /\ x(2) \in Byte /\ x(3) \in Byte
  BY BytesOfColumn, RowCases
<1>2. /\ MixedAt(b, 0, c) = Mixed(x(0), x(1), x(2), x(3))
      /\ MixedAt(b, 1, c) = Mixed(x(1), x(2), x(3), x(0))
      /\ MixedAt(b, 2, c) = Mixed(x(2), x(3), x(0), x(1))
      /\ MixedAt(b, 3, c) = Mixed(x(3), x(0), x(1), x(2))
  BY RowCases, Zenon DEF MixedAt
<1> HIDE DEF x
<1>3. /\ (((0 (+) Double[x(0)]) (+) (Double[x(1)] (+) x(1))) (+) x(2)) (+) x(3) = MixedAt(b, 0, c)
      /\ Double[x(0)] (+) ((Double[x(1)] (+) x(1)) (+) (x(2) (+) x(3))) = MixedAt(b, 0, c)
  BY <1>1, <1>2, MixedSums
<1>4. /\ (((0 (+) x(0)) (+) Double[x(1)]) (+) (Double[x(2)] (+) x(2))) (+) x(3) = MixedAt(b, 1, c)
      /\ x(0) (+) (Double[x(1)] (+) ((Double[x(2)] (+) x(2)) (+) x(3))) = MixedAt(b, 1, c)
  BY <1>1, <1>2, MixedSums
<1>5. /\ (((0 (+) x(0)) (+) x(1)) (+) Double[x(2)]) (+) (Double[x(3)] (+) x(3)) = MixedAt(b, 2, c)
      /\ x(0) (+) (x(1) (+) (Double[x(2)] (+) (Double[x(3)] (+) x(3)))) = MixedAt(b, 2, c)
  BY <1>1, <1>2, MixedSums
<1>6. /\ (((0 (+) (Double[x(0)] (+) x(0))) (+) x(1)) (+) x(2)) (+) Double[x(3)] = MixedAt(b, 3, c)
      /\ (Double[x(0)] (+) x(0)) (+) (x(1) (+) (x(2) (+) Double[x(3)])) = MixedAt(b, 3, c)
  BY <1>1, <1>2, MixedSums
<1> QED BY <1>3, <1>4, <1>5, <1>6 DEF x

\* A column of a block is mixed into bytes.
LEMMA MixedAtType ==
  ASSUME NEW b \in Block, NEW r \in 0..3, NEW c \in 0..3
  PROVE  MixedAt(b, r, c) \in Byte
<1>1. (r + 1) % 4 \in 0..3 /\ (r + 2) % 4 \in 0..3 /\ (r + 3) % 4 \in 0..3
  BY RowCases, Zenon
<1> QED BY <1>1, BytesOfColumn, MixedType DEF MixedAt

\* The factor of byte j in row r of MixColumns.
Factor(r, j) ==
  CASE (4 + j - r) % 4 = 0 -> 2 [] (4 + j - r) % 4 = 1 -> 3 [] OTHER -> 1

\* The factors in the four rows of a column.
LEMMA Factors ==
  /\ Factor(0, 0) = 2 /\ Factor(0, 1) = 3 /\ Factor(0, 2) = 1 /\ Factor(0, 3) = 1
  /\ Factor(1, 0) = 1 /\ Factor(1, 1) = 2 /\ Factor(1, 2) = 3 /\ Factor(1, 3) = 1
  /\ Factor(2, 0) = 1 /\ Factor(2, 1) = 1 /\ Factor(2, 2) = 2 /\ Factor(2, 3) = 3
  /\ Factor(3, 0) = 3 /\ Factor(3, 1) = 1 /\ Factor(3, 2) = 1 /\ Factor(3, 3) = 2
<1>1. /\ (4 + 0 - 0) % 4 = 0 /\ (4 + 1 - 0) % 4 = 1 /\ (4 + 2 - 0) % 4 = 2 /\ (4 + 3 - 0) % 4 = 3
      /\ (4 + 0 - 1) % 4 = 3 /\ (4 + 1 - 1) % 4 = 0 /\ (4 + 2 - 1) % 4 = 1 /\ (4 + 3 - 1) % 4 = 2
      /\ (4 + 0 - 2) % 4 = 2 /\ (4 + 1 - 2) % 4 = 3 /\ (4 + 2 - 2) % 4 = 0 /\ (4 + 3 - 2) % 4 = 1
      /\ (4 + 0 - 3) % 4 = 1 /\ (4 + 1 - 3) % 4 = 2 /\ (4 + 2 - 3) % 4 = 3 /\ (4 + 3 - 3) % 4 = 0
      /\ 0 # 1 /\ 2 # 0 /\ 2 # 1 /\ 3 # 0 /\ 3 # 1
  BY SMT
<1>2. \A r, j : /\ (4 + j - r) % 4 = 0 => Factor(r, j) = 2
                /\ (4 + j - r) % 4 = 1 => Factor(r, j) = 3
                /\ (4 + j - r) % 4 # 0 /\ (4 + j - r) % 4 # 1 => Factor(r, j) = 1
  <2>1. 0 # 1
    BY SMT
  <2> QED BY <2>1, ZenonT(60) DEF Factor
<1> QED BY <1>1, <1>2, Zenon

\* MixColumns, byte for byte.
LEMMA MixColumnsBytes ==
  ASSUME NEW b \in Block
  PROVE  /\ MixColumns(b) = [i \in Places |-> MixedAt(b, i % 4, i \div 4)]
         /\ MixColumns(b) \in Block
<1> DEFINE products(r, c) == [j \in 0..3 |-> Times(b[j + 4 * c], Factor(r, j))]
<1>1. MixColumns(b) = [i \in Places |-> XorOf(products(i % 4, i \div 4), 4)]
  BY Zenon DEF MixColumns, ByRowAndColumn, At, Factor
<1>2. ASSUME NEW r \in 0..3, NEW c \in 0..3
      PROVE  XorOf(products(r, c), 4) = MixedAt(b, r, c)
  <2> DEFINE x(j) == b[j + 4 * c]
             p == products(r, c)
  <2>1. x(0) \in Byte /\ x(1) \in Byte /\ x(2) \in Byte /\ x(3) \in Byte
    BY BytesOfColumn, RowCases
  <2>2. /\ p[0] = Times(x(0), Factor(r, 0)) /\ p[1] = Times(x(1), Factor(r, 1))
        /\ p[2] = Times(x(2), Factor(r, 2)) /\ p[3] = Times(x(3), Factor(r, 3))
    BY RowCases, Zenon
  <2>3. XorOf(p, 4) = (((0 (+) p[0]) (+) p[1]) (+) p[2]) (+) p[3]
    BY XorOfFour
  <2>4. /\ (((0 (+) Double[x(0)]) (+) (Double[x(1)] (+) x(1))) (+) x(2)) (+) x(3) = MixedAt(b, 0, c)
        /\ (((0 (+) x(0)) (+) Double[x(1)]) (+) (Double[x(2)] (+) x(2))) (+) x(3) = MixedAt(b, 1, c)
        /\ (((0 (+) x(0)) (+) x(1)) (+) Double[x(2)]) (+) (Double[x(3)] (+) x(3)) = MixedAt(b, 2, c)
        /\ (((0 (+) (Double[x(0)] (+) x(0))) (+) x(1)) (+) x(2)) (+) Double[x(3)] = MixedAt(b, 3, c)
    BY RowSums
  <2> HIDE DEF x, p
  <2>5. /\ Times(x(0), 1) = x(0) /\ Times(x(0), 2) = Double[x(0)]
        /\ Times(x(0), 3) = Double[x(0)] (+) x(0)
        /\ Times(x(1), 1) = x(1) /\ Times(x(1), 2) = Double[x(1)]
        /\ Times(x(1), 3) = Double[x(1)] (+) x(1)
        /\ Times(x(2), 1) = x(2) /\ Times(x(2), 2) = Double[x(2)]
        /\ Times(x(2), 3) = Double[x(2)] (+) x(2)
        /\ Times(x(3), 1) = x(3) /\ Times(x(3), 2) = Double[x(3)]
        /\ Times(x(3), 3) = Double[x(3)] (+) x(3)
    BY <2>1, SmallProducts
  <2>6. CASE r = 0
    BY <2>2, <2>3, <2>4, <2>5, <2>6, Factors, ZenonT(60) DEF p
  <2>7. CASE r = 1
    BY <2>2, <2>3, <2>4, <2>5, <2>7, Factors, ZenonT(60) DEF p
  <2>8. CASE r = 2
    BY <2>2, <2>3, <2>4, <2>5, <2>8, Factors, ZenonT(60) DEF p
  <2>9. CASE r = 3
    BY <2>2, <2>3, <2>4, <2>5, <2>9, Factors, ZenonT(60) DEF p
  <2> QED BY <2>6, <2>7, <2>8, <2>9, RowCases, Zenon
<1> HIDE DEF products
<1>3. \A i \in Places : i % 4 \in 0..3 /\ i \div 4 \in 0..3
  BY RowsAndColumns
<1>4. MixColumns(b) = [i \in Places |-> MixedAt(b, i % 4, i \div 4)]
  BY <1>1, <1>2, <1>3
<1> QED BY <1>3, <1>4, MixedAtType DEF Block

\* Where the row and the column of a byte come from.
From(p) == (p % 4) + 4 * (((p \div 4) + (p % 4)) % 4)

\* A byte comes from a place of the block.
LEMMA FromType == \A p \in Places : From(p) \in Places
BY SMT DEF From, Places

\* SubBytes and ShiftRows, byte for byte.
LEMMA ShiftedBytes ==
  ASSUME NEW b \in Block
  PROVE  /\ ShiftRows(SubBytes(b)) = [p \in Places |-> Substitution[b[From(p)]]]
         /\ ShiftRows(SubBytes(b)) \in Block
<1>1. ShiftRows(SubBytes(b)) = [p \in Places |-> SubBytes(b)[From(p)]]
  BY Zenon DEF ShiftRows, ByRowAndColumn, At, From
<1>2. \A p \in Places : SubBytes(b)[From(p)] = Substitution[b[From(p)]]
  BY FromType, Zenon DEF SubBytes
<1>3. \A p \in Places : b[From(p)] \in Byte
  BY FromType DEF Block
<1>4. ShiftRows(SubBytes(b)) = [p \in Places |-> Substitution[b[From(p)]]]
  BY <1>1, <1>2
<1> QED BY <1>3, <1>4, Substitutions DEF Block

-----------------------------------------------------------------------------
(* Round keys *)

\* The round constants: the first ten powers of x.
LEMMA RoundConstants ==
  /\ PowerOfX(0) = 1  /\ PowerOfX(1) = 2  /\ PowerOfX(2) = 4   /\ PowerOfX(3) = 8
  /\ PowerOfX(4) = 16 /\ PowerOfX(5) = 32 /\ PowerOfX(6) = 64  /\ PowerOfX(7) = 128
  /\ PowerOfX(8) = 27 /\ PowerOfX(9) = 54
<1> DEFINE x == << 1, 2, 4, 8, 16, 32, 64, 128, 27, 54 >>
           Doubled(s, n) == s = [i \in 0..n |-> IF i = 0 THEN 1 ELSE Double[s[i - 1]]]
<1>1. /\ Double[1] = 2   /\ Double[2] = 4   /\ Double[4] = 8     /\ Double[8] = 16
      /\ Double[16] = 32 /\ Double[32] = 64 /\ Double[64] = 128  /\ Double[128] = 27
      /\ Double[27] = 54
  <2>1. \A a \in 0..127 : Double[a] = 2 * a
    <3> TAKE a \in 0..127
    <3>1. a \in Byte /\ a < 128
      BY SMT DEF Byte
    <3> QED BY <3>1, Zenon DEF Double
  <2>2. Double[128] = 27
    <3>1. 128 \in Byte /\ 27 \in Byte /\ ~(128 < 128) /\ (2 * 128) % 256 = 0
      BY SMT DEF Byte
    <3>2. Double[128] = ((2 * 128) % 256) (+) 27
      BY <3>1, Zenon DEF Double
    <3> QED BY <3>1, <3>2, XorZero
  <2> QED BY <2>1, <2>2, SMT
<1>2. /\ x[1] = 1 /\ x[2] = 2 /\ x[3] = 4 /\ x[4] = 8 /\ x[5] = 16 /\ x[6] = 32
      /\ x[7] = 64 /\ x[8] = 128 /\ x[9] = 27 /\ x[10] = 54
  BY SMT
<1> HIDE DEF x
<1>3. ASSUME NEW n \in 0..9
      PROVE  PowerOfX(n) = x[n + 1]
  <2> DEFINE power == CHOOSE s : Doubled(s, n)
             s == [i \in 0..n |-> x[i + 1]]
  <2>1. Doubled(s, n)
    <3>1. \A i \in 1..9 : x[i + 1] = Double[x[i]]
      <4>1. \A i \in 1..9 : i = 1 \/ i = 2 \/ i = 3 \/ i = 4 \/ i = 5 \/ i = 6 \/ i = 7
                            \/ i = 8 \/ i = 9
        BY SMT
      <4>2. /\ 1 + 1 = 2 /\ 2 + 1 = 3 /\ 3 + 1 = 4 /\ 4 + 1 = 5 /\ 5 + 1 = 6 /\ 6 + 1 = 7
            /\ 7 + 1 = 8 /\ 8 + 1 = 9 /\ 9 + 1 = 10
        BY SMT
      <4>3. /\ x[2] = Double[x[1]] /\ x[3] = Double[x[2]] /\ x[4] = Double[x[3]]
            /\ x[5] = Double[x[4]] /\ x[6] = Double[x[5]] /\ x[7] = Double[x[6]]
            /\ x[8] = Double[x[7]] /\ x[9] = Double[x[8]] /\ x[10] = Double[x[9]]
        BY <1>1, <1>2, Zenon
      <4> DEFINE Next(i) == x[i + 1] = Double[x[i]]
      <4>4. Next(1) /\ Next(2) /\ Next(3) /\ Next(4) /\ Next(5) /\ Next(6) /\ Next(7) /\ Next(8)
            /\ Next(9)
        BY <4>2, <4>3
      <4> HIDE DEF Next
      <4>5. \A i \in 1..9 : Next(i)
        BY <4>1, <4>4, Zenon
      <4> QED BY <4>5 DEF Next
    <3>2. ASSUME NEW i \in 0..n
          PROVE  s[i] = IF i = 0 THEN 1 ELSE Double[s[i - 1]]
      <4>1. s[i] = x[i + 1]
        BY Zenon
      <4>2. CASE i = 0
        <5>1. 0 + 1 = 1
          BY SMT
        <5> QED BY <1>2, <4>1, <4>2, <5>1, Zenon
      <4>3. CASE i # 0
        <5>1. i \in 1..9 /\ i - 1 \in 0..n /\ (i - 1) + 1 = i
          BY <4>3, SMT
        <5>2. s[i - 1] = x[(i - 1) + 1]
          BY <5>1, Zenon
        <5>3. s[i - 1] = x[i]
          BY <5>1, <5>2, Zenon
        <5> QED BY <3>1, <4>1, <4>3, <5>1, <5>3, Zenon
      <4> QED BY <4>2, <4>3
    <3>3. s = [i \in 0..n |-> s[i]]
      BY Zenon
    <3> HIDE DEF s
    <3> QED BY <3>2, <3>3, Zenon
  <2>2. Doubled(power, n)
    <3> HIDE DEF Doubled, s
    <3> QED BY <2>1, Zenon
  <2>3. PowerOfX(n) = power[n]
    BY Zenon DEF PowerOfX
  <2> HIDE DEF power
  <2>4. power[0] = 1 /\ \A i \in 1..n : power[i] = Double[power[i - 1]]
    <3>1. 0 \in 0..n /\ \A i \in 1..n : i \in 0..n /\ i # 0
      BY SMT
    <3> QED BY <2>2, <3>1, Zenon
  <2> HIDE DEF Doubled
  <2>5. n = 0 \/ n = 1 \/ n = 2 \/ n = 3 \/ n = 4 \/ n = 5 \/ n = 6 \/ n = 7 \/ n = 8 \/ n = 9
    BY SMT
  <2>6. /\ (n >= 1 => power[1] = 2) /\ (n >= 2 => power[2] = 4) /\ (n >= 3 => power[3] = 8)
    BY <1>1, <2>4, SMT
  <2>7. /\ (n >= 4 => power[4] = 16) /\ (n >= 5 => power[5] = 32) /\ (n >= 6 => power[6] = 64)
    BY <1>1, <2>4, <2>6, SMT
  <2>8. /\ (n >= 7 => power[7] = 128) /\ (n >= 8 => power[8] = 27) /\ (n >= 9 => power[9] = 54)
    BY <1>1, <2>4, <2>7, SMT
  <2>9. power[n] = x[n + 1]
    <3>1. /\ power[0] = 1 /\ 0 + 1 = 1 /\ 1 + 1 = 2 /\ 2 + 1 = 3 /\ 3 + 1 = 4 /\ 4 + 1 = 5 /\ 5 + 1 = 6
          /\ 6 + 1 = 7 /\ 7 + 1 = 8 /\ 8 + 1 = 9 /\ 9 + 1 = 10
      BY <2>4, SMT
    <3>2. /\ (n = 1 => power[1] = 2) /\ (n = 2 => power[2] = 4) /\ (n = 3 => power[3] = 8)
          /\ (n = 4 => power[4] = 16) /\ (n = 5 => power[5] = 32) /\ (n = 6 => power[6] = 64)
          /\ (n = 7 => power[7] = 128) /\ (n = 8 => power[8] = 27) /\ (n = 9 => power[9] = 54)
      BY <2>6, <2>7, <2>8, SMT
    <3> DEFINE Right(m) == power[m] = x[m + 1]
    <3>3. /\ Right(0) /\ (n = 1 => Right(1)) /\ (n = 2 => Right(2)) /\ (n = 3 => Right(3))
          /\ (n = 4 => Right(4)) /\ (n = 5 => Right(5)) /\ (n = 6 => Right(6))
          /\ (n = 7 => Right(7)) /\ (n = 8 => Right(8)) /\ (n = 9 => Right(9))
      BY <1>2, <3>1, <3>2
    <3> HIDE DEF Right
    <3>4. Right(n)
      BY <2>5, <3>3, Zenon
    <3> QED BY <3>4, Zenon DEF Right
  <2> QED BY <2>3, <2>9
<1>4. /\ PowerOfX(0) = x[1] /\ PowerOfX(1) = x[2] /\ PowerOfX(2) = x[3] /\ PowerOfX(3) = x[4]
      /\ PowerOfX(4) = x[5] /\ PowerOfX(5) = x[6] /\ PowerOfX(6) = x[7] /\ PowerOfX(7) = x[8]
      /\ PowerOfX(8) = x[9] /\ PowerOfX(9) = x[10]
  <2>1. /\ 0 \in 0..9 /\ 1 \in 0..9 /\ 2 \in 0..9 /\ 3 \in 0..9 /\ 4 \in 0..9 /\ 5 \in 0..9
        /\ 6 \in 0..9 /\ 7 \in 0..9 /\ 8 \in 0..9 /\ 9 \in 0..9
        /\ 0 + 1 = 1 /\ 1 + 1 = 2 /\ 2 + 1 = 3 /\ 3 + 1 = 4 /\ 4 + 1 = 5 /\ 5 + 1 = 6 /\ 6 + 1 = 7
        /\ 7 + 1 = 8 /\ 8 + 1 = 9 /\ 9 + 1 = 10
    BY SMT
  <2> QED BY <1>3, <2>1, Zenon
<1> QED BY <1>2, <1>4, Zenon

\* What the first column of the n-th round key adds to the one of the key before it.
KeyAddend(key, n, r) ==
  Substitution[key[((r + 1) % 4) + 4 * 3]] (+) (IF r = 0 THEN PowerOfX(n - 1) ELSE 0)

\* It is a byte.
LEMMA KeyAddendType ==
  ASSUME NEW key \in Block, NEW n \in 1..10, NEW r \in 0..3
  PROVE  KeyAddend(key, n, r) \in Byte
<1>1. key[((r + 1) % 4) + 4 * 3] \in Byte
  BY BytesOfColumn, RowCases
<1>2. PowerOfX(n - 1) \in Byte /\ 0 \in Byte
  BY RoundConstants, SMT DEF Byte
<1> QED BY <1>1, <1>2, Substitutions, XorBits DEF KeyAddend

\* The bytes of a round key, from those of the one before it.
FollowsFrom(next, key, n) ==
  /\ \A r \in 0..3 : next[r] = key[r] (+) KeyAddend(key, n, r)
  /\ \A r \in 0..3, c \in 1..3 : next[r + 4 * c] = key[r + 4 * c] (+) next[r + 4 * (c - 1)]

\* Four columns that each add a word to the one before, as every cipher chains them.
Chained(column, word, first) ==
  column = [c \in 0..3 |-> XorAll(word[c], IF c = 0 THEN first ELSE column[c - 1])]

\* Such columns exist: their recursive definition is sound.
LEMMA ChainedColumns ==
  ASSUME NEW word, NEW first
  PROVE  \E column : Chained(column, word, first)
<1> DEFINE s0 == XorAll(word[0], first)
           s1 == XorAll(word[1], s0)
           s2 == XorAll(word[2], s1)
           s3 == XorAll(word[3], s2)
           s == [c \in 0..3 |-> << s0, s1, s2, s3 >>[c + 1]]
<1>1. /\ s0 = XorAll(word[0], first) /\ s1 = XorAll(word[1], s0)
      /\ s2 = XorAll(word[2], s1)    /\ s3 = XorAll(word[3], s2)
  OBVIOUS
<1> HIDE DEF s0, s1, s2, s3
<1>2. s[0] = s0 /\ s[1] = s1 /\ s[2] = s2 /\ s[3] = s3 /\ s = [c \in 0..3 |-> s[c]]
  BY SMT
<1> HIDE DEF s
<1>3. ASSUME NEW c \in 0..3
      PROVE  s[c] = XorAll(word[c], IF c = 0 THEN first ELSE s[c - 1])
  <2>1. 1 - 1 = 0 /\ 2 - 1 = 1 /\ 3 - 1 = 2
    BY SMT
  <2>2. CASE c = 0
    BY <1>1, <1>2, <2>2, Zenon
  <2>3. CASE c = 1
    BY <1>1, <1>2, <2>1, <2>3, RowCases, Zenon
  <2>4. CASE c = 2
    BY <1>1, <1>2, <2>1, <2>4, RowCases, Zenon
  <2>5. CASE c = 3
    BY <1>1, <1>2, <2>1, <2>5, RowCases, Zenon
  <2> QED BY <2>2, <2>3, <2>4, <2>5, RowCases, Zenon
<1> QED BY <1>2, <1>3, Zenon DEF Chained

\* The four of them, one after the other.
LEMMA ColumnsOfChain ==
  ASSUME NEW word, NEW first, NEW column, Chained(column, word, first)
  PROVE  /\ column[0] = XorAll(word[0], first)
         /\ column[1] = XorAll(word[1], column[0])
         /\ column[2] = XorAll(word[2], column[1])
         /\ column[3] = XorAll(word[3], column[2])
<1>1. 1 - 1 = 0 /\ 2 - 1 = 1 /\ 3 - 1 = 2
  BY SMT
<1>2. \A c \in 0..3 : column[c] = XorAll(word[c], IF c = 0 THEN first ELSE column[c - 1])
  BY Zenon DEF Chained
<1> QED BY <1>1, <1>2, RowCases, Zenon

\* What such a chain makes of the columns of a key.
ColumnsOf(word, key) == \A c \in 0..3 : word[c] = [r \in 0..3 |-> key[r + 4 * c]]
Addends(first, key, n) == \A r \in 0..3 : first[r] = KeyAddend(key, n, r)
Joined(column) == [p \in Places |-> column[p \div 4][p % 4]]

\* Joined, they are a block that follows from the key.
LEMMA ChainedKey ==
  ASSUME NEW key \in Block, NEW n \in 1..10, NEW word, ColumnsOf(word, key),
         NEW first, Addends(first, key, n), NEW column, Chained(column, word, first)
  PROVE  Joined(column) \in Block /\ FollowsFrom(Joined(column), key, n)
<1> DEFINE next == Joined(column)
<1>1. \A c \in 0..3 : \A f : \A r \in 0..3 : XorAll(word[c], f)[r] = key[r + 4 * c] (+) f[r]
  BY Zenon DEF XorAll, ColumnsOf
<1>2. \A r \in 0..3 : /\ column[0][r] = key[r + 4 * 0] (+) first[r]
                      /\ column[1][r] = key[r + 4 * 1] (+) column[0][r]
                      /\ column[2][r] = key[r + 4 * 2] (+) column[1][r]
                      /\ column[3][r] = key[r + 4 * 3] (+) column[2][r]
  <2>1. /\ column[0] = XorAll(word[0], first) /\ column[1] = XorAll(word[1], column[0])
        /\ column[2] = XorAll(word[2], column[1]) /\ column[3] = XorAll(word[3], column[2])
    BY ColumnsOfChain
  <2> TAKE r \in 0..3
  <2>2. /\ XorAll(word[0], first)[r] = key[r + 4 * 0] (+) first[r]
        /\ XorAll(word[1], column[0])[r] = key[r + 4 * 1] (+) column[0][r]
        /\ XorAll(word[2], column[1])[r] = key[r + 4 * 2] (+) column[1][r]
        /\ XorAll(word[3], column[2])[r] = key[r + 4 * 3] (+) column[2][r]
    BY <1>1, RowCases, Zenon
  <2> QED BY <2>1, <2>2, Zenon
<1>3. \A r \in 0..3, c \in 0..3 : next[r + 4 * c] = column[c][r]
  BY RowsAndColumns, Zenon DEF Joined
<1>4. \A r \in 0..3 : r + 4 * 0 = r
  BY SMT
<1>5. \A r \in 0..3 : /\ column[0][r] \in Byte /\ column[1][r] \in Byte
                      /\ column[2][r] \in Byte /\ column[3][r] \in Byte
  <2> TAKE r \in 0..3
  <2>1. key[r + 4 * 0] \in Byte /\ key[r + 4 * 1] \in Byte /\ key[r + 4 * 2] \in Byte
        /\ key[r + 4 * 3] \in Byte /\ first[r] \in Byte
    <3>1. \A c \in 0..3 : key[r + 4 * c] \in Byte
      BY BytesOfColumn
    <3>2. first[r] \in Byte
      BY KeyAddendType DEF Addends
    <3> QED BY <3>1, <3>2, RowCases, Zenon
  <2>2. column[0][r] \in Byte
    BY <1>2, <2>1, XorBits, Zenon
  <2>3. column[1][r] \in Byte
    BY <1>2, <2>1, <2>2, XorBits, Zenon
  <2>4. column[2][r] \in Byte
    BY <1>2, <2>1, <2>3, XorBits, Zenon
  <2>5. column[3][r] \in Byte
    BY <1>2, <2>1, <2>4, XorBits, Zenon
  <2> QED BY <2>2, <2>3, <2>4, <2>5
<1>6. next \in Block
  <2>1. \A r \in 0..3, c \in 0..3 : column[c][r] \in Byte
    BY <1>5, RowCases, Zenon
  <2> QED BY <2>1, RowsAndColumns, Zenon DEF Block, Joined
<1>7. FollowsFrom(next, key, n)
  <2>1. \A r \in 0..3 : next[r] = key[r] (+) KeyAddend(key, n, r)
    <3> TAKE r \in 0..3
    <3>1. next[r + 4 * 0] = column[0][r]
      BY <1>3, RowCases, Zenon
    <3>2. r + 4 * 0 = r
      BY SMT
    <3> HIDE DEF next
    <3> QED BY <1>2, <3>1, <3>2 DEF Addends
  <2>2. \A r \in 0..3, c \in 1..3 : column[c][r] = key[r + 4 * c] (+) column[c - 1][r]
    <3>1. 1 - 1 = 0 /\ 2 - 1 = 1 /\ 3 - 1 = 2
      BY SMT
    <3> TAKE r \in 0..3, c \in 1..3
    <3>2. c = 1 \/ c = 2 \/ c = 3
      BY SMT
    <3>3. CASE c = 1
      BY <1>2, <3>1, <3>3, Zenon
    <3>4. CASE c = 2
      BY <1>2, <3>1, <3>4, Zenon
    <3>5. CASE c = 3
      BY <1>2, <3>1, <3>5, Zenon
    <3> QED BY <3>2, <3>3, <3>4, <3>5
  <2>3. \A c \in 1..3 : c \in 0..3 /\ c - 1 \in 0..3
    BY SMT
  <2>4. \A r \in 0..3, c \in 1..3 : next[r + 4 * c] = key[r + 4 * c] (+) next[r + 4 * (c - 1)]
    <3> TAKE r \in 0..3, c \in 1..3
    <3>1. next[r + 4 * c] = column[c][r] /\ next[r + 4 * (c - 1)] = column[c - 1][r]
      BY <1>3, <2>3, Zenon
    <3> HIDE DEF next
    <3> QED BY <2>2, <3>1, Zenon
  <2> QED BY <2>1, <2>4 DEF FollowsFrom
<1> QED BY <1>6, <1>7

\* The round key of FIPS-197 follows from the one before it.
LEMMA NextRoundKeyBytes ==
  ASSUME NEW key \in Block, NEW n \in 1..10
  PROVE  NextRoundKey(key, n) \in Block /\ FollowsFrom(NextRoundKey(key, n), key, n)
<1> DEFINE turned == [r \in 0..3 |-> Substitution[Column(key, 3)[(r + 1) % 4]]
                                       (+) (IF r = 0 THEN PowerOfX(n - 1) ELSE 0)]
           word == [c \in 0..3 |-> Column(key, c)]
           Chain(s) == s = [c \in 0..3 |->
             XorAll(Column(key, c), IF c = 0 THEN turned ELSE s[c - 1])]
           column == CHOOSE s : Chain(s)
<1>1. Addends(turned, key, n)
  BY RowCases, Zenon DEF Addends, KeyAddend, Column, At
<1>2. NextRoundKey(key, n) = Joined(column)
  BY Zenon DEF NextRoundKey, ByRowAndColumn, Joined
<1>3. ColumnsOf(word, key)
  BY Zenon DEF ColumnsOf, Column, At
<1>4. \A s : Chain(s) <=> Chained(s, word, turned)
  <2>1. \A c \in 0..3 : word[c] = Column(key, c)
    BY Zenon
  <2> HIDE DEF turned, word
  <2> QED BY <2>1, Zenon DEF Chained
<1> HIDE DEF turned, word
<1>5. Chained(column, word, turned)
  <2>1. \E s : Chain(s)
    BY <1>4, ChainedColumns, Zenon
  <2> HIDE DEF Chain
  <2> QED BY <1>4, <2>1, Zenon
<1> HIDE DEF column
<1> HIDE DEF Chain
<1> QED BY <1>1, <1>2, <1>3, <1>5, ChainedKey

\* There is only one such key.
LEMMA OneRoundKeyFollows ==
  ASSUME NEW key \in Block, NEW n \in 1..10, NEW next,
         next = [i \in Places |-> next[i]], FollowsFrom(next, key, n)
  PROVE  next = NextRoundKey(key, n)
<1> DEFINE other == NextRoundKey(key, n)
           Same(c) == \A r \in 0..3 : next[r + 4 * c] = other[r + 4 * c]
<1>1. FollowsFrom(other, key, n) /\ other \in Block
  BY NextRoundKeyBytes
<1> HIDE DEF other
<1>2. Same(0)
  <2>1. \A r \in 0..3 : r + 4 * 0 = r
    BY SMT
  <2> QED BY <1>1, <2>1, Zenon DEF FollowsFrom
<1>3. \A c \in 1..3 : Same(c - 1) => Same(c)
  BY <1>1, ZenonT(60) DEF FollowsFrom
<1>4. Same(1) /\ Same(2) /\ Same(3)
  <2>1. 1 \in 1..3 /\ 2 \in 1..3 /\ 3 \in 1..3 /\ 1 - 1 = 0 /\ 2 - 1 = 1 /\ 3 - 1 = 2
    BY SMT
  <2> HIDE DEF Same
  <2> QED BY <1>2, <1>3, <2>1, Zenon
<1>5. \A i \in Places : next[i] = other[i]
  <2> TAKE i \in Places
  <2>1. i % 4 \in 0..3 /\ i \div 4 \in 0..3 /\ i = (i % 4) + 4 * (i \div 4)
    BY RowsAndColumns
  <2>2. Same(i \div 4)
    <3> HIDE DEF Same
    <3> QED BY <1>2, <1>4, <2>1, RowCases, Zenon
  <2> QED BY <2>1, <2>2
<1>6. other = [i \in Places |-> other[i]]
  BY <1>1 DEF Block
<1> QED BY <1>5, <1>6 DEF other

\* Any chain of the columns of a key is the next round key.
LEMMA ChainIsNextRoundKey ==
  ASSUME NEW key \in Block, NEW n \in 1..10, NEW word, ColumnsOf(word, key),
         NEW first, Addends(first, key, n), NEW column, Chained(column, word, first)
  PROVE  Joined(column) = NextRoundKey(key, n)
<1>1. Joined(column) \in Block /\ FollowsFrom(Joined(column), key, n)
  BY ChainedKey
<1>2. Joined(column) = [p \in Places |-> Joined(column)[p]]
  BY <1>1 DEF Block
<1> QED BY <1>1, <1>2, OneRoundKeyFollows

-----------------------------------------------------------------------------
(* The logic of the hardware *)

\* A matrix of four columns of four bytes.
Matrices == [0..3 -> [0..3 -> Byte]]

\* A matrix and its bytes.
LEMMA MatrixBytes ==
  ASSUME NEW m \in Matrices
  PROVE  /\ BytesOf(m) = [p \in Places |-> m[p \div 4][p % 4]]
         /\ BytesOf(m) \in Block
         /\ \A r \in 0..3, c \in 0..3 : BytesOf(m)[r + 4 * c] = m[c][r] /\ m[c][r] \in Byte
<1>1. BytesOf(m) = [p \in Places |-> m[p \div 4][p % 4]]
  BY Zenon DEF BytesOf
<1>2. \A r \in 0..3, c \in 0..3 : BytesOf(m)[r + 4 * c] = m[c][r] /\ m[c][r] \in Byte
  <2>1. \A r \in 0..3, c \in 0..3 : m[c][r] \in Byte
    BY DEF Matrices
  <2> TAKE r \in 0..3, c \in 0..3
  <2>2. r + 4 * c \in Places /\ (r + 4 * c) % 4 = r /\ (r + 4 * c) \div 4 = c
    BY RowsAndColumns
  <2>3. BytesOf(m)[r + 4 * c] = m[(r + 4 * c) \div 4][(r + 4 * c) % 4]
    BY <1>1, <2>2, Zenon
  <2> QED BY <2>1, <2>2, <2>3, Zenon
<1>3. BytesOf(m) \in Block
  BY <1>1, <1>2, RowsAndColumns, Zenon DEF Block
<1> QED BY <1>1, <1>2, <1>3

\* A matrix written with the bytes of a block.
LEMMA BytesOfMatrix ==
  ASSUME NEW b \in Block, NEW m, m = [c \in 0..3 |-> m[c]],
         \A c \in 0..3 : m[c] = [r \in 0..3 |-> m[c][r]],
         \A r \in 0..3, c \in 0..3 : m[c][r] = b[r + 4 * c]
  PROVE  m \in Matrices /\ BytesOf(m) = b
<1>1. \A r \in 0..3, c \in 0..3 : m[c][r] \in Byte
  BY BytesOfColumn, Zenon
<1>2. m \in Matrices
  <2>1. \A c \in 0..3 : m[c] \in [0..3 -> Byte]
    BY <1>1, Zenon
  <2> QED BY <2>1, Zenon DEF Matrices
<1>3. \A p \in Places : m[p \div 4][p % 4] = b[p]
  <2> TAKE p \in Places
  <2>1. p % 4 \in 0..3 /\ p \div 4 \in 0..3 /\ p = (p % 4) + 4 * (p \div 4)
    BY RowsAndColumns
  <2>2. m[p \div 4][p % 4] = b[(p % 4) + 4 * (p \div 4)]
    BY <2>1, Zenon
  <2> QED BY <2>1, <2>2
<1>4. b = [p \in Places |-> b[p]]
  BY DEF Block
<1>5. BytesOf(m) = [p \in Places |-> m[p \div 4][p % 4]]
  BY <1>2, MatrixBytes
<1> QED BY <1>2, <1>3, <1>4, <1>5, Zenon

\* The stages of the pipeline transform the bytes as FIPS-197's round does.
LEMMA HardwareRound ==
  ASSUME NEW m \in Matrices
  PROVE  /\ shifted_and_substituted(m) \in Matrices
         /\ BytesOf(shifted_and_substituted(m)) = ShiftRows(SubBytes(BytesOf(m)))
         /\ product_matrix(m) \in Matrices
         /\ BytesOf(product_matrix(m)) = MixColumns(BytesOf(m))
<1> DEFINE b == BytesOf(m)
<1>1. b \in Block /\ \A r \in 0..3, c \in 0..3 : b[r + 4 * c] = m[c][r] /\ m[c][r] \in Byte
  BY MatrixBytes
<1> HIDE DEF b
<1>2. /\ shifted_and_substituted(m) \in Matrices
      /\ BytesOf(shifted_and_substituted(m)) = ShiftRows(SubBytes(b))
  <2> DEFINE s == shifted_and_substituted(m)
             t == ShiftRows(SubBytes(b))
  <2>1. s = [c \in 0..3 |-> [r \in 0..3 |-> lookup_table_256x8(m[(c + r) % 4][r])]]
    BY Zenon DEF shifted_and_substituted
  <2>2. t \in Block /\ t = [p \in Places |-> Substitution[b[From(p)]]]
    BY <1>1, ShiftedBytes
  <2> HIDE DEF s, t
  <2>3. ASSUME NEW r \in 0..3, NEW c \in 0..3
        PROVE  s[c][r] = t[r + 4 * c]
    <3>1. r + 4 * c \in Places /\ (r + 4 * c) % 4 = r /\ (r + 4 * c) \div 4 = c
      BY RowsAndColumns
    <3>2. (c + r) % 4 \in 0..3
      BY SMT
    <3>3. t[r + 4 * c] = Substitution[b[r + 4 * ((c + r) % 4)]]
      BY <2>2, <3>1, Zenon DEF From
    <3>4. s[c][r] = lookup_table_256x8(m[(c + r) % 4][r])
      BY <2>1, Zenon
    <3> QED BY <1>1, <3>2, <3>3, <3>4, Substitutions
  <2>4. s = [c \in 0..3 |-> s[c]] /\ \A c \in 0..3 : s[c] = [r \in 0..3 |-> s[c][r]]
    BY <2>1, Zenon
  <2> QED BY <2>2, <2>3, <2>4, BytesOfMatrix DEF s, t
<1>3. /\ product_matrix(m) \in Matrices
      /\ BytesOf(product_matrix(m)) = MixColumns(b)
  <2> DEFINE s == product_matrix(m)
             row_sum(r, x) ==
               CASE r = 0 -> scale_by_2(x[0]) (+) (scale_by_3(x[1]) (+) (x[2] (+) x[3]))
                 [] r = 1 -> x[0] (+) (scale_by_2(x[1]) (+) (scale_by_3(x[2]) (+) x[3]))
                 [] r = 2 -> x[0] (+) (x[1] (+) (scale_by_2(x[2]) (+) scale_by_3(x[3])))
                 [] r = 3 -> scale_by_3(x[0]) (+) (x[1] (+) (x[2] (+) scale_by_2(x[3])))
  <2>1. s = [c \in 0..3 |-> [r \in 0..3 |-> row_sum(r, m[c])]]
    BY Zenon DEF product_matrix
  <2>2. MixColumns(b) \in Block /\ MixColumns(b) = [p \in Places |-> MixedAt(b, p % 4, p \div 4)]
    BY <1>1, MixColumnsBytes
  <2> HIDE DEF s
  <2>3. ASSUME NEW r \in 0..3, NEW c \in 0..3
        PROVE  row_sum(r, m[c]) = MixedAt(b, r, c)
    <3> DEFINE y(j) == b[j + 4 * c]
    <3>1. m[c][0] = y(0) /\ m[c][1] = y(1) /\ m[c][2] = y(2) /\ m[c][3] = y(3)
      BY <1>1, RowCases, Zenon
    <3>2. y(0) \in Byte /\ y(1) \in Byte /\ y(2) \in Byte /\ y(3) \in Byte
      BY <1>1, BytesOfColumn, RowCases
    <3>3. /\ Double[y(0)] (+) ((Double[y(1)] (+) y(1)) (+) (y(2) (+) y(3))) = MixedAt(b, 0, c)
          /\ y(0) (+) (Double[y(1)] (+) ((Double[y(2)] (+) y(2)) (+) y(3))) = MixedAt(b, 1, c)
          /\ y(0) (+) (y(1) (+) (Double[y(2)] (+) (Double[y(3)] (+) y(3)))) = MixedAt(b, 2, c)
          /\ (Double[y(0)] (+) y(0)) (+) (y(1) (+) (y(2) (+) Double[y(3)])) = MixedAt(b, 3, c)
      BY <1>1, RowSums
    <3> HIDE DEF y
    <3>4. /\ scale_by_2(y(0)) = Double[y(0)] /\ scale_by_3(y(0)) = Double[y(0)] (+) y(0)
          /\ scale_by_2(y(1)) = Double[y(1)] /\ scale_by_3(y(1)) = Double[y(1)] (+) y(1)
          /\ scale_by_2(y(2)) = Double[y(2)] /\ scale_by_3(y(2)) = Double[y(2)] (+) y(2)
          /\ scale_by_2(y(3)) = Double[y(3)] /\ scale_by_3(y(3)) = Double[y(3)] (+) y(3)
      BY <3>2, Scalings
    <3>5. CASE r = 0
      BY <3>1, <3>3, <3>4, <3>5, RowCases, Zenon
    <3>6. CASE r = 1
      BY <3>1, <3>3, <3>4, <3>6, RowCases, Zenon
    <3>7. CASE r = 2
      BY <3>1, <3>3, <3>4, <3>7, RowCases, Zenon
    <3>8. CASE r = 3
      BY <3>1, <3>3, <3>4, <3>8, RowCases, Zenon
    <3> QED BY <3>5, <3>6, <3>7, <3>8, RowCases, Zenon
  <2> HIDE DEF row_sum
  <2>4. \A r \in 0..3, c \in 0..3 : s[c][r] = MixColumns(b)[r + 4 * c]
    <3> TAKE r \in 0..3, c \in 0..3
    <3>1. r + 4 * c \in Places /\ (r + 4 * c) % 4 = r /\ (r + 4 * c) \div 4 = c
      BY RowsAndColumns
    <3>2. MixColumns(b)[r + 4 * c] = MixedAt(b, (r + 4 * c) % 4, (r + 4 * c) \div 4)
      BY <2>2, <3>1, Zenon
    <3>3. s[c][r] = row_sum(r, m[c])
      BY <2>1, Zenon
    <3> QED BY <2>3, <3>1, <3>2, <3>3, Zenon
  <2>5. s = [c \in 0..3 |-> s[c]] /\ \A c \in 0..3 : s[c] = [r \in 0..3 |-> s[c][r]]
    BY <2>1, Zenon
  <2> QED BY <2>2, <2>4, <2>5, BytesOfMatrix DEF s
<1> QED BY <1>2, <1>3 DEF b

\* A stage adds the round key byte for byte.
LEMMA HardwareKeyAdded ==
  ASSUME NEW m \in Matrices, NEW k \in Matrices
  PROVE  /\ add_key(m, k) \in Matrices
         /\ BytesOf(add_key(m, k)) = XorAll(BytesOf(m), BytesOf(k))
<1> DEFINE s == add_key(m, k)
           x == XorAll(BytesOf(m), BytesOf(k))
<1>1. /\ BytesOf(m) \in Block /\ BytesOf(k) \in Block
      /\ \A r \in 0..3, c \in 0..3 : BytesOf(m)[r + 4 * c] = m[c][r]
      /\ \A r \in 0..3, c \in 0..3 : BytesOf(k)[r + 4 * c] = k[c][r]
  BY MatrixBytes
<1>2. x \in Block /\ x = [p \in Places |-> BytesOf(m)[p] (+) BytesOf(k)[p]]
  BY <1>1, XorAllBlocks
<1>3. s = [c \in 0..3 |-> XorAll(m[c], k[c])]
  BY Zenon DEF add_key
<1> HIDE DEF s, x
<1>4. \A c \in 0..3 : s[c] = [r \in 0..3 |-> m[c][r] (+) k[c][r]]
  <2>1. \A c \in 0..3 : DOMAIN m[c] = 0..3
    BY DEF Matrices
  <2> QED BY <1>3, <2>1, Zenon DEF XorAll
<1>5. \A r \in 0..3, c \in 0..3 : s[c][r] = x[r + 4 * c]
  <2> TAKE r \in 0..3, c \in 0..3
  <2>1. r + 4 * c \in Places
    BY RowsAndColumns
  <2>2. s[c][r] = m[c][r] (+) k[c][r]
    BY <1>4, Zenon
  <2>3. x[r + 4 * c] = BytesOf(m)[r + 4 * c] (+) BytesOf(k)[r + 4 * c]
    BY <1>2, <2>1, Zenon
  <2> QED BY <1>1, <2>2, <2>3, Zenon
<1>6. s = [c \in 0..3 |-> s[c]] /\ \A c \in 0..3 : s[c] = [r \in 0..3 |-> s[c][r]]
  BY <1>3, <1>4, Zenon
<1> QED BY <1>2, <1>5, <1>6, BytesOfMatrix DEF s, x

\* The expansion unit makes of a key the next one, with that key's round constant.
LEMMA HardwareNextKey ==
  ASSUME NEW m \in Matrices, NEW n \in 1..10
  PROVE  /\ expand_key(m, PowerOfX(n - 1)) \in Matrices
         /\ BytesOf(expand_key(m, PowerOfX(n - 1))) = NextRoundKey(BytesOf(m), n)
<1> DEFINE key == BytesOf(m)
           constant == PowerOfX(n - 1)
           g == g_of_column(m, constant)
           Chain(s) == s = [c \in 0..3 |-> XorAll(m[c], IF c = 0 THEN g ELSE s[c - 1])]
           column == CHOOSE s : Chain(s)
<1>1. key \in Block /\ \A r \in 0..3, c \in 0..3 : key[r + 4 * c] = m[c][r] /\ m[c][r] \in Byte
  BY MatrixBytes
<1> HIDE DEF key
<1>2. Addends(g, key, n)
  <2>1. /\ lookup_table_256x8(m[3][0]) = Substitution[key[0 + 4 * 3]]
        /\ lookup_table_256x8(m[3][1]) = Substitution[key[1 + 4 * 3]]
        /\ lookup_table_256x8(m[3][2]) = Substitution[key[2 + 4 * 3]]
        /\ lookup_table_256x8(m[3][3]) = Substitution[key[3 + 4 * 3]]
        /\ Substitution[key[0 + 4 * 3]] \in Byte /\ Substitution[key[1 + 4 * 3]] \in Byte
        /\ Substitution[key[2 + 4 * 3]] \in Byte /\ Substitution[key[3 + 4 * 3]] \in Byte
    <3>1. \A r \in 0..3 : /\ lookup_table_256x8(m[3][r]) = Substitution[key[r + 4 * 3]]
                          /\ Substitution[key[r + 4 * 3]] \in Byte
      BY <1>1, Substitutions, RowCases
    <3> QED BY <3>1, RowCases, Zenon
  <2>2. /\ g[0] = lookup_table_256x8(m[3][1]) (+) constant
        /\ g[1] = lookup_table_256x8(m[3][2])
        /\ g[2] = lookup_table_256x8(m[3][3])
        /\ g[3] = lookup_table_256x8(m[3][0])
    <3> DEFINE s == [r \in 0..3 |-> CASE r = 0 -> lookup_table_256x8(m[3][1]) (+) constant
                                      [] r = 1 -> lookup_table_256x8(m[3][2])
                                      [] r = 2 -> lookup_table_256x8(m[3][3])
                                      [] r = 3 -> lookup_table_256x8(m[3][0])]
    <3>1. g = s
      BY Zenon DEF g_of_column
    <3> HIDE DEF g, constant
    <3>2. s[0] = lookup_table_256x8(m[3][1]) (+) constant
      BY RowCases, Zenon
    <3>3. s[1] = lookup_table_256x8(m[3][2])
      BY RowCases, Zenon
    <3>4. s[2] = lookup_table_256x8(m[3][3])
      BY RowCases, Zenon
    <3>5. s[3] = lookup_table_256x8(m[3][0])
      BY RowCases, Zenon
    <3> QED BY <3>1, <3>2, <3>3, <3>4, <3>5
  <2> HIDE DEF g
  <2>3. g[0] = KeyAddend(key, n, 0)
    BY <2>1, <2>2, RowCases, Zenon DEF KeyAddend
  <2> HIDE DEF constant
  <2>4. g[1] = KeyAddend(key, n, 1)
    <3>1. KeyAddend(key, n, 1) = Substitution[key[2 + 4 * 3]] (+) 0
      BY RowCases, Zenon DEF KeyAddend
    <3> QED BY <2>1, <2>2, <3>1, XorZero
  <2>5. g[2] = KeyAddend(key, n, 2)
    <3>1. KeyAddend(key, n, 2) = Substitution[key[3 + 4 * 3]] (+) 0
      BY RowCases, Zenon DEF KeyAddend
    <3> QED BY <2>1, <2>2, <3>1, XorZero
  <2>6. g[3] = KeyAddend(key, n, 3)
    <3>1. KeyAddend(key, n, 3) = Substitution[key[0 + 4 * 3]] (+) 0
      BY RowCases, Zenon DEF KeyAddend
    <3> QED BY <2>1, <2>2, <3>1, XorZero
  <2> QED BY <2>3, <2>4, <2>5, <2>6, RowCases, Zenon DEF Addends
<1>3. expand_key(m, constant) = column
  BY Zenon DEF expand_key
<1> HIDE DEF g
<1>4. ColumnsOf(m, key)
  <2>1. \A c \in 0..3 : m[c] = [r \in 0..3 |-> m[c][r]]
    BY DEF Matrices
  <2>2. \A c \in 0..3 : [r \in 0..3 |-> m[c][r]] = [r \in 0..3 |-> key[r + 4 * c]]
    BY <1>1
  <2> QED BY <2>1, <2>2, Zenon DEF ColumnsOf
<1>5. Chained(column, m, g)
  <2>1. \E s : Chained(s, m, g)
    BY ChainedColumns, Zenon
  <2>2. \A s : Chain(s) <=> Chained(s, m, g)
    BY Zenon DEF Chained
  <2> HIDE DEF Chain
  <2> QED BY <2>1, <2>2, Zenon
<1> HIDE DEF column
<1>6. Joined(column) = NextRoundKey(key, n) /\ NextRoundKey(key, n) \in Block
  BY <1>1, <1>2, <1>4, <1>5, ChainIsNextRoundKey, NextRoundKeyBytes
<1>7. \A r \in 0..3, c \in 0..3 : column[c][r] = Joined(column)[r + 4 * c]
  <2> TAKE r \in 0..3, c \in 0..3
  <2>1. r + 4 * c \in Places /\ (r + 4 * c) % 4 = r /\ (r + 4 * c) \div 4 = c
    BY RowsAndColumns
  <2>2. Joined(column)[r + 4 * c] = column[(r + 4 * c) \div 4][(r + 4 * c) % 4]
    BY <2>1, Zenon DEF Joined
  <2> QED BY <2>1, <2>2
<1>8. column = [c \in 0..3 |-> column[c]]
  BY <1>5, Zenon DEF Chained
<1>9. \A c \in 0..3 : column[c] = [r \in 0..3 |-> column[c][r]]
  <2>1. \A c \in 0..3 : \E f : column[c] = XorAll(m[c], f)
    BY <1>5, Zenon DEF Chained
  <2>2. \A c \in 0..3 : \A f : XorAll(m[c], f) = [r \in 0..3 |-> m[c][r] (+) f[r]]
    <3>1. \A c \in 0..3 : DOMAIN m[c] = 0..3
      BY DEF Matrices
    <3> QED BY <3>1, Zenon DEF XorAll
  <2> QED BY <2>1, <2>2, Zenon
<1>10. column \in Matrices /\ BytesOf(column) = NextRoundKey(key, n)
  BY <1>6, <1>7, <1>8, <1>9, BytesOfMatrix
<1> QED BY <1>3, <1>10 DEF key

\* The round constants of the expansion unit are the powers of x.
LEMMA HardwareConstants ==
  ASSUME NEW n \in 0..9
  PROVE  ROUND_G_CONSTANTS[n + 1] = PowerOfX(n)
<1>1. n = 0 \/ n = 1 \/ n = 2 \/ n = 3 \/ n = 4 \/ n = 5 \/ n = 6 \/ n = 7 \/ n = 8 \/ n = 9
  BY SMT
<1>2. /\ 0 + 1 = 1 /\ 1 + 1 = 2 /\ 2 + 1 = 3 /\ 3 + 1 = 4 /\ 4 + 1 = 5
      /\ 5 + 1 = 6 /\ 6 + 1 = 7 /\ 7 + 1 = 8 /\ 8 + 1 = 9 /\ 9 + 1 = 10
  BY SMT
<1> DEFINE table == ROUND_G_CONSTANTS
           Right(m) == table[m + 1] = PowerOfX(m)
<1>3. /\ table[1] = 1 /\ table[2] = 2 /\ table[3] = 4 /\ table[4] = 8 /\ table[5] = 16
      /\ table[6] = 32 /\ table[7] = 64 /\ table[8] = 128 /\ table[9] = 27 /\ table[10] = 54
  BY SMT DEF ROUND_G_CONSTANTS
<1> HIDE DEF table
<1>4. Right(0) /\ Right(1) /\ Right(2) /\ Right(3) /\ Right(4) /\ Right(5) /\ Right(6) /\ Right(7)
      /\ Right(8) /\ Right(9)
  BY <1>2, <1>3, RoundConstants
<1> HIDE DEF Right
<1>5. Right(n)
  BY <1>1, <1>4, Zenon
<1> QED BY <1>5 DEF Right, table

\* The matrix that the hardware is given has the bytes of the block.
LEMMA MatrixOfBlock ==
  ASSUME NEW b \in Block
  PROVE  Matrix(b) \in Matrices /\ BytesOf(Matrix(b)) = b
<1> DEFINE m == Matrix(b)
<1>1. m = [c \in 0..3 |-> [r \in 0..3 |-> b[4 * c + r]]]
  BY Zenon DEF Matrix
<1> HIDE DEF m
<1>2. \A r \in 0..3, c \in 0..3 : m[c][r] = b[r + 4 * c]
  BY <1>1, RowsAndColumns, Zenon
<1>3. m = [c \in 0..3 |-> m[c]] /\ \A c \in 0..3 : m[c] = [r \in 0..3 |-> m[c][r]]
  BY <1>1, Zenon
<1> QED BY <1>2, <1>3, BytesOfMatrix DEF m

-----------------------------------------------------------------------------
(* The ten rounds *)

\* The numbers of the rounds.
LEMMA RoundNumbers ==
  /\ \A n \in 0..10 : \/ n = 0 \/ n = 1 \/ n = 2 \/ n = 3 \/ n = 4 \/ n = 5
                       \/ n = 6 \/ n = 7 \/ n = 8 \/ n = 9 \/ n = 10
  /\ 1 - 1 = 0 /\ 2 - 1 = 1 /\ 3 - 1 = 2 /\ 4 - 1 = 3 /\ 5 - 1 = 4
  /\ 6 - 1 = 5 /\ 7 - 1 = 6 /\ 8 - 1 = 7 /\ 9 - 1 = 8 /\ 10 - 1 = 9
BY SMT

\* What holds of the first and goes on from round to round holds of all ten.
LEMMA RoundByRound ==
  ASSUME NEW rounds \in 1..10, NEW S, 0 \in S, \A n \in 1..rounds : n - 1 \in S => n \in S
  PROVE  \A n \in 0..rounds : n \in S
<1> DEFINE Next(n) == n <= rounds => n \in S
<1>1. \A n \in 1..10 : Next(n - 1) => Next(n)
  <2> TAKE n \in 1..10
  <2>1. n <= rounds => n \in 1..rounds /\ n - 1 <= rounds
    BY SMT
  <2> QED BY <2>1, Zenon
<1>2. Next(0)
  OBVIOUS
<1> HIDE DEF Next
<1>3. /\ Next(1) /\ Next(2) /\ Next(3) /\ Next(4) /\ Next(5)
      /\ Next(6) /\ Next(7) /\ Next(8) /\ Next(9) /\ Next(10)
  <2>1. \A n \in {1, 2, 3, 4, 5, 6, 7, 8, 9, 10} : n \in 1..10
    BY SMT
  <2>2. /\ (Next(0) => Next(1)) /\ (Next(1) => Next(2))
        /\ (Next(2) => Next(3)) /\ (Next(3) => Next(4))
        /\ (Next(4) => Next(5)) /\ (Next(5) => Next(6))
        /\ (Next(6) => Next(7)) /\ (Next(7) => Next(8))
        /\ (Next(8) => Next(9)) /\ (Next(9) => Next(10))
    BY <1>1, <2>1, RoundNumbers
  <2> QED BY <1>2, <2>2, Zenon
<1>4. \A n \in 0..10 : Next(n)
  BY <1>2, <1>3, RoundNumbers, Zenon
<1>5. \A n \in 0..rounds : n \in 0..10 /\ n <= rounds
  BY SMT
<1> QED BY <1>4, <1>5 DEF Next

\* Steps from block to block can be taken one after the other.
LEMMA StepByStep ==
  ASSUME NEW rounds \in 1..10, NEW first \in Block, NEW step \in [1..rounds -> [Block -> Block]]
  PROVE  \E t \in [0..rounds -> Block] : t[0] = first /\ \A n \in 1..rounds : t[n] = step[n][t[n - 1]]
<1> DEFINE Run(t, n) == t[0] = first /\ \A m \in 1..n : t[m] = step[m][t[m - 1]]
           S == {n \in 0..rounds : \E t \in [0..n -> Block] : Run(t, n)}
<1>1. 0 \in S
  <2> DEFINE t == [m \in 0..0 |-> first]
  <2>1. t \in [0..0 -> Block] /\ t[0] = first /\ 0 \in 0..rounds /\ 1..0 = {}
    BY SMT
  <2> QED BY <2>1, Zenon
<1>2. ASSUME NEW n \in 1..rounds, n - 1 \in S
      PROVE  n \in S
  <2>1. PICK t \in [0..(n - 1) -> Block] : Run(t, n - 1)
    BY <1>2
  <2> DEFINE longer == [m \in 0..n |-> IF m = n THEN step[n][t[n - 1]] ELSE t[m]]
  <2>2. /\ n \in 0..rounds /\ n \in 0..n /\ 0 # n /\ 0 \in 0..n
        /\ n - 1 # n /\ n - 1 \in 0..(n - 1) /\ n - 1 \in 0..n
        /\ \A m \in 0..n : m # n => m \in 0..(n - 1)
        /\ \A m \in 1..n : m # n => m \in 1..(n - 1)
        /\ \A m \in 1..n : m \in 0..n /\ m - 1 \in 0..n /\ m - 1 # n
    BY SMT
  <2>3. step[n][t[n - 1]] \in Block
    BY <2>2
  <2>4. longer \in [0..n -> Block]
    BY <2>2, <2>3
  <2>5. longer[0] = first
    BY <2>1, <2>2
  <2>6. ASSUME NEW m \in 1..n
        PROVE  longer[m] = step[m][longer[m - 1]]
    <3>1. longer[m - 1] = t[m - 1]
      BY <2>2, Zenon
    <3>2. CASE m = n
      <4>1. longer[m] = step[n][t[n - 1]]
        BY <2>2, <3>2, Zenon
      <4> QED BY <3>1, <3>2, <4>1
    <3>3. CASE m # n
      <4>1. longer[m] = t[m] /\ t[m] = step[m][t[m - 1]]
        BY <2>1, <2>2, <3>3, Zenon
      <4> QED BY <3>1, <4>1
    <3> QED BY <3>2, <3>3
  <2> HIDE DEF longer
  <2>7. Run(longer, n)
    BY <2>5, <2>6
  <2> QED BY <2>2, <2>4, <2>7
<1> HIDE DEF S
<1>3. rounds \in S
  <2>1. \A n \in 0..rounds : n \in S
    BY <1>1, <1>2, RoundByRound
  <2>2. rounds \in 0..rounds
    BY SMT
  <2> QED BY <2>1, <2>2
<1> QED BY <1>3 DEF S

\* A block, settled, is itself.
LEMMA SettledBlock ==
  ASSUME NEW b \in Block
  PROVE  Settled(b) = b
<1> DEFINE bytes == [i \in 1..16 |-> b[i - 1]]
<1>1. \A i \in 1..16 : i - 1 \in Places
  BY SMT DEF Places
<1>2. bytes \in Seq(Byte) /\ Len(bytes) = 16
  BY <1>1, SMT DEF Block
<1>3. bytes \o << >> = bytes
  BY <1>2, SMT
<1>4. \A p \in Places : p + 1 \in 1..16 /\ (p + 1) - 1 = p
  BY SMT DEF Places
<1>5. \A p \in Places : bytes[p + 1] = b[p]
  BY <1>4
<1> HIDE DEF bytes
<1>6. BlockOf(bytes) = [p \in Places |-> b[p]]
  BY <1>5 DEF BlockOf
<1>7. Settled(b) = BlockOf(bytes \o << >>)
  BY Zenon DEF Settled, bytes
<1> QED BY <1>3, <1>6, <1>7 DEF Block

\* The round keys: each is FIPS-197's next of the one before.
LEMMA KeySchedules ==
  ASSUME NEW rounds \in 1..10, NEW key \in Block
  PROVE  /\ KeySchedule(key, rounds)[0] = key
         /\ \A n \in 0..rounds : KeySchedule(key, rounds)[n] \in Block
         /\ \A n \in 1..rounds :
              KeySchedule(key, rounds)[n] = NextRoundKey(KeySchedule(key, rounds)[n - 1], n)
<1> DEFINE Schedule(s) ==
             s = [n \in 0..rounds |-> IF n = 0 THEN key ELSE Settled(NextRoundKey(s[n - 1], n))]
           schedule == CHOOSE s : Schedule(s)
           step == [n \in 1..rounds |-> [b \in Block |-> NextRoundKey(b, n)]]
<1>1. \A n \in 1..rounds : /\ n \in 1..10 /\ n \in 0..rounds /\ n # 0
                           /\ n - 1 \in 0..rounds
  BY SMT
<1>2. \A n \in 1..rounds, b \in Block :
        NextRoundKey(b, n) \in Block /\ Settled(NextRoundKey(b, n)) = NextRoundKey(b, n)
  BY <1>1, NextRoundKeyBytes, SettledBlock
<1>3. \E s : Schedule(s)
  <2>1. step \in [1..rounds -> [Block -> Block]]
    BY <1>2
  <2>2. \A n \in 1..rounds, b \in Block : step[n][b] = NextRoundKey(b, n)
    BY Zenon
  <2> HIDE DEF step
  <2>3. PICK t \in [0..rounds -> Block] : t[0] = key /\ \A n \in 1..rounds : t[n] = step[n][t[n - 1]]
    BY <2>1, StepByStep
  <2>4. \A n \in 0..rounds : n # 0 => n \in 1..rounds
    BY SMT
  <2>5. \A n \in 1..rounds : t[n] = Settled(NextRoundKey(t[n - 1], n))
    BY <1>1, <1>2, <2>2, <2>3
  <2>6. \A n \in 0..rounds : t[n] = IF n = 0 THEN key ELSE Settled(NextRoundKey(t[n - 1], n))
    BY <2>3, <2>4, <2>5, Zenon
  <2>7. t = [n \in 0..rounds |-> t[n]]
    OBVIOUS
  <2>8. Schedule(t)
    BY <2>6, <2>7, Zenon
  <2> QED BY <2>8, Zenon
<1>4. Schedule(schedule)
  <2> HIDE DEF Schedule
  <2> QED BY <1>3, Zenon
<1>5. KeySchedule(key, rounds) = schedule
  BY Zenon DEF KeySchedule
<1> HIDE DEF schedule
<1>6. /\ schedule[0] = key
      /\ \A n \in 1..rounds : schedule[n] = Settled(NextRoundKey(schedule[n - 1], n))
  <2>1. 0 \in 0..rounds
    BY SMT
  <2> QED BY <1>1, <1>4, <2>1, Zenon
<1> HIDE DEF Schedule
<1>7. \A n \in 0..rounds : schedule[n] \in Block
  <2> DEFINE S == {n \in 0..rounds : schedule[n] \in Block}
  <2>1. 0 \in S
    <3>1. 0 \in 0..rounds
      BY SMT
    <3> QED BY <1>6, <3>1
  <2>2. \A n \in 1..rounds : n - 1 \in S => n \in S
    BY <1>1, <1>2, <1>6
  <2>3. \A n \in 0..rounds : n \in S
    <3> HIDE DEF S
    <3> QED BY <2>1, <2>2, RoundByRound
  <2> QED BY <2>3
<1> QED BY <1>1, <1>2, <1>5, <1>6, <1>7

\* What a round does before it adds its key makes a block of a block.
LEMMA BeforeKeyType ==
  ASSUME NEW b \in Block, NEW n, NEW rounds
  PROVE  BeforeKey(b, n, rounds) \in Block
<1>1. ShiftRows(SubBytes(b)) \in Block
  BY ShiftedBytes
<1>2. MixColumns(ShiftRows(SubBytes(b))) \in Block
  BY <1>1, MixColumnsBytes
<1> QED BY <1>1, <1>2 DEF BeforeKey

\* A text in the rounds: each transforms it and adds the round's key.
LEMMA Encryptions ==
  ASSUME NEW rounds \in 1..10, NEW key \in Block, NEW text \in Block
  PROVE  /\ Encryption(key, text, rounds)[0] = XorAll(text, key)
         /\ \A n \in 0..rounds : Encryption(key, text, rounds)[n] \in Block
         /\ \A n \in 1..rounds :
              Encryption(key, text, rounds)[n]
                = XorAll(BeforeKey(Encryption(key, text, rounds)[n - 1], n, rounds),
                         KeySchedule(key, rounds)[n])
<1> DEFINE k == KeySchedule(key, rounds)
           round(b, n) == XorAll(BeforeKey(b, n, rounds), k[n])
           Chain(s) ==
             s = [n \in 0..rounds |-> IF n = 0 THEN XorAll(text, key) ELSE Settled(round(s[n - 1], n))]
           after == CHOOSE s : Chain(s)
           step == [n \in 1..rounds |-> [b \in Block |-> round(b, n)]]
<1>1. \A n \in 1..rounds : n \in 0..rounds /\ n # 0 /\ n - 1 \in 0..rounds
  BY SMT
<1>2. \A n \in 0..rounds : k[n] \in Block
  BY KeySchedules
<1> HIDE DEF k
<1>3. \A n \in 1..rounds, b \in Block : round(b, n) \in Block /\ Settled(round(b, n)) = round(b, n)
  <2> TAKE n \in 1..rounds, b \in Block
  <2>1. BeforeKey(b, n, rounds) \in Block /\ k[n] \in Block
    BY <1>1, <1>2, BeforeKeyType
  <2>2. round(b, n) \in Block
    BY <2>1, XorAllBlocks
  <2> QED BY <2>2, SettledBlock
<1> HIDE DEF round
<1>4. XorAll(text, key) \in Block
  BY XorAllBlocks
<1>5. \E s : Chain(s)
  <2>1. step \in [1..rounds -> [Block -> Block]]
    BY <1>3
  <2>2. \A n \in 1..rounds, b \in Block : step[n][b] = round(b, n)
    BY Zenon
  <2> HIDE DEF step
  <2>3. PICK t \in [0..rounds -> Block] :
          t[0] = XorAll(text, key) /\ \A n \in 1..rounds : t[n] = step[n][t[n - 1]]
    BY <1>4, <2>1, StepByStep
  <2>4. \A n \in 0..rounds : n # 0 => n \in 1..rounds
    BY SMT
  <2>5. \A n \in 1..rounds : t[n] = Settled(round(t[n - 1], n))
    BY <1>1, <1>3, <2>2, <2>3
  <2>6. \A n \in 0..rounds : t[n] = IF n = 0 THEN XorAll(text, key) ELSE Settled(round(t[n - 1], n))
    BY <2>3, <2>4, <2>5, Zenon
  <2>7. t = [n \in 0..rounds |-> t[n]]
    OBVIOUS
  <2>8. Chain(t)
    BY <2>6, <2>7, Zenon
  <2> QED BY <2>8, Zenon
<1>6. Chain(after)
  <2> HIDE DEF Chain
  <2> QED BY <1>5, Zenon
<1>7. Encryption(key, text, rounds) = after
  BY Zenon DEF Encryption, round, k
<1> HIDE DEF after
<1>8. /\ after[0] = XorAll(text, key)
      /\ \A n \in 1..rounds : after[n] = Settled(round(after[n - 1], n))
  <2>1. 0 \in 0..rounds
    BY SMT
  <2> QED BY <1>1, <1>6, <2>1, Zenon
<1> HIDE DEF Chain
<1>9. \A n \in 0..rounds : after[n] \in Block
  <2> DEFINE S == {n \in 0..rounds : after[n] \in Block}
  <2>1. 0 \in S
    <3>1. 0 \in 0..rounds
      BY SMT
    <3> QED BY <1>4, <1>8, <3>1
  <2>2. \A n \in 1..rounds : n - 1 \in S => n \in S
    BY <1>1, <1>3, <1>8
  <2>3. \A n \in 0..rounds : n \in S
    <3> HIDE DEF S
    <3> QED BY <2>1, <2>2, RoundByRound
  <2> QED BY <2>3
<1>10. \A n \in 1..rounds : after[n] = round(after[n - 1], n)
  BY <1>1, <1>3, <1>8, <1>9
<1> QED BY <1>7, <1>8, <1>9, <1>10 DEF round, k

-----------------------------------------------------------------------------
(* Matrices of blocks *)

\* The matrix of a matrix's bytes is the matrix.
LEMMA MatrixOfBytes ==
  ASSUME NEW m \in Matrices
  PROVE  Matrix(BytesOf(m)) = m
<1>1. \A r \in 0..3, c \in 0..3 : 4 * c + r = r + 4 * c
  BY RowsAndColumns
<1>2. \A r \in 0..3, c \in 0..3 : BytesOf(m)[4 * c + r] = m[c][r]
  BY <1>1, MatrixBytes
<1>3. m = [c \in 0..3 |-> [r \in 0..3 |-> m[c][r]]]
  BY DEF Matrices
<1> QED BY <1>2, <1>3 DEF Matrix

\* On the matrices of blocks: the addition of a key,
LEMMA AddedMatrix ==
  ASSUME NEW b \in Block, NEW k \in Block
  PROVE  add_key(Matrix(b), Matrix(k)) = Matrix(XorAll(b, k))
<1>1. /\ Matrix(b) \in Matrices /\ BytesOf(Matrix(b)) = b
      /\ Matrix(k) \in Matrices /\ BytesOf(Matrix(k)) = k
  BY MatrixOfBlock
<1>2. /\ add_key(Matrix(b), Matrix(k)) \in Matrices
      /\ BytesOf(add_key(Matrix(b), Matrix(k))) = XorAll(b, k)
  BY <1>1, HardwareKeyAdded
<1> QED BY <1>2, MatrixOfBytes

\* a stage of the pipeline,
LEMMA RoundOfMatrix ==
  ASSUME NEW b \in Block, NEW k \in Block, NEW n, NEW rounds
  PROVE  aes_round_pe(n # rounds, Matrix(b), Matrix(k)) = Matrix(XorAll(BeforeKey(b, n, rounds), k))
<1> DEFINE substituted == shifted_and_substituted(Matrix(b))
           mixed == product_matrix(substituted)
<1>1. Matrix(b) \in Matrices /\ BytesOf(Matrix(b)) = b
  BY MatrixOfBlock
<1>2. aes_round_pe(n # rounds, Matrix(b), Matrix(k))
        = add_key(IF n # rounds THEN mixed ELSE substituted, Matrix(k))
  BY Zenon DEF aes_round_pe
<1>3. substituted \in Matrices /\ BytesOf(substituted) = ShiftRows(SubBytes(b))
  BY <1>1, HardwareRound
<1> HIDE DEF substituted
<1>4. mixed \in Matrices /\ BytesOf(mixed) = MixColumns(ShiftRows(SubBytes(b)))
  BY <1>3, HardwareRound
<1> HIDE DEF mixed
<1>5. (IF n # rounds THEN mixed ELSE substituted) = Matrix(BeforeKey(b, n, rounds))
  <2>1. mixed = Matrix(MixColumns(ShiftRows(SubBytes(b)))) /\ substituted = Matrix(ShiftRows(SubBytes(b)))
    BY <1>3, <1>4, MatrixOfBytes
  <2> QED BY <2>1, Zenon DEF BeforeKey
<1>6. BeforeKey(b, n, rounds) \in Block
  BY BeforeKeyType
<1> QED BY <1>2, <1>5, <1>6, AddedMatrix

\* and the derivation of a round key with its constant.
LEMMA NextKeyMatrix ==
  ASSUME NEW k \in Block, NEW n \in 1..10
  PROVE  expand_key(Matrix(k), PowerOfX(n - 1)) = Matrix(NextRoundKey(k, n))
<1>1. Matrix(k) \in Matrices /\ BytesOf(Matrix(k)) = k
  BY MatrixOfBlock
<1>2. /\ expand_key(Matrix(k), PowerOfX(n - 1)) \in Matrices
      /\ BytesOf(expand_key(Matrix(k), PowerOfX(n - 1))) = NextRoundKey(k, n)
  BY <1>1, HardwareNextKey
<1> QED BY <1>2, MatrixOfBytes
=============================================================================
