----------------------------- MODULE GaloisField -----------------------------
(***************************************************************************)
(* The arithmetic of GF(2^8) and the substitution of AES, as FIPS-197      *)
(* defines them.                                                           *)
(***************************************************************************)
EXTENDS Bytes

\* a times x, reduced by x^8 + x^4 + x^3 + x + 1.
Double[a \in Byte] == IF a < 128 THEN 2 * a ELSE ((2 * a) % 256) (+) 27

\* The product of a and b, from the highest coefficient of b down.
Times(a, b) ==
  LET times == [x \in Byte |-> [y \in Byte |->
        LET above[i \in 0..8] ==
              IF i = 8 THEN 0
                       ELSE Double[above[i + 1]] (+) (IF Bit(y, i) = 1 THEN x ELSE 0)
        IN  above[0]]]
  IN  times[a][b]

Reciprocal[a \in Byte] == IF a = 0 THEN 0 ELSE CHOOSE b \in Byte : Times(a, b) = 1

Affine[a \in Byte] ==
  LET bit(i) == (Bit(a, i) + Bit(a, (i + 4) % 8) + Bit(a, (i + 5) % 8)
                 + Bit(a, (i + 6) % 8) + Bit(a, (i + 7) % 8) + Bit(99, i)) % 2
  IN  XorOf([i \in 0..7 |-> bit(i) * 2^i], 8)

\* (The concatenation makes TLC evaluate the table once and keep its values.)
SubstitutionTable == [n \in 1..256 |-> Affine[Reciprocal[n - 1]]] \o << >>
Substitution[a \in Byte] == SubstitutionTable[a + 1]

\* The n-th power of x.
PowerOfX(n) == LET power[i \in 0..n] == IF i = 0 THEN 1 ELSE Double[power[i - 1]]
               IN  power[n]
=============================================================================
