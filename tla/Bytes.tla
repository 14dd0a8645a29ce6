-------------------------------- MODULE Bytes --------------------------------
(***************************************************************************)
(* Bytes, words of four and blocks of sixteen, and their exclusive or.     *)
(* Recursion is by functions: TLC evaluates no constant in advance whose   *)
(* definition reaches a RECURSIVE operator, such as those of Bitwise.      *)
(* The operations are functions inside, whose arguments it evaluates once. *)
(***************************************************************************)
EXTENDS Naturals, Sequences

Byte   == 0..255
Places == 0..15                     \* of the bytes of a block, first to last
Word   == [0..3 -> Byte]
Block  == [Places -> Byte]

Bit(a, i)    == (a \div 2^i) % 2

\* The exclusive or of bytes, as a table.
Xor ==
  [x \in Byte |-> [y \in Byte |->
     LET bit(i) == ((Bit(x, i) + Bit(y, i)) % 2) * 2^i
     IN  bit(0) + bit(1) + bit(2) + bit(3) + bit(4) + bit(5) + bit(6) + bit(7)]]

a (+) b == Xor[a][b]

\* Over the values of f at 0 to n - 1.
XorOf(f, n) ==
  LET first[i \in 0..n] == IF i = 0 THEN 0 ELSE first[i - 1] (+) f[i - 1]
  IN  first[n]

XorAll(f, g) == [i \in DOMAIN f |-> f[i] (+) g[i]]

\* Sixteen bytes of a sequence as a block.
BlockOf(bytes) == [i \in Places |-> bytes[i + 1]]
=============================================================================
