------------------------------ MODULE AesRounds ------------------------------
(***************************************************************************)
(* The transformations of a block and of a round key that FIPS-197 puts    *)
(* AES-128 together from, on the arithmetic of GF(2^8).  The byte in row r *)
(* and column c of the state is byte r + 4c of the block.                  *)
(***************************************************************************)
EXTENDS GaloisField

ByRowAndColumn(f(_, _)) == [i \in Places |-> f(i % 4, i \div 4)]
At(b, r, c) == b[r + 4 * c]

SubBytes(b)  == [i \in Places |-> Substitution[b[i]]]
ShiftRows(b) == ByRowAndColumn(LAMBDA r, c : At(b, r, (c + r) % 4))

\* Column c times the polynomial 3x^3 + x^2 + x + 2.
MixColumns(b) ==
  LET factor(n) == CASE n = 0 -> 2 [] n = 1 -> 3 [] OTHER -> 1
  IN  ByRowAndColumn(LAMBDA r, c :
        XorOf([j \in 0..3 |-> Times(At(b, j, c), factor((4 + j - r) % 4))], 4))

Column(b, c) == [r \in 0..3 |-> At(b, r, c)]

NextRoundKey(key, n) ==
  LET last == Column(key, 3)
      turned == [r \in 0..3 |-> Substitution[last[(r + 1) % 4]]
                                  (+) (IF r = 0 THEN PowerOfX(n - 1) ELSE 0)]
      column[c \in 0..3] ==
        XorAll(Column(key, c), IF c = 0 THEN turned ELSE column[c - 1])
  IN  ByRowAndColumn(LAMBDA r, c : column[c][r])

\* The block itself. (The concatenation makes TLC evaluate its bytes once and keep them.)
Settled(b) == BlockOf([i \in 1..16 |-> b[i - 1]] \o << >>)

\* The round keys of a key, each made of the one before.
KeySchedule(key, rounds) ==
  LET schedule[n \in 0..rounds] ==
        IF n = 0 THEN key ELSE Settled(NextRoundKey(schedule[n - 1], n))
  IN  schedule

\* What FIPS-197 makes of a block before it adds the key of round n of rounds.
BeforeKey(b, n, rounds) ==
  IF n = rounds THEN ShiftRows(SubBytes(b)) ELSE MixColumns(ShiftRows(SubBytes(b)))

\* A text after each of the rounds with its key; AES-128 has ten of them, and the
\* addition of the key itself.
Encryption(key, text, rounds) ==
  LET schedule == KeySchedule(key, rounds)
      after[n \in 0..rounds] ==
        IF n = 0 THEN XorAll(text, key)
        ELSE Settled(XorAll(BeforeKey(after[n - 1], n, rounds), schedule[n]))
  IN  after

Ciphertext(key, text, rounds) == Encryption(key, text, rounds)[rounds]
=============================================================================
