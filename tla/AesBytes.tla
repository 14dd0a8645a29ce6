------------------------------- MODULE AesBytes -------------------------------
(***************************************************************************)
(* The byte operations of the three implementations against their          *)
(* definition, for the sixteen bytes of one row of the tables.             *)
(***************************************************************************)
EXTENDS AesTables, GaloisField

VARIABLE row

RowBytes == (16 * row)..(16 * row + 15)

\* The S-box that the ROMs answer, and those of aes.c and micro_aes.c, are
\* FIPS-197's: the reciprocal in GF(2^8) under the affine map.
SubstitutionsStandard ==
  \A byte \in RowBytes :
    /\ lookup_table_256x8(byte) = Substitution[byte]
    /\ aes_sbox[byte + 1] = Substitution[byte]
    /\ micro_sbox[byte + 1] = Substitution[byte]

\* The shifts and conditional reductions of the three implementations are
\* products in GF(2^8).
ScalingsAreProducts ==
  \A byte \in RowBytes :
    /\ scale_by_2(byte) = Times(byte, 2)
    /\ scale_by_3(byte) = Times(byte, 3)
    /\ \A n \in 1..3 : gf_multiply_123(n, byte) = Times(byte, n)
    /\ xtime(byte) = Times(byte, 2)
=============================================================================
