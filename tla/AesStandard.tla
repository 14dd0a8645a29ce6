----------------------------- MODULE AesStandard -----------------------------
(***************************************************************************)
(* AES-128 as FIPS-197 defines it: what the implementations in this        *)
(* repository should compute.  A step is one round.                        *)
(***************************************************************************)
EXTENDS AesRounds

CONSTANTS CipherKeys, Texts  \* the keys and plaintexts, blocks both

VARIABLES block,      \* the state
          round_key,  \* the key the next round adds
          round       \* the next round; 11 when the cipher is done

vars == << block, round_key, round >>

-----------------------------------------------------------------------------
Init ==
  /\ block \in Texts
  /\ round_key \in CipherKeys
  /\ round = 0

Round ==
  /\ round \in 0..10
  /\ round' = round + 1
  /\ block' = XorAll(CASE round = 0  -> block
                       [] round = 10 -> ShiftRows(SubBytes(block))
                       [] OTHER      -> MixColumns(ShiftRows(SubBytes(block))),
                     round_key)
  /\ round_key' = IF round = 10 THEN round_key ELSE NextRoundKey(round_key, round + 1)

Spec == Init /\ [][Round]_vars
=============================================================================
