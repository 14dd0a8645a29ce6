---------------------------- MODULE KeyExpansion ----------------------------
(***************************************************************************)
(* The key expansion unit (hdl/KeyExpansion/key_expansion.sv): a register  *)
(* file of round keys filled one entry a clock cycle from the last key it  *)
(* loaded, restartable while it runs.                                      *)
(*                                                                         *)
(* Data is symbolic: a round key is the cipher key it was derived from and *)
(* its place in the schedule.  A value that is no entry of any schedule    *)
(* (power-up contents, a derivation from the wrong round constant) has the *)
(* key NoKey.  Every action below is one rising edge of clk.               *)
(***************************************************************************)
EXTENDS Naturals

CONSTANTS Rounds,  \* number of rounds; 10 in AES-128
          Keys,    \* the cipher keys software may write
          NoKey    \* stands for the key of a value that is no round key

\* The counters are four bits wide and the last one reaches Rounds + 1.
ASSUME RoundsAssumption == Rounds \in 1..14
ASSUME NoKeyAssumption  == NoKey \notin Keys

VARIABLES expanded_keys,           \* the register file read by the rounder
          previous_key,            \* the round key derived last
          round_counter,           \* entry written in this cycle
          round_counter_previous,
          round_constant,          \* index into ROUND_G_CONSTANTS
          state

keyExpansionVars == << expanded_keys, previous_key, round_counter,
                       round_counter_previous, round_constant, state >>

RoundKey   == [key : Keys \cup {NoKey}, round : 0..Rounds]
NoRoundKey == [key |-> NoKey, round |-> 0]

RoundKeyOf(k, n) == [key |-> k, round |-> n]

\* The key after previous in its schedule, if the constant is that round's.
\* Index Rounds lies behind the end of ROUND_G_CONSTANTS.
next_round_key(previous, constant) ==
  IF constant = previous.round /\ constant < Rounds
  THEN RoundKeyOf(previous.key, constant + 1)
  ELSE NoRoundKey

\* Mutant: a key is taken in the middle of a refresh too.
key_consumed_always(pending_key, rounder_syncing, transaction_ongoing) == pending_key

\* The wire key_consumed: this edge takes the key in the AXI registers.
key_consumed(pending_key, rounder_syncing, transaction_ongoing) ==
  pending_key /\ ~(rounder_syncing /\ transaction_ongoing)

\* The combinatorial read port.
round_key(round) == expanded_keys[round]

-----------------------------------------------------------------------------
KeyExpansionInit ==
  /\ expanded_keys = [n \in 0..Rounds |-> NoRoundKey]
  /\ previous_key = NoRoundKey
  /\ round_counter = 1
  /\ round_counter_previous = 0
  /\ round_constant = 0
  /\ state = "IDLE"

\* Reset leaves the register file and the round constant as they are.
KeyExpansionReset ==
  /\ previous_key' = NoRoundKey
  /\ round_counter' = 1
  /\ round_counter_previous' = 0
  /\ state' = "IDLE"
  /\ UNCHANGED << expanded_keys, round_constant >>

KeyExpansionIdle(consumed) ==
  /\ state = "IDLE"
  /\ ~consumed
  /\ UNCHANGED keyExpansionVars

\* Mutant: the round constant is not started over with the counters.
LoadKeyOldConstant(key) ==
  /\ previous_key' = RoundKeyOf(key, 0)
  /\ round_counter' = 1
  /\ round_counter_previous' = 0
  /\ round_constant' = IF state = "IDLE" THEN 0 ELSE round_counter
  /\ state' = "ROUND_KEY_GENERATION"

LoadKey(key) ==
  /\ previous_key' = RoundKeyOf(key, 0)
  /\ round_counter' = 1
  /\ round_counter_previous' = 0
  /\ round_constant' = 0
  /\ state' = "ROUND_KEY_GENERATION"

StartExpansion(key, consumed) ==
  /\ state = "IDLE"
  /\ consumed
  /\ expanded_keys' = [expanded_keys EXCEPT ![0] = RoundKeyOf(key, 0)]
  /\ LoadKey(key)

\* Mutant: the last round is missed and the counters run on.
GenerateRoundKeyForever(consumed) ==
  /\ state = "ROUND_KEY_GENERATION"
  /\ ~consumed
  /\ expanded_keys' = [expanded_keys EXCEPT
                         ![round_counter] = next_round_key(previous_key, round_constant)]
  /\ previous_key' = next_round_key(previous_key, round_constant)
  /\ round_constant' = round_counter
  /\ round_counter_previous' = round_counter_previous + 1
  /\ round_counter' = round_counter + 1
  /\ UNCHANGED state

GenerateRoundKey(consumed) ==
  /\ state = "ROUND_KEY_GENERATION"
  /\ ~consumed
  /\ expanded_keys' = [expanded_keys EXCEPT
                         ![round_counter] = next_round_key(previous_key, round_constant)]
  /\ previous_key' = next_round_key(previous_key, round_constant)
  /\ round_constant' = round_counter
  /\ round_counter_previous' = round_counter_previous + 1
  /\ round_counter' = round_counter + 1
  /\ state' = IF round_counter = Rounds THEN "IDLE" ELSE state

\* A key written while a schedule is being derived starts it over; the entry
\* due in this cycle is still written.
RestartExpansion(key, consumed) ==
  /\ state = "ROUND_KEY_GENERATION"
  /\ consumed
  /\ expanded_keys' = [expanded_keys EXCEPT
                         ![round_counter] = next_round_key(previous_key, round_constant),
                         ![0] = RoundKeyOf(key, 0)]
  /\ LoadKey(key)

KeyExpansionClock(key, consumed) ==
  \/ KeyExpansionIdle(consumed)
  \/ StartExpansion(key, consumed)
  \/ GenerateRoundKey(consumed)
  \/ RestartExpansion(key, consumed)

-----------------------------------------------------------------------------
KeyExpansionTypeOK ==
  /\ expanded_keys \in [0..Rounds -> RoundKey]
  /\ previous_key \in RoundKey
  /\ round_counter \in 0..15
  /\ round_counter_previous \in 0..15
  /\ round_constant \in 0..15
  /\ state \in {"IDLE", "ROUND_KEY_GENERATION"}

\* The entries derived since the last load; round_counter counts the edges
\* since then.
ReadyRounds ==
  IF state = "IDLE" /\ round_counter = 1 THEN {} ELSE 0..(round_counter - 1)
=============================================================================
