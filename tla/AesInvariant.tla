----------------------------- MODULE AesInvariant -----------------------------
(***************************************************************************)
(* The inductive invariants behind the safety properties of Aes.  KeyInv   *)
(* holds of every source and every pattern of key writes, PacketInv of     *)
(* packets that do not overlap in the pipeline, QuietInv of software that  *)
(* writes no key while blocks are offered or in flight, OrderInv of either.*)
(***************************************************************************)
EXTENDS Aes

\* Stage or entry n holds its round key of k.
AllOf(keys, k) == \A n \in Stages : keys[n] = RoundKeyOf(k, n)

\* The schedule in the register file is complete or on its way there.
Expanding == state = "ROUND_KEY_GENERATION"
Expanded  == state = "IDLE" /\ round_counter = Rounds + 1

\* The counters, the constant and the last key are in step, and what is
\* behind them belongs to entry 0.
ExpansionRunning ==
  Expanding =>
    /\ round_counter \in 1..Rounds
    /\ round_counter_previous = round_counter - 1
    /\ round_constant = round_counter - 1
    /\ previous_key = RoundKeyOf(expanded_keys[0].key, round_counter - 1)
    /\ \A n \in Stages : n < round_counter =>
         expanded_keys[n] = RoundKeyOf(expanded_keys[0].key, n)

\* Apart from the counters after a reset, an idle unit has finished.
ExpansionDone ==
  state = "IDLE" /\ round_counter # 1 =>
    /\ round_counter = Rounds + 1
    /\ AllOf(expanded_keys, expanded_keys[0].key)

\* The rounder hears of a key no later than the expansion unit has taken it,
\* and neither hears of a key before one is written.
PendingTogether ==
  /\ key_change_pending_key_expansion => key_change_pending_rounder
  /\ key_change_pending_rounder => aes_key # NoKey

\* A key that is no longer pending has been loaded.
KeyLoaded ==
  aes_key # NoKey /\ ~key_change_pending_key_expansion =>
    /\ expanded_keys[0].key = aes_key
    /\ Expanding \/ Expanded

\* The refresh stays behind the expansion and copies one schedule.
RefreshBehind ==
  key_syncing =>
    /\ key_syncing_counter \in Stages
    /\ Expanding \/ Expanded
    /\ Expanding => key_syncing_counter < round_counter
    /\ \A n \in Stages : n < key_syncing_counter =>
         round_keys[n] = RoundKeyOf(expanded_keys[0].key, n)

\* LocalKeysCurrent with what it takes to be inductive: how far the expansion
\* is, which flags are up and how far the refresh has come.
KeyInv ==
  /\ TypeOK
  /\ ExpansionRunning
  /\ ExpansionDone
  /\ PendingTogether
  /\ KeyLoaded
  /\ RefreshBehind
  /\ LocalKeysCurrent

-----------------------------------------------------------------------------
Valid(i) == parallel_status_pipeline[i].valid
Last(i)  == Valid(i) /\ parallel_status_pipeline[i].last

\* During a transaction the local keys are, or are becoming, the packet's.
TransactionKey ==
  transaction_status /\ packet_key # NoKey =>
    IF key_syncing THEN expanded_keys[0].key = packet_key
                   ELSE AllOf(round_keys, packet_key)

\* Every block in the pipeline is of the packet under way, has its key so far
\* and stays two stages behind a refresh.
BlocksOfPacket ==
  \A i \in Stages : Valid(i) =>
    /\ transaction_status
    /\ blocks[i].want = packet_key
    /\ packet_key # NoKey => blocks[i].key = packet_key
    /\ key_syncing => key_syncing_counter >= i + 2

\* What ends a transaction is still to come.
TransactionEnds ==
  transaction_status /\ source = "idle" => \E i \in Stages : Last(i)

\* From the first offer to the last delivery there is a transaction: its last
\* block is with the source or in the pipeline, and nothing follows it.
OnePacket ==
  /\ source # "idle" => transaction_status
  /\ TransactionEnds
  /\ \A i \in Stages : Last(i) =>
       /\ source = "idle"
       /\ \A j \in Stages : j < i => ~Valid(j)

\* KeyCommitted and TransactionCovers with what it takes to be inductive when
\* packets do not overlap.
PacketInv ==
  /\ TransactionKey
  /\ BlocksOfPacket
  /\ OnePacket

-----------------------------------------------------------------------------
\* Every block in the pipeline is for the key in the registers, has that key so
\* far and stays two stages behind a refresh.
BlocksOfRegisters ==
  \A i \in Stages : Valid(i) =>
    /\ blocks[i].want = aes_key
    /\ aes_key # NoKey => blocks[i].key = aes_key
    /\ key_syncing => key_syncing_counter >= i + 2

OfferOfRegisters == source # "idle" => packet_key = aes_key

\* A key write is acknowledged before anything else happens.
PendingAlone ==
  key_change_pending_rounder =>
    /\ source = "idle"
    /\ ~transaction_status
    /\ \A i \in Stages : ~Valid(i)

\* KeyCommitted with what it takes to be inductive when packets may overlap but
\* software writes no key while blocks are offered or in flight.
QuietInv ==
  /\ BlocksOfRegisters
  /\ OfferOfRegisters
  /\ PendingAlone
  /\ TransactionEnds

-----------------------------------------------------------------------------
\* While the pipeline holds a block nothing but the sink stalls it.
Flows ==
  \A i \in Stages : Valid(i) =>
    ~rounder_key_ack /\ (key_syncing => key_syncing_counter # 0)

\* ExactlyOnce with what it takes to be inductive when the pipeline flows:
\* the pipeline holds every block from the next one due to the last one taken
\* in, and an older block is further on.
DueInPipeline ==
  \A n \in Nat : delivered <= n /\ n < accepted =>
    \E i \in Stages : Valid(i) /\ blocks[i].id = n

OldestFirst ==
  \A i, j \in Stages : Valid(i) /\ Valid(j) /\ i < j => blocks[j].id < blocks[i].id

OrderInv ==
  /\ delivered <= accepted
  /\ \A i \in Stages : Valid(i) => delivered <= blocks[i].id /\ blocks[i].id < accepted
  /\ OldestFirst
  /\ DueInPipeline
=============================================================================
