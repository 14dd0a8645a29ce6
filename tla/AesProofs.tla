------------------------------ MODULE AesProofs ------------------------------
(***************************************************************************)
(* Proofs of the safety properties of Aes for every number of rounds, set  *)
(* of keys and length of the stream: those of keys and of packets; then    *)
(* for packets that may overlap in the pipeline, as the driver's do when   *)
(* it starts the next transfer of a large buffer, under software that      *)
(* writes no key while blocks are offered or in flight; and that under     *)
(* this discipline, as without overlapping packets, the core loses,        *)
(* repeats and reorders no block and so implements EncryptionStream.       *)
(***************************************************************************)
EXTENDS AesInvariant, FiniteSetTheorems, FunctionTheorems, SequenceTheorems, TLAPS

\* What a cycle is, with its inputs named.
CycleOf(tvalid, tlast, wready, write, key) ==
  /\ tvalid \in BOOLEAN
  /\ tlast \in BOOLEAN
  /\ wready \in BOOLEAN
  /\ write \in BOOLEAN
  /\ key \in Keys
  /\ Clock(tvalid, tlast, wready, write, key)

-----------------------------------------------------------------------------
(* Type correctness *)

\* The next round key is a round key or a value that is none.
LEMMA ExpandKeyType ==
  ASSUME NEW previous \in RoundKey, NEW constant \in 0..15
  PROVE  next_round_key(previous, constant) \in RoundKey
  BY RoundsAssumption DEF next_round_key, RoundKey, RoundKeyOf, NoRoundKey

\* Adding a round key leaves a block a block.
LEMMA AddRoundKeyType ==
  ASSUME NEW block \in StreamBlock, NEW rk \in RoundKey, NEW i \in Stages
  PROVE  /\ add_round_key(block, rk, i) \in StreamBlock
         /\ add_round_key(block, rk, i).id = block.id
         /\ add_round_key(block, rk, i).want = block.want
  BY DEF add_round_key, StreamBlock, RoundKey

\* The expansion unit keeps its types: its last step leaves Rounds + 1 in the
\* counter, which is why Rounds is at most 14.
LEMMA ExpansionTypeStep ==
  ASSUME KeyExpansionTypeOK, ExpansionRunning, NEW key \in Keys \cup {NoKey},
         NEW consumed \in BOOLEAN, KeyExpansionClock(key, consumed)
  PROVE  KeyExpansionTypeOK'
<1> USE RoundsAssumption
<1>0. RoundKeyOf(key, 0) \in RoundKey /\ NoRoundKey \in RoundKey
  BY DEF RoundKeyOf, RoundKey, NoRoundKey
<1>1. CASE KeyExpansionIdle(consumed)
  BY <1>1 DEF KeyExpansionIdle, keyExpansionVars, KeyExpansionTypeOK
<1>2. CASE StartExpansion(key, consumed)
  BY <1>0, <1>2 DEF StartExpansion, LoadKey, KeyExpansionTypeOK
<1>3. ASSUME Expanding
      PROVE  next_round_key(previous_key, round_constant) \in RoundKey
  BY <1>3, ExpandKeyType DEF KeyExpansionTypeOK
<1>4. CASE GenerateRoundKey(consumed)
  <2>1. Expanding /\ round_counter \in 1..Rounds /\ round_counter_previous + 1 \in 0..15
    BY <1>4 DEF GenerateRoundKey, ExpansionRunning, Expanding, KeyExpansionTypeOK
  <2> QED
    BY <1>3, <1>4, <2>1 DEF GenerateRoundKey, KeyExpansionTypeOK
<1>5. CASE RestartExpansion(key, consumed)
  BY <1>0, <1>3, <1>5 DEF RestartExpansion, LoadKey, KeyExpansionTypeOK, Expanding
<1> QED
  BY <1>1, <1>2, <1>4, <1>5 DEF KeyExpansionClock

\* The rounder keeps its types.
LEMMA RounderTypeStep ==
  ASSUME KeyExpansionTypeOK, RounderTypeOK, RefreshBehind,
         NEW new_key \in BOOLEAN, NEW block \in StreamBlock,
         NEW tvalid \in BOOLEAN, NEW tlast \in BOOLEAN, NEW wready \in BOOLEAN,
         RounderClock(selected_key, new_key, block, tvalid, tlast, wready)
  PROVE  RounderTypeOK'
<1>1. transaction_state' \in {"TRANSACTION_IDLE", "ONGOING"}
  BY DEF RounderClock, TransactionClock, BeginTransaction, EndTransaction,
         KeepTransaction, RounderTypeOK
<1>2. /\ refresh_state' \in {"IDLE", "SYNCING"}
      /\ key_syncing_counter' \in 0..15
      /\ round_keys' \in [Stages -> RoundKey]
  <2>1. CASE RefreshIdle(new_key)
    BY <2>1 DEF RefreshIdle, RounderTypeOK
  <2>2. CASE RefreshSync(selected_key, new_key)
    <3>1. key_syncing_counter \in Stages /\ key_syncing_counter + 1 \in 0..15
      BY <2>2, RoundsAssumption DEF RefreshSync, RefreshBehind, key_syncing, Stages
    <3>2. selected_key \in RoundKey
      BY <3>1 DEF selected_key, round_key, key_select, KeyExpansionTypeOK, Stages
    <3> QED
      BY <2>2, <3>1, <3>2 DEF RefreshSync, RounderTypeOK
  <2> QED
    BY <2>1, <2>2 DEF RounderClock, RefreshClock
<1>3. /\ parallel_status_pipeline' \in [Stages -> Status]
      /\ blocks' \in [Stages -> StreamBlock]
  <2>1. CASE Stall(new_key, wready)
    BY <2>1 DEF Stall, pipelineVars, RounderTypeOK
  <2>2. CASE Advance(new_key, block, tvalid, tlast, wready)
    <3>1. \A i \in Stages : i # 0 => i - 1 \in Stages
      BY RoundsAssumption DEF Stages
    <3>2. parallel_status_pipeline' \in [Stages -> Status]
      BY <2>2, <3>1 DEF Advance, RounderTypeOK, Status
    <3>3. NoBlock \in StreamBlock
      BY DEF NoBlock, StreamBlock
    <3>4. \A i \in Stages :
            add_round_key(IF i = 0 THEN block ELSE blocks[i - 1], round_keys[i], i) \in StreamBlock
      BY <3>1, AddRoundKeyType DEF RounderTypeOK
    <3> QED
      BY <2>2, <3>2, <3>3, <3>4 DEF Advance
  <2> QED
    BY <2>1, <2>2 DEF RounderClock, PipelineClock
<1> QED
  BY <1>1, <1>2, <1>3 DEF RounderTypeOK

\* What is put around the core keeps its types.
LEMMA EnvironmentTypeStep ==
  ASSUME TypeOK, NEW tvalid, NEW tlast, NEW wready, NEW write, NEW key,
         CycleOf(tvalid, tlast, wready, write, key)
  PROVE  /\ key_change_pending_key_expansion' \in BOOLEAN
         /\ key_change_pending_rounder' \in BOOLEAN
         /\ aes_key' \in Keys \cup {NoKey}
         /\ aes_key_write' \in BOOLEAN
         /\ source' \in SourceStates
         /\ packet_key' \in Keys \cup {NoKey}
         /\ accepted' \in Nat
         /\ delivered' \in Nat
<1>1. FlagsClock(write) => /\ key_change_pending_key_expansion' \in BOOLEAN
                          /\ key_change_pending_rounder' \in BOOLEAN
  BY Zenon DEF FlagsClock
<1>2. SlaveClock(write, key, tvalid) => /\ aes_key' \in Keys \cup {NoKey}
                                       /\ aes_key_write' \in BOOLEAN
  BY DEF SlaveClock, KeyRegisters!WriteKey, KeyRegisters!HoldKey, TypeOK, CycleOf
<1>3. StreamClock(tvalid, tlast, read_tready(wready), wready) =>
        /\ source' \in SourceStates
        /\ packet_key' \in Keys \cup {NoKey}
        /\ accepted' \in Nat
        /\ delivered' \in Nat
  BY DEF StreamClock, SourceAfter, SourceStates, OfferedKey, TypeOK
<1> QED
  BY <1>1, <1>2, <1>3 DEF CycleOf, Clock

\* A step of the core's clock keeps every type.
LEMMA TypeStep ==
  ASSUME TypeOK, ExpansionRunning, RefreshBehind,
         NEW tvalid, NEW tlast, NEW wready, NEW write, NEW key,
         CycleOf(tvalid, tlast, wready, write, key)
  PROVE  TypeOK'
<1>1. key_expansion_ack \in BOOLEAN /\ rounder_key_ack \in BOOLEAN
  BY DEF key_expansion_ack, key_consumed, rounder_key_ack, key_ack
<1>2. KeyExpansionTypeOK'
  BY <1>1, ExpansionTypeStep DEF CycleOf, Clock, TypeOK
<1>3. [id |-> accepted, want |-> OfferedKey, key |-> NoKey] \in StreamBlock
  BY DEF TypeOK, OfferedKey, StreamBlock
<1>4. RounderTypeOK'
  BY <1>3, RounderTypeStep DEF CycleOf, Clock, TypeOK
<1> QED
  BY <1>2, <1>4, EnvironmentTypeStep DEF TypeOK

-----------------------------------------------------------------------------
(* The key invariant *)

\* What one edge does to the schedule: it is loaded, or goes on by one entry,
\* or rests.
LEMMA ExpansionStep ==
  ASSUME KeyExpansionTypeOK, ExpansionRunning, ExpansionDone,
         NEW key \in Keys \cup {NoKey}, NEW consumed \in BOOLEAN,
         KeyExpansionClock(key, consumed)
  PROVE  /\ ExpansionRunning'
         /\ ExpansionDone'
         /\ consumed => /\ expanded_keys'[0].key = key
                        /\ Expanding'
                        /\ round_counter' = 1
         /\ ~consumed => /\ expanded_keys'[0].key = expanded_keys[0].key
                         /\ Expanding \/ Expanded => Expanding' \/ Expanded'
                         /\ Expanding' => Expanding /\ round_counter' = round_counter + 1
<1> USE RoundsAssumption
<1> DEFINE loaded == /\ expanded_keys'[0] = RoundKeyOf(key, 0)
                     /\ LoadKey(key)
<1>1. ASSUME loaded
      PROVE  /\ expanded_keys'[0].key = key
             /\ Expanding' /\ round_counter' = 1
             /\ ExpansionRunning' /\ ExpansionDone'
  <2>1. /\ expanded_keys'[0].key = key
        /\ Expanding' /\ round_counter' = 1 /\ state' # "IDLE"
    BY <1>1 DEF LoadKey, Expanding, RoundKeyOf
  <2>2. \A n \in Stages : n < 1 => n = 0
    BY DEF Stages
  <2> QED
    BY <1>1, <2>1, <2>2 DEF LoadKey, ExpansionRunning, ExpansionDone, RoundKeyOf
<1>2. CASE KeyExpansionIdle(consumed)
  BY <1>2 DEF KeyExpansionIdle, keyExpansionVars, ExpansionRunning, ExpansionDone,
              Expanding, Expanded, AllOf
<1>3. CASE StartExpansion(key, consumed)
  <2>1. loaded
    BY <1>3 DEF StartExpansion, KeyExpansionTypeOK
  <2> QED
    BY <1>1, <1>3, <2>1 DEF StartExpansion
<1>4. CASE GenerateRoundKey(consumed)
  <2> DEFINE k == expanded_keys[0].key
  <2>1. /\ ~consumed
        /\ Expanding
        /\ round_counter \in 1..Rounds
        /\ round_counter' = round_counter + 1
    BY <1>4 DEF GenerateRoundKey, ExpansionRunning, Expanding
  <2>2. next_round_key(previous_key, round_constant) = RoundKeyOf(k, round_counter)
    BY <2>1 DEF ExpansionRunning, next_round_key, RoundKeyOf
  <2>3. /\ expanded_keys'[0] = expanded_keys[0]
        /\ \A n \in Stages : n < round_counter' => expanded_keys'[n] = RoundKeyOf(k, n)
    BY <1>4, <2>1, <2>2 DEF GenerateRoundKey, ExpansionRunning, KeyExpansionTypeOK, Stages
  <2>4. state' = IF round_counter = Rounds THEN "IDLE" ELSE "ROUND_KEY_GENERATION"
    BY <1>4 DEF GenerateRoundKey
  <2>5. Expanding' \/ Expanded'
    BY <2>1, <2>4 DEF Expanding, Expanded
  <2>6. ExpansionRunning'
    BY <1>4, <2>1, <2>2, <2>3, <2>4
       DEF GenerateRoundKey, ExpansionRunning, Expanding, RoundKeyOf
  <2>7. ExpansionDone'
    BY <2>1, <2>3, <2>4 DEF ExpansionDone, AllOf, Stages
  <2> QED
    BY <2>1, <2>3, <2>5, <2>6, <2>7
<1>5. CASE RestartExpansion(key, consumed)
  <2>1. loaded
    BY <1>5 DEF RestartExpansion, KeyExpansionTypeOK
  <2> QED
    BY <1>1, <1>5, <2>1 DEF RestartExpansion
<1> QED
  BY <1>2, <1>3, <1>4, <1>5 DEF KeyExpansionClock

\* While a refresh runs in a transaction no key is taken; outside of one the
\* rounder acknowledges the key in the cycle the expansion unit takes it.
LEMMA AckWithExpansion ==
  ASSUME KeyInv, key_expansion_ack, key_syncing \/ ~transaction_status
  PROVE  rounder_key_ack
  BY DEF KeyInv, TypeOK, RounderTypeOK, PendingTogether, key_expansion_ack, key_consumed,
         rounder_key_ack, key_ack, transaction_status

\* The refresh machine in a cycle; in its last one it completes a schedule.
LEMMA SyncingStep ==
  ASSUME KeyInv, NEW tvalid, NEW tlast, NEW wready, NEW write, NEW key,
         CycleOf(tvalid, tlast, wready, write, key)
  PROVE  /\ rounder_key_ack => key_syncing'
         /\ ~rounder_key_ack /\ key_syncing' =>
              key_syncing /\ key_syncing_counter' = key_syncing_counter + 1
         /\ ~rounder_key_ack /\ key_syncing /\ ~key_syncing' =>
              AllOf(round_keys', expanded_keys[0].key)
         /\ ~rounder_key_ack /\ ~key_syncing =>
              ~key_syncing' /\ round_keys' = round_keys
<1> USE RoundsAssumption
<1>1. /\ KeyExpansionTypeOK /\ ExpansionRunning /\ ExpansionDone /\ RefreshBehind
      /\ RefreshClock(selected_key, key_change_pending_rounder)
      /\ round_keys \in [Stages -> RoundKey]
      /\ refresh_state \in {"IDLE", "SYNCING"}
  BY DEF KeyInv, TypeOK, RounderTypeOK, CycleOf, Clock, RounderClock
<1>2. rounder_key_ack => key_syncing'
  BY <1>1 DEF RefreshClock, RefreshIdle, RefreshSync, rounder_key_ack, key_syncing
<1>3. ~rounder_key_ack /\ key_syncing' =>
        key_syncing /\ key_syncing_counter' = key_syncing_counter + 1
  BY <1>1 DEF RefreshClock, RefreshIdle, RefreshSync, rounder_key_ack, key_syncing
<1>4. ~rounder_key_ack /\ ~key_syncing => ~key_syncing' /\ round_keys' = round_keys
  BY <1>1 DEF RefreshClock, RefreshIdle, RefreshSync, rounder_key_ack, key_syncing
<1>5. ASSUME ~rounder_key_ack, key_syncing, ~key_syncing'
      PROVE  AllOf(round_keys', expanded_keys[0].key)
  <2>1. /\ key_syncing_counter = Rounds
        /\ round_keys' = [round_keys EXCEPT ![Rounds] = selected_key]
    BY <1>1, <1>5 DEF RefreshClock, RefreshIdle, RefreshSync, rounder_key_ack, key_syncing
  <2>2. selected_key = RoundKeyOf(expanded_keys[0].key, Rounds)
    BY <1>1, <1>5, <2>1 DEF RefreshBehind, ExpansionRunning, ExpansionDone,
         Expanding, Expanded, AllOf, selected_key, round_key, key_select, Stages
  <2>3. \A n \in Stages : n < Rounds => round_keys[n] = RoundKeyOf(expanded_keys[0].key, n)
    BY <1>1, <1>5, <2>1 DEF RefreshBehind
  <2> QED
    BY <1>1, <2>1, <2>2, <2>3 DEF AllOf, Stages
<1> QED
  BY <1>2, <1>3, <1>4, <1>5

\* What one cycle does to the flags and the key registers.
LEMMA FlagsStep ==
  ASSUME KeyInv, NEW tvalid, NEW tlast, NEW wready, NEW write, NEW key,
         CycleOf(tvalid, tlast, wready, write, key)
  PROVE  /\ PendingTogether'
         /\ ~key_change_pending_key_expansion' =>
              /\ aes_key' = aes_key
              /\ key_change_pending_key_expansion => key_expansion_ack
         /\ ~key_change_pending_rounder' =>
              /\ aes_key' = aes_key
              /\ ~key_change_pending_key_expansion'
              /\ key_change_pending_rounder => rounder_key_ack
<1>1. FlagsClock(write) /\ SlaveClock(write, key, tvalid) /\ write \in BOOLEAN /\ key \in Keys
  BY DEF CycleOf, Clock
<1>2. ~write => aes_key' = aes_key
  BY <1>1 DEF SlaveClock, KeyRegisters!HoldKey
<1>3. write => aes_key' # NoKey
  BY <1>1, NoKeyAssumption DEF SlaveClock, KeyRegisters!WriteKey
<1>4. rounder_key_ack => ~key_change_pending_key_expansion \/ key_expansion_ack
  BY DEF rounder_key_ack, key_ack, key_expansion_ack, key_consumed, transaction_status
<1>5. PendingTogether
  BY DEF KeyInv
<1> QED
  BY Zenon, <1>1, <1>2, <1>3, <1>4, <1>5 DEF FlagsClock, PendingTogether

\* A key no longer pending is in entry 0, and its schedule under way.
LEMMA KeyLoadedStep ==
  ASSUME KeyInv, NEW tvalid, NEW tlast, NEW wready, NEW write, NEW key,
         CycleOf(tvalid, tlast, wready, write, key)
  PROVE  KeyLoaded'
<1>1. /\ KeyExpansionTypeOK /\ ExpansionRunning /\ ExpansionDone /\ KeyLoaded
      /\ aes_key \in Keys \cup {NoKey}
      /\ key_expansion_ack \in BOOLEAN
      /\ KeyExpansionClock(aes_key, key_expansion_ack)
  BY DEF KeyInv, TypeOK, CycleOf, Clock, key_expansion_ack, key_consumed
<1>2. CASE key_expansion_ack
  <2>1. expanded_keys'[0].key = aes_key /\ Expanding'
    BY <1>1, <1>2, ExpansionStep
  <2>2. ~key_change_pending_key_expansion' => aes_key' = aes_key
    BY FlagsStep
  <2> QED
    BY <2>1, <2>2 DEF KeyLoaded
<1>3. CASE ~key_expansion_ack
  BY <1>1, <1>3, ExpansionStep, FlagsStep DEF KeyLoaded
<1> QED
  BY <1>2, <1>3

\* A refresh starts behind the expansion, moves no faster and is started over
\* with it.
LEMMA RefreshStep ==
  ASSUME KeyInv, NEW tvalid, NEW tlast, NEW wready, NEW write, NEW key,
         CycleOf(tvalid, tlast, wready, write, key)
  PROVE  RefreshBehind'
<1> USE RoundsAssumption
<1>1. /\ KeyExpansionTypeOK /\ ExpansionRunning /\ ExpansionDone /\ KeyLoaded
      /\ aes_key \in Keys \cup {NoKey}
      /\ key_expansion_ack \in BOOLEAN
      /\ KeyExpansionClock(aes_key, key_expansion_ack)
      /\ RefreshClock(selected_key, key_change_pending_rounder)
      /\ round_keys \in [Stages -> RoundKey]
      /\ refresh_state \in {"IDLE", "SYNCING"}
  BY DEF KeyInv, TypeOK, RounderTypeOK, CycleOf, Clock, RounderClock,
         key_expansion_ack, key_consumed
<1>2. CASE rounder_key_ack
  <2>1. key_syncing' /\ key_syncing_counter' = 0
    BY <1>1, <1>2 DEF RefreshClock, RefreshIdle, RefreshSync, rounder_key_ack, key_syncing
  <2>2. key_expansion_ack => Expanding' /\ round_counter' = 1
    BY <1>1, ExpansionStep
  <2>3. ~key_expansion_ack => Expanding \/ Expanded
    BY <1>1, <1>2 DEF KeyLoaded, KeyInv, PendingTogether, rounder_key_ack, key_ack,
                      key_expansion_ack, key_consumed, transaction_status
  <2>4. ~key_expansion_ack => /\ Expanding' \/ Expanded'
                              /\ Expanding' => round_counter' \in 2..15
    BY <1>1, <2>3, ExpansionStep DEF ExpansionRunning
  <2> QED
    BY <2>1, <2>2, <2>4 DEF RefreshBehind, Stages
<1>3. CASE ~rounder_key_ack /\ key_syncing'
  <2>1. /\ key_syncing
        /\ key_syncing_counter # Rounds
        /\ key_syncing_counter' = key_syncing_counter + 1
        /\ round_keys' = [round_keys EXCEPT ![key_syncing_counter] = selected_key]
    BY <1>1, <1>3 DEF RefreshClock, RefreshIdle, RefreshSync, rounder_key_ack, key_syncing
  <2>2. ~key_expansion_ack
    BY <1>3, <2>1, AckWithExpansion
  <2>3. RefreshBehind /\ key_syncing_counter \in Stages
    BY <2>1 DEF KeyInv, RefreshBehind
  <2>4. selected_key = RoundKeyOf(expanded_keys[0].key, key_syncing_counter)
    BY <1>1, <2>1, <2>3 DEF RefreshBehind, ExpansionRunning, ExpansionDone, Expanding,
         Expanded, AllOf, selected_key, round_key, key_select, Stages
  <2>5. /\ expanded_keys'[0].key = expanded_keys[0].key
        /\ Expanding' \/ Expanded'
        /\ Expanding' => Expanding /\ round_counter' = round_counter + 1
    BY <1>1, <2>1, <2>2, <2>3, ExpansionStep DEF RefreshBehind
  <2>6. \A n \in Stages : n < key_syncing_counter' =>
          round_keys'[n] = RoundKeyOf(expanded_keys'[0].key, n)
    BY <1>1, <2>1, <2>3, <2>4, <2>5 DEF RefreshBehind, Stages
  <2>7. Expanding' => key_syncing_counter' < round_counter'
    BY <1>1, <2>1, <2>3, <2>5 DEF RefreshBehind, ExpansionRunning, Stages
  <2> QED
    BY <2>1, <2>3, <2>5, <2>6, <2>7 DEF RefreshBehind, Stages
<1> QED
  BY <1>2, <1>3 DEF RefreshBehind

\* When the last pending key is acknowledged a refresh begins, and when it ends
\* the stages hold that key's schedule.
LEMMA LocalKeysStep ==
  ASSUME KeyInv, NEW tvalid, NEW tlast, NEW wready, NEW write, NEW key,
         CycleOf(tvalid, tlast, wready, write, key)
  PROVE  LocalKeysCurrent'
<1> USE RoundsAssumption
<1> SUFFICES ASSUME ~key_change_pending_rounder', ~key_syncing', aes_key' # NoKey
             PROVE  AllOf(round_keys', aes_key')
  BY DEF LocalKeysCurrent, AllOf
<1>1. KeyLoaded
  BY DEF KeyInv
<1>2. ~rounder_key_ack
  BY SyncingStep
<1>3. ~key_change_pending_rounder /\ aes_key' = aes_key
  BY <1>2, FlagsStep
<1>4. CASE ~key_syncing
  <2>1. round_keys' = round_keys
    BY <1>2, <1>4, SyncingStep
  <2> QED
    BY <1>3, <1>4, <2>1 DEF KeyInv, LocalKeysCurrent, AllOf
<1>5. CASE key_syncing
  <2>1. expanded_keys[0].key = aes_key
    BY <1>1, <1>3 DEF KeyInv, PendingTogether, KeyLoaded
  <2> QED
    BY <1>2, <1>3, <1>5, <2>1, SyncingStep
<1> QED
  BY <1>4, <1>5

\* A reset keeps the register file and the local keys but forgets the key, so
\* nothing more is promised until one is written.
LEMMA ResetKeyInv ==
  ASSUME KeyInv, Reset
  PROVE  KeyInv'
<1> USE RoundsAssumption
<1>1. KeyExpansionTypeOK' /\ RounderTypeOK'
  BY DEF KeyInv, TypeOK, Reset, KeyExpansionReset, RounderReset, TransactionReset,
      RefreshReset, PipelineReset, KeyExpansionTypeOK,
         RounderTypeOK, RoundKey, NoRoundKey, Status, StreamBlock, NoBlock
<1>2. TypeOK'
  BY <1>1 DEF TypeOK, Reset, FlagsReset, KeyRegisters!SlaveReset, StreamReset, SourceStates
<1>3. aes_key' = NoKey /\ ~key_change_pending_rounder' /\ ~key_change_pending_key_expansion'
  BY DEF Reset, KeyRegisters!SlaveReset, FlagsReset
<1>4. ExpansionRunning' /\ ExpansionDone'
  BY DEF Reset, KeyExpansionReset, ExpansionRunning, ExpansionDone, Expanding
<1>5. RefreshBehind'
  BY DEF Reset, RounderReset, TransactionReset, RefreshReset, PipelineReset,
      RefreshBehind, key_syncing
<1> QED
  BY <1>2, <1>3, <1>4, <1>5 DEF KeyInv, PendingTogether, KeyLoaded, LocalKeysCurrent

\* The key invariant holds at power-up.
LEMMA InitKeyInv == Init => KeyInv
<1> SUFFICES ASSUME Init PROVE KeyInv
  OBVIOUS
<1> USE RoundsAssumption
<1>1. KeyExpansionTypeOK /\ RounderTypeOK
  BY DEF Init, KeyExpansionInit, RounderInit, TransactionInit, RefreshInit,
      PipelineInit, KeyExpansionTypeOK, RounderTypeOK,
         RoundKey, NoRoundKey, Status, StreamBlock, NoBlock, Stages
<1>2. TypeOK
  BY <1>1 DEF TypeOK, Init, FlagsInit, KeyRegisters!SlaveInit, StreamInit, SourceStates
<1>3. aes_key = NoKey /\ ~key_change_pending_rounder /\ ~key_change_pending_key_expansion
  BY DEF Init, KeyRegisters!SlaveInit, FlagsInit
<1>4. ExpansionRunning /\ ExpansionDone /\ RefreshBehind
  BY DEF Init, KeyExpansionInit, RounderInit, TransactionInit, RefreshInit,
      PipelineInit, ExpansionRunning, ExpansionDone, Expanding,
         RefreshBehind, key_syncing
<1> QED
  BY <1>2, <1>3, <1>4 DEF KeyInv, PendingTogether, KeyLoaded, LocalKeysCurrent

\* A cycle keeps it.
LEMMA ClockKeyInv ==
  ASSUME KeyInv, NEW tvalid, NEW tlast, NEW wready, NEW write, NEW key,
         CycleOf(tvalid, tlast, wready, write, key)
  PROVE  KeyInv'
<1>1. TypeOK'
  BY TypeStep DEF KeyInv
<1>2. ExpansionRunning' /\ ExpansionDone'
  <2>1. /\ KeyExpansionTypeOK /\ ExpansionRunning /\ ExpansionDone
        /\ aes_key \in Keys \cup {NoKey}
        /\ key_expansion_ack \in BOOLEAN
        /\ KeyExpansionClock(aes_key, key_expansion_ack)
    BY DEF KeyInv, TypeOK, CycleOf, Clock, key_expansion_ack, key_consumed
  <2> QED
    BY <2>1, ExpansionStep
<1> QED
  BY <1>1, <1>2, FlagsStep, KeyLoadedStep, RefreshStep, LocalKeysStep DEF KeyInv

\* Every step is a cycle or a reset.
LEMMA NextCases ==
  ASSUME Next
  PROVE  \/ \E tvalid, tlast, wready, write, key : CycleOf(tvalid, tlast, wready, write, key)
         \/ Reset
  BY DEF Next, CycleOf

\* The key invariant is an invariant of the core, whatever the source offers
\* and whenever the key registers are written.
THEOREM KeyInvariance == Spec => []KeyInv
<1>1. ASSUME KeyInv, [Next]_vars PROVE KeyInv'
  <2>1. CASE Next
    BY <1>1, <2>1, NextCases, ClockKeyInv, ResetKeyInv
  <2>2. CASE UNCHANGED vars
    BY <1>1, <2>2 DEF vars, keyExpansionVars, rounderVars, transactionVars, refreshVars,
         pipelineVars, flagVars, slaveVars, streamVars, KeyInv, TypeOK, KeyExpansionTypeOK,
         RounderTypeOK, ExpansionRunning, ExpansionDone, PendingTogether, KeyLoaded,
         RefreshBehind, LocalKeysCurrent, Expanding, Expanded, AllOf, key_syncing
  <2> QED
    BY <1>1, <2>1, <2>2
<1> QED
  BY <1>1, InitKeyInv, PTL DEF Spec

\* Every register keeps its width: no counter overflows.
THEOREM TypeCorrect == Spec => []TypeOK
  BY KeyInvariance, PTL DEF KeyInv

\* The entries the expansion unit has counted are the schedule of its key.
THEOREM ReadyInTimeCorrect == Spec => []ReadyInTime
<1>1. KeyInv => ReadyInTime
  <2> SUFFICES ASSUME KeyInv, NEW n \in ReadyRounds
               PROVE  expanded_keys[n] = RoundKeyOf(expanded_keys[0].key, n)
    BY DEF ReadyInTime
  <2>1. CASE Expanding
    BY <2>1, RoundsAssumption DEF ReadyRounds, Expanding, KeyInv, ExpansionRunning, Stages
  <2>2. CASE ~Expanding
    BY <2>2, RoundsAssumption DEF ReadyRounds, Expanding, KeyInv, ExpansionDone,
        AllOf, Stages,
         TypeOK, KeyExpansionTypeOK
  <2> QED
    BY <2>1, <2>2
<1> QED
  BY <1>1, KeyInvariance, PTL

\* A refresh reads each round key after it is derived and before it changes.
THEOREM KeyExpansionAheadCorrect == Spec => []KeyExpansionAhead
<1>1. KeyInv => KeyExpansionAhead
  BY RoundsAssumption DEF KeyExpansionAhead, KeyInv, RefreshBehind, ExpansionRunning,
       ExpansionDone, Expanding, Expanded, AllOf, Stages, selected_key, round_key, key_select
<1> QED
  BY <1>1, KeyInvariance, PTL

\* No key write is lost on its way to the stages.
THEOREM LocalKeysCurrentCorrect == Spec => []LocalKeysCurrent
  BY KeyInvariance, PTL DEF KeyInv

-----------------------------------------------------------------------------
(* The packet invariant, for packets that do not overlap *)

\* The pipeline stands still or every stage moves up by one.
LEMMA PipelineStep ==
  ASSUME TypeOK, NEW tvalid, NEW tlast, NEW wready, NEW write, NEW key,
         CycleOf(tvalid, tlast, wready, write, key)
  PROVE  /\ ~read_tready(wready) =>
              \A i \in Stages : /\ Valid(i)' <=> Valid(i)
                                /\ Last(i)' <=> Last(i)
                                /\ blocks'[i] = blocks[i]
         /\ read_tready(wready) =>
              /\ Valid(0)' <=> tvalid
              /\ Last(0)' <=> tvalid /\ tlast
              /\ Valid(0)' => blocks'[0] =
                   add_round_key([id |-> accepted, want |-> OfferedKey, key |-> NoKey],
                                 round_keys[0], 0)
              /\ \A i \in Stages \ {0} :
                   /\ i - 1 \in Stages
                   /\ Valid(i)' <=> Valid(i - 1)
                   /\ Last(i)' <=> Last(i - 1)
                   /\ Valid(i)' => blocks'[i] = add_round_key(blocks[i - 1], round_keys[i], i)
<1> USE RoundsAssumption
<1> DEFINE offered == [id |-> accepted, want |-> OfferedKey, key |-> NoKey]
<1>1. PipelineClock(key_change_pending_rounder, offered, tvalid, tlast, wready)
  BY DEF CycleOf, Clock, RounderClock
<1>2. CASE ~read_tready(wready)
  BY <1>1, <1>2 DEF PipelineClock, Stall, Advance, pipelineVars, read_tready, Valid, Last
<1>3. CASE read_tready(wready)
  <2>1. Advance(key_change_pending_rounder, offered, tvalid, tlast, wready)
    BY <1>1, <1>3 DEF PipelineClock, Stall, read_tready
  <2>2. 0 \in Stages /\ \A i \in Stages \ {0} : i - 1 \in Stages
    BY DEF Stages
  <2>3. \A i \in Stages : parallel_status_pipeline'[i] =
          IF i = 0 THEN [valid |-> tvalid, last |-> tlast] ELSE parallel_status_pipeline[i - 1]
    BY <2>1 DEF Advance
  <2>4. \A i \in Stages : parallel_status_pipeline'[i].valid =>
          blocks'[i] = add_round_key(IF i = 0 THEN offered ELSE blocks[i - 1], round_keys[i], i)
    BY <2>1 DEF Advance
  <2>5. parallel_status_pipeline'[0] = [valid |-> tvalid, last |-> tlast]
    BY <2>2, <2>3
  <2>6. \A i \in Stages \ {0} : parallel_status_pipeline'[i] = parallel_status_pipeline[i - 1]
    BY <2>2, <2>3
  <2> QED
    BY <1>3, <2>2, <2>4, <2>5, <2>6 DEF Valid, Last
<1> QED
  BY <1>2, <1>3

\* The source in a cycle; unless packets overlap it begins none while anything
\* is in the pipeline.
LEMMA SourceStep ==
  ASSUME TypeOK, NEW tvalid, NEW tlast, NEW wready, NEW write, NEW key,
         CycleOf(tvalid, tlast, wready, write, key)
  PROVE  /\ tvalid => packet_key' = OfferedKey
         /\ ~tvalid => source' = source /\ packet_key' = packet_key
         /\ tvalid => (source' = "idle" <=> read_tready(wready) /\ tlast)
         /\ source = "idle" /\ tvalid /\ ~Overlap => \A i \in Stages : ~Valid(i)
<1>1. /\ StreamClock(tvalid, tlast, read_tready(wready), wready)
      /\ tvalid \in BOOLEAN /\ tlast \in BOOLEAN
  BY DEF CycleOf, Clock
<1> QED
  BY <1>1 DEF StreamClock, MayOffer, SourceAfter, InFlight, Valid

\* The transaction machine in a cycle.
LEMMA TransactionStep ==
  ASSUME TypeOK, NEW tvalid, NEW tlast, NEW wready, NEW write, NEW key,
         CycleOf(tvalid, tlast, wready, write, key)
  PROVE  /\ ~transaction_status => (transaction_status' <=> tvalid)
         /\ transaction_status => (transaction_status' <=> ~(Last(Rounds) /\ wready))
<1>1. TransactionClock(tvalid, wready) /\ transaction_state \in {"TRANSACTION_IDLE", "ONGOING"}
  BY DEF CycleOf, Clock, RounderClock, TypeOK, RounderTypeOK
<1> QED
  BY <1>1 DEF TransactionClock, BeginTransaction, EndTransaction, KeepTransaction,
       transaction_status, write_tlast, write_tvalid, Last, Valid

\* A transaction ends with its packet delivered and the pipeline empty.
LEMMA EndEmpties ==
  ASSUME KeyInv, PacketInv, ~Overlap,
         NEW tvalid, NEW tlast, NEW wready, NEW write, NEW key,
         CycleOf(tvalid, tlast, wready, write, key),
         transaction_status, ~transaction_status'
  PROVE  /\ source' = "idle"
         /\ \A i \in Stages : ~Valid(i)'
<1> USE RoundsAssumption
<1>1. Rounds \in Stages /\ Last(Rounds) /\ Valid(Rounds) /\ wready
  BY TransactionStep DEF KeyInv, Stages, Last
<1>2. source = "idle" /\ \A j \in Stages : j # Rounds => ~Valid(j)
  BY <1>1 DEF PacketInv, OnePacket, Stages
<1>3. ~tvalid /\ source' = "idle"
  BY <1>1, <1>2, SourceStep DEF KeyInv, CycleOf
<1>4. read_tready(wready)
  <2>1. key_syncing => key_syncing_counter # 0
    BY <1>1 DEF PacketInv, BlocksOfPacket
  <2> QED
    BY <1>1, <2>1 DEF read_tready, stall, key_ack, transaction_status
<1>5. \A i \in Stages : i - 1 # Rounds
  BY DEF Stages
<1> QED
  BY <1>2, <1>3, <1>4, <1>5, PipelineStep DEF KeyInv

\* A packet keeps its key while its transaction lasts.
LEMMA PacketKeyKept ==
  ASSUME KeyInv, PacketInv, ~Overlap, transaction_status,
         NEW tvalid, NEW tlast, NEW wready, NEW write, NEW key,
         CycleOf(tvalid, tlast, wready, write, key)
  PROVE  packet_key' = packet_key
<1>1. source = "idle" => \E i \in Stages : Valid(i)
  BY DEF PacketInv, OnePacket, TransactionEnds, Last
<1>2. CASE tvalid
  BY <1>1, <1>2, SourceStep DEF KeyInv, OfferedKey
<1>3. CASE ~tvalid
  BY <1>3, SourceStep DEF KeyInv
<1> QED
  BY <1>2, <1>3 DEF CycleOf

\* With no acknowledgement due, the key registers, entry 0 and the schedule
\* agree.
LEMMA SettledKey ==
  ASSUME KeyInv, aes_key # NoKey, ~transaction_status, ~rounder_key_ack
  PROVE  /\ ~key_change_pending_rounder
         /\ ~key_expansion_ack
         /\ expanded_keys[0].key = aes_key
  BY DEF KeyInv, TypeOK, RounderTypeOK, PendingTogether, KeyLoaded,
      rounder_key_ack, key_ack,
         key_expansion_ack, key_consumed, transaction_status

\* The packet's key is in the stages or on its way there.
LEMMA TransactionKeyStep ==
  ASSUME KeyInv, PacketInv, ~Overlap,
         NEW tvalid, NEW tlast, NEW wready, NEW write, NEW key,
         CycleOf(tvalid, tlast, wready, write, key)
  PROVE  TransactionKey'
<1> SUFFICES ASSUME transaction_status', packet_key' # NoKey
             PROVE  IF key_syncing' THEN expanded_keys'[0].key = packet_key'
                                    ELSE AllOf(round_keys', packet_key')
  BY DEF TransactionKey, AllOf
<1>1. /\ KeyExpansionTypeOK /\ ExpansionRunning /\ ExpansionDone
      /\ aes_key \in Keys \cup {NoKey}
      /\ key_expansion_ack \in BOOLEAN
      /\ KeyExpansionClock(aes_key, key_expansion_ack)
  BY DEF KeyInv, TypeOK, CycleOf, Clock, key_expansion_ack, key_consumed
<1>2. ~key_expansion_ack => expanded_keys'[0].key = expanded_keys[0].key
  BY <1>1, ExpansionStep
<1>3. CASE transaction_status
  <2>1. packet_key' = packet_key
    BY <1>3, PacketKeyKept
  <2>2. ~rounder_key_ack
    BY <1>3 DEF rounder_key_ack, key_ack, transaction_status
  <2>3. key_syncing => ~key_expansion_ack
    BY <1>3 DEF key_expansion_ack, key_consumed
  <2>4. IF key_syncing THEN expanded_keys[0].key = packet_key
                       ELSE AllOf(round_keys, packet_key)
    BY <1>3, <2>1 DEF PacketInv, TransactionKey
  <2>5. CASE key_syncing
    BY <1>2, <2>1, <2>2, <2>3, <2>4, <2>5, SyncingStep
  <2>6. CASE ~key_syncing
    BY <2>1, <2>2, <2>4, <2>6, SyncingStep
  <2> QED
    BY <2>5, <2>6
<1>4. CASE ~transaction_status
  <2>1. tvalid /\ source = "idle"
    BY <1>4, TransactionStep DEF KeyInv, PacketInv, OnePacket
  <2>2. packet_key' = aes_key
    BY <2>1, SourceStep DEF KeyInv, OfferedKey
  <2>3. CASE rounder_key_ack
    <3>1. key_syncing'
      BY <2>3, SyncingStep
    <3>2. CASE key_expansion_ack
      BY <1>1, <2>2, <3>1, <3>2, ExpansionStep
    <3>3. CASE ~key_expansion_ack
      BY <1>2, <1>4, <2>2, <3>1, <3>3
         DEF KeyInv, KeyLoaded, key_expansion_ack, key_consumed
    <3> QED
      BY <3>2, <3>3
  <2>4. CASE ~rounder_key_ack
    <3>1. ~key_change_pending_rounder /\ ~key_expansion_ack /\ expanded_keys[0].key = aes_key
      BY <1>4, <2>2, <2>4, SettledKey
    <3>2. CASE key_syncing
      BY <1>2, <2>2, <2>4, <3>1, <3>2, SyncingStep
    <3>3. CASE ~key_syncing
      <4>1. AllOf(round_keys, aes_key)
        BY <2>2, <3>1, <3>3 DEF KeyInv, LocalKeysCurrent, AllOf
      <4> QED
        BY <2>2, <2>4, <3>3, <4>1, SyncingStep
    <3> QED
      BY <3>2, <3>3
  <2> QED
    BY <2>3, <2>4
<1> QED
  BY <1>3, <1>4

\* A stage that takes a block in has its round key of the packet's key.
LEMMA StageKey ==
  ASSUME KeyInv, PacketInv, ~Overlap,
         NEW tvalid, NEW tlast, NEW wready, NEW write, NEW key,
         CycleOf(tvalid, tlast, wready, write, key),
         read_tready(wready), packet_key' # NoKey,
         NEW i \in Stages, Valid(i)'
  PROVE  round_keys[i] = RoundKeyOf(packet_key', i)
<1> USE RoundsAssumption
<1>1. /\ ~rounder_key_ack
      /\ key_syncing => key_syncing_counter # 0 /\ key_syncing_counter \in Stages
  BY DEF read_tready, stall, rounder_key_ack, KeyInv, RefreshBehind
<1>2. CASE transaction_status
  <2>1. packet_key' = packet_key
    BY <1>2, PacketKeyKept
  <2>2. key_syncing => i < key_syncing_counter
    <3>1. CASE i = 0
      BY <1>1, <3>1 DEF Stages
    <3>2. CASE i # 0
      <4>1. i - 1 \in Stages /\ Valid(i - 1)
        BY <3>2, PipelineStep DEF KeyInv
      <4> QED
        BY <1>1, <4>1 DEF PacketInv, BlocksOfPacket, Stages
    <3> QED
      BY <3>1, <3>2
  <2>3. CASE key_syncing
    BY <1>2, <2>1, <2>2, <2>3 DEF PacketInv, TransactionKey, KeyInv, RefreshBehind
  <2>4. CASE ~key_syncing
    BY <1>2, <2>1, <2>4 DEF PacketInv, TransactionKey, AllOf
  <2> QED
    BY <2>3, <2>4
<1>3. CASE ~transaction_status
  <2>1. i = 0 /\ tvalid
    BY <1>3, PipelineStep DEF KeyInv, PacketInv, BlocksOfPacket
  <2>2. packet_key' = aes_key
    BY <1>3, <2>1, SourceStep DEF KeyInv, OfferedKey, PacketInv, OnePacket
  <2>3. ~key_change_pending_rounder /\ expanded_keys[0].key = aes_key
    BY <1>1, <1>3, <2>2, SettledKey
  <2>4. CASE key_syncing
    BY <1>1, <2>1, <2>2, <2>3, <2>4 DEF KeyInv, RefreshBehind, Stages
  <2>5. CASE ~key_syncing
    BY <2>2, <2>3, <2>5 DEF KeyInv, LocalKeysCurrent
  <2> QED
    BY <2>4, <2>5
<1> QED
  BY <1>2, <1>3

\* Every block stays one of the packet under way, with its key so far.
LEMMA BlocksStep ==
  ASSUME KeyInv, PacketInv, ~Overlap,
         NEW tvalid, NEW tlast, NEW wready, NEW write, NEW key,
         CycleOf(tvalid, tlast, wready, write, key)
  PROVE  BlocksOfPacket'
<1> USE RoundsAssumption
<1> SUFFICES ASSUME NEW i \in Stages, Valid(i)'
             PROVE  /\ transaction_status'
                    /\ blocks'[i].want = packet_key'
                    /\ packet_key' # NoKey => blocks'[i].key = packet_key'
                    /\ key_syncing' => key_syncing_counter' >= i + 2
  BY DEF BlocksOfPacket, Valid
<1>1. /\ RounderTypeOK /\ TypeOK
      /\ [id |-> accepted, want |-> OfferedKey, key |-> NoKey] \in StreamBlock
  BY DEF KeyInv, TypeOK, OfferedKey, StreamBlock
<1>2. CASE ~read_tready(wready)
  <2>1. Valid(i) /\ blocks'[i] = blocks[i]
    BY <1>1, <1>2, PipelineStep
  <2>2. transaction_status /\ packet_key' = packet_key
    BY <2>1, PacketKeyKept DEF PacketInv, BlocksOfPacket
  <2>3. transaction_status'
    BY <2>1, <2>2, EndEmpties
  <2>4. key_syncing' => key_syncing /\ key_syncing_counter' = key_syncing_counter + 1
    BY <2>2, SyncingStep DEF rounder_key_ack, key_ack, transaction_status
  <2> QED
    BY <1>1, <2>1, <2>2, <2>3, <2>4
       DEF PacketInv, BlocksOfPacket, KeyInv, RefreshBehind, Stages
<1>3. CASE read_tready(wready)
  <2>1. key_syncing' => /\ key_syncing
                       /\ key_syncing_counter # 0
                       /\ key_syncing_counter \in Stages
                       /\ key_syncing_counter' = key_syncing_counter + 1
    BY <1>3, SyncingStep DEF read_tready, stall, rounder_key_ack, KeyInv, RefreshBehind
  <2>2. packet_key' # NoKey => round_keys[i] = RoundKeyOf(packet_key', i)
    BY <1>3, StageKey
  <2>3. CASE i = 0
    <3>1. tvalid /\ blocks'[0] =
            add_round_key([id |-> accepted, want |-> OfferedKey, key |-> NoKey], round_keys[0], 0)
      BY <1>1, <1>3, <2>3, PipelineStep
    <3>2. packet_key' = OfferedKey
      BY <1>1, <3>1, SourceStep
    <3>3. transaction_status'
      BY <1>1, <2>3, <3>1, TransactionStep, EndEmpties
    <3>4. blocks'[0].want = OfferedKey
      BY <1>1, <2>3, <3>1, AddRoundKeyType DEF RounderTypeOK
    <3>5. packet_key' # NoKey => blocks'[0].key = packet_key'
      BY <2>2, <2>3, <3>1 DEF add_round_key, RoundKeyOf
    <3>6. key_syncing' => key_syncing_counter' >= 2
      BY <2>1 DEF Stages
    <3> QED
      BY <2>3, <3>2, <3>3, <3>4, <3>5, <3>6
  <2>4. CASE i # 0
    <3>1. /\ i - 1 \in Stages /\ Valid(i - 1)
          /\ blocks'[i] = add_round_key(blocks[i - 1], round_keys[i], i)
      BY <1>1, <1>3, <2>4, PipelineStep
    <3>2. /\ transaction_status
          /\ blocks[i - 1].want = packet_key
          /\ packet_key # NoKey => blocks[i - 1].key = packet_key
          /\ key_syncing => key_syncing_counter >= (i - 1) + 2
      BY <3>1 DEF PacketInv, BlocksOfPacket
    <3>3. packet_key' = packet_key /\ transaction_status'
      BY <3>2, PacketKeyKept, EndEmpties
    <3>4. blocks'[i].want = packet_key
      BY <1>1, <3>1, <3>2, AddRoundKeyType DEF RounderTypeOK
    <3>5. blocks[i - 1] \in StreamBlock
      BY <1>1, <3>1 DEF RounderTypeOK
    <3>6. packet_key' # NoKey => blocks'[i].key = packet_key'
      BY <2>2, <3>1, <3>2, <3>3, <3>5 DEF add_round_key, RoundKeyOf, StreamBlock
    <3>7. key_syncing' => key_syncing_counter' >= i + 2
      BY <2>1, <3>2 DEF Stages
    <3> QED
      BY <3>3, <3>4, <3>6, <3>7
  <2> QED
    BY <2>3, <2>4
<1> QED
  BY <1>2, <1>3

\* The last block of the packet under way is with the source, in the pipeline or
\* just delivered.
LEMMA TransactionEndsStep ==
  ASSUME TypeOK, TransactionEnds,
         NEW tvalid, NEW tlast, NEW wready, NEW write, NEW key,
         CycleOf(tvalid, tlast, wready, write, key)
  PROVE  TransactionEnds'
<1> USE RoundsAssumption
<1> SUFFICES ASSUME transaction_status', source' = "idle"
             PROVE  \E i \in Stages : Last(i)'
  BY DEF TransactionEnds, Last, Valid
<1>1. tvalid \in BOOLEAN /\ tlast \in BOOLEAN
  BY DEF CycleOf
<1>2. CASE tvalid
  <2>1. read_tready(wready) /\ tlast
    BY <1>1, <1>2, SourceStep
  <2>2. Last(0)' <=> tvalid /\ tlast
    BY <1>1, <2>1, PipelineStep
  <2>3. 0 \in Stages
    BY DEF Stages
  <2> QED
    BY Zenon, <1>2, <2>1, <2>2, <2>3
<1>3. CASE ~tvalid
  <2>1. source = "idle" /\ transaction_status
    BY <1>1, <1>3, SourceStep, TransactionStep
  <2>2. PICK i \in Stages : Last(i)
    BY <1>1, <2>1 DEF TransactionEnds
  <2>3. CASE ~read_tready(wready)
    BY <1>1, <2>2, <2>3, PipelineStep
  <2>4. CASE read_tready(wready)
    <3>1. i # Rounds
      <4>1. ~(Last(Rounds) /\ wready)
        BY <1>1, <2>1, TransactionStep
      <4> QED
        BY <2>2, <2>4, <4>1 DEF read_tready, stall, Last, Valid, write_tvalid
    <3>2. i + 1 \in Stages \ {0} /\ (i + 1) - 1 = i
      BY <3>1 DEF Stages
    <3> QED
      BY <1>1, <2>2, <2>4, <3>2, PipelineStep
  <2> QED
    BY <2>3, <2>4
<1> QED
  BY <1>1, <1>2, <1>3

\* The packet is with the source or in the pipeline until it is delivered.
LEMMA OnePacketStep ==
  ASSUME KeyInv, PacketInv, ~Overlap,
         NEW tvalid, NEW tlast, NEW wready, NEW write, NEW key,
         CycleOf(tvalid, tlast, wready, write, key)
  PROVE  OnePacket'
<1> USE RoundsAssumption
<1>1. TypeOK /\ OnePacket /\ tvalid \in BOOLEAN /\ tlast \in BOOLEAN
  BY DEF KeyInv, PacketInv, CycleOf
<1>2. ASSUME source' # "idle"
      PROVE  transaction_status'
  BY <1>1, <1>2, SourceStep, TransactionStep, EndEmpties DEF OnePacket
<1>3. TransactionEnds'
  BY <1>1, TransactionEndsStep DEF OnePacket
<1>4. ASSUME NEW i \in Stages, Last(i)'
      PROVE  source' = "idle" /\ \A j \in Stages : j < i => ~Valid(j)'
  <2>1. CASE ~read_tready(wready)
    <3>1. Last(i) /\ Valid(i)
      BY <1>1, <1>4, <2>1, PipelineStep DEF Last
    <3>2. source = "idle" /\ ~tvalid
      BY <1>1, <3>1, SourceStep DEF OnePacket
    <3> QED
      BY <1>1, <2>1, <3>1, <3>2, SourceStep, PipelineStep DEF OnePacket
  <2>2. CASE read_tready(wready) /\ i = 0
    <3>1. tvalid /\ tlast
      BY <1>1, <1>4, <2>2, PipelineStep
    <3>2. source' = "idle" <=> read_tready(wready) /\ tlast
      BY <1>1, <3>1, SourceStep
    <3>3. \A j \in Stages : ~(j < i)
      BY <2>2 DEF Stages
    <3> QED
      BY Zenon, <2>2, <3>1, <3>2, <3>3
  <2>3. CASE read_tready(wready) /\ i # 0
    <3>1. i - 1 \in Stages /\ Last(i - 1) /\ Valid(i - 1)
      BY <1>1, <1>4, <2>3, PipelineStep DEF Last
    <3>2. source = "idle" /\ ~tvalid
      BY <1>1, <3>1, SourceStep DEF OnePacket
    <3>3. ASSUME NEW j \in Stages, j < i
          PROVE  ~Valid(j)'
      <4>1. CASE j = 0
        BY <1>1, <2>3, <3>2, <4>1, PipelineStep
      <4>2. CASE j # 0
        <5>1. j - 1 \in Stages /\ j - 1 < i - 1
          BY <3>3, <4>2 DEF Stages
        <5>2. ~Valid(j - 1)
          BY <1>1, <3>1, <5>1 DEF OnePacket
        <5> QED
          BY <1>1, <2>3, <4>2, <5>2, PipelineStep
      <4> QED
        BY <4>1, <4>2
    <3> QED
      BY <1>1, <3>2, <3>3, SourceStep
  <2> QED
    BY <2>1, <2>2, <2>3
<1> QED
  BY <1>2, <1>3, <1>4 DEF OnePacket, TransactionEnds, Valid, Last

\* With packets that do not overlap, the packet invariant is an invariant.
THEOREM PacketInvariance ==
  ASSUME ~Overlap
  PROVE  Spec => []PacketInv
<1>1. Init => PacketInv
  BY DEF Init, RounderInit, TransactionInit, RefreshInit, PipelineInit, StreamInit,
      PacketInv, TransactionKey, BlocksOfPacket, OnePacket, TransactionEnds,
         Valid, Last, transaction_status
<1>2. ASSUME Reset PROVE PacketInv'
  BY <1>2 DEF Reset, RounderReset, TransactionReset, RefreshReset, PipelineReset,
      StreamReset, PacketInv, TransactionKey, BlocksOfPacket,
              OnePacket, TransactionEnds, Valid, Last, transaction_status
<1>3. ASSUME KeyInv, PacketInv, [Next]_vars PROVE PacketInv'
  <2>1. CASE Next
    BY <1>2, <1>3, <2>1, NextCases, TransactionKeyStep, BlocksStep, OnePacketStep DEF
        PacketInv
  <2>2. CASE UNCHANGED vars
    BY <1>3, <2>2 DEF vars, keyExpansionVars, rounderVars, transactionVars, refreshVars,
         pipelineVars, flagVars, slaveVars, streamVars, PacketInv, TransactionKey,
         BlocksOfPacket, OnePacket, TransactionEnds, Valid, Last, AllOf, transaction_status, key_syncing
  <2> QED
    BY <1>3, <2>1, <2>2
<1> QED
  BY <1>1, <1>3, KeyInvariance, PTL DEF Spec

\* README.md's promise: a packet's blocks are encrypted with the key that was
\* in the registers when it was first offered.
THEOREM KeyCommittedCorrect ==
  ASSUME ~Overlap
  PROVE  Spec => []KeyCommitted
<1>1. PacketInv => KeyCommitted
  BY DEF PacketInv, BlocksOfPacket, KeyCommitted, InFlight, Valid
<1> QED
  BY <1>1, PacketInvariance, PTL

\* The transaction machine covers the packet from its first block to its last.
THEOREM TransactionCoversCorrect ==
  ASSUME ~Overlap
  PROVE  Spec => []TransactionCovers
<1>1. PacketInv => TransactionCovers
  BY DEF PacketInv, BlocksOfPacket, TransactionCovers, InFlight, Valid
<1> QED
  BY <1>1, PacketInvariance, PTL


-----------------------------------------------------------------------------
(* Packets that overlap *)

\* What the software's discipline asks of a cycle: no key is written while blocks
\* are offered or in flight.
QuietCycle(tvalid, write) == write => source = "idle" /\ InFlight = {} /\ ~tvalid

LEMMA DisciplineIsQuiet ==
  ASSUME ~WriteWhileBusy, NEW tvalid, NEW tlast, NEW wready, NEW write, NEW key,
         CycleOf(tvalid, tlast, wready, write, key)
  PROVE  QuietCycle(tvalid, write)
  BY DEF CycleOf, Clock, SlaveClock, WriteAllowed, QuietCycle

\* With anything offered or in flight the key registers stay as they are.
LEMMA NothingWritten ==
  ASSUME NEW tvalid, NEW tlast, NEW wready, NEW write, NEW key,
         CycleOf(tvalid, tlast, wready, write, key), QuietCycle(tvalid, write),
         tvalid \/ source # "idle" \/ \E i \in Stages : Valid(i)
  PROVE  aes_key' = aes_key
  BY DEF CycleOf, Clock, SlaveClock, QuietCycle, InFlight, Valid, KeyRegisters!HoldKey

\* A write is acknowledged in the next cycle, with nothing else under way.
LEMMA PendingAloneStep ==
  ASSUME KeyInv, QuietInv,
         NEW tvalid, NEW tlast, NEW wready, NEW write, NEW key,
         CycleOf(tvalid, tlast, wready, write, key), QuietCycle(tvalid, write)
  PROVE  PendingAlone'
<1> SUFFICES ASSUME key_change_pending_rounder'
             PROVE  /\ source' = "idle"
                    /\ ~transaction_status'
                    /\ \A i \in Stages : ~Valid(i)'
  BY DEF PendingAlone, Valid
<1>1. /\ TypeOK /\ PendingAlone /\ TransactionEnds
      /\ key_change_pending_rounder \in BOOLEAN
      /\ transaction_state \in {"TRANSACTION_IDLE", "ONGOING"}
      /\ FlagsClock(write) /\ SlaveClock(write, key, tvalid)
      /\ tvalid \in BOOLEAN /\ write \in BOOLEAN
  BY DEF KeyInv, TypeOK, RounderTypeOK, QuietInv, CycleOf, Clock
<1>2. key_change_pending_rounder => rounder_key_ack
  BY <1>1 DEF PendingAlone, rounder_key_ack, key_ack, transaction_status
<1>3. write
  BY Zenon, <1>1, <1>2 DEF FlagsClock
<1>4. source = "idle" /\ ~tvalid /\ \A i \in Stages : ~Valid(i)
  BY <1>3 DEF QuietCycle, InFlight, Valid
<1>5. ~transaction_status
  BY <1>1, <1>4 DEF TransactionEnds, Last
<1>6. ~Valid(0)' /\ \A i \in Stages \ {0} : ~Valid(i)'
  <2>1. CASE read_tready(wready)
    BY <1>1, <1>4, <2>1, PipelineStep
  <2>2. CASE ~read_tready(wready)
    <3>1. 0 \in Stages
      BY RoundsAssumption DEF Stages
    <3> QED
      BY <1>1, <1>4, <2>2, <3>1, PipelineStep
  <2> QED
    BY <2>1, <2>2
<1> QED
  BY <1>1, <1>4, <1>5, <1>6, SourceStep, TransactionStep

\* A stage that takes a block in has its round key of the registers' key.
LEMMA StageKeyOfRegisters ==
  ASSUME KeyInv, QuietInv, NEW wready, read_tready(wready), aes_key # NoKey,
         NEW i \in Stages, key_syncing => i < key_syncing_counter
  PROVE  round_keys[i] = RoundKeyOf(aes_key, i)
<1>1. ~key_change_pending_rounder
  BY DEF QuietInv, PendingAlone, read_tready, stall, key_ack, transaction_status, KeyInv,
       TypeOK, RounderTypeOK
<1>2. CASE key_syncing
  BY <1>1, <1>2 DEF KeyInv, PendingTogether, KeyLoaded, RefreshBehind
<1>3. CASE ~key_syncing
  BY <1>1, <1>3 DEF KeyInv, LocalKeysCurrent
<1> QED
  BY <1>2, <1>3

\* Every block stays one for the registers' key, with that key so far.
LEMMA BlocksOfRegistersStep ==
  ASSUME KeyInv, QuietInv,
         NEW tvalid, NEW tlast, NEW wready, NEW write, NEW key,
         CycleOf(tvalid, tlast, wready, write, key), QuietCycle(tvalid, write)
  PROVE  BlocksOfRegisters'
<1> USE RoundsAssumption
<1> SUFFICES ASSUME NEW i \in Stages, Valid(i)'
             PROVE  /\ blocks'[i].want = aes_key'
                    /\ aes_key' # NoKey => blocks'[i].key = aes_key'
                    /\ key_syncing' => key_syncing_counter' >= i + 2
  BY DEF BlocksOfRegisters, Valid
<1>1. /\ TypeOK /\ RounderTypeOK /\ BlocksOfRegisters /\ OfferOfRegisters /\ PendingAlone
      /\ [id |-> accepted, want |-> OfferedKey, key |-> NoKey] \in StreamBlock
  BY DEF KeyInv, QuietInv, TypeOK, OfferedKey, StreamBlock
<1>2. CASE ~read_tready(wready)
  <2>1. Valid(i) /\ blocks'[i] = blocks[i]
    BY <1>1, <1>2, PipelineStep
  <2>2. aes_key' = aes_key /\ ~rounder_key_ack
    BY <1>1, <2>1, NothingWritten DEF PendingAlone, rounder_key_ack, key_ack
  <2>3. key_syncing' => key_syncing /\ key_syncing_counter' = key_syncing_counter + 1
    BY <2>2, SyncingStep
  <2> QED
    BY <1>1, <2>1, <2>2, <2>3 DEF BlocksOfRegisters, KeyInv, RefreshBehind, Stages
<1>3. CASE read_tready(wready)
  <2>1. /\ ~rounder_key_ack
        /\ key_syncing => key_syncing_counter # 0 /\ key_syncing_counter \in Stages
        /\ key_syncing' => key_syncing /\ key_syncing_counter' = key_syncing_counter + 1
    BY <1>3, SyncingStep DEF read_tready, stall, rounder_key_ack, KeyInv, RefreshBehind
  <2>2. CASE i = 0
    <3>1. tvalid /\ blocks'[0] =
            add_round_key([id |-> accepted, want |-> OfferedKey, key |-> NoKey], round_keys[0], 0)
      BY <1>1, <1>3, <2>2, PipelineStep
    <3>2. aes_key' = aes_key /\ OfferedKey = aes_key
      BY <1>1, <3>1, NothingWritten DEF OfferOfRegisters, OfferedKey
    <3>3. blocks'[0].want = OfferedKey
      BY <1>1, <2>2, <3>1, AddRoundKeyType DEF RounderTypeOK
    <3>4. aes_key # NoKey => round_keys[0] = RoundKeyOf(aes_key, 0)
      BY <1>3, <2>1, <2>2, StageKeyOfRegisters DEF Stages
    <3>5. aes_key # NoKey => blocks'[0].key = aes_key
      BY <3>1, <3>4 DEF add_round_key, RoundKeyOf
    <3>6. key_syncing' => key_syncing_counter' >= 2
      BY <2>1 DEF Stages
    <3> QED
      BY <2>2, <3>2, <3>3, <3>5, <3>6
  <2>3. CASE i # 0
    <3>1. /\ i - 1 \in Stages /\ Valid(i - 1)
          /\ blocks'[i] = add_round_key(blocks[i - 1], round_keys[i], i)
      BY <1>1, <1>3, <2>3, PipelineStep
    <3>2. /\ aes_key' = aes_key
          /\ blocks[i - 1].want = aes_key
          /\ aes_key # NoKey => blocks[i - 1].key = aes_key
          /\ key_syncing => key_syncing_counter >= (i - 1) + 2
      BY <1>1, <3>1, NothingWritten DEF BlocksOfRegisters
    <3>3. blocks'[i].want = aes_key
      BY <1>1, <3>1, <3>2, AddRoundKeyType DEF RounderTypeOK
    <3>4. aes_key # NoKey => round_keys[i] = RoundKeyOf(aes_key, i)
      BY <1>3, <2>1, <3>2, StageKeyOfRegisters DEF Stages
    <3>5. blocks[i - 1] \in StreamBlock
      BY <1>1, <3>1 DEF RounderTypeOK
    <3>6. aes_key # NoKey => blocks'[i].key = aes_key
      BY <3>1, <3>2, <3>4, <3>5 DEF add_round_key, RoundKeyOf, StreamBlock
    <3>7. key_syncing' => key_syncing_counter' >= i + 2
      BY <2>1, <3>2 DEF Stages
    <3> QED
      BY <3>2, <3>3, <3>6, <3>7
  <2> QED
    BY <2>2, <2>3
<1> QED
  BY <1>2, <1>3

\* A packet begun keeps the registers' key.
LEMMA OfferOfRegistersStep ==
  ASSUME KeyInv, QuietInv,
         NEW tvalid, NEW tlast, NEW wready, NEW write, NEW key,
         CycleOf(tvalid, tlast, wready, write, key), QuietCycle(tvalid, write)
  PROVE  OfferOfRegisters'
<1> SUFFICES ASSUME source' # "idle" PROVE packet_key' = aes_key'
  BY DEF OfferOfRegisters
<1>1. TypeOK /\ OfferOfRegisters /\ tvalid \in BOOLEAN
  BY DEF KeyInv, QuietInv, CycleOf
<1>2. CASE tvalid
  BY <1>1, <1>2, SourceStep, NothingWritten DEF OfferOfRegisters, OfferedKey
<1>3. CASE ~tvalid
  BY <1>1, <1>3, SourceStep, NothingWritten DEF OfferOfRegisters
<1> QED
  BY <1>1, <1>2, <1>3

\* A cycle without such a write keeps the quiet invariant.
LEMMA QuietStep ==
  ASSUME KeyInv, QuietInv,
         NEW tvalid, NEW tlast, NEW wready, NEW write, NEW key,
         CycleOf(tvalid, tlast, wready, write, key), QuietCycle(tvalid, write)
  PROVE  QuietInv'
<1>1. TransactionEnds'
  BY TransactionEndsStep DEF KeyInv, QuietInv
<1> QED
  BY <1>1, BlocksOfRegistersStep, OfferOfRegistersStep, PendingAloneStep DEF QuietInv

LEMMA InitQuietInv == Init => QuietInv
  BY DEF Init, RounderInit, TransactionInit, PipelineInit, FlagsInit, StreamInit, QuietInv,
         BlocksOfRegisters, OfferOfRegisters, PendingAlone, TransactionEnds, Valid,
         transaction_status

LEMMA ResetQuietInv == Reset => QuietInv'
  BY DEF Reset, RounderReset, TransactionReset, PipelineReset, FlagsReset, StreamReset,
         QuietInv, BlocksOfRegisters, OfferOfRegisters, PendingAlone, TransactionEnds, Valid,
         transaction_status

\* Under software that writes no key while blocks are offered or in flight, the
\* quiet invariant is an invariant, overlapping packets or not.
THEOREM QuietInvariance ==
  ASSUME ~WriteWhileBusy
  PROVE  Spec => []QuietInv
<1>1. ASSUME KeyInv, QuietInv, [Next]_vars PROVE QuietInv'
  <2>1. ASSUME NEW tvalid, NEW tlast, NEW wready, NEW write, NEW key,
               CycleOf(tvalid, tlast, wready, write, key)
        PROVE  QuietInv'
    BY <1>1, <2>1, QuietStep, DisciplineIsQuiet
  <2>2. CASE UNCHANGED vars
    BY <1>1, <2>2 DEF vars, rounderVars, transactionVars, refreshVars, pipelineVars,
         flagVars, slaveVars, streamVars, QuietInv, BlocksOfRegisters, OfferOfRegisters,
         PendingAlone, TransactionEnds, Valid, Last, transaction_status, key_syncing
  <2> QED
    BY <1>1, <2>1, <2>2, NextCases, ResetQuietInv
<1> QED
  BY <1>1, InitQuietInv, KeyInvariance, PTL DEF Spec

\* Blocks for the registers' key, under one key, drain without a pause.
LEMMA QuietFlows == KeyInv /\ QuietInv => KeyCommitted /\ Flows
  BY RoundsAssumption
     DEF QuietInv, BlocksOfRegisters, PendingAlone, KeyCommitted, Flows, InFlight, Valid,
         KeyInv, RefreshBehind, Stages, rounder_key_ack, key_ack

\* What the drains of the pipeline rest on, from either discipline: packets that
\* do not overlap, or no key writes while blocks are offered or in flight.
THEOREM CommittedAndFlowing ==
  ASSUME ~Overlap \/ ~WriteWhileBusy
  PROVE  Spec => [](KeyCommitted /\ Flows)
<1>1. KeyInv /\ PacketInv => KeyCommitted /\ Flows
  BY RoundsAssumption
     DEF PacketInv, BlocksOfPacket, KeyCommitted, Flows, InFlight, Valid, KeyInv, RefreshBehind,
         Stages, rounder_key_ack, key_ack, transaction_status
<1>2. CASE ~Overlap
  BY <1>1, <1>2, KeyInvariance, PacketInvariance, PTL
<1>3. CASE ~WriteWhileBusy
  BY <1>3, QuietFlows, KeyInvariance, QuietInvariance, PTL
<1> QED
  BY <1>2, <1>3

\* README.md's promise holds under either discipline: a packet's blocks are
\* encrypted with the key that was in the registers when it was first offered.
THEOREM KeyCommittedUnderDiscipline ==
  ASSUME ~Overlap \/ ~WriteWhileBusy
  PROVE  Spec => []KeyCommitted
  BY CommittedAndFlowing, PTL

-----------------------------------------------------------------------------
(* The order invariant *)

\* A word the sink takes is one cycle of a pipeline that moves.
LEMMA TakenMoves ==
  ASSUME Flows, NEW wready \in BOOLEAN, Valid(Rounds)
  PROVE  read_tready(wready) <=> wready
<1>1. Rounds \in Stages
  BY RoundsAssumption DEF Stages
<1> QED
  BY <1>1 DEF Flows, rounder_key_ack, read_tready, stall, write_tvalid, Valid

\* The counts in a cycle.
LEMMA CountsStep ==
  ASSUME Flows, NEW tvalid, NEW tlast, NEW wready, NEW write, NEW key,
         CycleOf(tvalid, tlast, wready, write, key)
  PROVE  /\ read_tready(wready) =>
              /\ accepted' = IF tvalid THEN accepted + 1 ELSE accepted
              /\ delivered' = IF Valid(Rounds) THEN delivered + 1 ELSE delivered
         /\ ~read_tready(wready) => accepted' = accepted /\ delivered' = delivered
<1>1. /\ StreamClock(tvalid, tlast, read_tready(wready), wready)
      /\ wready \in BOOLEAN
  BY DEF CycleOf, Clock
<1>2. Valid(Rounds) => (read_tready(wready) <=> wready)
  BY <1>1, TakenMoves
<1> QED
  BY <1>1, <1>2 DEF StreamClock, write_tvalid, Valid

\* The block at the output is the next one due.
LEMMA OutputIsDue ==
  ASSUME TypeOK, OrderInv, Valid(Rounds)
  PROVE  blocks[Rounds].id = delivered /\ delivered < accepted
<1>1. /\ Rounds \in Stages
      /\ \A i \in Stages : i # Rounds => i < Rounds
      /\ \A i \in Stages : blocks[i].id \in Nat
      /\ delivered \in Nat /\ accepted \in Nat
  BY RoundsAssumption DEF Stages, TypeOK, RounderTypeOK, StreamBlock
<1>2. delivered <= blocks[Rounds].id /\ blocks[Rounds].id < accepted
  BY <1>1 DEF OrderInv
<1>3. PICK i \in Stages : Valid(i) /\ blocks[i].id = delivered
  BY <1>1, <1>2 DEF OrderInv, DueInPipeline
<1>4. i < Rounds => blocks[Rounds].id < delivered
  BY <1>1, <1>3 DEF OrderInv, OldestFirst
<1> QED
  BY <1>1, <1>2, <1>3, <1>4

\* Only the block at the output is the next one due.
LEMMA DueIsOutput ==
  ASSUME TypeOK, OrderInv, Valid(Rounds), NEW i \in Stages, Valid(i), i # Rounds
  PROVE  delivered < blocks[i].id
<1>1. Rounds \in Stages /\ i < Rounds
  BY RoundsAssumption DEF Stages
<1> QED
  BY <1>1, OutputIsDue DEF OrderInv, OldestFirst

\* A cycle keeps the order invariant.
LEMMA OrderStep ==
  ASSUME KeyInv, Flows, OrderInv,
         NEW tvalid, NEW tlast, NEW wready, NEW write, NEW key,
         CycleOf(tvalid, tlast, wready, write, key)
  PROVE  OrderInv'
<1> USE RoundsAssumption
<1>1. /\ TypeOK
      /\ delivered \in Nat /\ accepted \in Nat /\ delivered <= accepted
      /\ \A i \in Stages : blocks[i] \in StreamBlock /\ blocks[i].id \in Nat
      /\ \A i \in Stages : Valid(i) => delivered <= blocks[i].id /\ blocks[i].id < accepted
      /\ \A i \in Stages : round_keys[i] \in RoundKey
      /\ [id |-> accepted, want |-> OfferedKey, key |-> NoKey] \in StreamBlock
  BY DEF KeyInv, OrderInv, TypeOK, RounderTypeOK, StreamBlock, OfferedKey
<1>2. CASE ~read_tready(wready)
  <2>1. \A i \in Stages : (Valid(i)' <=> Valid(i)) /\ blocks'[i] = blocks[i]
    BY <1>1, <1>2, PipelineStep
  <2>2. accepted' = accepted /\ delivered' = delivered
    BY <1>2, CountsStep
  <2> QED
    BY <2>1, <2>2 DEF OrderInv, OldestFirst, DueInPipeline, Valid
<1>3. CASE read_tready(wready)
  <2>1. /\ accepted' = IF tvalid THEN accepted + 1 ELSE accepted
        /\ delivered' = IF Valid(Rounds) THEN delivered + 1 ELSE delivered
    BY <1>3, CountsStep
  <2>2. /\ 0 \in Stages /\ Rounds \in Stages
        /\ \A i \in Stages \ {0} : i - 1 \in Stages /\ i - 1 # Rounds
        /\ \A i \in Stages : i # Rounds => i + 1 \in Stages \ {0} /\ (i + 1) - 1 = i
    BY DEF Stages
  <2>3. Valid(0)' <=> tvalid
    BY <1>1, <1>3, PipelineStep
  <2>4. Valid(0)' => blocks'[0].id = accepted
    BY <1>1, <1>3, <2>2, PipelineStep, AddRoundKeyType
  <2>5. \A i \in Stages \ {0} :
          /\ Valid(i)' <=> Valid(i - 1)
          /\ Valid(i)' => blocks'[i].id = blocks[i - 1].id
    <3> SUFFICES ASSUME NEW i \in Stages \ {0}
                 PROVE  /\ Valid(i)' <=> Valid(i - 1)
                        /\ Valid(i)' => blocks'[i].id = blocks[i - 1].id
      OBVIOUS
    <3>1. /\ Valid(i)' <=> Valid(i - 1)
          /\ Valid(i)' => blocks'[i] = add_round_key(blocks[i - 1], round_keys[i], i)
      BY <1>1, <1>3, PipelineStep
    <3>2. add_round_key(blocks[i - 1], round_keys[i], i).id = blocks[i - 1].id
      <4>1. i \in Stages /\ blocks[i - 1] \in StreamBlock /\ round_keys[i] \in RoundKey
        BY <1>1, <2>2
      <4> QED
        BY <4>1, AddRoundKeyType
    <3> QED
      BY <3>1, <3>2
  <2>6. delivered' <= accepted'
    BY <1>1, <2>1, OutputIsDue
  <2>7. \A i \in Stages : Valid(i)' => delivered' <= blocks'[i].id /\ blocks'[i].id < accepted'
    <3> SUFFICES ASSUME NEW i \in Stages, Valid(i)'
                 PROVE  delivered' <= blocks'[i].id /\ blocks'[i].id < accepted'
      OBVIOUS
    <3>1. CASE i = 0
      BY <1>1, <2>1, <2>3, <2>4, <3>1, OutputIsDue
    <3>2. CASE i # 0
      <4>1. /\ i - 1 \in Stages /\ i - 1 # Rounds
            /\ Valid(i - 1) /\ blocks'[i].id = blocks[i - 1].id
        BY <2>2, <2>5, <3>2
      <4>2. Valid(Rounds) => delivered < blocks[i - 1].id
        BY <1>1, <4>1, DueIsOutput
      <4> QED
        BY <1>1, <2>1, <4>1, <4>2
    <3> QED
      BY <3>1, <3>2
  <2>8. OldestFirst'
    <3> SUFFICES ASSUME NEW i \in Stages, NEW j \in Stages, Valid(i)', Valid(j)', i < j
                 PROVE  blocks'[j].id < blocks'[i].id
      BY DEF OldestFirst, Valid
    <3>1. /\ j \in Stages \ {0} /\ j - 1 \in Stages
          /\ Valid(j - 1) /\ blocks'[j].id = blocks[j - 1].id
      BY <2>2, <2>5 DEF Stages
    <3>2. CASE i = 0
      BY <1>1, <2>4, <3>1, <3>2
    <3>3. CASE i # 0
      <4>1. /\ i - 1 \in Stages /\ i - 1 < j - 1
            /\ Valid(i - 1) /\ blocks'[i].id = blocks[i - 1].id
        BY <2>2, <2>5, <3>3 DEF Stages
      <4> QED
        BY <3>1, <4>1 DEF OrderInv, OldestFirst
    <3> QED
      BY <3>2, <3>3
  <2>9. DueInPipeline'
    <3> SUFFICES ASSUME NEW n \in Nat, delivered' <= n, n < accepted'
                 PROVE  \E i \in Stages : Valid(i)' /\ blocks'[i].id = n
      BY DEF DueInPipeline, Valid
    <3>1. CASE n = accepted
      BY <1>1, <2>1, <2>2, <2>3, <2>4, <3>1
    <3>2. CASE n # accepted
      <4>1. delivered <= n /\ n < accepted
        BY <1>1, <2>1, <3>2
      <4>2. PICK i \in Stages : Valid(i) /\ blocks[i].id = n
        BY <4>1 DEF OrderInv, DueInPipeline
      <4>3. i # Rounds
        BY <1>1, <2>1, <4>2, OutputIsDue
      <4>4. i + 1 \in Stages \ {0} /\ Valid(i + 1)' /\ blocks'[i + 1].id = n
        BY <2>2, <2>5, <4>2, <4>3
      <4> QED
        BY <4>4
    <3> QED
      BY <3>1, <3>2
  <2> QED
    BY Zenon, <2>6, <2>7, <2>8, <2>9 DEF OrderInv, Valid
<1> QED
  BY <1>2, <1>3

LEMMA InitOrderInv == Init => OrderInv
  BY DEF Init, RounderInit, PipelineInit, StreamInit, OrderInv, OldestFirst,
         DueInPipeline, Valid

LEMMA ResetOrderInv == Reset => OrderInv'
  BY DEF Reset, RounderReset, PipelineReset, StreamReset, OrderInv, OldestFirst,
         DueInPipeline, Valid

\* Under either discipline the order invariant is an invariant.
THEOREM OrderInvariance ==
  ASSUME ~Overlap \/ ~WriteWhileBusy
  PROVE  Spec => []OrderInv
<1>1. ASSUME KeyInv, Flows, OrderInv, [Next]_vars PROVE OrderInv'
  <2>1. CASE Next
    BY <1>1, <2>1, NextCases, OrderStep, ResetOrderInv
  <2>2. CASE UNCHANGED vars
    BY <1>1, <2>2 DEF vars, rounderVars, pipelineVars, streamVars, OrderInv, OldestFirst,
         DueInPipeline, Valid
  <2> QED
    BY <1>1, <2>1, <2>2
<1> QED
  BY <1>1, InitOrderInv, KeyInvariance, CommittedAndFlowing, PTL DEF Spec

\* Blocks in order in the pipeline come out in order, once each.
LEMMA OrderIsOnce == TypeOK /\ OrderInv => ExactlyOnce
<1> SUFFICES ASSUME TypeOK, OrderInv PROVE ExactlyOnce
  OBVIOUS
<1>1. write_tvalid => data_matrix_out.id = delivered
  BY OutputIsDue DEF write_tvalid, data_matrix_out, Valid
<1>2. InFlight = {} => delivered = accepted
  BY DEF TypeOK, OrderInv, DueInPipeline, InFlight, Valid
<1> QED
  BY <1>1, <1>2 DEF ExactlyOnce

\* Under either discipline the blocks come out once each and in the order they
\* went in, whatever the sink and the resets do.
THEOREM ExactlyOnceCorrect ==
  ASSUME ~Overlap \/ ~WriteWhileBusy
  PROVE  Spec => []ExactlyOnce
  BY OrderIsOnce, TypeCorrect, OrderInvariance, PTL

-----------------------------------------------------------------------------
(* The refinement *)

\* In the pipeline a block's rank by stage is its rank by place in the stream.
LEMMA RankByPlace ==
  ASSUME TypeOK, OrderInv, NEW i \in InFlight
  PROVE  LET S == {j \in InFlight : j >= i}
         IN  /\ IsFiniteSet(S)
             /\ Cardinality(S) = blocks[i].id - delivered + 1
<1> USE RoundsAssumption
<1> DEFINE S == {j \in InFlight : j >= i}
           T == delivered..blocks[i].id
           f == [j \in S |-> blocks[j].id]
<1>1. /\ delivered \in Nat /\ accepted \in Nat
      /\ InFlight \subseteq Stages /\ Stages \subseteq Nat
      /\ \A j \in Stages : blocks[j].id \in Nat
      /\ \A j \in InFlight : delivered <= blocks[j].id /\ blocks[j].id < accepted
      /\ \A j, m \in InFlight : j < m => blocks[m].id < blocks[j].id
  BY DEF TypeOK, RounderTypeOK, StreamBlock, Stages, InFlight, OrderInv, OldestFirst, Valid
<1>2. f \in [S -> T]
  <2> SUFFICES ASSUME NEW j \in S PROVE blocks[j].id \in T
    OBVIOUS
  <2>1. j \in InFlight /\ j >= i
    OBVIOUS
  <2>2. j \in Nat /\ i \in Nat
    BY <1>1, <2>1
  <2>3. j = i \/ i < j
    BY <2>1, <2>2
  <2> QED
    BY <1>1, <2>1, <2>3
<1>3. \A j, m \in S : f[j] = f[m] => j = m
  <2> SUFFICES ASSUME NEW j \in S, NEW m \in S, blocks[j].id = blocks[m].id
               PROVE  j = m
    OBVIOUS
  <2>1. j \in InFlight /\ m \in InFlight /\ j \in Nat /\ m \in Nat
    BY <1>1
  <2>2. blocks[j].id \in Nat
    BY <1>1
  <2> QED
    BY <1>1, <2>1, <2>2
<1>4. \A n \in T : \E j \in S : f[j] = n
  <2> SUFFICES ASSUME NEW n \in T PROVE \E j \in S : blocks[j].id = n
    OBVIOUS
  <2>1. n \in Nat /\ delivered <= n /\ n < accepted /\ n <= blocks[i].id
    BY <1>1
  <2>2. PICK j \in Stages : Valid(j) /\ blocks[j].id = n
    BY <2>1 DEF OrderInv, DueInPipeline
  <2>3. j \in InFlight
    BY <2>2 DEF InFlight, Valid
  <2>4. ~(j < i)
    BY <1>1, <2>1, <2>2, <2>3
  <2> QED
    BY <1>1, <2>2, <2>3, <2>4
<1>5. f \in Bijection(S, T)
  BY <1>2, <1>3, <1>4, Fun_IsBij
<1>6. IsFiniteSet(S)
  <2>1. IsFiniteSet(Stages)
    BY FS_Interval DEF Stages
  <2> QED
    BY <1>1, <2>1, FS_Subset
<1>7. Cardinality(T) = Cardinality(S)
  BY <1>5, <1>6, FS_Bijection DEF ExistsBijection
<1>8. Cardinality(T) = blocks[i].id - delivered + 1
  BY <1>1, FS_Interval
<1> QED
  BY <1>6, <1>7, <1>8

\* The pipeline holds as many blocks as are due.
LEMMA CountInFlight ==
  ASSUME TypeOK, OrderInv
  PROVE  Cardinality(InFlight) = accepted - delivered
<1>1. /\ delivered \in Nat /\ accepted \in Nat /\ delivered <= accepted
      /\ InFlight \subseteq Stages /\ Stages \subseteq Nat
      /\ \A j \in InFlight : blocks[j].id < accepted
      /\ \A j, m \in InFlight : j < m => blocks[m].id < blocks[j].id
      /\ \A n \in Nat : delivered <= n /\ n < accepted =>
           \E i \in InFlight : blocks[i].id = n
  BY RoundsAssumption DEF TypeOK, OrderInv, OldestFirst, DueInPipeline, Stages, InFlight, Valid
<1>2. \A j \in InFlight : blocks[j].id \in Nat /\ delivered <= blocks[j].id
  BY <1>1 DEF TypeOK, RounderTypeOK, StreamBlock, OrderInv, InFlight, Valid
<1>3. CASE accepted = delivered
  <2>1. InFlight = {}
    BY <1>1, <1>2, <1>3
  <2> QED
    BY <1>1, <1>3, <2>1, FS_EmptySet
<1>4. CASE accepted # delivered
  <2>1. accepted - 1 \in Nat /\ delivered <= accepted - 1 /\ accepted - 1 < accepted
    BY <1>1, <1>4
  <2>2. PICK i \in InFlight : blocks[i].id = accepted - 1
    BY <1>1, <2>1
  <2>3. ASSUME NEW j \in InFlight PROVE j >= i
    <3>1. j \in Nat /\ i \in Nat
      BY <1>1
    <3>2. j < i => accepted - 1 < blocks[j].id
      BY <1>1, <2>2
    <3>3. blocks[j].id < accepted /\ blocks[j].id \in Nat
      BY <1>1, <1>2
    <3> QED
      BY <1>1, <3>1, <3>2, <3>3
  <2>4. {j \in InFlight : j >= i} = InFlight
    BY <2>3
  <2>5. Cardinality(InFlight) = blocks[i].id - delivered + 1
    BY <2>4, RankByPlace
  <2> QED
    BY <1>1, <2>2, <2>5
<1> QED
  BY <1>3, <1>4

\* The abstract stream holds the blocks of the pipeline, and in its places
\* nothing else.
InPlace ==
  /\ InFlightBlocks = [n \in 1..(accepted - delivered) |-> InFlightBlocks[n]]
  /\ \A i \in Stages : Valid(i) => InFlightBlocks[blocks[i].id - delivered + 1] = Seen(i)
  /\ \A n \in 1..(accepted - delivered) : \E i \in Stages :
        Valid(i) /\ blocks[i].id = delivered + n - 1

LEMMA StreamInPlace == TypeOK /\ OrderInv => InPlace
<1> SUFFICES ASSUME TypeOK, OrderInv PROVE InPlace
  OBVIOUS
<1>1. /\ delivered \in Nat /\ accepted \in Nat
      /\ \A i \in Stages : blocks[i].id \in Nat
      /\ \A i \in Stages : Valid(i) => delivered <= blocks[i].id /\ blocks[i].id < accepted
      /\ \A i, j \in Stages : Valid(i) /\ Valid(j) /\ i < j => blocks[j].id < blocks[i].id
      /\ \A n \in Nat : delivered <= n /\ n < accepted =>
           \E i \in Stages : Valid(i) /\ blocks[i].id = n
      /\ Stages \subseteq Nat
  BY RoundsAssumption DEF TypeOK, RounderTypeOK, StreamBlock, OrderInv, OldestFirst,
       DueInPipeline, Stages
<1>2. InFlightBlocks = [n \in 1..(accepted - delivered) |-> Seen(StageOf(n))]
  BY CountInFlight DEF InFlightBlocks
<1>3. ASSUME NEW i \in Stages, Valid(i)
      PROVE  InFlightBlocks[blocks[i].id - delivered + 1] = Seen(i)
  <2> DEFINE n == blocks[i].id - delivered + 1
             rank(m) == Cardinality({j \in InFlight : j >= m})
  <2>1. n \in 1..(accepted - delivered)
    BY <1>1, <1>3
  <2>2. i \in InFlight
    BY <1>3 DEF InFlight, Valid
  <2>3. \A m \in InFlight : rank(m) = blocks[m].id - delivered + 1
    BY RankByPlace
  <2>4. StageOf(n) \in InFlight /\ rank(StageOf(n)) = n
    <3>1. \E m \in InFlight : rank(m) = n
      BY <2>2, <2>3
    <3> QED
      BY <3>1 DEF StageOf
  <2>5. StageOf(n) \in Stages /\ Valid(StageOf(n)) /\ blocks[StageOf(n)].id = blocks[i].id
    <3>1. StageOf(n) \in Stages /\ Valid(StageOf(n))
      BY <2>4 DEF InFlight, Valid
    <3>2. blocks[StageOf(n)].id - delivered + 1 = blocks[i].id - delivered + 1
      BY <2>3, <2>4
    <3>3. /\ delivered \in Nat
          /\ blocks[StageOf(n)].id \in Nat /\ blocks[i].id \in Nat
      BY <1>1, <3>1
    <3>4. \A a, b, c \in Nat : a - c + 1 = b - c + 1 => a = b
      OBVIOUS
    <3> QED
      BY <3>1, <3>2, <3>3, <3>4
  <2>6. ASSUME NEW m \in Stages, Valid(m), blocks[m].id = blocks[i].id PROVE m = i
    <3>1. m \in Nat /\ i \in Nat /\ blocks[i].id \in Nat
      BY <1>1
    <3>2. ~(m < i) /\ ~(i < m)
      BY <1>1, <1>3, <2>6, <3>1
    <3> QED
      BY <3>1, <3>2
  <2>7. StageOf(n) = i
    BY <2>5, <2>6
  <2> QED
    BY <1>2, <2>1, <2>7
<1>4. ASSUME NEW n \in 1..(accepted - delivered)
      PROVE  \E i \in Stages : Valid(i) /\ blocks[i].id = delivered + n - 1
  <2>1. delivered + n - 1 \in Nat /\ delivered <= delivered + n - 1 /\ delivered + n - 1 < accepted
    BY <1>1
  <2> QED
    BY <1>1, <2>1
<1> QED
  BY <1>2, <1>3, <1>4 DEF InPlace

\* What the abstract stream sees of a block that has its packet's key.
LEMMA SeenOfPacket ==
  KeyCommitted =>
    \A i \in Stages : Valid(i) =>
      Seen(i) = [id |-> blocks[i].id, key |-> blocks[i].want,
                 last |-> parallel_status_pipeline[i].last]
  BY DEF KeyCommitted, InFlight, Valid, Seen

\* The blocks the abstract stream sees move with their stages.
LEMMA SeenStep ==
  ASSUME KeyInv, KeyCommitted, KeyCommitted',
         NEW tvalid, NEW tlast, NEW wready, NEW write, NEW key,
         CycleOf(tvalid, tlast, wready, write, key)
  PROVE  /\ ~read_tready(wready) =>
              \A i \in Stages : Valid(i)' =>
                Valid(i) /\ blocks'[i].id = blocks[i].id /\ Seen(i)' = Seen(i)
         /\ read_tready(wready) =>
              /\ Valid(0)' <=> tvalid
              /\ Valid(0)' => /\ blocks'[0].id = accepted
                              /\ Seen(0)' = [id |-> accepted, key |-> packet_key', last |-> tlast]
              /\ \A i \in Stages \ {0} : Valid(i)' =>
                   /\ i - 1 \in Stages /\ Valid(i - 1)
                   /\ blocks'[i].id = blocks[i - 1].id
                   /\ Seen(i)' = Seen(i - 1)
<1> USE RoundsAssumption
<1>1. /\ TypeOK /\ TypeOK'
      /\ tvalid \in BOOLEAN /\ tlast \in BOOLEAN
      /\ \A i \in Stages : blocks[i] \in StreamBlock /\ round_keys[i] \in RoundKey
      /\ [id |-> accepted, want |-> OfferedKey, key |-> NoKey] \in StreamBlock
      /\ 0 \in Stages
  BY ClockKeyInv
     DEF KeyInv, CycleOf, TypeOK, RounderTypeOK, OfferedKey, StreamBlock, Stages
<1>3. \A i \in Stages : Valid(i) =>
        Seen(i) = [id |-> blocks[i].id, key |-> blocks[i].want,
                   last |-> parallel_status_pipeline[i].last]
  BY SeenOfPacket
<1>4. \A i \in Stages : Valid(i)' =>
        Seen(i)' = [id |-> blocks'[i].id, key |-> blocks'[i].want,
                    last |-> parallel_status_pipeline'[i].last]
  BY DEF KeyCommitted, InFlight, Seen, Valid
<1>5. /\ \A i \in Stages : Valid(i) =>
           parallel_status_pipeline[i].last \in BOOLEAN
             /\ (Last(i) <=> parallel_status_pipeline[i].last)
      /\ \A i \in Stages : Valid(i)' =>
           parallel_status_pipeline'[i].last \in BOOLEAN
             /\ (Last(i)' <=> parallel_status_pipeline'[i].last)
  BY <1>1 DEF TypeOK, RounderTypeOK, Status, Last, Valid
<1>6. ASSUME ~read_tready(wready), NEW i \in Stages, Valid(i)'
      PROVE  Valid(i) /\ blocks'[i].id = blocks[i].id /\ Seen(i)' = Seen(i)
  <2>1. Valid(i) /\ blocks'[i] = blocks[i] /\ (Last(i)' <=> Last(i))
    BY <1>1, <1>6, PipelineStep
  <2>2. parallel_status_pipeline'[i].last = parallel_status_pipeline[i].last
    BY <1>5, <1>6, <2>1
  <2> QED
    BY <1>3, <1>4, <1>6, <2>1, <2>2
<1>7. ASSUME read_tready(wready), Valid(0)'
      PROVE  /\ blocks'[0].id = accepted
             /\ Seen(0)' = [id |-> accepted, key |-> packet_key', last |-> tlast]
  <2>1. /\ Last(0)' <=> tvalid /\ tlast
        /\ tvalid
        /\ blocks'[0] =
             add_round_key([id |-> accepted, want |-> OfferedKey, key |-> NoKey],
                           round_keys[0], 0)
    BY <1>1, <1>7, PipelineStep
  <2>2. blocks'[0].id = accepted /\ blocks'[0].want = packet_key'
    <3>1. blocks'[0].id = accepted /\ blocks'[0].want = OfferedKey
      BY <1>1, <2>1, AddRoundKeyType
    <3>2. packet_key' = OfferedKey
      BY <1>1, <2>1, SourceStep
    <3> QED
      BY <3>1, <3>2
  <2>3. parallel_status_pipeline'[0].last = tlast
    BY <1>1, <1>5, <1>7, <2>1
  <2> QED
    BY <1>1, <1>4, <1>7, <2>2, <2>3
<1>8. ASSUME read_tready(wready), NEW i \in Stages \ {0}, Valid(i)'
      PROVE  /\ i - 1 \in Stages /\ Valid(i - 1)
             /\ blocks'[i].id = blocks[i - 1].id
             /\ Seen(i)' = Seen(i - 1)
  <2>1. /\ i - 1 \in Stages /\ Valid(i - 1)
        /\ Last(i)' <=> Last(i - 1)
        /\ blocks'[i] = add_round_key(blocks[i - 1], round_keys[i], i)
    BY <1>1, <1>8, PipelineStep
  <2>2. i \in Stages /\ blocks[i - 1] \in StreamBlock /\ round_keys[i] \in RoundKey
    BY <1>1, <2>1
  <2>3. blocks'[i].id = blocks[i - 1].id /\ blocks'[i].want = blocks[i - 1].want
    BY <2>1, <2>2, AddRoundKeyType
  <2>4. parallel_status_pipeline'[i].last = parallel_status_pipeline[i - 1].last
    BY <1>5, <1>8, <2>1, <2>2
  <2> QED
    BY <1>3, <1>4, <1>8, <2>1, <2>2, <2>3, <2>4
<1>9. read_tready(wready) => (Valid(0)' <=> tvalid)
  BY <1>1, PipelineStep
<1> QED
  BY <1>6, <1>7, <1>8, <1>9

\* A function on 1..len is a queue of that length.
LEMMA FunctionIsQueue ==
  ASSUME NEW S, NEW len \in Nat, NEW s \in [1..len -> S]
  PROVE  s \in Seq(S) /\ Len(s) = len
  OBVIOUS

\* Queue t is queue s of len entries after giving up del and taking in acc
\* entries, each at most one, the new one e.
Moves(s, t, e, len, del, acc) ==
  /\ len \in Nat /\ del \in 0..1 /\ acc \in 0..1 /\ del <= len
  /\ s = [n \in 1..len |-> s[n]]
  /\ t = [n \in 1..(len - del + acc) |-> t[n]]
  /\ \A n \in 1..(len - del) : t[n] = s[n + del]
  /\ acc = 1 => t[len - del + 1] = e

LEMMA QueueStep ==
  ASSUME NEW s, NEW t, NEW e, NEW len, NEW del, NEW acc, Moves(s, t, e, len, del, acc)
  PROVE  LET left == IF del = 0 THEN s ELSE Tail(s)
         IN  t = IF acc = 0 THEN left ELSE Append(left, e)
<1> USE DEF Moves
<1> DEFINE left == IF del = 0 THEN s ELSE Tail(s)
           queue == IF acc = 0 THEN left ELSE Append(left, e)
           S == {s[n] : n \in 1..len} \cup {e}
<1>1. s \in Seq(S) /\ Len(s) = len
  <2>1. s \in [1..len -> S]
    OBVIOUS
  <2> QED
    BY <2>1, FunctionIsQueue
<1>2. t \in Seq(S) /\ Len(t) = len - del + acc
  <2>1. \A n \in 1..(len - del + acc) : t[n] \in S
    <3> SUFFICES ASSUME NEW n \in 1..(len - del + acc) PROVE t[n] \in S
      OBVIOUS
    <3>1. CASE n \in 1..(len - del)
      <4>1. t[n] = s[n + del]
        BY <3>1
      <4>2. n + del \in 1..len
        BY <3>1
      <4> QED
        BY <4>1, <4>2
    <3>2. CASE n \notin 1..(len - del)
      <4>1. acc = 1 /\ n = len - del + 1
        BY <3>2
      <4> QED
        BY <4>1
    <3> QED
      BY <3>1, <3>2
  <2>2. len - del + acc \in Nat /\ t \in [1..(len - del + acc) -> S]
    BY <2>1
  <2> QED
    BY <2>2
<1>3. left \in Seq(S) /\ Len(left) = len - del /\ \A n \in 1..(len - del) : left[n] = s[n + del]
  <2>1. CASE del = 0
    BY <1>1, <2>1
  <2>2. CASE del = 1
    <3>1. s # << >>
      BY <1>1, <2>2
    <3> QED
      BY <1>1, <2>2, <3>1, HeadTailProperties
  <2> QED
    BY <2>1, <2>2
<1> HIDE DEF left, S
<1>4. /\ queue \in Seq(S) /\ Len(queue) = len - del + acc
      /\ \A n \in 1..(len - del) : queue[n] = left[n]
      /\ acc = 1 => queue[len - del + 1] = e
  <2>1. CASE acc = 0
    BY <1>3, <2>1
  <2>2. CASE acc = 1
    <3>1. e \in S
      BY DEF S
    <3> QED
      BY <1>3, <2>2, <3>1, AppendProperties
  <2> QED
    BY <2>1, <2>2
<1> HIDE DEF queue
<1>5. ASSUME NEW n \in 1..Len(t) PROVE t[n] = queue[n]
  <2>1. CASE n \in 1..(len - del)
    BY <1>3, <1>4, <2>1
  <2>2. CASE n \notin 1..(len - del)
    <3>1. acc = 1 /\ n = len - del + 1
      BY <1>2, <2>2
    <3> QED
      BY <1>4, <3>1
  <2> QED
    BY <2>1, <2>2
<1>6. t = queue
  BY <1>2, <1>4, <1>5, SeqEqual
<1> QED
  BY <1>6 DEF queue, left

\* A cycle takes the delivered block off the abstract stream's queue and puts
\* the accepted one on.
LEMMA QueueOfCycle ==
  ASSUME KeyInv, KeyCommitted, KeyCommitted', Flows, OrderInv,
         NEW tvalid, NEW tlast, NEW wready, NEW write, NEW key,
         CycleOf(tvalid, tlast, wready, write, key)
  PROVE  LET left == IF delivered' = delivered THEN InFlightBlocks ELSE Tail(InFlightBlocks)
         IN  InFlightBlocks' =
               IF accepted' = accepted THEN left
               ELSE Append(left, [id |-> accepted, key |-> packet_key', last |-> tlast])
<1> DEFINE s == InFlightBlocks
           t == InFlightBlocks'
           e == [id |-> accepted, key |-> packet_key', last |-> tlast]
           len == accepted - delivered
           del == delivered' - delivered
           acc == accepted' - accepted
<1>1. /\ TypeOK /\ delivered \in Nat /\ accepted \in Nat /\ delivered <= accepted
      /\ \A i \in Stages : blocks[i].id \in Nat
      /\ \A i \in Stages : Valid(i) => delivered <= blocks[i].id /\ blocks[i].id < accepted
  BY DEF KeyInv, OrderInv, TypeOK, RounderTypeOK, StreamBlock
<1>2. InPlace /\ (TypeOK /\ OrderInv => InPlace)'
  BY <1>1, StreamInPlace, PTL
<1>3. InPlace'
  BY <1>2, ClockKeyInv, OrderStep DEF KeyInv
<1>4. /\ read_tready(wready) => /\ accepted' = IF tvalid THEN accepted + 1 ELSE accepted
                                /\ delivered' = IF Valid(Rounds) THEN delivered + 1 ELSE delivered
      /\ ~read_tready(wready) => accepted' = accepted /\ delivered' = delivered
  BY CountsStep
<1>5. Valid(Rounds) => delivered < accepted
  BY <1>1, OutputIsDue
<1>6. len \in Nat /\ del \in 0..1 /\ acc \in 0..1 /\ del <= len
  BY <1>1, <1>4, <1>5
<1>7. s = [n \in 1..len |-> s[n]]
  BY <1>2 DEF InPlace
<1>8. t = [n \in 1..(len - del + acc) |-> t[n]]
  <2>1. accepted' - delivered' = len - del + acc
    BY <1>1, <1>4
  <2>2. t = [n \in 1..(accepted' - delivered') |-> t[n]]
    BY <1>3 DEF InPlace
  <2> QED
    BY <2>1, <2>2
<1>9. ASSUME NEW n \in 1..(len - del + acc)
      PROVE  \E i \in Stages :
               /\ Valid(i)' /\ blocks'[i].id = delivered + del + n - 1 /\ t[n] = Seen(i)'
  <2>1. accepted' - delivered' = len - del + acc /\ delivered' = delivered + del
    BY <1>1, <1>4
  <2>2. PICK i \in Stages : Valid(i)' /\ blocks'[i].id = delivered' + n - 1
    BY <1>3, <2>1 DEF InPlace, Valid
  <2>3. t[blocks'[i].id - delivered' + 1] = Seen(i)'
    BY <1>3, <2>2 DEF InPlace, Valid
  <2>4. delivered' \in Nat /\ n \in Nat
    BY <1>1, <1>6, <2>1
  <2>5. blocks'[i].id - delivered' + 1 = n
    <3>1. \A d, m \in Nat : (d + m - 1) - d + 1 = m
      OBVIOUS
    <3> QED
      BY <2>2, <2>4, <3>1
  <2> QED
    BY <2>1, <2>2, <2>3, <2>5
<1>10. ASSUME NEW i \in Stages, Valid(i), NEW n \in Nat, blocks[i].id = delivered + n - 1
       PROVE  s[n] = Seen(i)
  <2>1. s[blocks[i].id - delivered + 1] = Seen(i)
    BY <1>2, <1>10 DEF InPlace
  <2>2. blocks[i].id - delivered + 1 = n
    BY <1>1, <1>10
  <2> QED
    BY <2>1, <2>2
<1>11. ASSUME NEW n \in 1..(len - del) PROVE t[n] = s[n + del]
  <2>1. n \in 1..(len - del + acc) /\ n + del \in Nat
    BY <1>6
  <2>2. PICK i \in Stages :
          Valid(i)' /\ blocks'[i].id = delivered + del + n - 1 /\ t[n] = Seen(i)'
    BY <1>9, <2>1
  <2>3. blocks'[i].id = delivered + (n + del) - 1 /\ blocks'[i].id # accepted
    BY <1>1, <1>6, <2>2
  <2>4. CASE ~read_tready(wready)
    BY <1>10, <2>1, <2>2, <2>3, <2>4, SeenStep
  <2>5. CASE read_tready(wready)
    <3>1. i # 0
      BY <2>2, <2>3, <2>5, SeenStep
    <3>2. /\ i - 1 \in Stages /\ Valid(i - 1)
          /\ blocks'[i].id = blocks[i - 1].id /\ Seen(i)' = Seen(i - 1)
      BY <2>2, <2>5, <3>1, SeenStep
    <3> QED
      BY <1>10, <2>1, <2>2, <2>3, <3>2
  <2> QED
    BY <2>4, <2>5
<1>12. ASSUME acc = 1 PROVE t[len - del + 1] = e
  <2>1. read_tready(wready) /\ tvalid
    BY <1>1, <1>4, <1>12
  <2>2. Valid(0)' /\ 0 \in Stages /\ blocks'[0].id = accepted /\ Seen(0)' = e
    <3>1. 0 \in Stages
      BY RoundsAssumption DEF Stages
    <3>2. Valid(0)'
      BY <2>1, SeenStep
    <3> QED
      BY <2>1, <3>1, <3>2, SeenStep
  <2>3. t[blocks'[0].id - delivered' + 1] = Seen(0)'
    BY <1>3, <2>2 DEF InPlace, Valid
  <2>4. blocks'[0].id - delivered' + 1 = len - del + 1
    BY <1>1, <1>4, <2>2
  <2> QED
    BY <2>2, <2>3, <2>4
<1>13. (del = 0 <=> delivered' = delivered) /\ (acc = 0 <=> accepted' = accepted)
  BY <1>1, <1>4
<1> HIDE DEF s, t, e, len, del, acc
<1>14. LET left == IF del = 0 THEN s ELSE Tail(s)
       IN  t = IF acc = 0 THEN left ELSE Append(left, e)
  <2>1. Moves(s, t, e, len, del, acc)
    BY <1>6, <1>7, <1>8, <1>11, <1>12 DEF Moves
  <2> QED
    BY <2>1, QueueStep
<1> QED
  BY <1>13, <1>14 DEF s, t, e

\* A block handed out is the head of the abstract stream's queue.
LEMMA HeadIsDue ==
  ASSUME KeyInv, OrderInv, Valid(Rounds)
  PROVE  InFlightBlocks # << >> /\ Head(InFlightBlocks).id = delivered
<1> DEFINE s == InFlightBlocks
           len == accepted - delivered
<1>1. TypeOK /\ InPlace /\ Rounds \in Stages
  BY StreamInPlace, RoundsAssumption DEF KeyInv, Stages
<1>2. blocks[Rounds].id = delivered /\ delivered < accepted /\ delivered \in Nat /\ accepted \in Nat
  BY <1>1, OutputIsDue DEF TypeOK
<1>3. s = [n \in 1..len |-> s[n]] /\ len \in Nat /\ 1 \in 1..len
  BY <1>1, <1>2 DEF InPlace
<1>4. s[1] = Seen(Rounds)
  <2>1. s[blocks[Rounds].id - delivered + 1] = Seen(Rounds)
    BY <1>1 DEF InPlace
  <2>2. blocks[Rounds].id - delivered + 1 = 1
    BY <1>2
  <2> QED
    BY <2>1, <2>2
<1>5. s \in Seq({s[n] : n \in 1..len}) /\ Len(s) = len
  <2> HIDE DEF s, len
  <2>1. s \in [1..len -> {s[n] : n \in 1..len}]
    BY <1>3
  <2> QED
    BY <1>3, <2>1, FunctionIsQueue
<1>6. s # << >> /\ Head(s) = s[1]
  BY <1>3, <1>5
<1>7. Seen(Rounds).id = blocks[Rounds].id
  BY DEF Seen
<1> QED
  BY <1>2, <1>4, <1>6, <1>7

\* Every cycle of the core is a cycle of the abstract stream.
LEMMA StreamCycle ==
  ASSUME KeyInv, KeyCommitted, KeyCommitted', Flows, OrderInv,
         NEW tvalid, NEW tlast, NEW wready, NEW write, NEW key,
         CycleOf(tvalid, tlast, wready, write, key)
  PROVE  Stream!Cycle
<1> DEFINE left == IF delivered' = delivered THEN InFlightBlocks ELSE Tail(InFlightBlocks)
           ready == read_tready(wready)
<1>1. /\ tvalid \in BOOLEAN /\ tlast \in BOOLEAN /\ TypeOK
      /\ accepted \in Nat /\ delivered \in Nat
      /\ StreamClock(tvalid, tlast, ready, wready)
  BY DEF CycleOf, Clock, KeyInv, TypeOK
<1>2. Stream!WriteKey
  BY DEF CycleOf, Clock, SlaveClock, KeyRegisters!WriteKey, KeyRegisters!HoldKey,
       Stream!WriteKey
<1>3. Stream!Deliver \/ Stream!NoDelivery
  <2>1. CASE Valid(Rounds) /\ ready
    BY <2>1, CountsStep, HeadIsDue DEF Stream!Deliver
  <2>2. CASE ~(Valid(Rounds) /\ ready)
    BY <2>2, CountsStep DEF Stream!NoDelivery
  <2> QED
    BY <2>1, <2>2
<1>4. Stream!Remaining = left
  BY DEF Stream!Remaining
<1>5. CASE tvalid /\ ready
  <2>1. /\ packet_key' = OfferedKey /\ accepted' = accepted + 1 /\ accepted' # accepted
        /\ source' = IF tlast THEN "idle" ELSE "packet"
    BY <1>1, <1>5 DEF StreamClock, SourceAfter
  <2>2. Stream!Accept(tlast)
    BY <1>1, <2>1 DEF Stream!Accept, Stream!Offer, OfferedKey
  <2>3. InFlightBlocks' = Append(left, [id |-> accepted, key |-> packet_key', last |-> tlast])
    BY <2>1, QueueOfCycle
  <2> QED
    BY <1>1, <1>2, <1>3, <1>4, <2>2, <2>3 DEF Stream!Cycle
<1>6. CASE ~(tvalid /\ ready)
  <2>1. accepted' = accepted
    BY <1>1, <1>6 DEF StreamClock
  <2>2. Stream!Refuse \/ Stream!NoOffer
    <3>1. CASE tvalid
      <4>1. packet_key' = OfferedKey /\ source' # "idle"
        BY <1>1, <1>6, <3>1 DEF StreamClock, SourceAfter
      <4> QED
        BY <2>1, <4>1 DEF Stream!Refuse, Stream!Offer, OfferedKey
    <3>2. CASE ~tvalid
      BY <1>1, <2>1, <3>2 DEF StreamClock, SourceAfter, Stream!NoOffer
    <3> QED
      BY <3>1, <3>2
  <2>3. InFlightBlocks' = left
    BY <2>1, QueueOfCycle
  <2> QED
    BY <1>2, <1>3, <1>4, <2>2, <2>3 DEF Stream!Cycle
<1> QED
  BY <1>5, <1>6

\* With an empty pipeline the abstract stream holds nothing.
LEMMA EmptyStream == InFlight = {} => InFlightBlocks = << >>
  BY FS_EmptySet DEF InFlightBlocks

\* The core implements the stream of blocks EncryptionStream promises under
\* either discipline: every block of a packet comes out once, in order,
\* encrypted with the key of the packet's first offer.
THEOREM EncryptsTheStreamCorrect ==
  ASSUME ~Overlap \/ ~WriteWhileBusy
  PROVE  Spec => EncryptsTheStream
<1>1. Init => Stream!Init
  <2> SUFFICES ASSUME Init PROVE Stream!Init
    OBVIOUS
  <2>1. InFlight = {}
    BY DEF Init, RounderInit, PipelineInit, InFlight
  <2> QED
    BY <2>1, EmptyStream DEF Init, StreamInit, KeyRegisters!SlaveInit, Stream!Init
<1>2. ASSUME Reset PROVE Stream!Reset
  <2>1. InFlight' = {}
    BY <1>2 DEF Reset, RounderReset, PipelineReset, InFlight
  <2>2. (InFlight = {} => InFlightBlocks = << >>)'
    BY EmptyStream, PTL
  <2> QED
    BY <1>2, <2>1, <2>2 DEF Reset, StreamReset, KeyRegisters!SlaveReset, Stream!Reset
<1>3. ASSUME UNCHANGED vars PROVE UNCHANGED Stream!vars
  <2>1. UNCHANGED << aes_key, source, packet_key, accepted, delivered,
                     parallel_status_pipeline, blocks >>
    BY <1>3 DEF vars, slaveVars, streamVars, rounderVars, pipelineVars
  <2>2. InFlight' = InFlight
    BY <2>1 DEF InFlight
  <2>3. InFlightBlocks' = InFlightBlocks
    BY <2>1, <2>2 DEF InFlightBlocks, StageOf, Seen
  <2> QED
    BY <2>1, <2>3 DEF Stream!vars
<1>4. ASSUME KeyInv, KeyCommitted, KeyCommitted', Flows, OrderInv, [Next]_vars
      PROVE  [Stream!Cycle \/ Stream!Reset]_Stream!vars
  BY <1>2, <1>3, <1>4, NextCases, StreamCycle
<1> QED
  BY <1>1, <1>4, KeyInvariance, CommittedAndFlowing, OrderInvariance, PTL
     DEF Spec, EncryptsTheStream, Stream!Spec
=============================================================================
