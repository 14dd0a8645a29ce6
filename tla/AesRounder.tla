----------------------------- MODULE AesRounder -----------------------------
(***************************************************************************)
(* The rounder (hdl/aes_rounder.sv): two state machines and the pipeline.  *)
(* The transaction machine follows the stream, the refresh machine copies  *)
(* the round keys out of the key expansion unit one a cycle, and each      *)
(* pipeline stage applies its own local round key.                         *)
(*                                                                         *)
(* A block is its place in the stream (id), the key its packet should be   *)
(* encrypted with (want, carried along for the properties only) and the    *)
(* key that every round so far has used (key).  A block two keys or a      *)
(* wrong round key have touched has the key NoKey: its ciphertext is       *)
(* garbage.  What a data register holds under a cleared valid bit is       *)
(* NoBlock.  Every action below is one rising edge of clk.                 *)
(***************************************************************************)
EXTENDS KeyExpansion

VARIABLES transaction_state,
          refresh_state,
          key_syncing_counter,
          round_keys,               \* the stages' local copies
          parallel_status_pipeline, \* valid and last of every stage
          blocks                    \* in_states[i], and data_matrix_out at Rounds

transactionVars == << transaction_state >>
refreshVars     == << refresh_state, key_syncing_counter, round_keys >>
pipelineVars    == << parallel_status_pipeline, blocks >>
rounderVars     == << transactionVars, refreshVars, pipelineVars >>

Stages  == 0..Rounds
Status  == [valid : BOOLEAN, last : BOOLEAN]
StreamBlock == [id : Nat, want : Keys \cup {NoKey}, key : Keys \cup {NoKey}]
NoBlock == [id |-> 0, want |-> NoKey, key |-> NoKey]

transaction_status == transaction_state = "ONGOING"
key_syncing        == refresh_state = "SYNCING"
key_select         == key_syncing_counter
write_tvalid       == parallel_status_pipeline[Rounds].valid
write_tlast        == parallel_status_pipeline[Rounds].last
data_matrix_out    == blocks[Rounds]

\* Mutant: a key is acknowledged in the middle of a transaction.
key_ack_always(new_key) == new_key

key_ack(new_key) == new_key /\ transaction_state = "TRANSACTION_IDLE"

\* Mutants: a term of stall is missing or too wide.
stall_no_backpressure(new_key, write_tready) ==
  \/ key_ack(new_key)
  \/ key_syncing /\ key_syncing_counter = 0

stall_no_ack(new_key, write_tready) ==
  \/ ~write_tready /\ write_tvalid
  \/ key_syncing /\ key_syncing_counter = 0

stall_no_first_key(new_key, write_tready) ==
  \/ ~write_tready /\ write_tvalid
  \/ key_ack(new_key)

stall_until_ready(new_key, write_tready) ==
  \/ ~write_tready
  \/ key_ack(new_key)
  \/ key_syncing /\ key_syncing_counter = 0

stall(new_key, write_tready) ==
  \/ ~write_tready /\ write_tvalid
  \/ key_ack(new_key)
  \/ key_syncing /\ key_syncing_counter = 0

\* The addition of round key i to a block that came through rounds 0..i-1.
add_round_key(block, rk, i) ==
  [block EXCEPT !.key = IF rk.round = i /\ (i = 0 \/ rk.key = block.key)
                        THEN rk.key ELSE NoKey]

-----------------------------------------------------------------------------
(* Transaction tracking *)

TransactionInit  == transaction_state = "TRANSACTION_IDLE"
TransactionReset == transaction_state' = "TRANSACTION_IDLE"

BeginTransaction(read_tvalid) ==
  /\ transaction_state = "TRANSACTION_IDLE"
  /\ read_tvalid
  /\ transaction_state' = "ONGOING"

\* Mutant: the end is seen before the sink takes the last word.
EndTransactionEarly(write_tready) ==
  /\ transaction_state = "ONGOING"
  /\ write_tlast /\ write_tvalid
  /\ transaction_state' = "TRANSACTION_IDLE"

EndTransaction(write_tready) ==
  /\ transaction_state = "ONGOING"
  /\ write_tlast /\ write_tvalid /\ write_tready
  /\ transaction_state' = "TRANSACTION_IDLE"

KeepTransaction(read_tvalid, write_tready) ==
  /\ IF transaction_status THEN ~(write_tlast /\ write_tvalid /\ write_tready)
                           ELSE ~read_tvalid
  /\ UNCHANGED transaction_state

TransactionClock(read_tvalid, write_tready) ==
  \/ BeginTransaction(read_tvalid)
  \/ EndTransaction(write_tready)
  \/ KeepTransaction(read_tvalid, write_tready)

-----------------------------------------------------------------------------
(* Local key refreshing *)

RefreshInit ==
  /\ refresh_state = "IDLE"
  /\ key_syncing_counter = 0
  /\ round_keys = [n \in Stages |-> NoRoundKey]

\* Reset keeps the local keys.
RefreshReset ==
  /\ refresh_state' = "IDLE"
  /\ key_syncing_counter' = 0
  /\ UNCHANGED round_keys

RefreshIdle(new_key) ==
  /\ refresh_state = "IDLE"
  /\ key_syncing_counter' = 0
  /\ refresh_state' = IF key_ack(new_key) THEN "SYNCING" ELSE "IDLE"
  /\ UNCHANGED round_keys

\* Mutant: a key written during a refresh does not start it over.
RefreshSyncNoRestart(key_matrix, new_key) ==
  /\ refresh_state = "SYNCING"
  /\ round_keys' = [round_keys EXCEPT ![key_syncing_counter] = key_matrix]
  /\ refresh_state' = IF key_syncing_counter = Rounds THEN "IDLE" ELSE "SYNCING"
  /\ key_syncing_counter' =
       IF key_syncing_counter = Rounds THEN 0 ELSE key_syncing_counter + 1

\* One local key is loaded; a key written before a transaction took hold
\* starts the refresh over.
RefreshSync(key_matrix, new_key) ==
  /\ refresh_state = "SYNCING"
  /\ round_keys' = [round_keys EXCEPT ![key_syncing_counter] = key_matrix]
  /\ \/ /\ key_ack(new_key)
        /\ refresh_state' = "SYNCING"
        /\ key_syncing_counter' = 0
     \/ /\ ~key_ack(new_key)
        /\ key_syncing_counter = Rounds
        /\ refresh_state' = "IDLE"
        /\ key_syncing_counter' = 0
     \/ /\ ~key_ack(new_key)
        /\ key_syncing_counter # Rounds
        /\ refresh_state' = "SYNCING"
        /\ key_syncing_counter' = key_syncing_counter + 1

RefreshClock(key_matrix, new_key) ==
  \/ RefreshIdle(new_key)
  \/ RefreshSync(key_matrix, new_key)

-----------------------------------------------------------------------------
(* The pipeline *)

PipelineInit ==
  /\ parallel_status_pipeline = [i \in Stages |-> [valid |-> FALSE, last |-> FALSE]]
  /\ blocks = [i \in Stages |-> NoBlock]

PipelineReset ==
  /\ parallel_status_pipeline' = [i \in Stages |-> [valid |-> FALSE, last |-> FALSE]]
  /\ blocks' = [i \in Stages |-> NoBlock]

Stall(new_key, write_tready) ==
  /\ stall(new_key, write_tready)
  /\ UNCHANGED pipelineVars

\* All stages move; a cycle without a valid beat feeds a bubble.
Advance(new_key, block, read_tvalid, read_tlast, write_tready) ==
  /\ ~stall(new_key, write_tready)
  /\ parallel_status_pipeline' =
       [i \in Stages |-> IF i = 0 THEN [valid |-> read_tvalid, last |-> read_tlast]
                                  ELSE parallel_status_pipeline[i - 1]]
  /\ blocks' = [i \in Stages |->
                  IF ~parallel_status_pipeline'[i].valid THEN NoBlock
                  ELSE add_round_key(IF i = 0 THEN block ELSE blocks[i - 1],
                                     round_keys[i], i)]

PipelineClock(new_key, block, read_tvalid, read_tlast, write_tready) ==
  \/ Stall(new_key, write_tready)
  \/ Advance(new_key, block, read_tvalid, read_tlast, write_tready)

-----------------------------------------------------------------------------
RounderInit  == TransactionInit /\ RefreshInit /\ PipelineInit
RounderReset == TransactionReset /\ RefreshReset /\ PipelineReset

RounderClock(key_matrix, new_key, block, read_tvalid, read_tlast, write_tready) ==
  /\ TransactionClock(read_tvalid, write_tready)
  /\ RefreshClock(key_matrix, new_key)
  /\ PipelineClock(new_key, block, read_tvalid, read_tlast, write_tready)

-----------------------------------------------------------------------------
RounderTypeOK ==
  /\ transaction_state \in {"TRANSACTION_IDLE", "ONGOING"}
  /\ refresh_state \in {"IDLE", "SYNCING"}
  /\ key_syncing_counter \in 0..15
  /\ round_keys \in [Stages -> RoundKey]
  /\ parallel_status_pipeline \in [Stages -> Status]
  /\ blocks \in [Stages -> StreamBlock]

InFlight == {i \in Stages : parallel_status_pipeline[i].valid}
=============================================================================
