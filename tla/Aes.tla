--------------------------------- MODULE Aes ---------------------------------
(***************************************************************************)
(* The core of the accelerator (hdl/aes.sv): the key expansion unit and    *)
(* the rounder, wired together, and the two flags that tell each of them   *)
(* of a key write.  Around it the model puts what the core is wired to:    *)
(* the key registers of the AXI-lite slave, the DMA channel that feeds the *)
(* stream and the one that drains it.  Every register of the design is     *)
(* clocked by the same edge, so a step is one cycle: Clock or Reset.       *)
(***************************************************************************)
EXTENDS AesRounder, Sequences, FiniteSets

CONSTANTS
  Overlap,        \* a packet may be offered while the one before is in the pipeline
  WriteWhileBusy, \* software may write the key while blocks are offered or in flight
  MaxBlocks       \* bound of the model: blocks offered between two resets

ASSUME OverlapAssumption        == Overlap \in BOOLEAN
ASSUME WriteWhileBusyAssumption == WriteWhileBusy \in BOOLEAN
ASSUME MaxBlocksAssumption      == MaxBlocks \in Nat

VARIABLES
  key_change_pending_key_expansion,
  key_change_pending_rounder,
  aes_key,         \* the key port of the slave
  aes_key_write,
  source,          \* the stream's source: no packet begun, a packet begun and
                   \* nothing offered, a beat offered and refused, the last one
  packet_key,      \* aes_key in the cycle the packet was first offered
  accepted,        \* blocks taken in since reset
  delivered        \* blocks handed out since reset

flagVars   == << key_change_pending_key_expansion, key_change_pending_rounder >>
slaveVars  == << aes_key, aes_key_write >>
streamVars == << source, packet_key, accepted, delivered >>
vars == << keyExpansionVars, rounderVars, flagVars, slaveVars, streamVars >>

SourceStates == {"idle", "packet", "beat", "last"}

key_expansion_ack ==
  key_consumed(key_change_pending_key_expansion, key_syncing, transaction_status)
rounder_key_ack   == key_ack(key_change_pending_rounder)
selected_key      == round_key(key_select)
read_tready(tready) == ~stall(key_change_pending_rounder, tready)

-----------------------------------------------------------------------------
(* The pending flags: an acknowledgement clears, a write in the same cycle *)
(* sets again.                                                             *)

FlagsInit ==
  /\ key_change_pending_key_expansion = FALSE
  /\ key_change_pending_rounder = FALSE

FlagsReset ==
  /\ key_change_pending_key_expansion' = FALSE
  /\ key_change_pending_rounder' = FALSE

\* Mutant: an acknowledgement wins over a write in the same cycle.
FlagsClockAckWins(write) ==
  /\ key_change_pending_rounder' =
       ((write \/ key_change_pending_rounder) /\ ~rounder_key_ack)
  /\ key_change_pending_key_expansion' =
       ((write \/ key_change_pending_key_expansion) /\ ~key_expansion_ack)

FlagsClock(write) ==
  /\ key_change_pending_rounder' =
       (write \/ (key_change_pending_rounder /\ ~rounder_key_ack))
  /\ key_change_pending_key_expansion' =
       (write \/ (key_change_pending_key_expansion /\ ~key_expansion_ack))

-----------------------------------------------------------------------------
(* The key registers, behind their port. *)

KeyRegisters == INSTANCE KeyPort

WriteAllowed(tvalid) ==
  WriteWhileBusy \/ (source = "idle" /\ InFlight = {} /\ ~tvalid)

SlaveClock(write, key, tvalid) ==
  \/ write /\ WriteAllowed(tvalid) /\ KeyRegisters!WriteKey(key)
  \/ ~write /\ KeyRegisters!HoldKey

-----------------------------------------------------------------------------
(* The AXI-stream source.  A beat offered stays until it is accepted.      *)

StreamInit ==
  /\ source = "idle"
  /\ packet_key = NoKey
  /\ accepted = 0
  /\ delivered = 0

StreamReset ==
  /\ source' = "idle"
  /\ packet_key' = NoKey
  /\ accepted' = 0
  /\ delivered' = 0

MayOffer(tvalid, tlast) ==
  /\ source = "beat" => tvalid /\ ~tlast
  /\ source = "last" => tvalid /\ tlast
  /\ tvalid => /\ accepted < MaxBlocks
               /\ accepted = MaxBlocks - 1 => tlast
  /\ source = "idle" /\ tvalid => Overlap \/ InFlight = {}

SourceAfter(tvalid, tlast, tready) ==
  IF ~tvalid THEN source
  ELSE IF tready THEN IF tlast THEN "idle" ELSE "packet"
                 ELSE IF tlast THEN "last" ELSE "beat"

\* The key of the packet the beat offered in this cycle belongs to.
OfferedKey == IF source = "idle" THEN aes_key ELSE packet_key

StreamClock(tvalid, tlast, tready, wready) ==
  /\ MayOffer(tvalid, tlast)
  /\ source' = SourceAfter(tvalid, tlast, tready)
  /\ packet_key' = IF tvalid THEN OfferedKey ELSE packet_key
  /\ accepted' = IF tvalid /\ tready THEN accepted + 1 ELSE accepted
  /\ delivered' = IF write_tvalid /\ wready THEN delivered + 1 ELSE delivered

-----------------------------------------------------------------------------
Init ==
  /\ KeyExpansionInit
  /\ RounderInit
  /\ FlagsInit
  /\ KeyRegisters!SlaveInit
  /\ StreamInit

\* One rising edge of clk with rst low: the inputs are the beat offered, the
\* sink's ready and what the slave does to the key registers.
Clock(tvalid, tlast, wready, write, key) ==
  /\ KeyExpansionClock(aes_key, key_expansion_ack)
  /\ RounderClock(selected_key, key_change_pending_rounder,
                  [id |-> accepted, want |-> OfferedKey, key |-> NoKey],
                  tvalid, tlast, wready)
  /\ FlagsClock(write)
  /\ SlaveClock(write, key, tvalid)
  /\ StreamClock(tvalid, tlast, read_tready(wready), wready)

\* The reset of the core, the slave and the DMA is one signal.
Reset ==
  /\ KeyExpansionReset
  /\ RounderReset
  /\ FlagsReset
  /\ KeyRegisters!SlaveReset
  /\ StreamReset

Next ==
  \/ \E tvalid, tlast, wready, write \in BOOLEAN, key \in Keys :
       Clock(tvalid, tlast, wready, write, key)
  \/ Reset

Spec == Init /\ [][Next]_vars

\* The clock never stops, the sink takes a word it keeps being offered, and a
\* DMA channel that has begun a packet goes on with it.  Resets and key writes
\* are not forced.
ClockRuns  == \E tvalid, tlast, wready, write \in BOOLEAN, key \in Keys :
                Clock(tvalid, tlast, wready, write, key)
SinkTakes  == /\ write_tvalid
              /\ \E tvalid, tlast, write \in BOOLEAN, key \in Keys :
                   Clock(tvalid, tlast, TRUE, write, key)
SourceGoesOn == /\ source = "packet"
                /\ \E tlast, wready, write \in BOOLEAN, key \in Keys :
                     Clock(TRUE, tlast, wready, write, key)

Fairness == WF_vars(ClockRuns) /\ WF_vars(SinkTakes) /\ WF_vars(SourceGoesOn)

FairSpec == Spec /\ Fairness

-----------------------------------------------------------------------------
(* Properties *)

\* Every register holds a value of its width and the flags are Boolean.
TypeOK ==
  /\ KeyExpansionTypeOK
  /\ RounderTypeOK
  /\ key_change_pending_key_expansion \in BOOLEAN
  /\ key_change_pending_rounder \in BOOLEAN
  /\ aes_key \in Keys \cup {NoKey}
  /\ aes_key_write \in BOOLEAN
  /\ source \in SourceStates
  /\ packet_key \in Keys \cup {NoKey}
  /\ accepted \in Nat
  /\ delivered \in Nat

\* key_expansion.sv:6, "round key of round n should be ready in n cycles": all
\* entries derived since the last load belong to the key in entry 0, whatever
\* restarts came in between and although nothing stalls the unit.
ReadyInTime ==
  \A n \in ReadyRounds : expanded_keys[n] = RoundKeyOf(expanded_keys[0].key, n)

\* aes_rounder.sv:8-9, "the key expansion has to be ahead by at least a cycle":
\* the entry a refresh reads, and all it has read, are those of one key, even
\* when the expansion is started over between two reads.
KeyExpansionAhead ==
  key_syncing =>
    /\ selected_key = RoundKeyOf(expanded_keys[0].key, key_select)
    /\ \A n \in Stages : n < key_select =>
         round_keys[n] = RoundKeyOf(expanded_keys[0].key, n)

\* No key write is lost between the two flags: with no change pending and no
\* refresh under way, every stage holds its round key of the registers' key.
LocalKeysCurrent ==
  ~key_change_pending_rounder /\ ~key_syncing /\ aes_key # NoKey =>
    \A n \in Stages : round_keys[n] = RoundKeyOf(aes_key, n)

\* README.md, "once a stream transaction starts, we consider the available key
\* at that time", and aes_rounder.sv:96-99: every round a block has been through
\* used the key the registers held when its packet was first offered, if any
\* key had been written since reset.
KeyCommitted ==
  \A i \in InFlight : blocks[i].want # NoKey => blocks[i].key = blocks[i].want

\* While a block is in the pipeline the transaction machine says so: it is what
\* holds the next key back.
TransactionCovers == InFlight # {} => transaction_status

\* The pipeline loses, repeats and reorders nothing under any stall: the block
\* at the output is the next one due and the stages hold all that is missing.
ExactlyOnce ==
  /\ write_tvalid => data_matrix_out.id = delivered
  /\ InFlight = {} => delivered = accepted

\* The stage of the n-th oldest block in the pipeline, and the block as the
\* abstract stream sees it: without a key there is no ciphertext to speak of.
StageOf(n) == CHOOSE i \in InFlight : Cardinality({j \in InFlight : j >= i}) = n

Seen(i) ==
  [id   |-> blocks[i].id,
   key  |-> IF blocks[i].want = NoKey THEN NoKey ELSE blocks[i].key,
   last |-> parallel_status_pipeline[i].last]

InFlightBlocks == [n \in 1..Cardinality(InFlight) |-> Seen(StageOf(n))]

Stream == INSTANCE EncryptionStream WITH
            open <- source # "idle", in_flight <- InFlightBlocks

\* The registers, state machines and pipeline of the core implement the stream
\* of blocks that EncryptionStream promises.
EncryptsTheStream == Stream!Spec

\* A block offered is accepted in the end, even if software never stops writing
\* the key registers: a transaction under way acknowledges no key.
OfferTaken == source \in {"beat", "last"} ~> source \in {"packet", "idle"}

\* A block accepted is delivered in the end, unless a reset drops it.
BlocksDelivered ==
  \A n \in 1..MaxBlocks : accepted >= n ~> (delivered >= n \/ accepted < n)

\* Once software stops writing, the local keys become those of the registers:
\* the write flags outlive the transactions and refreshes in their way.
KeyTakesHold ==
  <>[]~aes_key_write =>
    \A k \in Keys : aes_key = k ~>
      (aes_key # k \/ \A n \in Stages : round_keys[n] = RoundKeyOf(k, n))
=============================================================================
