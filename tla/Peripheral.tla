----------------------------- MODULE Peripheral -----------------------------
(***************************************************************************)
(* The peripheral (ip_repo/.../hdl/aes_v1_0.v): the AXI-lite slave and the *)
(* core on one clock and one reset, wired by aes_key and aes_key_write.    *)
(* In Aes the key port is an environment; here it is the slave's registers *)
(* and its strobe, so that a word on its way through the write channels    *)
(* meets a packet on its way through the pipeline in every cycle of both.  *)
(***************************************************************************)
EXTENDS AxiSlave, Sequences

CONSTANTS
  Rounds,
  Overlap,      \* packets may overlap in the pipeline
  MaxBlocks,    \* bound of the model: blocks offered between two resets
  Writes,       \* bound of the model: the words software writes, with their strobes
  SoftwareReads \* the master reads registers too

ASSUME CoreAssumption          == Rounds \in 1..14 /\ Overlap \in BOOLEAN /\ MaxBlocks \in Nat
ASSUME WritesAssumption        == Writes \subseteq Beat
ASSUME SoftwareReadsAssumption == SoftwareReads \in BOOLEAN
ASSUME NoneIsNoKey == None \notin [KeyRegisters -> Word]

VARIABLES
  expanded_keys, previous_key, round_counter, round_counter_previous,
  round_constant, state,
  transaction_state, refresh_state, key_syncing_counter, round_keys,
  parallel_status_pipeline, blocks,
  key_change_pending_key_expansion, key_change_pending_rounder,
  source, packet_key, accepted, delivered,
  software_key,  \* the key of the writes accepted since reset; None before them
  expected_key   \* software_key in the cycle the packet was first offered

coreVars == << expanded_keys, previous_key, round_counter, round_counter_previous,
               round_constant, state, transaction_state, refresh_state,
               key_syncing_counter, round_keys, parallel_status_pipeline, blocks,
               key_change_pending_key_expansion, key_change_pending_rounder,
               source, packet_key, accepted, delivered >>
peripheralVars == << vars, coreVars, software_key, expected_key >>

\* The registers as the core's properties see them: nothing before a write.
key_port == IF key_written THEN aes_key ELSE None

Core == INSTANCE Aes WITH
          Keys <- [KeyRegisters -> Word], NoKey <- None, WriteWhileBusy <- TRUE,
          aes_key <- key_port, aes_key_write <- strobed

-----------------------------------------------------------------------------
(* What software has written, from its side of the bus: the address and the  *)
(* word it offered, never what the slave latched of them.                    *)

NoWrites == [r \in KeyRegisters |-> Zero]

SoftwareWrites ==
  software_key' =
    IF AwTaken /\ WTaken /\ aw \in KeyRegisters
    THEN [(IF software_key = None THEN NoWrites ELSE software_key) EXCEPT
            ![aw] = [l \in Lanes |-> IF l \in w.strb THEN w.data[l] ELSE @[l]]]
    ELSE software_key

PacketOffered(tvalid) ==
  expected_key' = IF tvalid /\ source = "idle" THEN software_key ELSE expected_key

-----------------------------------------------------------------------------
PeripheralInit ==
  /\ Init
  /\ Core!KeyExpansionInit
  /\ Core!RounderInit
  /\ Core!FlagsInit
  /\ Core!StreamInit
  /\ software_key = None
  /\ expected_key = None

PeripheralClock(tvalid, tlast, wready, bready, rready) ==
  /\ tlast => tvalid
  /\ ~SoftwareReads => ~rready /\ ar' = None
  /\ Core!StreamClock(tvalid, tlast, Core!read_tready(wready), wready)
  /\ Core!KeyExpansionClock(key_port, Core!key_expansion_ack)
  /\ Core!RounderClock(Core!selected_key, key_change_pending_rounder,
                       [id |-> accepted, want |-> Core!OfferedKey, key |-> None],
                       tvalid, tlast, wready)
  /\ Core!FlagsClock(aes_key_write)
  /\ Clock(bready, rready)
  /\ w' \in Writes \cup {None}
  /\ SoftwareWrites
  /\ PacketOffered(tvalid)

PeripheralReset ==
  /\ Reset
  /\ Core!KeyExpansionReset
  /\ Core!RounderReset
  /\ Core!FlagsReset
  /\ Core!StreamReset
  /\ software_key' = None
  /\ expected_key' = None

PeripheralNext ==
  \/ \E tvalid, tlast, wready, bready, rready \in BOOLEAN :
       PeripheralClock(tvalid, tlast, wready, bready, rready)
  \/ PeripheralReset

PeripheralSpec == PeripheralInit /\ [][PeripheralNext]_peripheralVars

-----------------------------------------------------------------------------
(* Properties *)

\* The core behind the slave behaves as the core behind its key port: all that
\* is shown of Aes with keys written in any cycle holds of the peripheral.
ImplementsCore == Core!Spec

\* README.md, "once a stream transaction starts, we consider the available key
\* at that time": a block in the pipeline has used, in every round, the key made
\* of exactly the words accepted before the cycle its packet was first offered,
\* lane by lane, whatever is on the write channels in and after that cycle.
AcceptedWordsUsed ==
  expected_key # None => \A i \in Core!InFlight : blocks[i].key = expected_key
=============================================================================
