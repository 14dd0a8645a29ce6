-------------------------- MODULE PeripheralProofs --------------------------
(***************************************************************************)
(* Proofs about the peripheral: the write and the read channels of its     *)
(* AXI-lite slave; that the slave gives the core the key port the core was *)
(* modelled with; and so that the core behind the slave is the core behind *)
(* its key port, so what AesProofs establishes of the latter holds of the  *)
(* peripheral.                                                             *)
(***************************************************************************)
EXTENDS Peripheral, TLAPS

-----------------------------------------------------------------------------
(* The slave *)

\* A word written lane by lane is a word.
LEMMA MergeType ==
  ASSUME NEW beat \in Beat, NEW old \in Word
  PROVE  [l \in Lanes |-> IF l \in beat.strb THEN beat.data[l] ELSE old[l]] \in Word
  BY DEF Beat, Word

\* What a cycle does to the registers: with the write enable the one addressed
\* gets a word, the others stay.
LEMMA RegistersStep ==
  ASSUME WriteInv, WriteRegister
  PROVE  /\ slv_reg' \in [Registers -> Word]
         /\ \A r \in Registers : slv_reg'[r] # slv_reg[r] => slv_reg_wren /\ r = axi_awaddr
<1>1. CASE ~slv_reg_wren
  BY <1>1 DEF WriteRegister, WriteInv, AxiTypeOK
<1>2. CASE slv_reg_wren
  <2> DEFINE merged == [l \in Lanes |-> IF l \in w.strb THEN w.data[l]
                                                       ELSE slv_reg[axi_awaddr][l]]
  <2>1. axi_awaddr \in Registers /\ w \in Beat /\ slv_reg \in [Registers -> Word]
    BY <1>2 DEF WriteInv, AxiTypeOK, slv_reg_wren
  <2>2. merged \in Word
    BY <2>1, MergeType
  <2>3. slv_reg' = [slv_reg EXCEPT ![axi_awaddr] = merged]
    BY <1>2 DEF WriteRegister
  <2> HIDE DEF merged
  <2> QED
    BY <1>2, <2>1, <2>2, <2>3
<1> QED
  BY <1>1, <1>2

\* The master's side of a cycle keeps its types.
LEMMA MasterStep ==
  ASSUME WriteInv, MasterWrites, MasterReads
  PROVE  /\ aw' \in Registers \cup {None}
         /\ w' \in Beat \cup {None}
         /\ ar' \in Registers \cup {None}
  BY DEF MasterWrites, MasterReads, WriteInv, AxiTypeOK

\* A cycle keeps the write channel's invariant.
LEMMA ClockWriteInv ==
  ASSUME WriteInv, NEW bready \in BOOLEAN, NEW rready \in BOOLEAN, Clock(bready, rready)
  PROVE  WriteInv'
<1>1. AxiTypeOK'
  <2>1. /\ axi_awready' \in BOOLEAN /\ aw_en' \in BOOLEAN /\ axi_wready' \in BOOLEAN
        /\ axi_awaddr' \in Registers \cup {0}
    BY DEF Clock, AddressReady, DataReady, WriteInv, AxiTypeOK
  <2>2. axi_bvalid' \in BOOLEAN
    BY DEF Clock, Respond, WriteInv, AxiTypeOK
  <2>3. axi_arready' \in BOOLEAN /\ axi_araddr' \in Registers \cup {0}
    BY DEF Clock, ReadAddressReady, WriteInv, AxiTypeOK
  <2>4. axi_rvalid' \in BOOLEAN
    BY DEF Clock, ReadValid, WriteInv, AxiTypeOK
  <2>5. axi_rdata' \in Word
    BY DEF Clock, ReadData, slv_reg_rden, WriteInv, AxiTypeOK
  <2>6. strobed' \in BOOLEAN /\ key_written' \in BOOLEAN
    BY DEF Clock, Remember, WriteInv, AxiTypeOK, aes_key_write, slv_reg_wren
  <2> QED
    BY <2>1, <2>2, <2>3, <2>4, <2>5, <2>6, RegistersStep, MasterStep DEF Clock, AxiTypeOK
<1>2. axi_awready' <=> axi_wready'
  BY DEF Clock, AddressReady, DataReady, WriteInv, AxiTypeOK
<1>3. ASSUME axi_awready'
      PROVE  /\ aw' # None /\ w' # None /\ axi_awaddr' = aw'
             /\ ~aw_en' /\ ~axi_bvalid' /\ ~strobed'
  <2>1. /\ ~axi_awready /\ aw # None /\ w # None /\ aw_en
        /\ axi_awaddr' = aw /\ ~aw_en'
    BY <1>3 DEF Clock, AddressReady
  <2>2. aw' = aw /\ w' = w
    BY <2>1 DEF Clock, MasterWrites, WriteInv
  <2>3. ~slv_reg_wren /\ ~axi_bvalid
    BY <2>1 DEF slv_reg_wren, WriteInv
  <2>4. ~axi_bvalid' /\ ~strobed'
    BY <2>3 DEF Clock, Respond, Remember, aes_key_write
  <2> QED
    BY <2>1, <2>2, <2>4
<1>4. ASSUME axi_bvalid'
      PROVE  ~aw_en'
  BY <1>4 DEF Clock, Respond, AddressReady, slv_reg_wren, WriteInv, AxiTypeOK
<1>5. ASSUME axi_arready'
      PROVE  ar' # None /\ axi_araddr' = ar'
  BY <1>5 DEF Clock, ReadAddressReady, MasterReads
<1>6. ResponsesOwed'
  <2>1. WTaken <=> slv_reg_wren
    BY DEF WTaken, slv_reg_wren, WriteInv
  <2>2. slv_reg_wren => ~axi_bvalid
    BY DEF slv_reg_wren, WriteInv
  <2>3. axi_bvalid' = IF slv_reg_wren THEN TRUE ELSE axi_bvalid /\ ~bready
    BY <2>2 DEF Clock, Respond
  <2>4. owed_responses' = owed_responses + (IF slv_reg_wren THEN 1 ELSE 0)
                                         - (IF axi_bvalid /\ bready THEN 1 ELSE 0)
    BY <2>1 DEF Clock, Remember
  <2>5. owed_responses = IF axi_bvalid THEN 1 ELSE 0
    BY DEF WriteInv, ResponsesOwed
  <2>6. CASE slv_reg_wren
    BY <2>2, <2>3, <2>4, <2>5, <2>6 DEF ResponsesOwed
  <2>7. CASE ~slv_reg_wren
    <3>1. axi_bvalid' = (axi_bvalid /\ ~bready) /\ axi_bvalid \in BOOLEAN
      BY <2>3, <2>7 DEF WriteInv, AxiTypeOK
    <3>2. CASE axi_bvalid /\ bready
      <4>1. ~axi_bvalid' /\ owed_responses = 1
        BY <2>5, <3>1, <3>2
      <4>2. owed_responses' = owed_responses + 0 - 1
        BY <2>4, <2>7, <3>2
      <4> QED
        BY <4>1, <4>2 DEF ResponsesOwed
    <3>3. CASE ~(axi_bvalid /\ bready)
      BY <2>4, <2>5, <2>7, <3>1, <3>3 DEF ResponsesOwed
    <3> QED
      BY <3>2, <3>3
  <2> QED
    BY <2>6, <2>7
<1> QED
  BY <1>1, <1>2, <1>3, <1>4, <1>5, <1>6 DEF WriteInv

\* The write channel's invariant holds in every state.
THEOREM WriteInvariance == Spec => []WriteInv
<1>1. Init => WriteInv
  BY BytesAssumption DEF Init, WriteInv, AxiTypeOK, ResponsesOwed, Zero, Word
<1>2. ASSUME Reset PROVE WriteInv'
  BY <1>2, BytesAssumption DEF Reset, WriteInv, AxiTypeOK, ResponsesOwed, Zero, Word
<1>3. ASSUME WriteInv, [Next]_vars PROVE WriteInv'
  <2>1. CASE Next
    BY <1>2, <1>3, <2>1, ClockWriteInv DEF Next
  <2>2. CASE UNCHANGED vars
    BY <1>3, <2>2 DEF vars, writeVars, readVars, masterVars, ghostVars, WriteInv, AxiTypeOK,
         ResponsesOwed
  <2> QED
    BY <1>3, <2>1, <2>2
<1> QED
  BY <1>1, <1>3, PTL DEF Spec

\* Address and word of a write are accepted together, and belong together.
THEOREM HandshakesTogetherCorrect == Spec => []HandshakesTogether
<1>1. WriteInv => HandshakesTogether
  BY DEF WriteInv, HandshakesTogether, AwTaken, WTaken
<1> QED
  BY <1>1, WriteInvariance, PTL

\* Every write accepted is responded to exactly once.
THEOREM ResponsesOwedCorrect == Spec => []ResponsesOwed
  BY WriteInvariance, PTL DEF WriteInv

\* A cycle is a step of the key port: a key register changes with a strobe only,
\* and the cycle after a strobe has none.
LEMMA ClockIsPortStep ==
  ASSUME WriteInv, NEW bready \in BOOLEAN, NEW rready \in BOOLEAN, Clock(bready, rready)
  PROVE  Port!SlaveNext
<1>1. /\ WriteRegister
      /\ strobed' = aes_key_write
      /\ key_written' = (key_written \/ aes_key_write)
  BY DEF Clock, Remember
<1>2. CASE aes_key_write
  <2>1. ~strobed /\ strobed' = TRUE /\ key_written' = TRUE
    BY <1>1, <1>2 DEF aes_key_write, slv_reg_wren, WriteInv
  <2>2. aes_key' \in [KeyRegisters -> Word]
    BY <1>1, RegistersStep DEF aes_key, KeyRegisters
  <2>3. Port!WriteKey(aes_key')
    BY <2>1 DEF Port!WriteKey
  <2> QED
    BY <2>2, <2>3 DEF Port!SlaveNext
<1>3. CASE ~aes_key_write
  <2>1. strobed' = FALSE /\ key_written' = key_written
    BY <1>1, <1>3 DEF WriteInv, AxiTypeOK, aes_key_write, slv_reg_wren
  <2>2. \A r \in KeyRegisters : slv_reg'[r] = slv_reg[r]
    BY <1>1, <1>3, RegistersStep DEF aes_key_write, KeyRegisters
  <2>3. aes_key' = aes_key
    BY <2>2 DEF aes_key, KeyRegisters
  <2>4. Port!HoldKey
    BY <2>1, <2>3 DEF Port!HoldKey
  <2> QED
    BY <2>4 DEF Port!SlaveNext
<1> QED
  BY <1>2, <1>3

\* The slave implements the key port that the core is connected to.
THEOREM ImplementsKeyPortCorrect == Spec => ImplementsKeyPort
<1>1. Init => Port!SlaveInit
  BY DEF Init, Port!SlaveInit
<1>2. ASSUME Reset PROVE Port!SlaveNext
  BY <1>2 DEF Reset, Port!SlaveNext, Port!SlaveReset
<1>3. ASSUME WriteInv, [Next]_vars PROVE [Port!SlaveNext]_(Port!slaveVars)
  <2>1. CASE Next
    BY <1>2, <1>3, <2>1, ClockIsPortStep DEF Next
  <2>2. CASE UNCHANGED vars
    BY <2>2 DEF vars, ghostVars, Port!slaveVars, aes_key
  <2> QED
    BY <1>3, <2>1, <2>2
<1> QED
  BY <1>1, <1>3, WriteInvariance, PTL DEF Spec, Port!Spec, ImplementsKeyPort

\* Every register has its type.
THEOREM AxiTypeCorrect == Spec => []AxiTypeOK
  BY WriteInvariance, PTL DEF WriteInv

-----------------------------------------------------------------------------
(* The read channels, of a master with one read at a time *)

\* An address is offered only when all data have been taken, so the slave never
\* drops one, and the promise stands until its data are taken.
ReadInv ==
  /\ ar # None => owed_reads = 0
  /\ ReadsOwed
  /\ ReadsTheRegister

\* With one read at a time the slave enables a read for every address it takes.
LEMMA TakenIsEnabled ==
  ASSUME WriteInv, ReadInv
  PROVE  /\ ar # None => ~axi_rvalid
         /\ ArTaken <=> slv_reg_rden
         /\ ArTaken => axi_araddr = ar
  BY DEF WriteInv, ReadInv, ReadsOwed, AxiTypeOK, ArTaken, slv_reg_rden

\* A cycle keeps the read channels' invariant.
LEMMA ClockReadInv ==
  ASSUME ~Outstanding, WriteInv, ReadInv,
         NEW bready \in BOOLEAN, NEW rready \in BOOLEAN, Clock(bready, rready)
  PROVE  ReadInv'
<1>1. /\ axi_rvalid' = IF ArTaken THEN TRUE ELSE axi_rvalid /\ ~rready
      /\ axi_rdata' = IF ArTaken THEN slv_reg[axi_araddr] ELSE axi_rdata
      /\ read_promise' = IF ArTaken THEN slv_reg[ar] ELSE read_promise
      /\ owed_reads' = owed_reads + (IF ArTaken THEN 1 ELSE 0)
                                  - (IF axi_rvalid /\ rready THEN 1 ELSE 0)
  BY TakenIsEnabled DEF Clock, ReadValid, ReadData, Remember
<1>2. /\ owed_reads = IF axi_rvalid THEN 1 ELSE 0
      /\ axi_rvalid \in BOOLEAN
  BY DEF ReadInv, ReadsOwed, WriteInv, AxiTypeOK
<1>3. CASE ArTaken
  <2>1. ar # None /\ ~axi_rvalid /\ axi_araddr = ar
    BY <1>3, TakenIsEnabled DEF ArTaken
  <2>2. ar' = None
    BY <1>3 DEF Clock, MasterReads
  <2>3. owed_reads' = 1 /\ axi_rvalid' /\ axi_rdata' = read_promise'
    BY <1>1, <1>2, <1>3, <2>1
  <2> QED
    BY <2>2, <2>3 DEF ReadInv, ReadsOwed, ReadsTheRegister
<1>4. CASE ~ArTaken
  <2>1. /\ axi_rvalid' = (axi_rvalid /\ ~rready)
        /\ axi_rdata' = axi_rdata /\ read_promise' = read_promise
    BY <1>1, <1>4
  <2>2. ReadsTheRegister'
    BY <1>2, <2>1 DEF ReadInv, ReadsTheRegister
  <2>3. owed_reads' = owed_reads - (IF axi_rvalid /\ rready THEN 1 ELSE 0)
    BY <1>1, <1>2, <1>4
  <2>4. ReadsOwed'
    <3>1. CASE axi_rvalid /\ rready
      <4>1. ~axi_rvalid' /\ owed_reads = 1
        BY <1>2, <2>1, <3>1
      <4>2. owed_reads' = 1 - 1
        BY <2>3, <3>1, <4>1
      <4> QED
        BY <4>1, <4>2 DEF ReadsOwed
    <3>2. CASE ~(axi_rvalid /\ rready)
      <4>1. axi_rvalid' = axi_rvalid
        BY <1>2, <2>1, <3>2
      <4>2. owed_reads' = owed_reads
        BY <1>2, <2>3, <3>2
      <4> QED
        BY <1>2, <4>1, <4>2 DEF ReadsOwed
    <3> QED
      BY <3>1, <3>2
  <2>5. ASSUME ar' # None PROVE owed_reads' = 0
    <3>1. owed_reads = 0
      BY <2>5 DEF Clock, MasterReads, ReadInv
    <3>2. axi_rvalid = FALSE
      BY <1>2, <3>1
    <3>3. owed_reads' = 0 - 0
      BY <2>3, <3>1, <3>2
    <3> QED
      BY <3>3
  <2> QED
    BY <2>2, <2>4, <2>5 DEF ReadInv
<1> QED
  BY <1>3, <1>4

\* The read channels' invariant holds in every state, if the master has one
\* read at a time.
THEOREM ReadInvariance ==
  ASSUME ~Outstanding
  PROVE  Spec => []ReadInv
<1>1. Init => ReadInv
  BY DEF Init, ReadInv, ReadsOwed, ReadsTheRegister
<1>2. ASSUME Reset PROVE ReadInv'
  BY <1>2 DEF Reset, ReadInv, ReadsOwed, ReadsTheRegister
<1>3. ASSUME WriteInv, ReadInv, [Next]_vars PROVE ReadInv'
  <2>1. CASE Next
    BY <1>2, <1>3, <2>1, ClockReadInv DEF Next
  <2>2. CASE UNCHANGED vars
    BY <1>3, <2>2 DEF vars, readVars, masterVars, ghostVars, ReadInv, ReadsOwed,
         ReadsTheRegister
  <2> QED
    BY <1>3, <2>1, <2>2
<1> QED
  BY <1>1, <1>3, WriteInvariance, PTL DEF Spec

\* Every read accepted is answered exactly once, if the master has one read at a
\* time.
THEOREM ReadsOwedCorrect ==
  ASSUME ~Outstanding
  PROVE  Spec => []ReadsOwed
  BY ReadInvariance, PTL DEF ReadInv

\* Read data are the register's word in the cycle the address was accepted, if
\* the master has one read at a time.
THEOREM ReadsTheRegisterCorrect ==
  ASSUME ~Outstanding
  PROVE  Spec => []ReadsTheRegister
  BY ReadInvariance, PTL DEF ReadInv

-----------------------------------------------------------------------------
(* The slave before the core *)

\* A cycle of the peripheral is one of the slave, and its reset the slave's.
THEOREM SlaveInvariance == PeripheralSpec => []WriteInv
<1>1. PeripheralInit => Init
  BY DEF PeripheralInit
<1>2. [PeripheralNext]_peripheralVars => [Next]_vars
  BY DEF PeripheralNext, PeripheralClock, PeripheralReset, Next, peripheralVars
<1> QED
  BY <1>1, <1>2, WriteInvariance, PTL DEF PeripheralSpec, Spec

\* What the registers and the strobe do in a cycle is a step of the core's key
\* port, with the strobe the core sees in that cycle.
LEMMA KeyPortStep ==
  ASSUME WriteInv, NEW bready \in BOOLEAN, NEW rready \in BOOLEAN, Clock(bready, rready)
  PROVE  \/ /\ aes_key_write /\ key_port' \in [KeyRegisters -> Word]
            /\ ~strobed /\ strobed' = TRUE
         \/ /\ ~aes_key_write /\ strobed' = FALSE /\ key_port' = key_port
<1>1. /\ WriteRegister
      /\ strobed' = aes_key_write
      /\ key_written' = (key_written \/ aes_key_write)
  BY DEF Clock, Remember
<1>2. CASE aes_key_write
  <2>1. ~strobed /\ strobed' = TRUE /\ key_written' = TRUE
    BY <1>1, <1>2 DEF aes_key_write, slv_reg_wren, WriteInv
  <2>2. aes_key' \in [KeyRegisters -> Word]
    BY <1>1, RegistersStep DEF aes_key, KeyRegisters
  <2> QED
    BY <1>2, <2>1, <2>2 DEF key_port
<1>3. CASE ~aes_key_write
  <2>1. strobed' = FALSE /\ key_written' = key_written
    BY <1>1, <1>3 DEF WriteInv, AxiTypeOK, aes_key_write, slv_reg_wren
  <2>2. \A r \in KeyRegisters : slv_reg'[r] = slv_reg[r]
    BY <1>1, <1>3, RegistersStep DEF aes_key_write, KeyRegisters
  <2>3. aes_key' = aes_key
    BY <2>2 DEF aes_key, KeyRegisters
  <2> QED
    BY <1>3, <2>1, <2>3 DEF key_port
<1> QED
  BY <1>2, <1>3

\* A cycle of the peripheral is a cycle of the core.
LEMMA ClockIsCoreStep ==
  ASSUME WriteInv, NEW tvalid \in BOOLEAN, NEW tlast \in BOOLEAN, NEW wready \in BOOLEAN,
         NEW bready \in BOOLEAN, NEW rready \in BOOLEAN,
         PeripheralClock(tvalid, tlast, wready, bready, rready)
  PROVE  Core!Next
<1>1. /\ Core!KeyExpansionClock(key_port, Core!key_expansion_ack)
      /\ Core!RounderClock(Core!selected_key, key_change_pending_rounder,
                           [id |-> accepted, want |-> Core!OfferedKey, key |-> None],
                           tvalid, tlast, wready)
      /\ Core!FlagsClock(aes_key_write)
      /\ Core!StreamClock(tvalid, tlast, Core!read_tready(wready), wready)
      /\ Clock(bready, rready)
  BY DEF PeripheralClock
<1>2. CASE aes_key_write
  <2>1. /\ key_port' \in [KeyRegisters -> Word]
        /\ Core!SlaveClock(TRUE, key_port', tvalid)
    BY <1>1, <1>2, KeyPortStep DEF Core!SlaveClock, Core!WriteAllowed,
         Core!KeyRegisters!WriteKey
  <2>2. Core!FlagsClock(TRUE)
    BY <1>1, <1>2 DEF Core!FlagsClock
  <2>3. Core!Clock(tvalid, tlast, wready, TRUE, key_port')
    BY <1>1, <2>1, <2>2 DEF Core!Clock
  <2> QED
    BY <2>1, <2>3 DEF Core!Next
<1>3. CASE ~aes_key_write
  <2> DEFINE key == [r \in KeyRegisters |-> Zero]
  <2>1. key \in [KeyRegisters -> Word]
    BY BytesAssumption DEF Zero, Word
  <2>2. Core!SlaveClock(FALSE, key, tvalid)
    BY <1>1, <1>3, KeyPortStep DEF Core!SlaveClock, Core!KeyRegisters!HoldKey
  <2>3. Core!FlagsClock(FALSE)
    BY <1>1, <1>3 DEF Core!FlagsClock
  <2>4. Core!Clock(tvalid, tlast, wready, FALSE, key)
    BY <1>1, <2>2, <2>3 DEF Core!Clock
  <2> HIDE DEF key
  <2> QED
    BY <2>1, <2>4 DEF Core!Next
<1> QED
  BY <1>2, <1>3

\* The reset of the peripheral is that of the core.
LEMMA ResetIsCoreReset ==
  ASSUME PeripheralReset
  PROVE  Core!Reset
  BY DEF PeripheralReset, Reset, Core!Reset, Core!KeyRegisters!SlaveReset, key_port

\* The core behind the slave implements the core behind its key port, for every
\* set of registers, number of rounds and word written.
THEOREM ImplementsCoreCorrect == PeripheralSpec => ImplementsCore
<1>1. PeripheralInit => Core!Init
  BY DEF PeripheralInit, Init, Core!Init, Core!KeyRegisters!SlaveInit, key_port
<1>2. ASSUME WriteInv, [PeripheralNext]_peripheralVars PROVE [Core!Next]_(Core!vars)
  <2>1. CASE PeripheralNext
    BY <1>2, <2>1, ClockIsCoreStep, ResetIsCoreReset DEF PeripheralNext, Core!Next
  <2>2. CASE UNCHANGED peripheralVars
    BY <2>2 DEF peripheralVars, vars, ghostVars, coreVars, key_port, aes_key, Core!vars,
         Core!keyExpansionVars, Core!rounderVars, Core!transactionVars, Core!refreshVars,
         Core!pipelineVars, Core!flagVars, Core!slaveVars, Core!streamVars
  <2> QED
    BY <1>2, <2>1, <2>2
<1> QED
  BY <1>1, <1>2, SlaveInvariance, PTL DEF PeripheralSpec, ImplementsCore, Core!Spec

-----------------------------------------------------------------------------
(* The words accepted are the words used *)

CoreProofs == INSTANCE AesProofs WITH
                Keys <- [KeyRegisters -> Word], NoKey <- None, WriteWhileBusy <- TRUE,
                aes_key <- key_port, aes_key_write <- strobed

\* AesProofs speaks of the same core: every definition it reaches is the same.
LEMMA SameCore == Core!Spec => CoreProofs!Spec
<1>1. Core!Init <=> CoreProofs!Init
  BY Zenon DEF Core!Init, CoreProofs!Init, Core!KeyExpansionInit,
       CoreProofs!KeyExpansionInit, Core!RounderInit, CoreProofs!RounderInit,
       Core!FlagsInit, CoreProofs!FlagsInit, Core!StreamInit, CoreProofs!StreamInit,
       Core!KeyRegisters!SlaveInit, CoreProofs!KeyRegisters!SlaveInit,
       Core!NoRoundKey, CoreProofs!NoRoundKey, Core!TransactionInit,
       CoreProofs!TransactionInit, Core!RefreshInit, CoreProofs!RefreshInit,
       Core!PipelineInit, CoreProofs!PipelineInit, Core!NoBlock, CoreProofs!NoBlock,
       Core!Stages, CoreProofs!Stages
<1>2. UNCHANGED Core!vars => UNCHANGED CoreProofs!vars
  BY Zenon DEF Core!vars, CoreProofs!vars, Core!keyExpansionVars,
       CoreProofs!keyExpansionVars, Core!rounderVars, CoreProofs!rounderVars,
       Core!flagVars, CoreProofs!flagVars, Core!slaveVars, CoreProofs!slaveVars,
       Core!streamVars, CoreProofs!streamVars, Core!transactionVars,
       CoreProofs!transactionVars, Core!refreshVars, CoreProofs!refreshVars,
       Core!pipelineVars, CoreProofs!pipelineVars
<1>3. Core!Reset <=> CoreProofs!Reset
  BY Zenon DEF Core!Reset, CoreProofs!Reset, Core!KeyExpansionReset,
       CoreProofs!KeyExpansionReset, Core!RounderReset, CoreProofs!RounderReset,
       Core!FlagsReset, CoreProofs!FlagsReset, Core!StreamReset,
       CoreProofs!StreamReset, Core!KeyRegisters!SlaveReset,
       CoreProofs!KeyRegisters!SlaveReset, Core!TransactionReset,
       CoreProofs!TransactionReset, Core!RefreshReset, CoreProofs!RefreshReset,
       Core!PipelineReset, CoreProofs!PipelineReset, Core!NoRoundKey,
       CoreProofs!NoRoundKey, Core!NoBlock, CoreProofs!NoBlock, Core!Stages,
       CoreProofs!Stages
<1>4. Core!Next <=> CoreProofs!Next
  BY <1>3, Zenon DEF Core!Next, CoreProofs!Next, Core!Clock, CoreProofs!Clock,
       Core!KeyExpansionClock, CoreProofs!KeyExpansionClock, Core!RounderClock,
       CoreProofs!RounderClock, Core!FlagsClock, CoreProofs!FlagsClock,
       Core!SlaveClock, CoreProofs!SlaveClock, Core!StreamClock,
       CoreProofs!StreamClock, Core!key_expansion_ack, CoreProofs!key_expansion_ack,
       Core!rounder_key_ack, CoreProofs!rounder_key_ack, Core!selected_key,
       CoreProofs!selected_key, Core!read_tready, CoreProofs!read_tready,
       Core!WriteAllowed, CoreProofs!WriteAllowed, Core!MayOffer,
       CoreProofs!MayOffer, Core!SourceAfter, CoreProofs!SourceAfter,
       Core!OfferedKey, CoreProofs!OfferedKey, Core!KeyRegisters!WriteKey,
       CoreProofs!KeyRegisters!WriteKey, Core!KeyRegisters!HoldKey,
       CoreProofs!KeyRegisters!HoldKey, Core!KeyExpansionIdle,
       CoreProofs!KeyExpansionIdle, Core!StartExpansion, CoreProofs!StartExpansion,
       Core!GenerateRoundKey, CoreProofs!GenerateRoundKey, Core!RestartExpansion,
       CoreProofs!RestartExpansion, Core!LoadKey, CoreProofs!LoadKey,
       Core!keyExpansionVars, CoreProofs!keyExpansionVars, Core!RoundKeyOf,
       CoreProofs!RoundKeyOf, Core!NoRoundKey, CoreProofs!NoRoundKey,
       Core!next_round_key, CoreProofs!next_round_key, Core!key_consumed,
       CoreProofs!key_consumed, Core!round_key, CoreProofs!round_key,
       Core!TransactionClock, CoreProofs!TransactionClock, Core!RefreshClock,
       CoreProofs!RefreshClock, Core!PipelineClock, CoreProofs!PipelineClock,
       Core!BeginTransaction, CoreProofs!BeginTransaction, Core!EndTransaction,
       CoreProofs!EndTransaction, Core!KeepTransaction, CoreProofs!KeepTransaction,
       Core!RefreshIdle, CoreProofs!RefreshIdle, Core!RefreshSync,
       CoreProofs!RefreshSync, Core!Stall, CoreProofs!Stall, Core!Advance,
       CoreProofs!Advance, Core!stall, CoreProofs!stall, Core!key_ack,
       CoreProofs!key_ack, Core!add_round_key, CoreProofs!add_round_key,
       Core!transaction_status, CoreProofs!transaction_status, Core!key_syncing,
       CoreProofs!key_syncing, Core!key_select, CoreProofs!key_select,
       Core!write_tvalid, CoreProofs!write_tvalid, Core!write_tlast,
       CoreProofs!write_tlast, Core!data_matrix_out, CoreProofs!data_matrix_out,
       Core!NoBlock, CoreProofs!NoBlock, Core!Stages, CoreProofs!Stages,
       Core!pipelineVars, CoreProofs!pipelineVars, Core!InFlight,
       CoreProofs!InFlight
<1>5. [Core!Next]_(Core!vars) => [CoreProofs!Next]_(CoreProofs!vars)
  BY <1>2, <1>4
<1> QED
  BY <1>1, <1>5, PTL DEF Core!Spec, CoreProofs!Spec

\* The registers are what software wrote, and the packet's two keys agree.
PortInv ==
  /\ ~key_written => aes_key = NoWrites
  /\ software_key = key_port
  /\ expected_key = packet_key

\* A type for the registers' key.
LEMMA KeyType ==
  ASSUME WriteInv
  PROVE  aes_key \in [KeyRegisters -> Word] /\ aes_key # None
  BY NoneIsNoKey DEF WriteInv, AxiTypeOK, aes_key, KeyRegisters

\* A word accepted for a key register is in the registers' key after the cycle,
\* and no other word is.
LEMMA WordsStep ==
  ASSUME WriteInv, PortInv, NEW bready \in BOOLEAN, NEW rready \in BOOLEAN,
         Clock(bready, rready), SoftwareWrites
  PROVE  (~key_written => aes_key = NoWrites)' /\ (software_key = key_port)'
<1> DEFINE merged(old) == [l \in Lanes |-> IF l \in w.strb THEN w.data[l] ELSE old[l]]
<1>1. /\ WriteRegister
      /\ strobed' = aes_key_write
      /\ key_written' = (key_written \/ aes_key_write)
  BY DEF Clock, Remember
<1>2. (AwTaken /\ WTaken /\ aw \in KeyRegisters) <=> aes_key_write
  BY DEF AwTaken, WTaken, aes_key_write, slv_reg_wren, WriteInv
<1>3. CASE aes_key_write
  <2>1. /\ slv_reg_wren /\ axi_awaddr = aw /\ aw \in KeyRegisters
        /\ key_written' = TRUE
    BY <1>1, <1>2, <1>3 DEF aes_key_write, slv_reg_wren, WriteInv
  <2>2. aw \in Registers /\ slv_reg \in [Registers -> Word]
    BY <2>1 DEF KeyRegisters, WriteInv, AxiTypeOK
  <2>3. slv_reg' = [slv_reg EXCEPT ![aw] = merged(slv_reg[aw])]
    BY <1>1, <2>1 DEF WriteRegister
  <2>4. aes_key' = [aes_key EXCEPT ![aw] = merged(aes_key[aw])]
    BY <2>1, <2>2, <2>3 DEF aes_key, KeyRegisters
  <2>5. (IF software_key = None THEN NoWrites ELSE software_key) = aes_key
    BY KeyType DEF PortInv, key_port
  <2>6. software_key' = [aes_key EXCEPT ![aw] = merged(aes_key[aw])]
    BY <1>2, <1>3, <2>5 DEF SoftwareWrites
  <2> QED
    BY <2>1, <2>4, <2>6 DEF key_port
<1>4. CASE ~aes_key_write
  <2>1. key_written' = key_written
    BY <1>1, <1>4 DEF WriteInv, AxiTypeOK, aes_key_write, slv_reg_wren
  <2>2. \A r \in KeyRegisters : slv_reg'[r] = slv_reg[r]
    BY <1>1, <1>4, RegistersStep DEF aes_key_write, KeyRegisters
  <2>3. aes_key' = aes_key
    BY <2>2 DEF aes_key, KeyRegisters
  <2>4. software_key' = software_key
    BY <1>2, <1>4 DEF SoftwareWrites
  <2> QED
    BY <2>1, <2>3, <2>4 DEF PortInv, key_port, NoWrites
<1> QED
  BY <1>3, <1>4

\* Software's key and the registers' never part.
LEMMA PortInvariance == PeripheralSpec => []PortInv
<1>1. PeripheralInit => PortInv
  BY DEF PeripheralInit, Init, Core!StreamInit, PortInv, key_port, aes_key, NoWrites,
       KeyRegisters
<1>2. ASSUME PeripheralReset PROVE PortInv'
  BY <1>2 DEF PeripheralReset, Reset, Core!StreamReset, PortInv, key_port, aes_key,
       NoWrites, KeyRegisters
<1>3. ASSUME WriteInv, PortInv, NEW tvalid \in BOOLEAN, NEW tlast \in BOOLEAN,
             NEW wready \in BOOLEAN, NEW bready \in BOOLEAN, NEW rready \in BOOLEAN,
             PeripheralClock(tvalid, tlast, wready, bready, rready)
      PROVE  PortInv'
  <2>1. (~key_written => aes_key = NoWrites)' /\ (software_key = key_port)'
    BY <1>3, WordsStep DEF PeripheralClock
  <2>2. expected_key' = packet_key'
    BY <1>3 DEF PeripheralClock, PacketOffered, Core!StreamClock, Core!OfferedKey, PortInv
  <2> QED
    BY <2>1, <2>2 DEF PortInv
<1>4. ASSUME WriteInv, PortInv, [PeripheralNext]_peripheralVars PROVE PortInv'
  <2>1. CASE PeripheralNext
    BY <1>2, <1>3, <1>4, <2>1 DEF PeripheralNext
  <2>2. CASE UNCHANGED peripheralVars
    BY <1>4, <2>2 DEF peripheralVars, vars, ghostVars, coreVars, PortInv, key_port, aes_key,
         NoWrites
  <2> QED
    BY <1>4, <2>1, <2>2
<1> QED
  BY <1>1, <1>4, SlaveInvariance, PTL DEF PeripheralSpec

\* When packets do not overlap, every block in the pipeline has used the key made
\* of exactly the words accepted before its packet was first offered.
THEOREM AcceptedWordsUsedCorrect ==
  ASSUME ~Overlap
  PROVE  PeripheralSpec => []AcceptedWordsUsed
<1>1. PeripheralSpec => CoreProofs!Spec
  BY ImplementsCoreCorrect, SameCore DEF ImplementsCore
<1>2. CoreProofs!Spec => []CoreProofs!PacketInv
  BY CoreAssumption, NoneIsNoKey, CoreProofs!PacketInvariance
<1>3. PortInv /\ CoreProofs!PacketInv => AcceptedWordsUsed
  BY DEF PortInv, CoreProofs!PacketInv, CoreProofs!BlocksOfPacket, CoreProofs!Valid,
       CoreProofs!Stages, AcceptedWordsUsed, Core!InFlight, Core!Stages
<1> QED
  BY <1>1, <1>2, <1>3, PortInvariance, PTL
=============================================================================
