------------------------------ MODULE AxiSlave ------------------------------
(***************************************************************************)
(* The AXI-lite slave of the peripheral (ip_repo/.../aes_v1_0_S00_AXI.v):  *)
(* sixteen word registers behind the five AXI-lite channels, the upper     *)
(* four of which are the key.  A step is one rising edge of S_AXI_ACLK.    *)
(*                                                                         *)
(* The master is the interconnect: it holds an offered address or word     *)
(* until it is accepted, offers the two of a write in either order, and    *)
(* takes responses whenever it likes.  Words are functions of their byte   *)
(* lanes.                                                                  *)
(***************************************************************************)
EXTENDS Naturals

CONSTANTS Registers,   \* the registers the master addresses, out of 0..15
          Lanes,       \* byte lanes of a word, each with its write strobe
          Bytes,       \* values of a lane
          Outstanding, \* the master offers a read before it has the last one's data
          None         \* nothing offered, nothing expected

ASSUME RegistersAssumption   == Registers \subseteq 0..15
ASSUME BytesAssumption       == 0 \in Bytes
ASSUME OutstandingAssumption == Outstanding \in BOOLEAN
ASSUME NoneAssumption        == None \notin Registers

Word  == [Lanes -> Bytes]
Beat  == [data : Word, strb : SUBSET Lanes]
Zero  == [l \in Lanes |-> 0]

ASSUME NoneIsNoData == None \notin Beat \cup Word \cup [Registers -> Word]

VARIABLES
  axi_awready, aw_en, axi_awaddr, axi_wready, axi_bvalid,
  axi_arready, axi_araddr, axi_rvalid, axi_rdata,
  slv_reg,
  aw, w, ar,       \* what the master offers: an address, a beat, an address
  owed_responses,  \* writes accepted and not responded to
  owed_reads,      \* read addresses accepted and not answered
  read_promise,    \* the register's word when the last read was accepted
  strobed,         \* aes_key_write in the last cycle
  key_written      \* a key register has been written since reset

writeVars  == << axi_awready, aw_en, axi_awaddr, axi_wready, axi_bvalid >>
readVars   == << axi_arready, axi_araddr, axi_rvalid, axi_rdata >>
masterVars == << aw, w, ar >>
ghostVars  == << owed_responses, owed_reads, read_promise, strobed, key_written >>
vars == << writeVars, readVars, slv_reg, masterVars, ghostVars >>

KeyRegisters == {r \in Registers : r \div 4 = 3}

\* The handshakes of this cycle.
slv_reg_wren == axi_wready /\ w # None /\ axi_awready /\ aw # None
slv_reg_rden == axi_arready /\ ar # None /\ ~axi_rvalid
AwTaken == aw # None /\ axi_awready
WTaken  == w # None /\ axi_wready
ArTaken == ar # None /\ axi_arready

\* Mutants: the strobe comes with the first word of the key only; it lasts as
\* long as a write is offered.
aes_key_write_first_word == slv_reg_wren /\ axi_awaddr = 12

aes_key_write_while_offered == w # None /\ aw # None /\ axi_awaddr \in KeyRegisters

aes_key       == [r \in KeyRegisters |-> slv_reg[r]]
aes_key_write == slv_reg_wren /\ axi_awaddr \in KeyRegisters

-----------------------------------------------------------------------------
Init ==
  /\ axi_awready = FALSE /\ aw_en = TRUE /\ axi_awaddr = 0
  /\ axi_wready = FALSE /\ axi_bvalid = FALSE
  /\ axi_arready = FALSE /\ axi_araddr = 0
  /\ axi_rvalid = FALSE /\ axi_rdata = Zero
  /\ slv_reg = [r \in Registers |-> Zero]
  /\ aw = None /\ w = None /\ ar = None
  /\ owed_responses = 0 /\ owed_reads = 0 /\ read_promise = None
  /\ strobed = FALSE /\ key_written = FALSE

\* Reset brings everything back, the interconnect with it.
Reset ==
  /\ axi_awready' = FALSE /\ aw_en' = TRUE /\ axi_awaddr' = 0
  /\ axi_wready' = FALSE /\ axi_bvalid' = FALSE
  /\ axi_arready' = FALSE /\ axi_araddr' = 0
  /\ axi_rvalid' = FALSE /\ axi_rdata' = Zero
  /\ slv_reg' = [r \in Registers |-> Zero]
  /\ aw' = None /\ w' = None /\ ar' = None
  /\ owed_responses' = 0 /\ owed_reads' = 0 /\ read_promise' = None
  /\ strobed' = FALSE /\ key_written' = FALSE

-----------------------------------------------------------------------------
(* The write channels *)

\* Mutants: a response does not let the next write in; the next write does not
\* wait for the response.
AddressReadyStaysDown(bready) ==
  \/ /\ ~axi_awready /\ aw # None /\ w # None /\ aw_en
     /\ axi_awready' = TRUE
     /\ aw_en' = FALSE
     /\ axi_awaddr' = aw
  \/ /\ ~(~axi_awready /\ aw # None /\ w # None /\ aw_en)
     /\ axi_awready' = FALSE
     /\ UNCHANGED << aw_en, axi_awaddr >>

AddressReadyNoWait(bready) ==
  /\ axi_awready' = (~axi_awready /\ aw # None /\ w # None)
  /\ axi_awaddr' = IF axi_awready' THEN aw ELSE axi_awaddr
  /\ UNCHANGED aw_en

AddressReady(bready) ==
  \/ /\ ~axi_awready /\ aw # None /\ w # None /\ aw_en
     /\ axi_awready' = TRUE
     /\ aw_en' = FALSE
     /\ axi_awaddr' = aw
  \/ /\ ~(~axi_awready /\ aw # None /\ w # None /\ aw_en)
     /\ axi_awready' = FALSE
     /\ aw_en' = (aw_en \/ (bready /\ axi_bvalid))
     /\ UNCHANGED axi_awaddr

\* Mutant: the word is accepted without its address.
DataReadyAlone == axi_wready' = (~axi_wready /\ w # None /\ aw_en)

DataReady == axi_wready' = (~axi_wready /\ w # None /\ aw # None /\ aw_en)

WriteRegister ==
  slv_reg' = IF slv_reg_wren
             THEN [slv_reg EXCEPT ![axi_awaddr] =
                     [l \in Lanes |-> IF l \in w.strb THEN w.data[l] ELSE @[l]]]
             ELSE slv_reg

Respond(bready) ==
  axi_bvalid' = IF slv_reg_wren /\ ~axi_bvalid THEN TRUE
                ELSE axi_bvalid /\ ~bready

-----------------------------------------------------------------------------
(* The read channels *)

\* Mutants: what is on the address channel is latched before it is valid; the
\* address is not latched.
ReadAddressUnguarded ==
  /\ axi_arready' = ~axi_arready
  /\ axi_araddr' = IF ~axi_arready THEN ar ELSE axi_araddr

ReadAddressNotLatched ==
  /\ axi_arready' = (~axi_arready /\ ar # None)
  /\ UNCHANGED axi_araddr

ReadAddressReady ==
  /\ axi_arready' = (~axi_arready /\ ar # None)
  /\ axi_araddr' = IF ~axi_arready /\ ar # None THEN ar ELSE axi_araddr

\* Mutants: read data are offered for one cycle only; they are offered to a
\* master that is ready at once and to no other.
ReadValidOneCycle(rready) == axi_rvalid' = slv_reg_rden

ReadValidIfReady(rready) ==
  axi_rvalid' = IF slv_reg_rden /\ rready THEN TRUE ELSE axi_rvalid /\ ~rready

ReadValid(rready) ==
  axi_rvalid' = IF slv_reg_rden THEN TRUE ELSE axi_rvalid /\ ~rready

ReadData ==
  axi_rdata' = IF slv_reg_rden THEN slv_reg[axi_araddr] ELSE axi_rdata

-----------------------------------------------------------------------------
(* The master, and what the properties remember *)

MasterWrites ==
  /\ aw' \in IF aw # None /\ ~axi_awready THEN {aw} ELSE Registers \cup {None}
  /\ w'  \in IF w # None /\ ~axi_wready THEN {w} ELSE Beat \cup {None}

MasterReads ==
  /\ ar' \in IF ar # None /\ ~axi_arready THEN {ar} ELSE Registers \cup {None}
  /\ ~Outstanding /\ ar = None /\ ar' # None => owed_reads = 0
  /\ ~Outstanding /\ ArTaken => ar' = None

Remember(bready, rready) ==
  /\ owed_responses' = owed_responses + (IF WTaken THEN 1 ELSE 0)
                                      - (IF axi_bvalid /\ bready THEN 1 ELSE 0)
  /\ owed_reads' = owed_reads + (IF ArTaken THEN 1 ELSE 0)
                              - (IF axi_rvalid /\ rready THEN 1 ELSE 0)
  /\ read_promise' = IF ArTaken THEN slv_reg[ar] ELSE read_promise
  /\ strobed' = aes_key_write
  /\ key_written' = (key_written \/ aes_key_write)

Clock(bready, rready) ==
  /\ AddressReady(bready)
  /\ DataReady
  /\ WriteRegister
  /\ Respond(bready)
  /\ ReadAddressReady
  /\ ReadValid(rready)
  /\ ReadData
  /\ MasterWrites
  /\ MasterReads
  /\ Remember(bready, rready)

Next == (\E bready, rready \in BOOLEAN : Clock(bready, rready)) \/ Reset

Spec == Init /\ [][Next]_vars

\* The clock never stops and the master takes a response it keeps being offered.
TakesResponse == axi_bvalid /\ \E rready \in BOOLEAN : Clock(TRUE, rready)
TakesData     == axi_rvalid /\ \E bready \in BOOLEAN : Clock(bready, TRUE)
ClockRuns     == \E bready, rready \in BOOLEAN : Clock(bready, rready)

FairSpec == /\ Spec
            /\ WF_vars(ClockRuns) /\ WF_vars(TakesResponse) /\ WF_vars(TakesData)

-----------------------------------------------------------------------------
(* Properties *)

\* Every register has its type and the latched addresses name a register.
AxiTypeOK ==
  /\ axi_awready \in BOOLEAN /\ aw_en \in BOOLEAN /\ axi_wready \in BOOLEAN
  /\ axi_bvalid \in BOOLEAN
  /\ axi_awaddr \in Registers \cup {0}
  /\ axi_arready \in BOOLEAN /\ axi_rvalid \in BOOLEAN
  /\ axi_araddr \in Registers \cup {0}
  /\ axi_rdata \in Word
  /\ slv_reg \in [Registers -> Word]
  /\ aw \in Registers \cup {None}
  /\ w \in Beat \cup {None}
  /\ ar \in Registers \cup {None}
  /\ strobed \in BOOLEAN /\ key_written \in BOOLEAN

\* The two halves of a write are accepted in the same cycle, and the address
\* the word goes to is the one accepted with it, although it was latched a
\* cycle earlier by another process.
HandshakesTogether ==
  /\ AwTaken <=> WTaken
  /\ AwTaken => axi_awaddr = aw

\* Every write accepted is responded to exactly once, however long the master
\* leaves the response standing and however early it offers the next write.
ResponsesOwed == owed_responses = IF axi_bvalid THEN 1 ELSE 0

\* aes_v1_0_S00_AXI.v:458-462, "axi_rvalid is asserted ... when both
\* S_AXI_ARVALID and axi_arready are asserted": every read address accepted is
\* answered.
ReadsOwed == owed_reads = IF axi_rvalid THEN 1 ELSE 0

\* Read data are the register's word in the cycle the address was accepted,
\* and stay so until they are taken, whatever is written meanwhile.
ReadsTheRegister == axi_rvalid => axi_rdata = read_promise

Port == INSTANCE KeyPort WITH
          Keys <- [KeyRegisters -> Word], NoKey <- None,
          aes_key <- IF key_written THEN aes_key ELSE None,
          aes_key_write <- strobed

\* The core may rely on its key port: the key changes only with a strobe, in the
\* same cycle, and strobes never come in two cycles running.
ImplementsKeyPort == Port!Spec

\* At most one write is under way: accepted in this cycle, or waiting for its
\* response to be taken, and until then aw_en keeps the next one out.
WriteInv ==
  /\ AxiTypeOK
  /\ axi_awready <=> axi_wready
  /\ axi_awready => /\ aw # None /\ w # None /\ axi_awaddr = aw
                    /\ ~aw_en /\ ~axi_bvalid /\ ~strobed
  /\ axi_bvalid => ~aw_en
  /\ axi_arready => ar # None /\ axi_araddr = ar
  /\ ResponsesOwed

\* A write both halves of which are offered is responded to, unless a reset
\* drops it.
WritesAnswered == aw # None /\ w # None ~> (axi_bvalid \/ (aw = None /\ w = None))

\* A read offered gets its data, unless a reset drops it.
ReadsAnswered == ar # None ~> (axi_rvalid \/ (ar = None /\ owed_reads = 0))
=============================================================================
