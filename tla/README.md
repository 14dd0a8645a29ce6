# Verification of the AES accelerator

TLA+ models, model-checking runs and machine-checked proofs of the AES-128 ECB
accelerator in this repository: a pipelined core (`hdl/`), its AXI-lite key
registers (`ip_repo/aes_1.0/hdl/`), the driver and the demonstration program (`sw/src/`),
and the two software ciphers beside it (`aes.c` and the library in `sw/src/micro-AES/`).

## The system

Software writes a key into four memory-mapped registers and lets two DMA channels
stream blocks through the core. One block can enter each cycle; eleven stages hold
eleven blocks. A key expansion unit derives the round keys into a register file, and
every stage keeps a local copy of its round key. Nothing stalls the expansion unit:
the rounder copies entry *n* just after it was derived. A packet (a stream up to
`tlast`) is to be encrypted with the key that was in the registers when it began,
although software may write the next key at any time.

| component | source | state | operations |
|---|---|---|---|
| key expansion unit | `hdl/KeyExpansion/key_expansion.sv` | register file, last key, two counters, round constant, state | load, derive one key a cycle, restart, finish, reset |
| rounder: transactions | `hdl/aes_rounder.sv:55-78` | idle or ongoing | begin on the first `tvalid`, end on the last word read |
| rounder: refresh | `hdl/aes_rounder.sv:81-127` | idle or syncing, counter, local round keys | acknowledge a key, copy one entry a cycle, restart, finish |
| rounder: pipeline | `hdl/aes_rounder.sv:35-53,135-182` | valid and last bit and block of each stage | advance, stall |
| core | `hdl/aes.sv` | two "key changed" flags | set on a write, clear on acknowledgement |
| AXI-lite slave | `ip_repo/aes_1.0/hdl/aes_v1_0_S00_AXI.v` | handshake registers, 16 word registers | write, respond, read, strobe the core |
| peripheral | `ip_repo/aes_1.0/hdl/aes_v1_0.v` | none of its own | slave and core on one clock and reset, the registers of one wired to the key port of the other |
| datapath | `hdl/aes_round_pe.sv`, `combinatorial_matrix_multiplier.sv`, `lookup_table_256x8.sv`, `tables.svh` | none | one round, one key derivation |
| software cipher | `aes.c` | block, expanded keys | expand, encrypt |
| library cipher | `sw/src/micro-AES/micro_aes.c` | output buffer, static round keys | expand, encrypt the blocks of a buffer |
| driver | `sw/src/aes_hw.c` | position in the caller's buffer, bytes left | init, encrypt, large, non-blocking, flushing |
| DMA engine, cache, memory | external, used by `sw/src/aes_hw.c` | two channels and the words buffered at the core, buffers and their cached copies | start, fetch, store, flush, invalidate, prefetch |
| demonstration | `sw/src/helloworld.c` | buffers, what it prints and compares | flush and invalidate, call the driver, read a file, encrypt it twice and compare |

The parts interact on one clock: the slave's strobe sets both flags of the core; each
flag is cleared by the acknowledgement of the unit it belongs to; the expansion unit
looks at the refresh and transaction state, the refresh at the transaction state, the
stall at both and at the sink. Outside, the DMA channels see the stalls and the
interconnect sees the slave; the driver sees the DMA channels' idle bits and nothing of
the core, and its caller sees what is in memory or in the cache.

What is hard in it, line by line, is the list of hazards in `PROJECT.json`. In short:

* three state machines and two flags must agree on which key a packet has, whatever
  the cycle of the four writes a key consists of;
* the refresh reads entries derived the cycle before, with no handshake;
* three reasons to stall, which may coincide;
* packets that follow each other into the pipeline;
* a software loop that keeps writing keys while a block waits;
* four processes of the slave that act on the same condition, and a word of the key
  accepted by the slave in the very cycle a packet is offered to the core;
* channels that are idle when their last word is in a buffer, not in the core, and
  transfers that a busy channel refuses unnoticed;
* a data cache the DMA engine does not see, looked after by the driver or by its caller;
* bytes: bit-sliced tables, reductions, order of rows, columns and in-place updates.

## Modules

| module | what it models |
|---|---|
| `KeyExpansion` | the expansion unit: one action per branch of its clocked block |
| `AesRounder` | the rounder's two state machines and its pipeline |
| `KeyPort` | what the core sees of the key registers: the abstract slave |
| `Aes` | the core: expansion unit, rounder and flags in one step per clock edge, between `KeyPort` and the DMA channels; the properties |
| `EncryptionStream` | what the core promises: the abstract specification of `Aes` |
| `AesInvariant` | the inductive invariants `KeyInv`, `PacketInv`, `QuietInv` and `OrderInv` |
| `AesProofs` | theorems about `Aes`: the keys, packets that do not overlap, and packets that do with no key written meanwhile; the order of the blocks, and the refinement of `EncryptionStream` |
| `CoreInBytes` | the core with the bytes of its keys and blocks: `Aes` and `RoundLogic` on one clock |
| `CoreInBytesProofs` | theorems about `CoreInBytes`: the bytes are what the symbols of `Aes` stand for, and what leaves the core is FIPS-197's ciphertext |
| `AxiSlave` | the AXI-lite slave and a master that keeps to the protocol; the properties and the inductive invariant `WriteInv` |
| `Peripheral` | `AxiSlave` and the core of `Aes` on one clock, the words of a key coming over the bus |
| `PeripheralProofs` | theorems about `AxiSlave` and `Peripheral` |
| `AesHw` | the driver's functions on the core and the DMA engine, with keys written word by word |
| `HwProofs` | theorems about `AesHw`: its types, and that its core is the core of `Aes` |
| `DriverInvariant` | the inductive invariant `InStep` of the driver with its blocking functions |
| `DriverProofs` | theorems about `AesHw` with the blocking functions: every buffer is encrypted in place |
| `Demonstration` | `main` of the demonstration program on `AesHw` |
| `DemonstrationProofs` | theorems about `Demonstration`: what it prints and compares, and how it calls the driver |
| `Bytes`, `GaloisField`, `AesRounds`, `AesStandard` | bytes, GF(2^8), the transformations of a round and FIPS-197's ciphertext as a function of key and text, and its cipher as a state machine of rounds |
| `AesTables` | tables and byte arithmetic of the hardware, of `aes.c` and of the library |
| `AesBytes` | all three against `GaloisField`, for every byte |
| `RoundLogic` | the combinational logic of the hardware: a round, the derivation of a round key |
| `AesDatapath` | one block through the hardware's stages, with the keys as they are derived |
| `AesSoftware` | `aes_encrypt_block` of `aes.c`, one loop iteration a step |
| `MicroAes` | `AES_ECB_encrypt` of the library on a buffer of blocks, one word of the key or one round a step |
| `Ciphers` | the hardware's stages, `aes.c` and the library on the same keys and texts; the refinements of `AesStandard` |
| `FieldTables` | powers, logarithms and inverses of GF(2^8), for the proofs |
| `AesRoundsProofs` | lemmas on bytes, GF(2^8), the S-box tables, blocks and round keys, the logic of the hardware, and the ten rounds of FIPS-197 |
| `CipherProofs` | theorems about `Ciphers`: each of the three is FIPS-197's AES-128 |
| `TestVectors` | the files of `tb/test1` and `tb/test2` |
| `MCAes`, `MCCoreInBytes`, `MCAxiSlave`, `MCPeripheral`, `MCAesHw`, `MCDemonstration`, `MCCiphers` | instances for TLC |

### How the models correspond to the code

*One step is one clock edge.* Every register of the design has the same clock, so a
step of `Aes` is the conjunction of all its always-blocks: `KeyExpansionClock`,
`RounderClock` (transaction, refresh and pipeline), `FlagsClock`, and the environment
`SlaveClock` and `StreamClock`. Each conjunct is a disjunction with one disjunct per
branch. Wires are operators named as in the source (`stall`, `key_ack`,
`key_consumed`, ...). The inputs of a cycle (a beat offered, its `tlast`, the sink's
`tready`, a key write) are chosen by `\E` in `Next`, and `Reset` may come in any step.

*Symbolic data.* In `Aes` a round key is the pair of its cipher key and its place in
the schedule; deriving from the wrong constant or adding the wrong round's key gives
`NoKey`, which nothing turns into a key again. A block carries its number in the
stream, the key it should get (`want`, never read by the model's logic) and the key
its rounds have used. That is what the control properties tell apart; that the data
operations themselves are AES is the subject of `AesDatapath`. Registers under a cleared
valid bit are `NoBlock`: nothing reads them. `Rounds` is a parameter, 10 in the code.

*The core with its data.* In `CoreInBytes` keys are blocks of sixteen bytes, and beside each
register that `Aes` has a symbol for stands the matrix of bytes it holds: the register file,
`previous_key`, `round_constant`, the local round keys, the pipeline. They are clocked in the
same step (`BytesClock`) under the conditions of the control, and computed by `RoundLogic`
from bytes alone, never from the symbols. The matrices at power-up are arbitrary, as is what
the index behind the end of the constants reads (`BehindTable`). The words taken in since
reset are kept as a history (`texts`), and `DeliversCiphertexts` compares what stands at the
output with the ciphertext of the one next due.

*Power-up and reset.* The register file has no reset in the code and keeps its
contents; the model does the same (`KeyExpansionReset`, `RefreshReset`). Its power-up
contents are `NoRoundKey`. Properties about keys speak of keys written since reset.

*The environment of the core.* The key port changes its value with a strobe only, and
never in two cycles running; that is what `AxiSlave` is proved to provide
(`ImplementsKeyPortCorrect`). A key consists of four words, so each word written is a
new value of the port, and the model allows writes as often as the port does. The
source keeps a beat up until it is accepted, as AXI-stream demands, may pause between
beats, and may give any packet any length; the sink is ready when it likes. Two
constants describe the software: `Overlap` (a packet may be offered while the one
before is in the pipeline) and `WriteWhileBusy` (keys may be written then).
`aes_hw_encrypt` waits for the output channel, so its packets do not overlap;
`aes_hw_encrypt_large` waits for the input channel only, so they do, with no write in
between; `aes_hw_encrypt_nonblocking` waits for nothing.

*The AXI-lite slave.* The master holds an offered address or word until it is
accepted, offers the two in either order, takes responses when it likes and, unless
`Outstanding`, has one read at a time. Words are functions from byte lanes; the two
resp registers are constant and left out.

*The peripheral.* `Peripheral` instantiates the core's operators on the slave's own
variables: `aes_key` is the slave's four registers and `aes_key_write` its strobe, so
nothing of the environment is assumed between the two. What software has written is
kept a second time from its side of the bus, from the addresses and words it offered
(`software_key`), and that is what `AcceptedWordsUsed` compares a block's key with. After
a reset the registers read zero and the core has seen no strobe; the properties' view of
that is `key_port`.

*The driver.* A step of `AesHw` is a step of `Aes`, whose inputs now come from the two
DMA channels and the processor, together with at most one step of the processor: a word
of the key, the start of a channel, the end of a wait, a cache operation. It may take any
number of cycles over each. The DMA engine is external and modelled from its use:
`XAxiDma_SimpleTransfer` refuses a transfer if the channel is busy or the length is zero
or beyond the length register, and the driver ignores that. Between a channel and the core
there is a buffer of `BufferDepth` words. The channel to the core is idle when its last
word is in that buffer, which the core may empty much later; the buffer behind the core
takes words whether or not a transfer is under way, and the channel from the core is idle
when a word with `tlast` is in memory. A processor's writes are taken to arrive in
program order. Keys are functions from words, and the reset value of a word is kept
apart from a zero word software writes. Every call has a buffer of its own, filled in
the cache before a flushing function and in memory before the others; lines of a buffer
may be fetched into the cache at any time of the call. A call is not made of the small
functions for more than one transfer holds, as `aes_hw.h:16` asks.

*The demonstration.* `Demonstration` adds `main` to the steps of the processor of
`AesHw`, whose `CallDriver` it replaces with its own three calls. A buffer it has filled
is in the cache (`"dirty"`) until it or the driver writes it back; a line that was fetched
during a transfer keeps the memory of that moment (`copy`), and that is what the
processor then reads (`SeenByProcessor`). The file's size is chosen from a set that has 0
in it, which is also what a failed open or read amounts to. What the library computes of
the file is taken as its ciphertext here; that it is, is the subject of `MicroAes`.

*Bytes.* `AesDatapath` keeps the matrices `[column][row]` of `tables.svh`;
`AesSoftware` the memory order of `aes.c`, for a little-endian host as the comment in
line 91 asks; `MicroAes` a buffer of blocks, encrypted in place one after the other, with
the macros for the other modes of the library expanded as for ECB with 128-bit keys. All
are mapped to the block of `AesStandard`. The hardware variant
without ROM primitives (`aes_round_pe.sv:25-49`) is not built, since `tables.svh`
defines `USE_ROM_INTRINSICS`, and not modelled.

## What is checked

| run | properties | instance |
|---|---|---|
| `core_safety` | `TypeOK`, `ReadyInTime`, `KeyExpansionAhead`, `LocalKeysCurrent`, `KeyCommitted`, `TransactionCovers`, `ExactlyOnce`, `KeyInv`, `PacketInv`, `EncryptsTheStream` | 2 rounds, 2 keys, 4 blocks, no overlap, writes any time |
| `core_overlap` | `ExactlyOnce`, `DeliversCiphertexts`, `EncryptsTheStream` | bytes: 2 rounds, 2 keys and 2 texts of the test benches, 3 blocks, overlap, writes between packets |
| `core_liveness` | `OfferTaken`, `BlocksDelivered`, `KeyTakesHold` | 1 round, 2 keys, 3 blocks |
| `axi_slave` | `AxiTypeOK`, `HandshakesTogether`, `ResponsesOwed`, `ReadsOwed`, `ReadsTheRegister`, `WriteInv`, `ImplementsKeyPort`, `WritesAnswered`, `ReadsAnswered` | 3 registers (two of the key), 1 lane of 2 values |
| `peripheral` | `AcceptedWordsUsed`, `ImplementsCore` | 2 key registers of 1 lane of 2 values, 1 round, 2 blocks, no overlap, no reads |
| `ciphers` | `SubstitutionsStandard`, `ScalingsAreProducts`, `KnownAnswers`, `SoftwareIsStandard`, `EcbIsStandard`, `DatapathIsStandard` | all 256 bytes, a row of 16 in each state; 3 keys and 6 texts, the library with buffers of two blocks, the second any of the texts |
| `driver` | `HwTypeOK`, `EncryptedInPlace`, `UsesTheCoreSafely`, `CallsReturn` | 1 round, keys of 2 words, `aes_hw_init` and 2 calls of 0, 5 or 8 blocks, 7 to a transfer, buffers of 1 word at the core |
| `demonstration` | `PrintsCiphertext`, `SoftwareAndHardwareMatch`, `UsesTheDriverAsAsked` | 2 rounds, keys of 2 words, files of 0, 17 and 112 bytes, 3 blocks to a transfer, buffers of 2 words |

Four runs end in a counterexample, where the code does not do what the repository
says of it; each is a finding in `PROJECT.json`:

* `core_overlap_key`: with overlapping packets and writes in between, a block is
  encrypted with parts of two keys, or with the one before. README.md:208 promises the
  key available when the packet starts; the transaction machine knows no second packet.
* `core_overlap_duplicate`: in the same situation the stall for an acknowledgement
  leaves `write_tvalid` up, and a block of the second packet is delivered twice.
* `axi_outstanding`: a read address offered while data are pending is accepted and
  dropped.
* `driver_nonblocking`: `aes_hw_encrypt` after `aes_hw_encrypt_nonblocking` can return
  with its buffer untouched, as the channel from the core is still busy, refuses the
  transfer and is then waited for.

The run `peripheral` closes the gap between the core's key port and the bus: a block has
used exactly the words accepted before its packet was offered, also when a word is
accepted in that cycle, and the core behind the slave is the core of the other runs
(`ImplementsCore`), so their results carry over to it. The run `demonstration` shows that
`main` asks of the driver only what the run `driver` takes its caller to ask
(`UsesTheDriverAsAsked`). With an empty file the comparison is over no block and
`helloworld.c` reports a match; that is what it does, and no document promises otherwise.

The run `driver` shows that the blocking functions keep clear of the first two:
`UsesTheCoreSafely` says that they implement `Aes` with `WriteWhileBusy` false, which is
what `core_overlap` assumes. One more thing came up: `tb/test2/cipher2` is the
encryption of `text2` under the key of `tb/test1` (`KnownAnswers` says so), not under
`key2`; `tb_rounder.sv` ends at line 99, before it would load them.

**Bounds.** With *r* rounds the pipeline has *r*+1 stages, the expansion takes *r*
cycles and the refresh *r*+1. Two rounds are the least with a first, a middle and a
last stage, so that a restart of the expansion meets a refresh at its beginning, in the
middle and at its end. Two keys tell an old key from a new one; a third
write repeats the first key and no comparison in the design depends on that.
`MaxBlocks` bounds the blocks between two resets; four blocks fill a pipeline of three
stages with one more waiting, or make up to four packets with a key written between any
two, and three give the runs with overlapping packets a packet on each side of a middle one.
The run in bytes compares with a cipher of as many rounds as it has, made of the same
transformations as FIPS-197's ten (`Ciphertext`); the run `ciphers` has all ten.
Nothing in the core counts blocks. The theorems have no such bounds. For the slave, two
key registers and one other are enough for a write to the wrong one to show, and a lane
of two values for an old word and a new one. The liveness run needs the fewest rounds:
it is about the flags, the stall and the transaction, none of which counts rounds. In
the driver's instance a transfer of seven blocks is longer than the pipeline of two stages
and the buffers on both sides of it, so that a channel cannot finish without the other;
eight blocks take a second transfer of one block, which then meets the first in the
pipeline, and five are one transfer of the large functions that is not full. Two calls
after the dummy one give a key to replace and one to be replaced. The demonstration has
just its own three calls; 112 bytes make it three transfers of the file, 17 a last block
that is not full. For the peripheral, one round and one block behind another are enough
for a word to arrive before, in and after each cycle of a packet; the rounds are the
matter of the runs of the core, and the theorems have no bounds.

**Fairness.** The clock runs (`ClockRuns`). The sink takes a word it keeps being
offered (`SinkTakes`): the output channel drains into memory. A source that has begun
a packet goes on with it (`SourceGoesOn`): a DMA transfer once started runs to its
end. Resets and key writes are never forced, nor forbidden. For the slave: the clock,
and a master that in the end takes a response or data it is offered. For the driver: the clock (`HwClockRuns`), a
processor that goes on with a call (`ProcessorGoesOn`), channels that fetch and store
within a transfer (`Mm2sFetches`, `S2mmStores`), and buffers that offer what they have and
take what they have room for (`Mm2sOffers`, `S2mmTakes`). None of them forces a call or a
transfer to be started. `KeyTakesHold`
assumes in its own statement that writing stops.

## What is proved

`AesProofs` proves for every number of rounds up to 14, every set of keys and any
number of blocks:

* `KeyInvariance`: `KeyInv`, from which follow `TypeCorrect`, `ReadyInTimeCorrect`,
  `KeyExpansionAheadCorrect` and `LocalKeysCurrentCorrect`. These hold of overlapping
  packets too. `LocalKeysCurrent` says nothing of the way there; to be inductive it
  needs that the counters, the constant and the last key are in step
  (`ExpansionRunning`, `ExpansionDone`), that the expansion hears of a key no later than
  the rounder (`PendingTogether`), that a key no longer pending has been loaded
  (`KeyLoaded`), and that a refresh is behind the expansion and of one schedule
  (`RefreshBehind`). The core of the argument is `AckWithExpansion`: when the rounder
  acknowledges a key the expansion unit takes it in the same cycle or has taken it, so
  both start together and the refresh stays one entry behind.
* `PacketInvariance`: `PacketInv`, assuming `~Overlap`, from which follow
  `KeyCommittedCorrect` and `TransactionCoversCorrect`. `BlocksOfPacket` says that the
  blocks in the pipeline have the packet's key so far, and that during a refresh they are
  two stages behind it, so no stage is refreshed under a block; `TransactionKey` that
  the local keys are or become the packet's key; `OnePacket` that the transaction ends
  with the packet and the pipeline is empty then.

It then takes overlapping packets in, under the weakest condition that keeps the two
findings away: `~Overlap \/ ~WriteWhileBusy`.

* `QuietInvariance`: `QuietInv`, assuming `~WriteWhileBusy`. With no key written while
  blocks are offered or in flight every block is for the key in the registers
  (`BlocksOfRegisters`), and a written key is acknowledged before anything else happens
  (`PendingAlone`). Whether packets overlap does not matter then.
* `KeyCommittedUnderDiscipline` and `ExactlyOnceCorrect` follow under either discipline.
  The latter needs `OrderInv`, which says of the numbers of the blocks that the pipeline
  holds every one from the next due to the last taken in, older ones further on; it is
  inductive as long as nothing but the sink stalls a pipeline with blocks in it (`Flows`),
  which is what both disciplines have in common.
* `EncryptsTheStreamCorrect`: the refinement of `EncryptionStream`, whose state is the
  sequence of blocks in flight. `CountInFlight` and `RankByPlace` say that a block's rank
  in that sequence is its distance from the oldest, so that a step of the pipeline
  appends, removes the head, or leaves the sequence as it is.

`CoreInBytesProofs` puts the bytes under the symbols, for up to ten rounds, any keys, any
texts and any contents of the registers at power-up. It is where the theorems about control
and the theorems about bytes meet.

* `ImplementsAes`: a step of `CoreInBytes` is a step of `Aes`, so all that `AesProofs` proves
  holds of it.
* `DataInvariance`: `DataInv`. Where `Aes` says that a register holds round key *n* of a
  cipher key, its matrix is `KeySchedule(key, Rounds)[n]` (`ExpansionInBytes`,
  `LocalKeysInBytes`); where it says that a block in stage *i* has used one key all along,
  its matrix is the text taken in with its number after *i* rounds under that key,
  `Encryption(key, text, Rounds)[i]` (`BlocksInBytes`); and the texts are as many as the
  blocks taken in (`TextsTaken`). Under `NoRoundKey` and `NoKey` nothing is said of the bytes.
  This needs no discipline of the software: with overlapping packets and keys written at
  any time the symbols still tell the truth about the bytes. It does need `KeyInv`, which
  says that the round constant is the one for the entry derived next.
* `DeliversCiphertextsCorrect`, under either discipline: by `KeyCommitted` the block at the
  output has used its packet's key in every stage, by `ExactlyOnce` its number is that of
  the text next due, and by `DataInv` its bytes are then the ciphertext.

A round of the hardware on matrices is FIPS-197's on blocks (`RoundOfMatrix`,
`NextKeyMatrix` in `AesRoundsProofs`), whose lemmas `KeySchedules` and `Encryptions` unfold
the recursion of the standard, a round at a time, for at most ten rounds; `StepByStep`
builds the function that the recursive definition names, so nothing is assumed of it.

`PeripheralProofs` proves of the slave, for any registers, lanes and bytes `WriteInv` (at most one write is
under way between its acceptance and its response), from it `HandshakesTogetherCorrect` and
`ResponsesOwedCorrect`, and the refinement `ImplementsKeyPortCorrect`: every step of the
slave is a step of `KeyPort` or leaves it as it is. That is the assumption under which
`Aes` is modelled. For a master with one read at a time (`~Outstanding`) it proves
`ReadsOwedCorrect` and `ReadsTheRegisterCorrect` from `ReadInv`: an accepted address is
followed by its data in the next cycle, from the register as it was.

It then composes slave and core: `ImplementsCoreCorrect` (a step of the peripheral is
a step of `Aes`, the key port being implemented by the slave) and, from
`KeyCommittedCorrect` and the slave's invariant, `AcceptedWordsUsedCorrect` for packets
that do not overlap. `PortInv` says that the registers hold the words as software
offered them, lane by lane, from the end of the cycle in which they were accepted.

`HwProofs` proves for any calls, sizes, length registers and buffer depths `HwInvariance`
and from it `HwTypeCorrect`: driver and channels stay within the caller's buffer.
`TransferFits` is the arithmetic of the split: a transfer is a number of whole blocks, no
more than are left. `CoreCycle` says that a cycle under the driver is a cycle of the core,
from which `DriverOnCore`: what is proved of `Aes` for all environments holds under it.

`DriverProofs` proves the driver's own promises of its blocking functions: for every
sequence and size of calls, any keys, words of a key, length register and buffer depth.

* `DrivenInvariance`: the invariant `Driven`, that is `HwInv`, `QuietInv`, `OrderInv` and
  `InStep`. The driver sees two idle bits only, so `InStep` has to say where every block
  of the call is: those the channel to the core has fetched and the channel from the core
  has not stored are in a buffer or in the pipeline, in the order of the caller's buffer
  (`ChannelsInStep`, `WordsInStep`), with `tlast` at the ends of transfers and nowhere else;
  the registers hold the key of the call (`RegistersInStep`), so that what comes out is
  its ciphertext; and memory is encrypted up to the channel's place (`MemoryInStep`). It is
  what shows that an idle output channel means an empty pipeline, on which `aes_hw.c`
  relies, and that a transfer of a large call ends with its own last block although the
  next one may be in the pipeline behind it.
  Only with that are the writes of the next key quiet in the sense of `QuietInv`, and only
  with `QuietInv` are the blocks in the pipeline encrypted with one key: so the three
  are one induction.
* `EncryptedInPlaceCorrect` follows from `MemoryInStep`; `DriverStream` says that
  `KeyCommitted` and `ExactlyOnce` hold under the driver, although its packets overlap;
  and `UsesTheCoreSafelyCorrect` that the driver implements `Aes` with `WriteWhileBusy`
  false, so that all that is proved of that core holds under it.

Their assumption `BlockingProgram` is that the non-blocking function is not called (the
run `driver_nonblocking` is the counterexample otherwise), that the length register can
hold a block, and that keys are functions on their words; the instance of the run
`driver` satisfies it.

`DemonstrationProofs` proves the promises of `main` from those of the driver, for every set
of file sizes, length register and buffer depth.

* `DemonstrationInvariance`: `Driven` and `MainInv`. `MainInv` says which calls `main` has
  made at each of its places (`CallsOfMain`), where its buffer is at the moment and who looks
  after the cache (`BuffersOfMain`: dirty until flushed, then in memory, absent after the
  invalidation, so that no line fetched during the transfer is left to read), and what has
  become of the results (`ResultsOfMain`). A step of `main` is one that `AesHw` lets its
  software take, so the driver's invariant holds under it and gives `MainInv` the ciphertext
  in memory when a call returns.
* From it `UsesTheDriverAsAskedCorrect` (the refinement of `AesHw` with its blocking
  functions), `PrintsCiphertextCorrect` and `SoftwareAndHardwareMatchCorrect`.

Their assumption `DemonstrationProgram` is `BlockingProgram`, that the functions and sizes
`main` uses are among those of `AesHw`, that the two blocks of test 1 fit in one transfer,
and that there may be three calls; the instance of the run `demonstration` satisfies it.

`CipherProofs` proves that the three ciphers are FIPS-197's AES-128, for every key and text,
in four layers of which the first three are the lemmas of `AesRoundsProofs`:

* *Bytes.* A byte is its eight bits, and exclusive or adds them modulo 2 (`XorBits`); so
  bytes are a group, and doubling is linear (`DoubleXor`).
* *The field.* FIPS-197's S-box takes the reciprocal in GF(2^8), which `GaloisField` defines
  as the byte with the product 1 and which cannot be evaluated for all bytes by the provers
  (65536 products, each a recursion over eight bits). Instead, the powers of 3 are in a table
  (`FieldTables`); one linear fact, that a factor of 3 can be taken out of a product
  (`TimesTriple`), gives `ProductOfPowers`, that products add exponents modulo 255; so
  reciprocals are opposite exponents (`InversesAreReciprocals`). The affine map of a
  reciprocal, bit for bit, is then the entry of the source's tables (`TableIsStandard`).
  From this follow `SubstitutionsStandardCorrect`, the bit-sliced ROMs included, and
  `ScalingsAreProductsCorrect`. The S-box and the inverses are data, 256 entries each; the
  tables of powers and of inverses are not assumed to be right, their use is proved.
* *Blocks and keys.* A mixed column, byte for byte (`MixColumnsBytes`); a round key as a chain
  of four columns that each add a word to the one before (`ChainedKey`), which is what every
  implementation makes, one word or one column at a time, and which determines it
  (`ChainIsNextRoundKey`).
* *Refinements.* `SoftwareIsStandardCorrect` from `SoftwareInv` (the keys so far follow from
  one another, and the word ready for the next was made of the last), and
  `DatapathIsStandardCorrect` from `HardwareInv` (the matrices are matrices of bytes and the
  round constant is the one of the stage). `EcbIsStandardCorrect` needs `MicroInv`: inside a
  key, the columns before the current word follow from one another, those after it are still
  copies of the key before, and the round constant, which leaves its byte after eight keys
  and is then replaced by 27, is the one of the next first column (`ExpandedTo`); once
  expanded, the array stays as it is while block after block is encrypted. For `b` blocks
  that is `b` refinements at once, and a step moves at most one of them.
* `CiphertextsAgreeCorrect`: `AgreementInv` says that each of the three is at its place on
  the one run of rounds (`Run`) that begins with the key and text they were all given, so all
  end with `Ciphertext(key, text, 10)`, the very function that `DeliversCiphertexts` has of
  the core. This is why `main` may compare the accelerator with the
  library, and the test benches the accelerator with files.

* `KnownAnswersCorrect`: on the inputs of the test benches' files all three end with the
  ciphertexts of the files, as `Ciphertext` does. That FIPS-197's ciphertext of a particular
  key and text is the one in the file is a computation, not an argument: it is the named
  assumption `StandardAnswers` of `Ciphers`, which has no constants and which TLC evaluates
  in the run `ciphers`.

The other assumption is `CiphersAssumption`: keys and texts are blocks, and a buffer has at
least one.

The proofs assume what the modules' named assumptions say: 1 to 14 rounds (the counters
have four bits and go to the number of rounds plus one; up to 10 where the bytes matter, as
there are ten constants), keys, texts and power-up contents of `CoreInBytes` are blocks,
`NoKey` is no key, `None` is no
register, beat, word or key, the constants of the software are Boolean, keys are closed
under replacing a word by one of a key the driver writes, and a length register has at
least one value that is not zero.

**Only model-checked:** liveness (`OfferTaken`, `BlocksDelivered`, `KeyTakesHold`,
`WritesAnswered`, `ReadsAnswered`, `CallsReturn`), which is beyond the prover, as ENABLED
is; and the one computation `StandardAnswers`. Every safety property and refinement that
the passing runs check is also a theorem.

## Plan

1. (done) The core, its abstract stream, the slave, the ciphers; the invariants of keys
   and packets as theorems.
2. (done) The peripheral: slave and core composed, run and theorems.
3. (done) The driver on the core and a DMA engine with buffers; driver and channels
   within the buffers as a theorem.
4. (done) `ExactlyOnce`, the refinement of `EncryptionStream`, the slave's read channels
   and overlapping packets without writes, as theorems.
5. (done) The library cipher and the demonstration program.
6. (done) The driver's promises, `EncryptedInPlace` and `UsesTheCoreSafely`, as theorems,
   with the core it shares: driver, channels and core in one inductive invariant.
7. (done) The promises of the demonstration as theorems; the S-boxes and multipliers for
   every byte, and the refinements of FIPS-197 by the three ciphers for every key and text.
8. (done) The two halves composed: the core on bytes, run and theorems, up to the promise
   that what leaves the accelerator is the ciphertext under the key of the packet.

## Not modelled

* Generated and vendored code: the Vivado project, the packaged copies of `hdl/`, netlists,
  the interconnect and DMA IP with their simulation models (`sim/*.cpp`, `sim/*.h`,
  `mem_init_files/`), the processing system's start-up tables (`ps7_init.c`,
  `ps7_init_gpl.c`: lists of register writes) and `platform.c`. This is nearly all of the
  repository's C by lines; none of it is the design's logic, and a model of a list of
  register writes would have nothing to check it against.
* The other modes of the library and its decryption (CBC, CTR, GCM, ... in
  `micro_aes.c`): nothing in the repository calls them.
* Timing closure, power-up values of the register file and metastability are not visible
  at this level. The hardware variant without ROM primitives is not built.
* Messages and times of the demonstration program, and the printing of `aes.c`. A failed
  mount, open or read is only printed by `helloworld.c`, and is modelled as a file of no
  bytes.
* `tb_key_expansion.sv` drives ports the expansion unit no longer has; `tb_rounder.sv`
  gives the vectors of `TestVectors`, and its stimuli are among the free inputs of `Aes`.
