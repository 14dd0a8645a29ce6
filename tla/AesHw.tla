-------------------------------- MODULE AesHw --------------------------------
(***************************************************************************)
(* The driver (sw/src/aes_hw.c) on the accelerator: a processor that calls *)
(* its functions one after the other, the two channels of the DMA engine,  *)
(* and the core, cycle by cycle.  A key is written word by word, so the    *)
(* core sees keys half of whose words are old.                             *)
(*                                                                         *)
(* Every call gets a buffer of its own, in memory (dram) and in the data   *)
(* cache, which the DMA engine does not see.  The text of block i of call  *)
(* c is << c, i >>.                                                        *)
(***************************************************************************)
EXTENDS Aes

CONSTANTS
  Words,       \* the words of a key
  ZeroKey,     \* the key aes_hw_init writes
  CipherKeys,  \* the keys of the calls; a key is a function on Words
  Functions,   \* the functions of the driver that software calls
  Sizes,       \* the values of n_blocks
  LengthWidth, \* width of the DMA engine's length registers
  BufferDepth, \* words buffered between a channel of the DMA engine and the core
  MaxCalls     \* bound of the model: calls after a reset, aes_hw_init's one included

AllFunctions == { "aes_hw_encrypt", "aes_hw_encrypt_large",
                  "aes_hw_encrypt_flushing", "aes_hw_encrypt_flushing_large",
                  "aes_hw_encrypt_nonblocking" }

ASSUME FunctionsAssumption   == Functions \subseteq AllFunctions
ASSUME BufferDepthAssumption == BufferDepth \in Nat \ {0}
ASSUME SizesAssumption       == Sizes \subseteq Nat
ASSUME LengthAssumption      == LengthWidth \in Nat /\ 2^LengthWidth \in Nat \ {0}
ASSUME KeysAssumption        ==
  /\ {ZeroKey} \cup CipherKeys \subseteq Keys
  /\ \A old \in Keys \cup {NoKey}, key \in {ZeroKey} \cup CipherKeys, w \in Words :
       [old EXCEPT ![w] = key[w]] \in Keys

VARIABLES
  pc,              \* where the processor is in the call
  calls,           \* the calls since reset; the last one is under way or returned
  words_left,      \* the words of the key still to be written
  bytes_remaining, \* of the call
  inout,           \* blocks of the buffer handed to the DMA engine
  mm2s, s2mm,      \* the channels to the core and from it
  to_core,         \* the words between the one and the core, with their tlast
  from_core,       \* and between the core and the other
  fetched,         \* the texts the core has accepted, by their place in the stream
  dram,            \* the buffers of the calls
  cache            \* the copies of them in the data cache

driverVars == << pc, calls, words_left, bytes_remaining, inout >>
dmaVars    == << mm2s, s2mm, to_core, from_core, fetched, dram >>
hwVars     == << vars, driverVars, dmaVars, cache >>

Large(c)    == calls[c].fn \in {"aes_hw_encrypt_large", "aes_hw_encrypt_flushing_large"}
Flushing(c) == calls[c].fn \in {"aes_hw_encrypt_flushing", "aes_hw_encrypt_flushing_large"}
Blocking(c) == calls[c].fn # "aes_hw_encrypt_nonblocking"

current  == Len(calls)
Returned(c) == c < current \/ pc = "returned"

Text(c)       == [i \in 1..calls[c].n_blocks |-> [text |-> << c, i >>, key |-> NoKey]]
Ciphertext(c) == [i \in 1..calls[c].n_blocks |-> [text |-> << c, i >>, key |-> calls[c].key]]
\* Memory before the lines of a buffer just filled have left the cache.
Unwritten(n)  == [i \in 1..n |-> [text |-> << 0, 0 >>, key |-> NoKey]]

\* The bytes of the next transfer: all, or as many whole blocks as fit.
max_dma_size == 2^LengthWidth - 1

LargeTransfer ==
  LET fitting == IF bytes_remaining > max_dma_size THEN max_dma_size ELSE bytes_remaining
      rounded == (fitting \div 16) * 16
  IN  IF rounded = 0 THEN 16 ELSE rounded

transfer == IF Large(current) THEN LargeTransfer ELSE bytes_remaining

-----------------------------------------------------------------------------
(* The DMA engine, as the driver's calls of XAxiDma see it. *)

IdleChannel == [busy |-> FALSE, buffer |-> 0, next |-> 1, end |-> 0]

\* A transfer is refused by a busy channel and if its length does not fit the
\* register; the driver does not look at the result.
XAxiDma_SimpleTransfer(channel, bytes) ==
  IF channel.busy \/ bytes \notin 1..max_dma_size THEN channel
  ELSE [busy |-> TRUE, buffer |-> current, next |-> inout + 1, end |-> inout + bytes \div 16]

\* A channel past the word it is at.
Advanced(channel, busy) ==
  [busy |-> busy, buffer |-> channel.buffer, next |-> channel.next + 1, end |-> channel.end]

\* The channel fetches a word into the buffer, which has one on the stream.
Mm2sMay(fetching, tvalid) ==
  /\ fetching => mm2s.busy /\ Len(to_core) < BufferDepth
  /\ tvalid => to_core # << >>

tlast(tvalid) == tvalid /\ Head(to_core).last

\* A channel is done when the last word of its transfer is in the buffer, which
\* the core may empty much later.
Mm2sClock(tvalid, tready, fetching, step) ==
  LET accepting == tvalid /\ tready
      rest      == IF accepting THEN Tail(to_core) ELSE to_core
  IN  /\ fetched' = IF accepting THEN Append(fetched, Head(to_core).text) ELSE fetched
      /\ IF fetching
         THEN /\ mm2s' = Advanced(mm2s, mm2s.next # mm2s.end)
              /\ to_core' = Append(rest, [text |-> dram[mm2s.buffer][mm2s.next].text,
                                          last |-> mm2s.next = mm2s.end])
         ELSE /\ mm2s' = CASE step = "reset" -> IdleChannel
                           [] step = "mm2s"  -> XAxiDma_SimpleTransfer(mm2s, transfer)
                           [] OTHER          -> mm2s
              /\ to_core' = rest

\* The buffer behind the core takes words although no transfer is under way, the
\* channel only within one.
S2mmMay(wready, storing) ==
  /\ wready => Len(from_core) < BufferDepth
  /\ storing => s2mm.busy /\ s2mm.next <= s2mm.end /\ from_core # << >>

\* A transfer from the core ends with the packet.
S2mmClock(wready, storing, step) ==
  LET rest == IF storing THEN Tail(from_core) ELSE from_core
  IN  /\ s2mm' = IF storing
                 THEN Advanced(s2mm, ~Head(from_core).last)
                 ELSE CASE step = "reset" -> IdleChannel
                        [] step = "s2mm"  -> XAxiDma_SimpleTransfer(s2mm, transfer)
                        [] OTHER          -> s2mm
      /\ from_core' = IF wready /\ write_tvalid
                      THEN Append(rest, [text |-> fetched[data_matrix_out.id + 1],
                                         key  |-> data_matrix_out.key,
                                         last |-> write_tlast])
                      ELSE rest

\* Memory mem after this cycle's word from the core.
Stored(mem, storing) ==
  IF storing
  THEN [mem EXCEPT ![s2mm.buffer][s2mm.next] =
          [text |-> Head(from_core).text, key |-> Head(from_core).key]]
  ELSE mem

-----------------------------------------------------------------------------
(* The processor: in a cycle it does nothing or takes one step of a call.  *)

ProcessorIdle(step, storing) ==
  /\ step = "none"
  /\ dram' = Stored(dram, storing)
  /\ UNCHANGED << driverVars, cache >>

\* A line of a buffer under way may be fetched into the cache at any time.
Prefetch(step, storing) ==
  /\ step = "prefetch"
  /\ pc \notin {"init", "reset", "returned"}
  /\ cache[current] = "absent"
  /\ cache' = [cache EXCEPT ![current] = "clean"]
  /\ dram' = Stored(dram, storing)
  /\ UNCHANGED driverVars

Call(fn, key, n_blocks) ==
  /\ calls' = Append(calls, [fn |-> fn, key |-> key, n_blocks |-> n_blocks])
  /\ words_left' = Words
  /\ bytes_remaining' = n_blocks * 16
  /\ inout' = 0

\* aes_hw.h:16 asks for the large functions beyond one transfer's length.
MayCall(fn, n_blocks) ==
  n_blocks * 16 > max_dma_size =>
    fn \in {"aes_hw_encrypt_large", "aes_hw_encrypt_flushing_large"}

\* The caller has filled the buffer; unless the driver is to write the cache
\* back, the caller has done so.
CallDriver(step, storing) ==
  /\ step = "call"
  /\ pc = "returned"
  /\ current < MaxCalls
  /\ \E fn \in Functions, key \in CipherKeys, n_blocks \in Sizes :
       MayCall(fn, n_blocks) /\ Call(fn, key, n_blocks)
  /\ IF Flushing(current)'
     THEN /\ pc' = "flush"
          /\ dram' = Stored(Append(dram, Unwritten(calls'[current'].n_blocks)), storing)
          /\ cache' = Append(cache, "dirty")
     ELSE /\ pc' = "key"
          /\ dram' = Stored(Append(dram, Text(current)'), storing)
          /\ cache' = Append(cache, "absent")

\* Xil_DCacheFlushRange.
Flush(step, storing) ==
  /\ step = "flush"
  /\ pc = "flush"
  /\ pc' = "key"
  /\ dram' = Stored([dram EXCEPT ![current] = Text(current)], storing)
  /\ cache' = [cache EXCEPT ![current] = "absent"]
  /\ UNCHANGED << calls, words_left, bytes_remaining, inout >>

AfterKey == IF Large(current) /\ bytes_remaining = 0 THEN "wait" ELSE "mm2s"

\* One word of the key, in any order of the words.
WriteKeyWord(step, key, storing) ==
  /\ step = "key"
  /\ pc \in {"init", "key"}
  /\ \E w \in words_left :
       /\ key = [aes_key EXCEPT ![w] = IF pc = "init" THEN ZeroKey[w] ELSE calls[current].key[w]]
       /\ words_left' = words_left \ {w}
  /\ pc' = IF words_left' # {} THEN pc ELSE IF pc = "init" THEN "reset" ELSE AfterKey
  /\ dram' = Stored(dram, storing)
  /\ UNCHANGED << calls, bytes_remaining, inout, cache >>

\* aes_hw_init resets the DMA engine and encrypts a dummy.
ResetDma(step, storing) ==
  /\ step = "reset"
  /\ pc = "reset"
  /\ Call("aes_hw_encrypt", ZeroKey, 1)
  /\ pc' = "key"
  /\ dram' = Stored(Append(dram, Text(current)'), storing)
  /\ cache' = Append(cache, "absent")

StartMm2s(step, storing) ==
  /\ step = "mm2s"
  /\ pc = "mm2s"
  /\ Large(current) => ~mm2s.busy
  /\ pc' = "s2mm"
  /\ dram' = Stored(dram, storing)
  /\ UNCHANGED << calls, words_left, bytes_remaining, inout, cache >>

\* Mutant: the channel from the core is started when the one to it is done.
StartS2mmAfterMm2s(step, storing) ==
  /\ step = "s2mm"
  /\ pc = "s2mm"
  /\ ~mm2s.busy
  /\ bytes_remaining' = bytes_remaining - transfer
  /\ inout' = inout + transfer \div 16
  /\ pc' = IF bytes_remaining' > 0 THEN "mm2s"
           ELSE IF Blocking(current) THEN "wait" ELSE "returned"
  /\ dram' = Stored(dram, storing)
  /\ UNCHANGED << calls, words_left, cache >>

\* Mutant: every transfer counts as one of the largest size.
StartS2mmCountingMost(step, storing) ==
  /\ step = "s2mm"
  /\ pc = "s2mm"
  /\ Large(current) => ~s2mm.busy
  /\ bytes_remaining' = bytes_remaining - max_dma_size
  /\ inout' = inout + transfer \div 16
  /\ pc' = IF bytes_remaining' > 0 THEN "mm2s"
           ELSE IF Blocking(current) THEN "wait" ELSE "returned"
  /\ dram' = Stored(dram, storing)
  /\ UNCHANGED << calls, words_left, cache >>

StartS2mm(step, storing) ==
  /\ step = "s2mm"
  /\ pc = "s2mm"
  /\ Large(current) => ~s2mm.busy
  /\ bytes_remaining' = bytes_remaining - transfer
  /\ inout' = inout + transfer \div 16
  /\ pc' = IF bytes_remaining' > 0 THEN "mm2s"
           ELSE IF Blocking(current) THEN "wait" ELSE "returned"
  /\ dram' = Stored(dram, storing)
  /\ UNCHANGED << calls, words_left, cache >>

\* Mutant: the call returns when all its blocks are in the core.
WaitForMm2s(step, storing) ==
  /\ step = "wait"
  /\ pc = "wait"
  /\ ~mm2s.busy
  /\ pc' = IF Flushing(current) THEN "invalidate" ELSE "returned"
  /\ dram' = Stored(dram, storing)
  /\ UNCHANGED << calls, words_left, bytes_remaining, inout, cache >>

WaitForS2mm(step, storing) ==
  /\ step = "wait"
  /\ pc = "wait"
  /\ ~s2mm.busy
  /\ pc' = IF Flushing(current) THEN "invalidate" ELSE "returned"
  /\ dram' = Stored(dram, storing)
  /\ UNCHANGED << calls, words_left, bytes_remaining, inout, cache >>

\* Mutant: the buffer is left in the cache.
InvalidateNothing(step, storing) ==
  /\ step = "invalidate"
  /\ pc = "invalidate"
  /\ pc' = "returned"
  /\ dram' = Stored(dram, storing)
  /\ UNCHANGED << calls, words_left, bytes_remaining, inout, cache >>

\* Xil_DCacheInvalidateRange.
Invalidate(step, storing) ==
  /\ step = "invalidate"
  /\ pc = "invalidate"
  /\ pc' = "returned"
  /\ dram' = Stored(dram, storing)
  /\ cache' = [cache EXCEPT ![current] = "absent"]
  /\ UNCHANGED << calls, words_left, bytes_remaining, inout >>

\* What the driver leaves to the caller, the caller may do after the call.
InvalidateByCaller(step, storing) ==
  /\ step = "invalidate"
  /\ pc = "returned"
  /\ current > 0
  /\ dram' = Stored(dram, storing)
  /\ cache' = [cache EXCEPT ![current] = "absent"]
  /\ UNCHANGED driverVars

-----------------------------------------------------------------------------
HwInit ==
  /\ Init
  /\ pc = "init"
  /\ calls = << >>
  /\ words_left = Words
  /\ bytes_remaining = 0
  /\ inout = 0
  /\ mm2s = IdleChannel
  /\ s2mm = IdleChannel
  /\ to_core = << >>
  /\ from_core = << >>
  /\ fetched = << >>
  /\ dram = << >>
  /\ cache = << >>

Processor(step, key, storing) ==
  \/ ProcessorIdle(step, storing)
  \/ Prefetch(step, storing)
  \/ CallDriver(step, storing)
  \/ Flush(step, storing)
  \/ WriteKeyWord(step, key, storing)
  \/ ResetDma(step, storing)
  \/ StartMm2s(step, storing)
  \/ StartS2mm(step, storing)
  \/ WaitForS2mm(step, storing)
  \/ Invalidate(step, storing)
  \/ InvalidateByCaller(step, storing)

Steps == { "none", "prefetch", "call", "flush", "key", "reset", "mm2s", "s2mm",
           "wait", "invalidate" }

HwClock(tvalid, wready, fetching, storing, step, key) ==
  /\ Mm2sMay(fetching, tvalid)
  /\ S2mmMay(wready, storing)
  /\ Processor(step, key, storing)
  /\ Clock(tvalid, tlast(tvalid), wready, step = "key", key)
  /\ Mm2sClock(tvalid, read_tready(wready), fetching, step)
  /\ S2mmClock(wready, storing, step)

\* The keys this cycle may leave in the registers.
KeysWritten ==
  IF pc \in {"init", "key"}
  THEN LET k == IF pc = "init" THEN ZeroKey ELSE calls[current].key
       IN  {[aes_key EXCEPT ![w] = k[w]] : w \in words_left}
  ELSE {aes_key}

HwReset ==
  /\ Reset
  /\ pc' = "init"
  /\ calls' = << >>
  /\ words_left' = Words
  /\ bytes_remaining' = 0
  /\ inout' = 0
  /\ mm2s' = IdleChannel
  /\ s2mm' = IdleChannel
  /\ to_core' = << >>
  /\ from_core' = << >>
  /\ fetched' = << >>
  /\ dram' = << >>
  /\ cache' = << >>

HwNext ==
  \/ \E tvalid, wready, fetching, storing \in BOOLEAN, step \in Steps,
        key \in KeysWritten :
       HwClock(tvalid, wready, fetching, storing, step, key)
  \/ HwReset

HwSpec == HwInit /\ [][HwNext]_hwVars

\* The clock runs, the processor goes on with a call, a transfer goes on, and a
\* buffer offers what it holds and takes what it has room for.  Resets are not
\* forced.
HwClockRuns ==
  \E tvalid, wready, fetching, storing \in BOOLEAN, step \in Steps,
     key \in KeysWritten :
    HwClock(tvalid, wready, fetching, storing, step, key)
ProcessorGoesOn ==
  /\ pc # "returned"
  /\ \E tvalid, wready, fetching, storing \in BOOLEAN, key \in KeysWritten,
        step \in Steps \ {"none", "prefetch"} :
       HwClock(tvalid, wready, fetching, storing, step, key)
Mm2sFetches ==
  \E tvalid, wready, storing \in BOOLEAN, step \in Steps, key \in KeysWritten :
    HwClock(tvalid, wready, TRUE, storing, step, key)
Mm2sOffers ==
  \E wready, fetching, storing \in BOOLEAN, step \in Steps, key \in KeysWritten :
    HwClock(TRUE, wready, fetching, storing, step, key)
S2mmTakes ==
  /\ write_tvalid
  /\ \E tvalid, fetching, storing \in BOOLEAN, step \in Steps, key \in KeysWritten :
       HwClock(tvalid, TRUE, fetching, storing, step, key)
S2mmStores ==
  \E tvalid, wready, fetching \in BOOLEAN, step \in Steps, key \in KeysWritten :
    HwClock(tvalid, wready, fetching, TRUE, step, key)

HwFairSpec ==
  /\ HwSpec
  /\ WF_hwVars(HwClockRuns)
  /\ WF_hwVars(ProcessorGoesOn)
  /\ WF_hwVars(Mm2sFetches)
  /\ WF_hwVars(Mm2sOffers)
  /\ WF_hwVars(S2mmTakes)
  /\ WF_hwVars(S2mmStores)

-----------------------------------------------------------------------------
(* Properties *)

\* A channel at work is within the buffer of the call it was started for.
WithinBuffer(channel) ==
  /\ channel.next \in 1..(channel.end + 1)
  /\ channel.busy => /\ channel.buffer \in 1..current
                     /\ channel.end <= calls[channel.buffer].n_blocks

\* The driver's pointer and the bytes it has left stay in step, and neither they
\* nor a channel leave the caller's buffer, whatever lengths the transfers of a
\* call get.
HwTypeOK ==
  /\ TypeOK
  /\ pc \in {"init", "reset", "returned", "flush", "key", "mm2s", "s2mm", "wait", "invalidate"}
  /\ words_left \subseteq Words
  /\ inout \in Nat /\ bytes_remaining \in Nat
  /\ current > 0 => 16 * inout + bytes_remaining = 16 * calls[current].n_blocks
  /\ WithinBuffer(mm2s) /\ WithinBuffer(s2mm)
  /\ Len(to_core) <= BufferDepth /\ Len(from_core) <= BufferDepth
  /\ Len(fetched) = accepted
  /\ Len(dram) = current /\ Len(cache) = current

\* aes_hw.h:11, "in place encryption": when a blocking function returns, every block
\* of its buffer is in memory, encrypted with the call's key and none of the keys
\* or half-written keys before it, and a flushing function leaves no copy from
\* before the transfer in the cache.
EncryptedInPlace ==
  \A c \in 1..current :
    Returned(c) /\ Blocking(c) =>
      /\ dram[c] = Ciphertext(c)
      /\ Flushing(c) => cache[c] = "absent"

\* With the blocking functions alone the driver uses the core as the guarantees
\* for overlapping packets ask: no word of a key is written while a packet is
\* offered or in the pipeline.
Disciplined == INSTANCE Aes WITH WriteWhileBusy <- FALSE
UsesTheCoreSafely == Disciplined!Spec

\* A call returns, although its two transfers wait for each other's blocks in a
\* pipeline shorter than they are, unless a reset ends it.
CallsReturn == pc \notin {"init", "returned"} ~> pc \in {"init", "returned"}
=============================================================================
