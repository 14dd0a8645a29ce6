------------------------------ MODULE HwProofs ------------------------------
(***************************************************************************)
(* Proof that the driver and the channels of the DMA engine stay within    *)
(* the buffers of the calls, for every number and size of calls, length    *)
(* register and depth of the buffers at the core.                          *)
(***************************************************************************)
EXTENDS AesHw, AesProofs

-----------------------------------------------------------------------------
(* Queues of entries of any kind *)

IsQueue(s) == s \in Seq({s[n] : n \in 1..Len(s)})

LEMMA SequenceIsQueue ==
  ASSUME NEW S, NEW s \in Seq(S)
  PROVE  IsQueue(s)
<1>1. Len(s) \in Nat /\ s = [n \in 1..Len(s) |-> s[n]]
  BY LenProperties
<1> DEFINE len == Len(s)
           T == {s[n] : n \in 1..len}
<1> HIDE DEF len
<1>2. len \in Nat /\ s = [n \in 1..len |-> s[n]]
  BY <1>1 DEF len
<1>3. s \in [1..len -> T]
  BY <1>2
<1>4. s \in Seq(T)
  BY <1>2, <1>3, SeqDef
<1> QED
  BY <1>4 DEF IsQueue, len

LEMMA QueueAppend ==
  ASSUME NEW s, IsQueue(s), NEW e
  PROVE  /\ IsQueue(Append(s, e))
         /\ Len(s) \in Nat
         /\ Len(Append(s, e)) = Len(s) + 1
         /\ \A n \in 1..Len(s) : Append(s, e)[n] = s[n]
         /\ Append(s, e)[Len(s) + 1] = e
<1> DEFINE S == {s[n] : n \in 1..Len(s)} \cup {e}
<1>1. s \in Seq(S)
  BY SeqMonotonic DEF IsQueue
<1>2. e \in S
  OBVIOUS
<1> HIDE DEF S
<1>3. /\ Append(s, e) \in Seq(S)
      /\ Len(Append(s, e)) = Len(s) + 1
      /\ \A n \in 1..Len(s) : Append(s, e)[n] = s[n]
      /\ Append(s, e)[Len(s) + 1] = e
  BY <1>1, <1>2, AppendProperties
<1>4. IsQueue(Append(s, e))
  BY <1>3, SequenceIsQueue
<1>5. Len(s) \in Nat
  BY <1>1, LenProperties
<1> QED
  BY <1>3, <1>4, <1>5

LEMMA QueueTail ==
  ASSUME NEW s, IsQueue(s), s # << >>
  PROVE  /\ IsQueue(Tail(s))
         /\ Len(s) \in Nat
         /\ Len(Tail(s)) = Len(s) - 1
<1>1. s \in Seq({s[n] : n \in 1..Len(s)})
  BY DEF IsQueue
<1> QED
  BY <1>1, HeadTailProperties, LenProperties, SequenceIsQueue

Replaced(s, i, e) == [s EXCEPT ![i] = e]

LEMMA QueueExcept ==
  ASSUME NEW s, IsQueue(s), NEW i, NEW e
  PROVE  IsQueue(Replaced(s, i, e)) /\ Len(Replaced(s, i, e)) = Len(s)
<1> DEFINE S == {s[n] : n \in 1..Len(s)} \cup {e}
           t == Replaced(s, i, e)
<1>1. s \in Seq(S)
  BY SeqMonotonic DEF IsQueue
<1>2. Len(s) \in Nat /\ s \in [1..Len(s) -> S] /\ e \in S
  BY <1>1, LenProperties
<1>3. t \in [1..Len(s) -> S]
  BY <1>2 DEF Replaced
<1>4. t \in Seq(S) /\ Len(t) = Len(s)
  <2> HIDE DEF t, S
  <2> QED
    BY <1>2, <1>3, FunctionIsQueue
<1> HIDE DEF t, S
<1>5. IsQueue(t)
  BY <1>4, SequenceIsQueue
<1> QED
  BY <1>4, <1>5 DEF t

LEMMA EmptyQueue == IsQueue(<< >>) /\ Len(<< >>) = 0
  BY EmptySeq, SequenceIsQueue

-----------------------------------------------------------------------------
(* The driver *)

Pcs == {"init", "reset", "returned", "flush", "key", "mm2s", "s2mm", "wait", "invalidate"}
CallKeys == {ZeroKey} \cup CipherKeys

\* What the processor's state is at every step of a call.
DriverInv ==
  /\ pc \in Pcs
  /\ words_left \subseteq Words
  /\ inout \in Nat /\ bytes_remaining \in Nat
  /\ IsQueue(calls) /\ IsQueue(dram) /\ IsQueue(cache)
  /\ Len(dram) = current /\ Len(cache) = current
  /\ current = 0 <=> pc \in {"init", "reset"}
  /\ \A c \in 1..current : calls[c].n_blocks \in Nat /\ calls[c].key \in CallKeys
  /\ current > 0 => 16 * inout + bytes_remaining = 16 * calls[current].n_blocks
  /\ pc \in {"mm2s", "s2mm"} /\ Large(current) => bytes_remaining > 0

\* A transfer is a number of whole blocks and no more than the call has left.
LEMMA TransferFits ==
  ASSUME DriverInv, pc \in {"mm2s", "s2mm"}
  PROVE  /\ transfer \in Nat
         /\ transfer \div 16 \in Nat
         /\ 16 * (transfer \div 16) = transfer
         /\ transfer <= bytes_remaining
<1> DEFINE n == calls[current].n_blocks
<1>1. /\ inout \in Nat /\ bytes_remaining \in Nat /\ n \in Nat
      /\ bytes_remaining = 16 * (n - inout)
      /\ Large(current) => bytes_remaining > 0
  <2>1. Len(calls) \in Nat /\ current > 0
    BY LenProperties DEF DriverInv, IsQueue, current
  <2> QED
    BY <2>1 DEF DriverInv
<1> HIDE DEF n
<1>2. CASE Large(current)
  <2> DEFINE fitting == IF bytes_remaining > max_dma_size THEN max_dma_size ELSE bytes_remaining
             blocks_fitting == fitting \div 16
  <2>1. max_dma_size \in Nat
    BY LengthAssumption DEF max_dma_size
  <2>2. fitting \in Nat /\ fitting <= bytes_remaining
    BY <1>1, <2>1
  <2> HIDE DEF fitting
  <2>3. blocks_fitting \in Nat /\ 16 * blocks_fitting <= fitting
    BY <2>2
  <2> HIDE DEF blocks_fitting
  <2>4. transfer = IF blocks_fitting * 16 = 0 THEN 16 ELSE blocks_fitting * 16
    BY <1>2 DEF transfer, LargeTransfer, fitting, blocks_fitting
  <2> QED
    <3>1. transfer \div 16 = IF blocks_fitting = 0 THEN 1 ELSE blocks_fitting
      BY <2>3, <2>4
    <3>2. bytes_remaining >= 16
      BY <1>1, <1>2
    <3> QED
      BY <1>1, <2>2, <2>3, <2>4, <3>1, <3>2
<1>3. CASE ~Large(current)
  <2>1. transfer = bytes_remaining
    BY <1>3 DEF transfer
  <2>2. bytes_remaining \div 16 = n - inout
    BY <1>1
  <2> QED
    BY <1>1, <2>1, <2>2
<1> QED
  BY <1>2, <1>3
\* What the channel from the core stores leaves every buffer where it is.
LEMMA StoredQueue ==
  ASSUME NEW mem, IsQueue(mem), NEW storing
  PROVE  IsQueue(Stored(mem, storing)) /\ Len(Stored(mem, storing)) = Len(mem)
<1> DEFINE word == [text |-> Head(from_core).text, key |-> Head(from_core).key]
           buffer == [mem[s2mm.buffer] EXCEPT ![s2mm.next] = word]
<1>1. Stored(mem, storing) = IF storing THEN Replaced(mem, s2mm.buffer, buffer) ELSE mem
  BY DEF Stored, Replaced
<1> HIDE DEF buffer
<1> QED
  BY <1>1, QueueExcept

\* A step within a call leaves the calls as they are.
LEMMA WithinCall ==
  ASSUME DriverInv, NEW storing, UNCHANGED calls,
         NEW mem, IsQueue(mem), Len(mem) = current, dram' = Stored(mem, storing),
         \/ UNCHANGED cache
         \/ \E copy : cache' = Replaced(cache, current, copy),
         pc' \in Pcs, pc \in {"init", "reset"} <=> pc' \in {"init", "reset"},
         words_left' \subseteq Words,
         inout' \in Nat, bytes_remaining' \in Nat,
         current > 0 => 16 * inout' + bytes_remaining' = 16 * calls[current].n_blocks,
         pc' \in {"mm2s", "s2mm"} /\ Large(current) => bytes_remaining' > 0
  PROVE  DriverInv'
<1>1. current' = current /\ IsQueue(calls)' /\ (Large(current)' <=> Large(current))
  BY DEF DriverInv, current, Large
<1>2. IsQueue(dram') /\ Len(dram') = current
  BY StoredQueue
<1>3. IsQueue(cache') /\ Len(cache') = current
  BY QueueExcept DEF DriverInv
<1> QED
  BY <1>1, <1>2, <1>3 DEF DriverInv, IsQueue

\* A call appended to the calls, with a buffer of its own.
LEMMA CallStep ==
  ASSUME DriverInv, NEW fn, NEW key \in CallKeys, NEW n_blocks \in Nat, Call(fn, key, n_blocks),
         NEW text, NEW copy, NEW storing,
         dram' = Stored(Append(dram, text), storing),
         cache' = Append(cache, copy),
         pc' \in {"flush", "key"}
  PROVE  /\ DriverInv'
         /\ current' = current + 1
         /\ \A c \in 1..current : calls'[c] = calls[c]
<1> DEFINE call == [fn |-> fn, key |-> key, n_blocks |-> n_blocks]
<1>1. calls' = Append(calls, call) /\ words_left' = Words
      /\ bytes_remaining' = n_blocks * 16 /\ inout' = 0
  BY DEF Call
<1>2. /\ IsQueue(calls') /\ current \in Nat /\ current' = current + 1
      /\ \A c \in 1..current : calls'[c] = calls[c]
      /\ calls'[current + 1] = call
  BY <1>1, QueueAppend DEF DriverInv, current
<1>3. IsQueue(dram') /\ Len(dram') = current + 1
  <2>1. IsQueue(Append(dram, text)) /\ Len(Append(dram, text)) = current + 1
    BY QueueAppend DEF DriverInv
  <2> QED
    BY <2>1, StoredQueue
<1>4. IsQueue(cache') /\ Len(cache') = current + 1
  BY QueueAppend DEF DriverInv
<1>5. \A c \in 1..(current + 1) : calls'[c].n_blocks \in Nat /\ calls'[c].key \in CallKeys
  <2> SUFFICES ASSUME NEW c \in 1..(current + 1)
               PROVE  calls'[c].n_blocks \in Nat /\ calls'[c].key \in CallKeys
    OBVIOUS
  <2>1. CASE c \in 1..current
    BY <1>2, <2>1 DEF DriverInv
  <2>2. CASE c = current + 1
    BY <1>2, <2>2
  <2> QED
    BY <1>2, <2>1, <2>2
<1>6. 16 * inout' + bytes_remaining' = 16 * calls'[current'].n_blocks
  <2>1. calls'[current'].n_blocks = n_blocks
    BY <1>2
  <2>2. n_blocks * 16 = 16 * n_blocks /\ 16 * 0 + 16 * n_blocks = 16 * n_blocks
    OBVIOUS
  <2>3. 16 * inout' + bytes_remaining' = 16 * 0 + n_blocks * 16
    BY <1>1
  <2> QED
    BY <2>1, <2>2, <2>3
<1> HIDE DEF call
<1> QED
  <2>1. /\ pc' \in Pcs /\ words_left' \subseteq Words
        /\ inout' \in Nat /\ bytes_remaining' \in Nat
    BY <1>1 DEF Pcs
  <2>2. current' # 0 /\ pc' \notin {"init", "reset"} /\ pc' \notin {"mm2s", "s2mm"}
    BY <1>2
  <2>3. \A c \in 1..current' : calls'[c].n_blocks \in Nat /\ calls'[c].key \in CallKeys
    BY <1>2, <1>5
  <2>4. IsQueue(calls)' /\ IsQueue(dram)' /\ IsQueue(cache)'
    BY <1>2, <1>3, <1>4 DEF IsQueue
  <2>5. Len(dram') = current' /\ Len(cache') = current'
    BY <1>2, <1>3, <1>4
  <2>6. DriverInv'
    BY <1>6, <2>1, <2>2, <2>3, <2>4, <2>5 DEF DriverInv, CallKeys
  <2> QED
    BY <1>2, <2>6
\* What a step of the processor means to the channels.
LEMMA ProcessorStep ==
  ASSUME DriverInv, NEW step, NEW key, NEW storing, Processor(step, key, storing)
  PROVE  /\ DriverInv'
         /\ current <= current'
         /\ \A c \in 1..current : calls'[c] = calls[c]
         /\ step = "mm2s" => pc = "mm2s"
         /\ step = "s2mm" => pc = "s2mm"
         /\ step = "key" => WriteKeyWord(step, key, storing)
<1> DEFINE names == /\ step = "mm2s" => pc = "mm2s"
                    /\ step = "s2mm" => pc = "s2mm"
                    /\ step = "key" => WriteKeyWord(step, key, storing)
<1>0. IsQueue(calls) /\ Len(calls) \in Nat
  BY LenProperties DEF DriverInv, IsQueue
<1>1. /\ IsQueue(dram) /\ Len(dram) = current
      /\ current \in Nat
      /\ pc \in Pcs /\ (current > 0 <=> pc \notin {"init", "reset"})
      /\ words_left \subseteq Words /\ inout \in Nat /\ bytes_remaining \in Nat
      /\ current > 0 => calls[current].n_blocks \in Nat
      /\ current > 0 => 16 * inout + bytes_remaining = 16 * calls[current].n_blocks
      /\ pc \in {"mm2s", "s2mm"} /\ Large(current) => bytes_remaining > 0
  <2>1. /\ IsQueue(dram) /\ Len(dram) = current
        /\ pc \in Pcs /\ words_left \subseteq Words
        /\ inout \in Nat /\ bytes_remaining \in Nat
        /\ current > 0 => 16 * inout + bytes_remaining = 16 * calls[current].n_blocks
        /\ pc \in {"mm2s", "s2mm"} /\ Large(current) => bytes_remaining > 0
    BY DEF DriverInv
  <2>2. current \in Nat
    BY <1>0 DEF current
  <2>3. current > 0 <=> pc \notin {"init", "reset"}
    BY <2>2 DEF DriverInv
  <2>4. current > 0 => calls[current].n_blocks \in Nat
    BY <2>2 DEF DriverInv
  <2> QED
    BY <2>1, <2>2, <2>3, <2>4
<1>2. UNCHANGED calls => current' = current /\ \A c \in 1..current : calls'[c] = calls[c]
  BY DEF current
<1>3. CASE ProcessorIdle(step, storing)
  BY <1>1, <1>2, <1>3, WithinCall DEF ProcessorIdle, driverVars
<1>4. CASE Prefetch(step, storing)
  <2>1. cache' = Replaced(cache, current, "clean")
    BY <1>4 DEF Prefetch, Replaced
  <2> QED
    BY <1>1, <1>2, <1>4, <2>1, WithinCall DEF Prefetch, driverVars
<1>5. CASE CallDriver(step, storing)
  <2>1. PICK fn \in Functions, k \in CipherKeys, n \in Sizes : Call(fn, k, n)
    BY <1>5 DEF CallDriver
  <2>2. k \in CallKeys /\ n \in Nat
    BY SizesAssumption DEF CallKeys
  <2>3. \E text, copy : /\ dram' = Stored(Append(dram, text), storing)
                        /\ cache' = Append(cache, copy)
                        /\ pc' \in {"flush", "key"}
    BY <1>5 DEF CallDriver
  <2>4. names
    BY <1>5 DEF CallDriver
  <2> QED
    BY <1>1, <2>1, <2>2, <2>3, <2>4, CallStep
<1>6. CASE Flush(step, storing)
  <2>1. IsQueue(Replaced(dram, current, Text(current)))
        /\ Len(Replaced(dram, current, Text(current))) = current
    BY <1>1, QueueExcept
  <2>2. /\ dram' = Stored(Replaced(dram, current, Text(current)), storing)
        /\ cache' = Replaced(cache, current, "absent")
    BY <1>6 DEF Flush, Replaced
  <2>3. /\ pc = "flush" /\ pc' = "key" /\ step = "flush"
        /\ UNCHANGED << calls, words_left, bytes_remaining, inout >>
    BY <1>6 DEF Flush
  <2>4. DriverInv'
    BY <1>1, <2>1, <2>2, <2>3, WithinCall DEF Pcs
  <2> QED
    BY <1>1, <1>2, <2>3, <2>4
<1>7. CASE WriteKeyWord(step, key, storing)
  <2>1. /\ step = "key" /\ pc \in {"init", "key"}
        /\ words_left' \subseteq words_left
        /\ pc' = IF words_left' # {} THEN pc ELSE IF pc = "init" THEN "reset" ELSE AfterKey
        /\ dram' = Stored(dram, storing)
        /\ UNCHANGED << calls, bytes_remaining, inout, cache >>
    BY <1>7 DEF WriteKeyWord
  <2>2. pc' \in Pcs /\ (pc \in {"init", "reset"} <=> pc' \in {"init", "reset"})
    BY <2>1 DEF AfterKey, Pcs
  <2>3. pc' \in {"mm2s", "s2mm"} /\ Large(current) => bytes_remaining' > 0
    BY <1>1, <2>1 DEF AfterKey
  <2> QED
    BY <1>1, <1>2, <1>7, <2>1, <2>2, <2>3, WithinCall
<1>8. CASE ResetDma(step, storing)
  <2>1. ZeroKey \in CallKeys
    BY DEF CallKeys
  <2> QED
    BY <1>1, <1>8, <2>1, CallStep DEF ResetDma
<1>9. CASE StartMm2s(step, storing)
  BY <1>1, <1>2, <1>9, WithinCall DEF StartMm2s, Pcs
<1>10. CASE StartS2mm(step, storing)
  <2>1. /\ step = "s2mm" /\ pc = "s2mm"
        /\ bytes_remaining' = bytes_remaining - transfer
        /\ inout' = inout + transfer \div 16
        /\ pc' = IF bytes_remaining' > 0 THEN "mm2s"
                 ELSE IF Blocking(current) THEN "wait" ELSE "returned"
        /\ dram' = Stored(dram, storing)
        /\ UNCHANGED << calls, words_left, cache >>
    BY <1>10 DEF StartS2mm
  <2>2. /\ transfer \in Nat /\ transfer \div 16 \in Nat
        /\ 16 * (transfer \div 16) = transfer /\ transfer <= bytes_remaining
    BY <2>1, TransferFits
  <2>3. /\ inout' \in Nat /\ bytes_remaining' \in Nat
        /\ 16 * inout' + bytes_remaining' = 16 * calls[current].n_blocks
    <3> DEFINE n == calls[current].n_blocks
    <3>1. n \in Nat /\ 16 * inout + bytes_remaining = 16 * n
      BY <1>1, <2>1
    <3> HIDE DEF n
    <3>2. /\ inout' \in Nat /\ bytes_remaining' \in Nat
          /\ 16 * inout' + bytes_remaining' = 16 * n
      BY <1>1, <2>1, <2>2, <3>1
    <3> QED
      BY <3>2 DEF n
  <2> QED
    BY <1>1, <1>2, <2>1, <2>3, WithinCall DEF Pcs
<1>11. CASE WaitForS2mm(step, storing)
  BY <1>1, <1>2, <1>11, WithinCall DEF WaitForS2mm, Pcs
<1>12. CASE Invalidate(step, storing)
  <2>1. cache' = Replaced(cache, current, "absent")
    BY <1>12 DEF Invalidate, Replaced
  <2> QED
    BY <1>1, <1>2, <1>12, <2>1, WithinCall DEF Invalidate, Pcs
<1>13. CASE InvalidateByCaller(step, storing)
  <2>1. cache' = Replaced(cache, current, "absent")
    BY <1>13 DEF InvalidateByCaller, Replaced
  <2> QED
    BY <1>1, <1>2, <1>13, <2>1, WithinCall DEF InvalidateByCaller, driverVars
<1> QED
  BY <1>3, <1>4, <1>5, <1>6, <1>7, <1>8, <1>9, <1>10, <1>11, <1>12, <1>13 DEF Processor

-----------------------------------------------------------------------------
(* The channels and their buffers at the core *)

Channel == [busy : BOOLEAN, buffer : Nat, next : Nat, end : Nat]

\* A channel is within its buffer; the one to the core is done with the last
\* word of its transfer.
DmaInv ==
  /\ mm2s \in Channel /\ s2mm \in Channel
  /\ WithinBuffer(mm2s) /\ WithinBuffer(s2mm)
  /\ mm2s.busy => mm2s.next <= mm2s.end
  /\ IsQueue(to_core) /\ IsQueue(from_core) /\ IsQueue(fetched)
  /\ Len(to_core) <= BufferDepth /\ Len(from_core) <= BufferDepth
  /\ Len(fetched) = accepted

\* A transfer is started within the buffer of the call, or not at all.
LEMMA StartWithin ==
  ASSUME DriverInv, pc \in {"mm2s", "s2mm"},
         NEW channel \in Channel, WithinBuffer(channel)
  PROVE  LET started == XAxiDma_SimpleTransfer(channel, transfer)
         IN  /\ started \in Channel
             /\ WithinBuffer(started)
             /\ started = channel \/ started.next <= started.end
<1> DEFINE blocks_of == transfer \div 16
           started == XAxiDma_SimpleTransfer(channel, transfer)
           n == calls[current].n_blocks
<1>1. /\ transfer \in Nat /\ blocks_of \in Nat
      /\ 16 * blocks_of = transfer /\ transfer <= bytes_remaining
  BY TransferFits
<1>2. /\ current \in Nat /\ current > 0 /\ inout \in Nat /\ bytes_remaining \in Nat
      /\ n \in Nat /\ 16 * inout + bytes_remaining = 16 * n
  <2>1. Len(calls) \in Nat /\ current # 0
    BY LenProperties DEF DriverInv, IsQueue
  <2> QED
    BY <2>1 DEF DriverInv, current
<1> HIDE DEF n
<1>3. inout + blocks_of <= n
  BY <1>1, <1>2
<1>4. CASE channel.busy \/ transfer \notin 1..max_dma_size
  BY <1>4 DEF XAxiDma_SimpleTransfer
<1>5. CASE ~(channel.busy \/ transfer \notin 1..max_dma_size)
  <2>1. transfer >= 1
    BY <1>1, <1>5, LengthAssumption DEF max_dma_size
  <2>2. blocks_of >= 1
    BY <1>1, <2>1
  <2>3. started = [busy |-> TRUE, buffer |-> current, next |-> inout + 1, end |-> inout + blocks_of]
    BY <1>5 DEF XAxiDma_SimpleTransfer
  <2> HIDE DEF started, blocks_of
  <2>4. started \in Channel /\ started.next <= started.end
    BY <1>1, <1>2, <2>2, <2>3 DEF Channel
  <2>5. started.next \in 1..(started.end + 1) /\ started.buffer \in 1..current
    BY <1>1, <1>2, <2>3
  <2>6. started.end <= calls[started.buffer].n_blocks
    BY <1>3, <2>3 DEF n
  <2> QED
    BY <2>4, <2>5, <2>6 DEF WithinBuffer, started
<1> QED
  BY <1>4, <1>5

\* The calls to come leave the buffers of the earlier ones as they are.
WithinAfter(channel) ==
  /\ channel.next \in 1..(channel.end + 1)
  /\ channel.busy => /\ channel.buffer \in 1..current'
                     /\ channel.end <= calls'[channel.buffer].n_blocks

LEMMA StaysWithin ==
  ASSUME NEW channel \in Channel, WithinBuffer(channel),
         current \in Nat, current' \in Nat, current <= current',
         \A c \in 1..current : calls'[c] = calls[c]
  PROVE  WithinAfter(channel)
  BY DEF WithinBuffer, WithinAfter, Channel

\* A channel at work stores or fetches a word and goes on, or is done.
LEMMA MovesOn ==
  ASSUME NEW channel \in Channel, WithinAfter(channel), channel.busy,
         channel.next <= channel.end, NEW on \in BOOLEAN,
         NEW moved, moved = Advanced(channel, on)
  PROVE  /\ moved \in Channel /\ WithinAfter(moved)
         /\ moved.next = channel.next + 1 /\ moved.end = channel.end /\ moved.busy = on
<1>1. /\ moved \in Channel
      /\ moved.next = channel.next + 1 /\ moved.end = channel.end /\ moved.busy = on
      /\ moved.buffer = channel.buffer
      /\ channel.next \in Nat /\ channel.end \in Nat
  BY DEF Channel, Advanced
<1>2. moved.next \in 1..(moved.end + 1)
  BY <1>1 DEF WithinAfter
<1> QED
  BY <1>1, <1>2 DEF WithinAfter

\* The channel to the core, in a cycle.
LEMMA Mm2sStep ==
  ASSUME DriverInv, DmaInv, NEW step, NEW tvalid, NEW tready, NEW fetching \in BOOLEAN,
         Mm2sMay(fetching, tvalid), Mm2sClock(tvalid, tready, fetching, step),
         step = "mm2s" => pc = "mm2s",
         current \in Nat, current' \in Nat, current <= current',
         \A c \in 1..current : calls'[c] = calls[c]
  PROVE  mm2s' \in Channel /\ WithinAfter(mm2s') /\ (mm2s'.busy => mm2s'.next <= mm2s'.end)
<1>1. mm2s \in Channel /\ WithinBuffer(mm2s) /\ (mm2s.busy => mm2s.next <= mm2s.end)
  BY DEF DmaInv
<1>2. CASE fetching
  <2>1. /\ mm2s' = Advanced(mm2s, mm2s.next # mm2s.end)
        /\ mm2s.busy
    BY <1>2 DEF Mm2sMay, Mm2sClock
  <2>2. WithinAfter(mm2s)
    BY <1>1, StaysWithin
  <2>3. /\ mm2s' \in Channel /\ WithinAfter(mm2s')
        /\ mm2s'.next = mm2s.next + 1 /\ mm2s'.end = mm2s.end
        /\ mm2s'.busy = (mm2s.next # mm2s.end)
    BY <1>1, <2>1, <2>2, MovesOn
  <2>4. mm2s.next \in Nat /\ mm2s.end \in Nat
    BY <1>1 DEF Channel
  <2>5. mm2s'.busy => mm2s.next # mm2s.end
    BY <2>3, Zenon
  <2>6. mm2s.next <= mm2s.end
    BY <1>1, <2>1
  <2> QED
    BY <2>3, <2>4, <2>5, <2>6
<1>3. CASE ~fetching
  <2> DEFINE started == XAxiDma_SimpleTransfer(mm2s, transfer)
  <2>1. \/ mm2s' = IdleChannel
        \/ mm2s' = started /\ pc = "mm2s"
        \/ mm2s' = mm2s
    <3>1. mm2s' = CASE step = "reset" -> IdleChannel
                    [] step = "mm2s"  -> started
                    [] OTHER          -> mm2s
      BY <1>3 DEF Mm2sClock
    <3> HIDE DEF started
    <3>2. CASE step = "reset"
      BY <3>1, <3>2
    <3>3. CASE step = "mm2s"
      BY <3>1, <3>3
    <3>4. CASE step # "reset" /\ step # "mm2s"
      BY <3>1, <3>4
    <3> QED
      BY <3>2, <3>3, <3>4
  <2>2. CASE mm2s' = IdleChannel
    BY <2>2 DEF IdleChannel, Channel, WithinAfter
  <2>3. CASE mm2s' = started /\ pc = "mm2s"
    <3>1. started \in Channel /\ WithinBuffer(started) /\ (started.busy => started.next <= started.end)
      BY <1>1, <2>3, StartWithin
    <3> HIDE DEF started
    <3> QED
      BY <2>3, <3>1, StaysWithin
  <2>4. CASE mm2s' = mm2s
    BY <1>1, <2>4, StaysWithin
  <2> QED
    BY <2>1, <2>2, <2>3, <2>4
<1> QED
  BY <1>2, <1>3

\* And the channel from it.
LEMMA S2mmStep ==
  ASSUME DriverInv, DmaInv, NEW step, NEW wready, NEW storing \in BOOLEAN,
         S2mmMay(wready, storing), S2mmClock(wready, storing, step),
         step = "s2mm" => pc = "s2mm",
         current \in Nat, current' \in Nat, current <= current',
         \A c \in 1..current : calls'[c] = calls[c]
  PROVE  s2mm' \in Channel /\ WithinAfter(s2mm')
<1>1. s2mm \in Channel /\ WithinBuffer(s2mm)
  BY DEF DmaInv
<1>2. CASE storing
  <2> DEFINE on == ~Head(from_core).last
  <2>1. s2mm' = Advanced(s2mm, on)
    BY <1>2 DEF S2mmClock
  <2>2. s2mm.busy /\ s2mm.next <= s2mm.end
    BY <1>2 DEF S2mmMay
  <2>3. on \in BOOLEAN
    OBVIOUS
  <2>4. WithinAfter(s2mm)
    BY <1>1, StaysWithin
  <2> HIDE DEF on
  <2> QED
    BY <1>1, <2>1, <2>2, <2>3, <2>4, MovesOn
<1>3. CASE ~storing
  <2> DEFINE started == XAxiDma_SimpleTransfer(s2mm, transfer)
  <2>1. \/ s2mm' = IdleChannel
        \/ s2mm' = started /\ pc = "s2mm"
        \/ s2mm' = s2mm
    <3>1. s2mm' = CASE step = "reset" -> IdleChannel
                    [] step = "s2mm"  -> started
                    [] OTHER          -> s2mm
      BY <1>3 DEF S2mmClock
    <3> HIDE DEF started
    <3>2. CASE step = "reset"
      BY <3>1, <3>2
    <3>3. CASE step = "s2mm"
      BY <3>1, <3>3
    <3>4. CASE step # "reset" /\ step # "s2mm"
      BY <3>1, <3>4
    <3> QED
      BY <3>2, <3>3, <3>4
  <2>2. CASE s2mm' = IdleChannel
    BY <2>2 DEF IdleChannel, Channel, WithinAfter
  <2>3. CASE s2mm' = started /\ pc = "s2mm"
    <3>1. started \in Channel /\ WithinBuffer(started)
      BY <1>1, <2>3, StartWithin
    <3> HIDE DEF started
    <3> QED
      BY <2>3, <3>1, StaysWithin
  <2>4. CASE s2mm' = s2mm
    BY <1>1, <2>4, StaysWithin
  <2> QED
    BY <2>1, <2>2, <2>3, <2>4
<1> QED
  BY <1>2, <1>3

\* A buffer gives up its first word, or not, and takes one at its end, or not.
LEMMA BufferStep ==
  ASSUME NEW s, IsQueue(s), NEW t, NEW e,
         NEW taking \in BOOLEAN, NEW giving \in BOOLEAN, giving => s # << >>,
         taking => Len(s) < BufferDepth, Len(s) <= BufferDepth,
         LET rest == IF giving THEN Tail(s) ELSE s
         IN  t = IF taking THEN Append(rest, e) ELSE rest
  PROVE  IsQueue(t) /\ Len(t) <= BufferDepth
<1> DEFINE rest == IF giving THEN Tail(s) ELSE s
<1>1. /\ IsQueue(rest) /\ Len(rest) \in Nat /\ Len(rest) <= Len(s)
      /\ Len(s) \in Nat
  <2>1. Len(s) \in Nat
    BY LenProperties DEF IsQueue
  <2>2. CASE giving
    <3>1. IsQueue(Tail(s)) /\ Len(Tail(s)) = Len(s) - 1
      BY <2>2, QueueTail
    <3>2. Len(Tail(s)) \in Nat
      BY <3>1, LenProperties DEF IsQueue
    <3> QED
      BY <2>1, <2>2, <3>1, <3>2
  <2> QED
    BY <2>1, <2>2
<1> HIDE DEF rest
<1>2. CASE taking
  <2>1. t = Append(rest, e)
    BY <1>2 DEF rest
  <2>2. IsQueue(Append(rest, e)) /\ Len(Append(rest, e)) = Len(rest) + 1
    BY <1>1, QueueAppend
  <2>3. Len(rest) + 1 <= BufferDepth
    BY <1>1, <1>2, BufferDepthAssumption
  <2> QED
    BY <2>1, <2>2, <2>3
<1>3. CASE ~taking
  BY <1>1, <1>3, BufferDepthAssumption DEF rest
<1> QED
  BY <1>2, <1>3

LEMMA DmaStep ==
  ASSUME DriverInv, DmaInv, DriverInv', TypeOK,
         NEW tvalid \in BOOLEAN, NEW wready \in BOOLEAN, NEW fetching \in BOOLEAN,
         NEW storing \in BOOLEAN, NEW step, NEW key,
         HwClock(tvalid, wready, fetching, storing, step, key)
  PROVE  DmaInv'
<1> DEFINE tready == read_tready(wready)
<1>1. /\ Mm2sMay(fetching, tvalid) /\ S2mmMay(wready, storing)
      /\ Processor(step, key, storing)
      /\ Mm2sClock(tvalid, tready, fetching, step)
      /\ S2mmClock(wready, storing, step)
      /\ StreamClock(tvalid, tlast(tvalid), tready, wready)
  BY DEF HwClock, Clock
<1> HIDE DEF tready
<1>2. /\ current \in Nat /\ current' \in Nat /\ current <= current'
      /\ \A c \in 1..current : calls'[c] = calls[c]
      /\ step = "mm2s" => pc = "mm2s"
      /\ step = "s2mm" => pc = "s2mm"
  <2>1. IsQueue(calls) /\ IsQueue(calls')
    BY DEF DriverInv, IsQueue
  <2>2. Len(calls) \in Nat /\ Len(calls') \in Nat
    BY <2>1, LenProperties DEF IsQueue
  <2> QED
    BY <1>1, <2>2, ProcessorStep DEF current
<1>3. mm2s' \in Channel /\ WithinAfter(mm2s') /\ (mm2s'.busy => mm2s'.next <= mm2s'.end)
  BY <1>1, <1>2, Mm2sStep
<1>4. s2mm' \in Channel /\ WithinAfter(s2mm')
  BY <1>1, <1>2, S2mmStep
<1>5. WithinBuffer(mm2s)' /\ WithinBuffer(s2mm)'
  BY <1>3, <1>4 DEF WithinAfter, WithinBuffer
<1>6. IsQueue(to_core') /\ Len(to_core') <= BufferDepth
  <2> DEFINE word == [text |-> dram[mm2s.buffer][mm2s.next].text,
                      last |-> mm2s.next = mm2s.end]
             accepting == tvalid /\ tready
             rest == IF accepting THEN Tail(to_core) ELSE to_core
  <2>1. to_core' = IF fetching THEN Append(rest, word) ELSE rest
    BY <1>1 DEF Mm2sClock
  <2>2. /\ accepting \in BOOLEAN /\ (accepting => to_core # << >>)
        /\ fetching => Len(to_core) < BufferDepth
    BY <1>1 DEF Mm2sMay
  <2> HIDE DEF word, accepting
  <2> QED
    BY <2>1, <2>2, BufferStep DEF DmaInv
<1>7. IsQueue(from_core') /\ Len(from_core') <= BufferDepth
  <2> DEFINE taken == [text |-> fetched[data_matrix_out.id + 1],
                       key  |-> data_matrix_out.key,
                       last |-> write_tlast]
             taking == wready /\ write_tvalid
             rest == IF storing THEN Tail(from_core) ELSE from_core
  <2>1. from_core' = IF taking THEN Append(rest, taken) ELSE rest
    BY <1>1 DEF S2mmClock
  <2>2. /\ taking \in BOOLEAN /\ (storing => from_core # << >>)
        /\ taking => Len(from_core) < BufferDepth
    BY <1>1 DEF S2mmMay
  <2> HIDE DEF taken, taking
  <2> QED
    BY <2>1, <2>2, BufferStep DEF DmaInv
<1>8. IsQueue(fetched') /\ Len(fetched') = accepted'
  <2> DEFINE accepting == tvalid /\ tready
             text == Head(to_core).text
  <2>1. /\ fetched' = IF accepting THEN Append(fetched, text) ELSE fetched
        /\ accepted' = IF accepting THEN accepted + 1 ELSE accepted
    BY <1>1 DEF Mm2sClock, StreamClock
  <2> HIDE DEF accepting, text
  <2> QED
    BY <2>1, QueueAppend DEF DmaInv
<1> QED
  BY <1>3, <1>4, <1>5, <1>6, <1>7, <1>8 DEF DmaInv, IsQueue

-----------------------------------------------------------------------------
(* The driver on the core *)

HwInv == KeyInv /\ DriverInv /\ DmaInv

\* A cycle of the driver and the channels is a cycle of the core: what it writes
\* to the registers is a key of the core's, half-written ones included.
LEMMA CoreCycle ==
  ASSUME HwInv,
         NEW tvalid \in BOOLEAN, NEW wready \in BOOLEAN, NEW fetching \in BOOLEAN,
         NEW storing \in BOOLEAN, NEW step, NEW key,
         HwClock(tvalid, wready, fetching, storing, step, key)
  PROVE  \E k : CycleOf(tvalid, tlast(tvalid), wready, step = "key", k)
<1> DEFINE last == tlast(tvalid)
           write == step = "key"
<1>1. Clock(tvalid, last, wready, write, key) /\ Processor(step, key, storing)
  BY DEF HwClock
<1>2. last \in BOOLEAN /\ write \in BOOLEAN
  BY DEF tlast
<1>3. CASE step = "key"
  <2>1. WriteKeyWord(step, key, storing)
    BY <1>1, <1>3, ProcessorStep DEF HwInv
  <2>2. PICK w \in words_left :
          key = [aes_key EXCEPT ![w] = IF pc = "init" THEN ZeroKey[w] ELSE calls[current].key[w]]
    BY <2>1 DEF WriteKeyWord
  <2> DEFINE k == IF pc = "init" THEN ZeroKey ELSE calls[current].key
  <2>3. key = [aes_key EXCEPT ![w] = k[w]] /\ w \in Words /\ aes_key \in Keys \cup {NoKey}
    BY <2>2 DEF HwInv, DriverInv, KeyInv, TypeOK
  <2>4. k \in {ZeroKey} \cup CipherKeys
    <3>1. CASE pc = "init"
      BY <3>1
    <3>2. CASE pc # "init"
      <4>1. pc = "key"
        BY <2>1, <3>2 DEF WriteKeyWord
      <4>2. Len(calls) \in Nat /\ current # 0
        BY <4>1, LenProperties DEF HwInv, DriverInv, IsQueue
      <4>3. current \in 1..current
        BY <4>2 DEF current
      <4>4. calls[current].key \in CallKeys
        BY <4>3 DEF HwInv, DriverInv
      <4> QED
        BY <3>2, <4>4 DEF CallKeys
    <3> QED
      BY <3>1, <3>2
  <2> HIDE DEF k
  <2>5. key \in Keys
    BY <2>3, <2>4, KeysAssumption
  <2> HIDE DEF last, write
  <2>6. CycleOf(tvalid, last, wready, write, key)
    BY <1>1, <1>2, <2>5 DEF CycleOf
  <2> QED
    BY <2>6 DEF last, write
<1>4. CASE step # "key"
  <2>1. ~write
    BY <1>4
  <2>2. FlagsClock(write) /\ SlaveClock(write, key, tvalid) => SlaveClock(write, ZeroKey, tvalid)
    BY <2>1 DEF SlaveClock
  <2> HIDE DEF last, write
  <2>3. Clock(tvalid, last, wready, write, ZeroKey)
    BY <1>1, <2>2 DEF Clock
  <2>4. ZeroKey \in Keys
    BY KeysAssumption
  <2>5. CycleOf(tvalid, last, wready, write, ZeroKey)
    BY <1>2, <2>3, <2>4 DEF CycleOf
  <2> QED
    BY <2>5 DEF last, write
<1> QED
  BY <1>3, <1>4

\* The processor and the channels as they are after reset.
LEMMA InitHwInv == HwInit => HwInv
<1> SUFFICES ASSUME HwInit PROVE HwInv
  OBVIOUS
<1>1. KeyInv
  BY InitKeyInv DEF HwInit
<1>2. DriverInv
  BY EmptyQueue DEF HwInit, DriverInv, Pcs, current
<1>3. DmaInv
  BY EmptyQueue, BufferDepthAssumption DEF HwInit, DmaInv, Init, StreamInit, Channel,
     IdleChannel, WithinBuffer
<1> QED
  BY <1>1, <1>2, <1>3 DEF HwInv

LEMMA ResetHwInv ==
  ASSUME HwInv, HwReset
  PROVE  HwInv'
<1>1. KeyInv'
  BY ResetKeyInv DEF HwReset, HwInv
<1>2. DriverInv'
  BY EmptyQueue DEF HwReset, DriverInv, Pcs, IsQueue, current
<1>3. DmaInv'
  BY EmptyQueue, BufferDepthAssumption DEF HwReset, DmaInv, Reset, StreamReset, Channel,
     IdleChannel, WithinBuffer, IsQueue
<1> QED
  BY <1>1, <1>2, <1>3 DEF HwInv

\* The core under the driver is the core, and driver and channels stay within
\* the buffers, for any sizes of calls, transfers and buffers.
THEOREM HwInvariance == HwSpec => []HwInv
<1>1. ASSUME HwInv, [HwNext]_hwVars PROVE HwInv'
  <2>1. ASSUME NEW tvalid \in BOOLEAN, NEW wready \in BOOLEAN, NEW fetching \in BOOLEAN,
               NEW storing \in BOOLEAN, NEW step \in Steps, NEW key \in KeysWritten,
               HwClock(tvalid, wready, fetching, storing, step, key)
        PROVE  HwInv'
    <3>1. KeyInv'
      <4>1. PICK k : CycleOf(tvalid, tlast(tvalid), wready, step = "key", k)
        BY <1>1, <2>1, CoreCycle
      <4> QED
        BY <1>1, <4>1, ClockKeyInv DEF HwInv
    <3>2. DriverInv'
      BY <1>1, <2>1, ProcessorStep DEF HwInv, HwClock
    <3>3. DmaInv'
      BY <1>1, <2>1, <3>2, DmaStep DEF HwInv, KeyInv
    <3> QED
      BY <3>1, <3>2, <3>3 DEF HwInv
  <2>2. CASE HwReset
    BY <1>1, <2>2, ResetHwInv
  <2>3. CASE UNCHANGED hwVars
    <3>1. UNCHANGED << vars, driverVars, dmaVars, cache >>
      BY <2>3 DEF hwVars
    <3>2. KeyInv'
      BY <1>1, <3>1 DEF HwInv, vars, keyExpansionVars, rounderVars, transactionVars,
         refreshVars, pipelineVars, flagVars, slaveVars, streamVars, KeyInv, TypeOK,
         KeyExpansionTypeOK, RounderTypeOK, ExpansionRunning, ExpansionDone, PendingTogether,
         KeyLoaded, RefreshBehind, LocalKeysCurrent, Expanding, Expanded, AllOf, key_syncing
    <3>3. accepted' = accepted
      BY <3>1 DEF vars, streamVars
    <3>4. DriverInv' /\ DmaInv'
      BY <1>1, <3>1, <3>3 DEF HwInv, driverVars, dmaVars, DriverInv, DmaInv, IsQueue, current,
         Large, WithinBuffer
    <3> QED
      BY <3>2, <3>4 DEF HwInv
  <2> QED
    BY <1>1, <2>1, <2>2, <2>3 DEF HwNext
<1> QED
  BY <1>1, InitHwInv, PTL DEF HwSpec

\* The driver's pointer and the bytes it has left stay in step, and neither they
\* nor a channel leave the caller's buffer (HwTypeOK), whatever the sizes of the
\* calls and the width of the length registers.
THEOREM HwTypeCorrect == HwSpec => []HwTypeOK
<1>1. HwInv => HwTypeOK
  BY DEF HwInv, KeyInv, DriverInv, DmaInv, HwTypeOK, Pcs
<1> QED
  BY <1>1, HwInvariance, PTL

\* The core under the driver is the core of Aes: what is shown there for every
\* pattern of writes and packets holds of every program of calls.
THEOREM DriverOnCore == HwSpec => Spec
<1>1. HwInit => Init
  BY DEF HwInit
<1>2. ASSUME HwInv, [HwNext]_hwVars PROVE [Next]_vars
  <2>1. ASSUME NEW tvalid \in BOOLEAN, NEW wready \in BOOLEAN, NEW fetching \in BOOLEAN,
               NEW storing \in BOOLEAN, NEW step \in Steps, NEW key \in KeysWritten,
               HwClock(tvalid, wready, fetching, storing, step, key)
        PROVE  Next
    <3>1. PICK k : CycleOf(tvalid, tlast(tvalid), wready, step = "key", k)
      BY <1>2, <2>1, CoreCycle
    <3> DEFINE last == tlast(tvalid)
               write == step = "key"
    <3>2. CycleOf(tvalid, last, wready, write, k)
      BY <3>1
    <3> HIDE DEF last, write
    <3> QED
      BY <3>2 DEF CycleOf, Next
  <2>2. CASE HwReset
    BY <2>2 DEF HwReset, Next
  <2>3. CASE UNCHANGED hwVars
    BY <2>3 DEF hwVars
  <2> QED
    BY <1>2, <2>1, <2>2, <2>3 DEF HwNext
<1> QED
  BY <1>1, <1>2, HwInvariance, PTL DEF HwSpec, Spec
=============================================================================
