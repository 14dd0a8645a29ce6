---------------------------- MODULE DriverProofs ----------------------------
(***************************************************************************)
(* Proofs that the blocking functions of the driver use the core as its    *)
(* guarantees for overlapping packets ask, and encrypt every buffer in     *)
(* place, for every sequence and size of calls, length register, depth of  *)
(* the buffers at the core and number of rounds.                           *)
(***************************************************************************)
EXTENDS DriverInvariant, HwProofs

\* What is asked of software and of the DMA engine: no non-blocking calls, a length
\* register that holds a block, and keys that are functions on their words.
BlockingProgram ==
  /\ "aes_hw_encrypt_nonblocking" \notin Functions
  /\ max_dma_size >= 16
  /\ \A k \in Keys \cup {NoKey} : k = [w \in Words |-> k[w]]

Driven == HwInv /\ QuietInv /\ OrderInv /\ InStep

-----------------------------------------------------------------------------
(* Places in the caller's buffer *)

LEMMA PlaceTypes ==
  ASSUME DriverInv, DmaInv, TypeOK
  PROVE  /\ current \in Nat /\ inout \in Nat /\ bytes_remaining \in Nat
         /\ accepted \in Nat /\ delivered \in Nat
         /\ Len(to_core) \in Nat /\ Len(from_core) \in Nat
         /\ mm2s.busy \in BOOLEAN /\ s2mm.busy \in BOOLEAN
         /\ mm2s.next \in Nat \ {0} /\ s2mm.next \in Nat \ {0}
         /\ mm2s.end \in Nat /\ s2mm.end \in Nat
         /\ given \in Nat /\ inout <= given
         /\ taken \in Nat /\ stored \in Nat /\ offset \in Int
         /\ pc \notin {"init", "reset"} => current \in 1..current
<1>1. /\ Len(calls) \in Nat /\ Len(to_core) \in Nat /\ Len(from_core) \in Nat
  BY LenProperties DEF DriverInv, DmaInv, IsQueue
<1>2. /\ mm2s.busy \in BOOLEAN /\ s2mm.busy \in BOOLEAN
      /\ mm2s.next \in Nat \ {0} /\ s2mm.next \in Nat \ {0}
      /\ mm2s.end \in Nat /\ s2mm.end \in Nat
  BY DEF DmaInv, Channel, WithinBuffer
<1>3. pc = "s2mm" => transfer \div 16 \in Nat
  BY TransferFits
<1>4. /\ inout \in Nat /\ bytes_remaining \in Nat /\ accepted \in Nat /\ delivered \in Nat
      /\ (current = 0 <=> pc \in {"init", "reset"})
  BY DEF DriverInv, TypeOK
<1> DEFINE t == transfer \div 16
<1>5. given = IF pc = "s2mm" THEN inout + t ELSE inout
  BY DEF given
<1>6. pc = "s2mm" => t \in Nat
  BY <1>3
<1> HIDE DEF t
<1>7. given \in Nat /\ inout <= given
  BY <1>4, <1>5, <1>6
<1>8. taken \in Nat /\ stored \in Nat
  BY <1>2, <1>4, <1>7 DEF taken, stored
<1>9. offset \in Int
  BY <1>1, <1>4, <1>8 DEF offset
<1>10. current \in Nat /\ (pc \notin {"init", "reset"} => current \in 1..current)
  BY <1>1, <1>4 DEF current
<1> QED
  BY <1>1, <1>2, <1>4, <1>7, <1>8, <1>9, <1>10

\* With the channel from the core idle there is nothing on its way.
LEMMA Drained ==
  ASSUME Driven, ~s2mm.busy, pc # "s2mm"
  PROVE  /\ ~mm2s.busy
         /\ to_core = << >> /\ from_core = << >>
         /\ accepted = delivered
         /\ InFlight = {} /\ \A i \in Stages : ~Valid(i)
         /\ source = "idle"
         /\ stored = inout /\ taken = inout /\ given = inout
<1>1. DriverInv /\ DmaInv /\ TypeOK
  BY DEF Driven, HwInv, KeyInv
<1>2. stored = inout /\ given = inout
  BY DEF stored, given
<1>3. /\ taken = accepted + offset + Len(to_core)
      /\ mm2s.busy => mm2s.end = given
      /\ mm2s.busy => mm2s.next <= mm2s.end
  BY <1>1 DEF Driven, InStep, ChannelsInStep, DmaInv
<1>4. delivered <= accepted
  BY DEF Driven, OrderInv
<1>5. taken = inout + Len(from_core) + (accepted - delivered) + Len(to_core)
  BY <1>1, <1>2, <1>3, PlaceTypes DEF offset
<1>6. ~mm2s.busy
  <2> SUFFICES ASSUME mm2s.busy PROVE FALSE
    OBVIOUS
  <2>1. mm2s.next <= inout /\ mm2s.next \in Nat /\ taken = mm2s.next - 1
    BY <1>1, <1>2, <1>3, PlaceTypes DEF taken
  <2>2. taken >= inout
    BY <1>1, <1>4, <1>5, PlaceTypes
  <2> QED
    BY <1>1, <2>1, <2>2, PlaceTypes
<1>7. taken = inout
  BY <1>2, <1>6 DEF taken
<1>8. Len(to_core) = 0 /\ Len(from_core) = 0 /\ accepted = delivered
  BY <1>1, <1>4, <1>5, <1>7, PlaceTypes, SMTT(30)
<1>9. to_core = << >> /\ from_core = << >>
  BY <1>1, <1>8, EmptySeq DEF DmaInv, IsQueue
<1>10. \A i \in Stages : ~Valid(i)
  <2> SUFFICES ASSUME NEW i \in Stages, Valid(i) PROVE FALSE
    OBVIOUS
  <2>1. delivered <= blocks[i].id /\ blocks[i].id < accepted
    BY DEF Driven, OrderInv
  <2>2. blocks[i].id \in Nat
    BY <1>1 DEF TypeOK, RounderTypeOK, StreamBlock
  <2> QED
    BY <1>1, <1>8, <2>1, <2>2, PlaceTypes
<1>11. source = "idle"
  <2>1. accepted + offset = inout
    BY <1>1, <1>3, <1>7, <1>8, PlaceTypes
  <2>2. source \in SourceStates
    BY <1>1 DEF TypeOK
  <2> QED
    BY <1>9, <2>1, <2>2 DEF Driven, InStep, SourceInStep, EndsTransfer, SourceStates
<1> QED
  BY <1>2, <1>6, <1>7, <1>8, <1>9, <1>10, <1>11 DEF InFlight, Valid

-----------------------------------------------------------------------------
(* A cycle within a call *)

Count(moving) == IF moving THEN 1 ELSE 0

\* A buffer's words after a cycle in which it takes and gives one word or none.
Moved(s, t, e, taking, giving) ==
  /\ Len(t) \in Nat
  /\ Len(t) = Len(s) + taking - giving
  /\ \A k \in 1..Len(t) : t[k] = IF k + giving <= Len(s) THEN s[k + giving] ELSE e

LEMMA QueueShift ==
  ASSUME NEW s, IsQueue(s), NEW t, NEW e,
         NEW taking \in {0, 1}, NEW giving \in {0, 1}, giving = 1 => s # << >>,
         LET rest == IF giving = 1 THEN Tail(s) ELSE s
         IN  t = IF taking = 1 THEN Append(rest, e) ELSE rest
  PROVE  Moved(s, t, e, taking, giving)
<1> DEFINE rest == IF giving = 1 THEN Tail(s) ELSE s
<1>1. Len(s) \in Nat
  BY LenProperties DEF IsQueue
<1>2. /\ IsQueue(rest) /\ Len(rest) \in Nat /\ Len(rest) = Len(s) - giving
      /\ \A k \in 1..Len(rest) : rest[k] = s[k + giving]
  <2>1. CASE giving = 1
    <3>1. /\ IsQueue(Tail(s)) /\ Len(Tail(s)) = Len(s) - 1
          /\ \A k \in 1..Len(Tail(s)) : Tail(s)[k] = s[k + 1]
      <4> DEFINE S == {s[n] : n \in 1..Len(s)}
      <4>1. s \in Seq(S) /\ s # << >>
        BY <2>1 DEF IsQueue
      <4> HIDE DEF S
      <4>2. \A k \in 1..Len(Tail(s)) : Tail(s)[k] = s[k + 1]
        BY <4>1, HeadTailProperties
      <4> QED
        BY <4>2, <2>1, QueueTail
    <3>2. Len(Tail(s)) \in Nat
      BY <3>1, LenProperties DEF IsQueue
    <3> QED
      BY <1>1, <2>1, <3>1, <3>2
  <2>2. CASE giving = 0
    BY <1>1, <2>2
  <2> QED
    BY <2>1, <2>2
<1> HIDE DEF rest
<1>3. /\ Len(t) = Len(s) + taking - giving
      /\ Len(t) \in Nat
      /\ \A k \in 1..Len(t) : t[k] = IF k + giving <= Len(s) THEN s[k + giving] ELSE e
  <2>1. CASE taking = 1
    <3>1. t = Append(rest, e)
      BY <2>1 DEF rest
    <3>2. /\ Len(t) = Len(rest) + 1
          /\ \A k \in 1..Len(rest) : t[k] = rest[k]
          /\ t[Len(rest) + 1] = e
      BY <1>2, <3>1, QueueAppend
    <3>3. Len(t) = Len(s) + 1 - giving /\ Len(t) \in Nat
      BY <1>1, <1>2, <3>2
    <3>4. ASSUME NEW k \in 1..Len(t)
          PROVE  t[k] = IF k + giving <= Len(s) THEN s[k + giving] ELSE e
      <4>1. CASE k \in 1..Len(rest)
        BY <1>1, <1>2, <3>2, <4>1
      <4>2. CASE k = Len(rest) + 1
        BY <1>1, <1>2, <3>2, <4>2
      <4> QED
        BY <1>2, <3>2, <4>1, <4>2
    <3> QED
      BY <2>1, <3>3, <3>4
  <2>2. CASE taking = 0
    <3>1. t = rest
      BY <2>2 DEF rest
    <3>2. \A k \in 1..Len(t) : k + giving <= Len(s)
      BY <1>1, <1>2, <3>1
    <3> QED
      BY <1>1, <1>2, <2>2, <3>1, <3>2
  <2> QED
    BY <2>1, <2>2
<1> QED
  BY <1>3 DEF Moved

LEMMA CountType ==
  ASSUME NEW moving
  PROVE  Count(moving) \in {0, 1} /\ (Count(moving) = 1 <=> moving)
  BY DEF Count

\* Steps of the processor that start neither a transfer nor a call, and those
\* that start a call.
Steady(step) ==
  /\ UNCHANGED << calls, inout, bytes_remaining >>
  /\ pc = "s2mm" <=> pc' = "s2mm"
  /\ step \notin {"mm2s", "s2mm", "reset"}

Calling(step, storing) == CallDriver(step, storing) \/ ResetDma(step, storing)

LEMMA StepKinds ==
  ASSUME NEW step, NEW key, NEW storing, Processor(step, key, storing)
  PROVE  \/ Steady(step)
         \/ StartMm2s(step, storing)
         \/ StartS2mm(step, storing)
         \/ Calling(step, storing)
<1>1. CASE WriteKeyWord(step, key, storing)
  BY <1>1 DEF WriteKeyWord, AfterKey, Steady
<1>2. CASE \/ ProcessorIdle(step, storing) \/ Prefetch(step, storing)
           \/ InvalidateByCaller(step, storing)
  BY <1>2 DEF ProcessorIdle, Prefetch, InvalidateByCaller, driverVars, Steady
<1>3. CASE \/ Flush(step, storing) \/ WaitForS2mm(step, storing) \/ Invalidate(step, storing)
  BY <1>3 DEF Flush, WaitForS2mm, Invalidate, Steady
<1> QED
  BY <1>1, <1>2, <1>3 DEF Processor, Calling

\* A call begins after the one before has returned and gets a place of its own.
LEMMA CallingCalls ==
  ASSUME DriverInv, NEW step, NEW storing, Calling(step, storing)
  PROVE  current \in Nat /\ current' = current + 1 /\ calls' # calls
<1>1. PICK call : calls' = Append(calls, call)
  BY DEF Calling, CallDriver, ResetDma, Call
<1>2. Len(calls) \in Nat /\ Len(calls') = Len(calls) + 1
  BY <1>1, QueueAppend DEF DriverInv
<1> QED
  BY <1>2 DEF current

\* A transfer of no blocks is refused, any other is not: its length fits.
LEMMA TransferStarts ==
  ASSUME Driven, BlockingProgram, pc \in {"mm2s", "s2mm"}, NEW channel, ~channel.busy
  PROVE  /\ transfer \div 16 \in Nat
         /\ transfer \div 16 = 0 => XAxiDma_SimpleTransfer(channel, transfer) = channel
         /\ transfer \div 16 # 0 =>
              XAxiDma_SimpleTransfer(channel, transfer) =
                [busy |-> TRUE, buffer |-> current, next |-> inout + 1,
                 end |-> inout + transfer \div 16]
<1>1. DriverInv /\ DmaInv /\ TypeOK /\ CallInStep
  BY DEF Driven, HwInv, KeyInv, InStep
<1>2. /\ transfer \in Nat /\ transfer \div 16 \in Nat
      /\ 16 * (transfer \div 16) = transfer /\ transfer <= bytes_remaining
  BY <1>1, TransferFits
<1>3. current \in Nat /\ current > 0 /\ inout \in Nat /\ bytes_remaining \in Nat
  BY <1>1, PlaceTypes
<1>4. max_dma_size \in Nat /\ max_dma_size >= 16
  BY LengthAssumption DEF max_dma_size, BlockingProgram
<1>5. transfer <= max_dma_size
  <2>1. CASE Large(current)
    <3> DEFINE fitting == IF bytes_remaining > max_dma_size THEN max_dma_size ELSE bytes_remaining
               rounded == (fitting \div 16) * 16
    <3>1. fitting \in Nat /\ fitting <= max_dma_size
      BY <1>3, <1>4
    <3>2. transfer = IF rounded = 0 THEN 16 ELSE rounded
      BY <2>1 DEF transfer, LargeTransfer
    <3> HIDE DEF fitting
    <3>3. rounded <= fitting
      BY <3>1
    <3> QED
      BY <1>4, <3>1, <3>2, <3>3
  <2>2. CASE ~Large(current)
    <3> DEFINE n == calls[current].n_blocks
    <3>1. 16 * n <= max_dma_size /\ n \in Nat /\ 16 * inout + bytes_remaining = 16 * n
      BY <1>1, <1>3, <2>2 DEF CallInStep, DriverInv
    <3> HIDE DEF n
    <3> QED
      BY <1>2, <1>3, <1>4, <3>1
  <2> QED
    BY <2>1, <2>2
<1> DEFINE t == transfer \div 16
<1>6. /\ t \in Nat /\ 16 * t = transfer
      /\ XAxiDma_SimpleTransfer(channel, transfer) =
           IF transfer \notin 1..max_dma_size THEN channel
           ELSE [busy |-> TRUE, buffer |-> current, next |-> inout + 1, end |-> inout + t]
  BY <1>2 DEF XAxiDma_SimpleTransfer
<1> HIDE DEF t
<1>7. transfer \in 1..max_dma_size <=> t # 0
  BY <1>2, <1>4, <1>5, <1>6
<1> QED
  BY <1>6, <1>7 DEF t

\* What a step of the processor does to the transfers started.
LEMMA GivenStep ==
  ASSUME Driven, BlockingProgram, NEW step, NEW storing
  PROVE  /\ Steady(step) => inout' = inout /\ given' = given
         /\ StartMm2s(step, storing) =>
              /\ ~mm2s.busy /\ given = inout /\ inout' = inout /\ pc' = "s2mm"
              /\ given' = inout + transfer \div 16
         /\ StartS2mm(step, storing) =>
              /\ ~s2mm.busy /\ pc' # "s2mm"
              /\ given = inout + transfer \div 16
              /\ inout' = given /\ given' = given
<1>1. ASSUME UNCHANGED << calls, bytes_remaining >> PROVE transfer' = transfer
  BY <1>1 DEF transfer, LargeTransfer, Large, current
<1>2. ASSUME Steady(step) PROVE inout' = inout /\ given' = given
  BY <1>1, <1>2 DEF Steady, given
<1>3. ASSUME StartMm2s(step, storing)
      PROVE  /\ ~mm2s.busy /\ given = inout /\ inout' = inout /\ pc' = "s2mm"
             /\ given' = inout + transfer \div 16
  <2>1. pc = "mm2s" /\ pc' = "s2mm" /\ UNCHANGED << calls, bytes_remaining, inout >>
    BY <1>3 DEF StartMm2s
  <2>2. ~mm2s.busy
    BY <1>3 DEF StartMm2s, Driven, InStep, ChannelsInStep
  <2> QED
    BY <1>1, <2>1, <2>2 DEF given
<1>4. ASSUME StartS2mm(step, storing)
      PROVE  /\ ~s2mm.busy /\ pc' # "s2mm"
             /\ given = inout + transfer \div 16
             /\ inout' = given /\ given' = given
  <2>1. /\ pc = "s2mm" /\ inout' = inout + transfer \div 16 /\ pc' # "s2mm"
        /\ ~s2mm.busy
    BY <1>4 DEF StartS2mm, Driven, InStep, ChannelsInStep
  <2> QED
    BY <2>1 DEF given
<1> QED
  BY <1>2, <1>3, <1>4

\* The channel to the core takes the next block of the buffer, or a new transfer
\* where the last one ended.
LEMMA TakenStep ==
  ASSUME Driven, BlockingProgram,
         NEW tvalid, NEW tready, NEW fetching \in BOOLEAN, NEW storing, NEW step,
         Mm2sMay(fetching, tvalid), Mm2sClock(tvalid, tready, fetching, step),
         UNCHANGED calls,
         Steady(step) \/ StartMm2s(step, storing) \/ StartS2mm(step, storing)
  PROVE  /\ taken' = taken + Count(fetching)
         /\ mm2s'.busy => /\ mm2s'.buffer = current /\ mm2s'.end = given'
                          /\ pc' = "s2mm" => inout' < mm2s'.next
         /\ fetching => mm2s.next = taken + 1 /\ taken + 1 <= given
<1>1. DriverInv /\ DmaInv /\ TypeOK /\ ChannelsInStep
  BY DEF Driven, HwInv, KeyInv, InStep
<1>2. /\ mm2s.busy => /\ mm2s.buffer = current /\ mm2s.end = given
                      /\ pc = "s2mm" => inout < mm2s.next
                      /\ mm2s.next <= mm2s.end
      /\ taken = IF mm2s.busy THEN mm2s.next - 1 ELSE given
      /\ mm2s.next \in Nat /\ given \in Nat /\ inout \in Nat
  BY <1>1, PlaceTypes DEF ChannelsInStep, DmaInv, taken
<1>3. taken' = IF mm2s'.busy THEN mm2s'.next - 1 ELSE given'
  BY DEF taken
<1>4. CASE fetching
  <2>1. mm2s.busy /\ mm2s' = Advanced(mm2s, mm2s.next # mm2s.end)
    BY <1>4 DEF Mm2sMay, Mm2sClock
  <2>2. /\ mm2s'.busy <=> mm2s.next # mm2s.end
        /\ mm2s'.buffer = mm2s.buffer /\ mm2s'.next = mm2s.next + 1 /\ mm2s'.end = mm2s.end
    BY <2>1 DEF Advanced
  <2>3. given' = given /\ (pc' = "s2mm" => pc = "s2mm" /\ inout' = inout)
    BY <2>1, GivenStep DEF Steady
  <2> QED
    BY <1>2, <1>3, <1>4, <2>1, <2>2, <2>3 DEF Count
<1>5. CASE ~fetching
  <2>1. CASE Steady(step) \/ StartS2mm(step, storing)
    <3>1. mm2s' = mm2s
      BY <1>5, <2>1 DEF Mm2sClock, Steady, StartS2mm
    <3>2. given' = given /\ (pc' = "s2mm" => pc = "s2mm" /\ inout' = inout)
      BY <2>1, GivenStep DEF Steady
    <3> QED
      BY <1>2, <1>3, <1>5, <3>1, <3>2 DEF Count
  <2>2. CASE StartMm2s(step, storing)
    <3>1. /\ ~mm2s.busy /\ given = inout /\ inout' = inout
          /\ given' = inout + transfer \div 16
          /\ step = "mm2s" /\ pc = "mm2s"
      BY <2>2, GivenStep DEF StartMm2s
    <3> DEFINE t == transfer \div 16
               started == XAxiDma_SimpleTransfer(mm2s, transfer)
    <3>2. mm2s' = started
      BY <1>5, <3>1 DEF Mm2sClock
    <3>3. /\ t \in Nat
          /\ t = 0 => started = mm2s
          /\ t # 0 => started = [busy |-> TRUE, buffer |-> current, next |-> inout + 1,
                                 end |-> inout + t]
      BY <3>1, TransferStarts
    <3>4. given' = inout + t
      BY <3>1
    <3> HIDE DEF t, started
    <3>5. CASE t = 0
      BY <1>2, <1>3, <1>5, <3>1, <3>2, <3>3, <3>4, <3>5 DEF Count
    <3>6. CASE t # 0
      <4>1. /\ mm2s'.busy /\ mm2s'.buffer = current /\ mm2s'.next = inout + 1
            /\ mm2s'.end = inout + t
        BY <3>2, <3>3, <3>6
      <4> QED
        BY <1>2, <1>3, <1>5, <3>1, <3>4, <4>1 DEF Count
    <3> QED
      BY <3>5, <3>6
  <2> QED
    BY <2>1, <2>2
<1> QED
  BY <1>4, <1>5

\* The channel from the core stores the next block of its transfer and is done
\* with the last one, or begins where the last one ended.
LEMMA StoredStep ==
  ASSUME Driven, BlockingProgram,
         NEW wready, NEW storing \in BOOLEAN, NEW step,
         S2mmMay(wready, storing), S2mmClock(wready, storing, step),
         UNCHANGED calls,
         Steady(step) \/ StartMm2s(step, storing) \/ StartS2mm(step, storing)
  PROVE  /\ stored' = stored + Count(storing)
         /\ s2mm'.busy => /\ s2mm'.buffer = current /\ s2mm'.end = inout'
                          /\ s2mm'.next <= s2mm'.end
         /\ s2mm'.busy => s2mm.busy \/ StartS2mm(step, storing)
         /\ storing => /\ s2mm.busy /\ s2mm.buffer = current
                       /\ s2mm.next = stored + 1 /\ stored + 1 <= inout
                       /\ 1 <= Len(from_core) /\ Head(from_core) = from_core[1]
<1>1. DriverInv /\ DmaInv /\ TypeOK /\ ChannelsInStep /\ WordsInStep
  BY DEF Driven, HwInv, KeyInv, InStep
<1>2. /\ s2mm.busy => /\ s2mm.buffer = current /\ s2mm.end = inout /\ s2mm.next <= s2mm.end
      /\ stored = IF s2mm.busy THEN s2mm.next - 1 ELSE inout
      /\ s2mm.next \in Nat /\ given \in Nat /\ inout \in Nat /\ inout <= given
      /\ s2mm.busy \in BOOLEAN
  BY <1>1, PlaceTypes DEF ChannelsInStep, stored
<1>3. stored' = IF s2mm'.busy THEN s2mm'.next - 1 ELSE inout'
  BY DEF stored
<1>4. CASE storing
  <2>1. s2mm.busy /\ from_core # << >> /\ s2mm' = Advanced(s2mm, ~Head(from_core).last)
    BY <1>4 DEF S2mmMay, S2mmClock
  <2>2. 1 <= Len(from_core) /\ Head(from_core) = from_core[1] /\ 1 \in 1..Len(from_core)
    <3>1. Len(from_core) \in Nat /\ Len(from_core) # 0
      BY <1>1, <2>1, EmptySeq, PlaceTypes DEF DmaInv, IsQueue
    <3> QED
      BY <2>1, <3>1
  <2>3. Head(from_core).last = EndsTransfer(stored + 1)
    <3>1. from_core[1] = [text |-> << current, stored + 1 >>, key |-> calls[current].key,
                          last |-> EndsTransfer(stored + 1)]
      BY <1>1, <2>2 DEF WordsInStep
    <3> QED
      BY <2>2, <3>1
  <2>4. stored + 1 = s2mm.next
    BY <1>2, <2>1
  <2>5. EndsTransfer(stored + 1) <=> s2mm.next = inout
    BY <1>2, <2>1, <2>4 DEF EndsTransfer
  <2>6. /\ s2mm'.busy <=> s2mm.next # inout
        /\ s2mm'.buffer = s2mm.buffer /\ s2mm'.next = s2mm.next + 1 /\ s2mm'.end = s2mm.end
    BY <2>1, <2>3, <2>5 DEF Advanced
  <2>7. inout' = inout
    BY <2>1, GivenStep
  <2> QED
    BY <1>2, <1>3, <1>4, <2>1, <2>2, <2>4, <2>6, <2>7 DEF Count
<1>5. CASE ~storing
  <2>1. CASE Steady(step) \/ StartMm2s(step, storing)
    <3>1. s2mm' = s2mm
      BY <1>5, <2>1 DEF S2mmClock, Steady, StartMm2s
    <3>2. inout' = inout
      BY <2>1, GivenStep
    <3> QED
      BY <1>2, <1>3, <1>5, <3>1, <3>2 DEF Count
  <2>2. CASE StartS2mm(step, storing)
    <3>1. /\ ~s2mm.busy /\ given = inout + transfer \div 16 /\ inout' = given
          /\ step = "s2mm" /\ pc = "s2mm"
      BY <2>2, GivenStep DEF StartS2mm
    <3> DEFINE t == transfer \div 16
               started == XAxiDma_SimpleTransfer(s2mm, transfer)
    <3>2. s2mm' = started
      BY <1>5, <3>1 DEF S2mmClock
    <3>3. /\ t \in Nat
          /\ t = 0 => started = s2mm
          /\ t # 0 => started = [busy |-> TRUE, buffer |-> current, next |-> inout + 1,
                                 end |-> inout + t]
      BY <3>1, TransferStarts
    <3>4. inout' = inout + t
      BY <3>1
    <3> HIDE DEF t, started
    <3>5. CASE t = 0
      BY <1>2, <1>3, <1>5, <3>1, <3>2, <3>3, <3>4, <3>5 DEF Count
    <3>6. CASE t # 0
      <4>1. /\ s2mm'.busy /\ s2mm'.buffer = current /\ s2mm'.next = inout + 1
            /\ s2mm'.end = inout + t
        BY <3>2, <3>3, <3>6
      <4> QED
        BY <1>2, <1>3, <1>5, <2>2, <3>1, <3>3, <3>4, <3>6, <4>1 DEF Count
    <3> QED
      BY <3>5, <3>6
  <2> QED
    BY <2>1, <2>2
<1> QED
  BY <1>4, <1>5

\* A transfer started or counted leaves the ends of the packets under way alone.
LEMMA EndsStep ==
  ASSUME Driven, BlockingProgram, NEW step, NEW storing, UNCHANGED calls,
         Steady(step) \/ StartMm2s(step, storing) \/ StartS2mm(step, storing),
         NEW n \in Int, n <= taken
  PROVE  /\ n \in {inout', given'} => EndsTransfer(n)
         /\ stored < n => (n \in {inout', given'} <=> EndsTransfer(n))
<1>1. DriverInv /\ DmaInv /\ TypeOK
  BY DEF Driven, HwInv, KeyInv
<1>2. n \in {inout', given'} <=> n = inout' \/ n = given'
  OBVIOUS
<1>3. EndsTransfer(n) <=> n = inout \/ n = given
  BY DEF EndsTransfer
<1>4. CASE Steady(step)
  BY <1>2, <1>3, <1>4, GivenStep
<1>5. CASE StartMm2s(step, storing)
  <2> DEFINE t == transfer \div 16
  <2>1. /\ ~mm2s.busy /\ given = inout /\ inout' = inout /\ given' = inout + t
    BY <1>5, GivenStep
  <2>2. t \in Nat
    BY <1>1, <1>5, TransferFits DEF StartMm2s
  <2>3. taken = inout
    BY <2>1 DEF taken
  <2> HIDE DEF t
  <2> QED
    BY <1>1, <1>2, <1>3, <2>1, <2>2, <2>3, PlaceTypes
<1>6. CASE StartS2mm(step, storing)
  <2>1. ~s2mm.busy /\ inout' = given /\ given' = given
    BY <1>6, GivenStep
  <2>2. stored = inout
    BY <2>1 DEF stored
  <2> QED
    BY <1>1, <1>2, <1>3, <2>1, <2>2, PlaceTypes
<1> QED
  BY <1>4, <1>5, <1>6

\* The counts of a cycle within a call; what is on its way keeps its place.
LEMMA CountsOfCycle ==
  ASSUME Driven, BlockingProgram,
         NEW tvalid \in BOOLEAN, NEW wready \in BOOLEAN, NEW fetching \in BOOLEAN,
         NEW storing \in BOOLEAN, NEW step, NEW key,
         HwClock(tvalid, wready, fetching, storing, step, key), UNCHANGED calls,
         Steady(step) \/ StartMm2s(step, storing) \/ StartS2mm(step, storing)
  PROVE  /\ accepted' = accepted + Count(tvalid /\ read_tready(wready))
         /\ delivered' = delivered + Count(wready /\ write_tvalid)
         /\ Len(to_core') = Len(to_core) + Count(fetching)
                              - Count(tvalid /\ read_tready(wready))
         /\ \A k \in 1..Len(to_core') :
              to_core'[k] =
                IF k + Count(tvalid /\ read_tready(wready)) <= Len(to_core)
                THEN to_core[k + Count(tvalid /\ read_tready(wready))]
                ELSE [text |-> dram[mm2s.buffer][mm2s.next].text, last |-> mm2s.next = mm2s.end]
         /\ tvalid => Head(to_core) = to_core[1] /\ 1 <= Len(to_core)
         /\ Len(from_core') = Len(from_core) + Count(wready /\ write_tvalid) - Count(storing)
         /\ \A k \in 1..Len(from_core') :
              from_core'[k] =
                IF k + Count(storing) <= Len(from_core) THEN from_core[k + Count(storing)]
                ELSE [text |-> fetched[data_matrix_out.id + 1], key |-> data_matrix_out.key,
                      last |-> write_tlast]
         /\ offset' = offset
         /\ taken' = accepted' + offset' + Len(to_core')
<1> DEFINE accepting == tvalid /\ read_tready(wready)
           taking == wready /\ write_tvalid
<1>1. /\ Mm2sMay(fetching, tvalid) /\ S2mmMay(wready, storing)
      /\ Mm2sClock(tvalid, read_tready(wready), fetching, step)
      /\ S2mmClock(wready, storing, step)
      /\ StreamClock(tvalid, tlast(tvalid), read_tready(wready), wready)
  BY DEF HwClock, Clock
<1>2. DriverInv /\ DmaInv /\ TypeOK /\ ChannelsInStep
  BY DEF Driven, HwInv, KeyInv, InStep
<1>3. /\ accepted' = accepted + Count(accepting)
      /\ delivered' = delivered + Count(taking)
  BY <1>1, <1>2, PlaceTypes DEF StreamClock, Count
<1>4. /\ Len(to_core') = Len(to_core) + Count(fetching) - Count(accepting)
      /\ Len(to_core') \in Nat
      /\ \A k \in 1..Len(to_core') :
           to_core'[k] =
             IF k + Count(accepting) <= Len(to_core) THEN to_core[k + Count(accepting)]
             ELSE [text |-> dram[mm2s.buffer][mm2s.next].text, last |-> mm2s.next = mm2s.end]
      /\ tvalid => Head(to_core) = to_core[1] /\ 1 <= Len(to_core)
  <2> DEFINE word == [text |-> dram[mm2s.buffer][mm2s.next].text, last |-> mm2s.next = mm2s.end]
             take == Count(fetching)
             give == Count(accepting)
             rest == IF give = 1 THEN Tail(to_core) ELSE to_core
  <2>1. /\ take \in {0, 1} /\ (take = 1 <=> fetching)
        /\ give \in {0, 1} /\ (give = 1 <=> accepting)
    BY CountType
  <2>2. to_core' = IF take = 1 THEN Append(rest, word) ELSE rest
    BY <1>1, <2>1 DEF Mm2sClock
  <2>3. (tvalid => to_core # << >>) /\ IsQueue(to_core)
    BY <1>1, <1>2 DEF Mm2sMay, DmaInv
  <2>4. tvalid => Head(to_core) = to_core[1] /\ 1 <= Len(to_core)
    <3>1. to_core # << >> => Len(to_core) # 0
      BY <2>3, EmptySeq DEF IsQueue
    <3> QED
      BY <1>2, <2>3, <3>1, PlaceTypes
  <2>5. give = 1 => to_core # << >>
    BY <2>1, <2>3
  <2> HIDE DEF word, take, give
  <2>6. Moved(to_core, to_core', word, take, give)
    BY <2>1, <2>2, <2>3, <2>5, QueueShift
  <2> QED
    BY <2>4, <2>6 DEF word, take, give, Moved
<1>5. /\ Len(from_core') = Len(from_core) + Count(taking) - Count(storing)
      /\ Len(from_core') \in Nat
      /\ \A k \in 1..Len(from_core') :
           from_core'[k] =
             IF k + Count(storing) <= Len(from_core) THEN from_core[k + Count(storing)]
             ELSE [text |-> fetched[data_matrix_out.id + 1], key |-> data_matrix_out.key,
                   last |-> write_tlast]
  <2> DEFINE word == [text |-> fetched[data_matrix_out.id + 1], key |-> data_matrix_out.key,
                      last |-> write_tlast]
             take == Count(taking)
             give == Count(storing)
             rest == IF give = 1 THEN Tail(from_core) ELSE from_core
  <2>1. /\ take \in {0, 1} /\ (take = 1 <=> taking)
        /\ give \in {0, 1} /\ (give = 1 <=> storing)
    BY CountType
  <2>2. from_core' = IF take = 1 THEN Append(rest, word) ELSE rest
    BY <1>1, <2>1 DEF S2mmClock
  <2>3. (give = 1 => from_core # << >>) /\ IsQueue(from_core)
    BY <1>1, <1>2, <2>1 DEF S2mmMay, DmaInv
  <2> HIDE DEF word, take, give
  <2>4. Moved(from_core, from_core', word, take, give)
    BY <2>1, <2>2, <2>3, QueueShift
  <2> QED
    BY <2>4 DEF word, take, give, Moved
<1>6. stored' = stored + Count(storing)
  BY <1>1, StoredStep
<1>7. taken' = taken + Count(fetching)
  BY <1>1, TakenStep
<1> HIDE DEF accepting, taking
<1>8. PICK f \in {0, 1}, st \in {0, 1}, a \in {0, 1}, t \in {0, 1} :
        /\ Count(fetching) = f /\ Count(storing) = st
        /\ Count(accepting) = a /\ Count(taking) = t
  BY CountType
<1>9. /\ offset' = stored' + Len(from_core') - delivered'
      /\ offset = stored + Len(from_core) - delivered
      /\ taken = accepted + offset + Len(to_core)
  BY <1>2 DEF offset, ChannelsInStep
<1>10. /\ stored \in Nat /\ Len(from_core) \in Nat /\ delivered \in Nat
       /\ accepted \in Nat /\ offset \in Int /\ Len(to_core) \in Nat
  BY <1>2, PlaceTypes
<1>11. /\ stored' = stored + st /\ delivered' = delivered + t
       /\ Len(from_core') = Len(from_core) + t - st
       /\ taken' = taken + f /\ accepted' = accepted + a
       /\ Len(to_core') = Len(to_core) + f - a
  BY <1>3, <1>4, <1>5, <1>6, <1>7, <1>8
<1>12. offset' = offset
  BY <1>9, <1>10, <1>11
<1>13. taken' = accepted' + offset' + Len(to_core')
  BY <1>9, <1>10, <1>11, <1>12
<1> QED
  BY <1>3, <1>4, <1>5, <1>12, <1>13 DEF accepting, taking

\* A key is written with nothing offered or in flight.
LEMMA DriverIsQuiet ==
  ASSUME Driven,
         NEW tvalid \in BOOLEAN, NEW wready \in BOOLEAN, NEW fetching \in BOOLEAN,
         NEW storing \in BOOLEAN, NEW step, NEW key,
         HwClock(tvalid, wready, fetching, storing, step, key)
  PROVE  QuietCycle(tvalid, step = "key")
<1> SUFFICES ASSUME step = "key" PROVE source = "idle" /\ InFlight = {} /\ ~tvalid
  BY DEF QuietCycle
<1>1. Processor(step, key, storing) /\ Mm2sMay(fetching, tvalid) /\ DriverInv
  BY DEF HwClock, Driven, HwInv
<1>2. pc \in {"init", "key"}
  BY <1>1, ProcessorStep DEF WriteKeyWord
<1>3. ~s2mm.busy
  BY <1>2 DEF Driven, InStep, ChannelsInStep, AtRest
<1> QED
  BY <1>1, <1>2, <1>3, Drained DEF Mm2sMay

\* The core under a driver that follows the discipline.
LEMMA CoreStep ==
  ASSUME Driven,
         NEW tvalid \in BOOLEAN, NEW wready \in BOOLEAN, NEW fetching \in BOOLEAN,
         NEW storing \in BOOLEAN, NEW step, NEW key,
         HwClock(tvalid, wready, fetching, storing, step, key)
  PROVE  HwInv' /\ QuietInv' /\ OrderInv'
<1> DEFINE last == tlast(tvalid)
           write == step = "key"
<1>1. PICK k : CycleOf(tvalid, last, wready, write, k)
  BY CoreCycle DEF Driven
<1>2. QuietCycle(tvalid, write)
  BY DriverIsQuiet
<1> HIDE DEF last, write
<1>3. KeyInv /\ QuietInv /\ OrderInv /\ DriverInv /\ DmaInv /\ TypeOK
  BY DEF Driven, HwInv, KeyInv
<1>4. KeyInv' /\ QuietInv' /\ OrderInv'
  BY <1>1, <1>2, <1>3, ClockKeyInv, QuietStep, QuietFlows, OrderStep
<1>5. DriverInv'
  BY <1>3, ProcessorStep DEF HwClock
<1>6. DmaInv'
  BY <1>3, <1>5, DmaStep
<1> QED
  BY <1>4, <1>5, <1>6 DEF HwInv

\* Where the processor comes from within a call.
LEMMA PlaceStep ==
  ASSUME Driven, NEW step, NEW key, NEW storing, Processor(step, key, storing), UNCHANGED calls,
         Steady(step) \/ StartMm2s(step, storing) \/ StartS2mm(step, storing)
  PROVE  /\ pc' \in AtRest => Steady(step) /\ (pc \in AtRest \/ (pc = "wait" /\ ~s2mm.busy))
         /\ pc' = "s2mm" => pc \in {"mm2s", "s2mm"}
         /\ pc' = "mm2s" => \/ Steady(step) /\ pc \in {"mm2s", "key"}
                            \/ StartS2mm(step, storing) /\ Large(current)
         /\ pc' \in {"flush", "key"} => pc \in {"flush", "key"} /\ inout' = inout
         /\ pc' \in {"flush", "invalidate"} =>
              pc = pc' \/ (pc = "wait" /\ Flushing(current))
         /\ pc' \in {"wait", "invalidate", "returned"} =>
              bytes_remaining' = 0 \/ (pc \in {"wait", "invalidate", "returned"} /\ Steady(step))
         /\ pc = "flush" => pc' \in {"flush", "key"}
<1>1. DriverInv /\ CallInStep
  BY DEF Driven, HwInv, InStep
<1>2. CASE Steady(step)
  <2> SUFFICES ASSUME \/ ProcessorIdle(step, storing)
                      \/ Prefetch(step, storing)
                      \/ Flush(step, storing)
                      \/ WriteKeyWord(step, key, storing)
                      \/ WaitForS2mm(step, storing)
                      \/ Invalidate(step, storing)
                      \/ InvalidateByCaller(step, storing)
                      \/ Calling(step, storing)
               PROVE  /\ pc' \in AtRest => pc \in AtRest \/ (pc = "wait" /\ ~s2mm.busy)
                      /\ pc' = "mm2s" => pc \in {"mm2s", "key"}
                      /\ pc' \in {"flush", "key"} => pc \in {"flush", "key"}
                      /\ pc' \in {"flush", "invalidate"} =>
                           pc = pc' \/ (pc = "wait" /\ Flushing(current))
                      /\ pc' \in {"wait", "invalidate", "returned"} =>
                           bytes_remaining' = 0 \/ pc \in {"wait", "invalidate", "returned"}
                      /\ pc = "flush" => pc' \in {"flush", "key"}
    <3>1. ~StartMm2s(step, storing) /\ ~StartS2mm(step, storing)
      BY <1>2 DEF Steady, StartMm2s, StartS2mm
    <3> QED
      BY <1>2, <3>1 DEF Processor, Calling, Steady
  <2>1. CASE \/ ProcessorIdle(step, storing)
             \/ Prefetch(step, storing)
             \/ InvalidateByCaller(step, storing)
    BY <2>1 DEF ProcessorIdle, Prefetch, InvalidateByCaller, driverVars
  <2>2. CASE Flush(step, storing)
    BY <2>2 DEF Flush, AtRest
  <2>3. CASE WriteKeyWord(step, key, storing)
    BY <2>3 DEF WriteKeyWord, AfterKey, AtRest
  <2>4. CASE WaitForS2mm(step, storing)
    BY <2>4 DEF WaitForS2mm
  <2>5. CASE Invalidate(step, storing)
    BY <2>5 DEF Invalidate, AtRest
  <2>6. CASE Calling(step, storing)
    BY <2>6, <1>1, CallingCalls
  <2> QED
    BY <2>1, <2>2, <2>3, <2>4, <2>5, <2>6
<1>3. CASE StartMm2s(step, storing)
  BY <1>3 DEF StartMm2s, AtRest
<1>4. CASE StartS2mm(step, storing)
  <2>1. /\ pc = "s2mm" /\ bytes_remaining' = bytes_remaining - transfer
        /\ pc' = IF bytes_remaining' > 0 THEN "mm2s"
                 ELSE IF Blocking(current) THEN "wait" ELSE "returned"
    BY <1>4 DEF StartS2mm
  <2>2. /\ Blocking(current) /\ bytes_remaining \in Nat
        /\ transfer \in Nat /\ transfer <= bytes_remaining
    <3>1. current \in 1..current
      BY <2>1, PlaceTypes DEF Driven, HwInv, KeyInv
    <3> QED
      BY <1>1, <2>1, <3>1, TransferFits DEF CallInStep, DriverInv
  <2>3. pc' = IF bytes_remaining' > 0 THEN "mm2s" ELSE "wait"
    BY <2>1, <2>2
  <2>4. ~Large(current) => bytes_remaining' = 0
    BY <2>1, <2>2 DEF transfer
  <2>5. ~(bytes_remaining' > 0) => bytes_remaining' = 0
    BY <2>1, <2>2
  <2> QED
    BY <1>4, <2>1, <2>3, <2>4, <2>5 DEF AtRest
<1> QED
  BY <1>2, <1>3, <1>4

\* The channels keep in step with the processor and with each other.
LEMMA ChannelsStep ==
  ASSUME Driven, BlockingProgram,
         NEW tvalid \in BOOLEAN, NEW wready \in BOOLEAN, NEW fetching \in BOOLEAN,
         NEW storing \in BOOLEAN, NEW step, NEW key,
         HwClock(tvalid, wready, fetching, storing, step, key), UNCHANGED calls,
         Steady(step) \/ StartMm2s(step, storing) \/ StartS2mm(step, storing)
  PROVE  ChannelsInStep'
<1>1. /\ Mm2sMay(fetching, tvalid) /\ S2mmMay(wready, storing)
      /\ Mm2sClock(tvalid, read_tready(wready), fetching, step)
      /\ S2mmClock(wready, storing, step)
      /\ Processor(step, key, storing)
  BY DEF HwClock
<1>2. ChannelsInStep /\ CallInStep
  BY DEF Driven, InStep
<1>3. current' = current /\ (Large(current)' <=> Large(current))
  BY DEF current, Large
<1>4. taken' = accepted' + offset' + Len(to_core')
  BY CountsOfCycle
<1>5. mm2s'.busy => /\ mm2s'.buffer = current' /\ mm2s'.end = given'
                    /\ pc' = "s2mm" => inout' < mm2s'.next
  BY <1>1, <1>3, TakenStep
<1>6. /\ s2mm'.busy => /\ s2mm'.buffer = current' /\ s2mm'.end = inout'
                       /\ s2mm'.next <= s2mm'.end
      /\ s2mm'.busy => s2mm.busy \/ StartS2mm(step, storing)
  BY <1>1, <1>3, StoredStep
<1>7. Steady(step) => (mm2s'.busy => mm2s.busy) /\ (s2mm'.busy => s2mm.busy)
  <2>1. ASSUME Steady(step) PROVE mm2s'.busy => mm2s.busy
    BY <1>1, <2>1 DEF Mm2sMay, Mm2sClock, Steady
  <2>2. ASSUME Steady(step) PROVE ~StartS2mm(step, storing)
    BY <2>2 DEF Steady, StartS2mm
  <2> QED
    BY <1>6, <2>1, <2>2
<1>8. pc' \in AtRest => ~mm2s'.busy /\ ~s2mm'.busy
  <2>1. CASE pc \in AtRest
    BY <1>1, <1>2, <1>7, <2>1, PlaceStep DEF ChannelsInStep
  <2>2. CASE pc = "wait" /\ ~s2mm.busy
    <3>1. ~mm2s.busy
      BY <2>2, Drained
    <3> QED
      BY <1>1, <1>7, <2>2, <3>1, PlaceStep DEF AtRest
  <2> QED
    BY <1>1, <2>1, <2>2, PlaceStep
<1>9. pc' \in {"mm2s", "s2mm"} /\ ~Large(current)' => ~s2mm'.busy /\ inout' = 0
  <2> SUFFICES ASSUME pc' \in {"mm2s", "s2mm"}, ~Large(current)
               PROVE  ~s2mm'.busy /\ inout' = 0
    BY <1>3
  <2>1. ~StartS2mm(step, storing)
    BY <1>1, PlaceStep DEF StartS2mm
  <2>2. inout' = inout
    BY <2>1, GivenStep
  <2>3. pc \in {"mm2s", "s2mm", "key"}
    BY <1>1, PlaceStep
  <2>4. ~s2mm.busy /\ inout = 0
    <3>1. CASE pc = "key"
      <4>1. current > 0
        BY <3>1, PlaceTypes DEF Driven, HwInv, KeyInv
      <4> QED
        BY <1>2, <3>1, <4>1 DEF ChannelsInStep, CallInStep, AtRest
    <3>2. CASE pc # "key"
      BY <1>2, <2>3, <3>2 DEF ChannelsInStep
    <3> QED
      BY <3>1, <3>2
  <2> QED
    BY <1>6, <2>1, <2>2, <2>4
<1>10. pc' = "mm2s" /\ ~Large(current)' => ~mm2s'.busy
  <2> SUFFICES ASSUME pc' = "mm2s", ~Large(current)
               PROVE  ~mm2s'.busy
    BY <1>3
  <2>1. Steady(step) /\ pc \in {"mm2s", "key"}
    BY <1>1, PlaceStep
  <2>2. ~mm2s.busy
    BY <1>2, <2>1 DEF ChannelsInStep, AtRest
  <2> QED
    BY <1>7, <2>1, <2>2
<1> QED
  BY <1>4, <1>5, <1>6, <1>8, <1>9, <1>10 DEF ChannelsInStep

LEMMA CallStays ==
  ASSUME Driven, NEW step, NEW key, NEW storing, Processor(step, key, storing), UNCHANGED calls,
         Steady(step) \/ StartMm2s(step, storing) \/ StartS2mm(step, storing)
  PROVE  CallInStep'
<1>1. /\ current' = current
      /\ Large(current)' <=> Large(current)
      /\ Flushing(current)' <=> Flushing(current)
      /\ calls'[current'].n_blocks = calls[current].n_blocks
      /\ \A c : Blocking(c)' <=> Blocking(c)
  BY DEF current, Large, Flushing, Blocking
<1>2. CallInStep
  BY DEF Driven, InStep
<1>3. Steady(step) => bytes_remaining' = bytes_remaining
  BY DEF Steady
<1>4. current > 0 =>
        /\ pc' \in {"wait", "invalidate", "returned"} => bytes_remaining' = 0
        /\ pc' \in {"flush", "invalidate"} => Flushing(current)
        /\ pc' \in {"flush", "key"} => inout' = 0
  BY <1>2, <1>3, PlaceStep DEF CallInStep
<1> QED
  BY <1>1, <1>2, <1>4 DEF CallInStep

\* A block that enters the pipeline is the next one of the buffer.
LEMMA WordsToCoreStep ==
  ASSUME Driven, BlockingProgram,
         NEW tvalid \in BOOLEAN, NEW wready \in BOOLEAN, NEW fetching \in BOOLEAN,
         NEW storing \in BOOLEAN, NEW step, NEW key,
         HwClock(tvalid, wready, fetching, storing, step, key), UNCHANGED calls,
         Steady(step) \/ StartMm2s(step, storing) \/ StartS2mm(step, storing)
  PROVE  \A k \in 1..Len(to_core') :
           to_core'[k] = [text |-> << current', accepted' + offset' + k >>,
                          last |-> accepted' + offset' + k \in {inout', given'}]
<1>1. /\ DriverInv /\ DmaInv /\ TypeOK /\ ChannelsInStep /\ WordsInStep /\ MemoryInStep
      /\ Mm2sMay(fetching, tvalid)
      /\ Mm2sClock(tvalid, read_tready(wready), fetching, step)
  BY DEF Driven, HwInv, KeyInv, InStep, HwClock
<1>2. PICK a \in {0, 1}, f \in {0, 1} :
        /\ Count(tvalid /\ read_tready(wready)) = a /\ Count(fetching) = f
        /\ f = 1 <=> fetching
  BY CountType
<1>3. /\ accepted' = accepted + a /\ offset' = offset /\ current' = current
      /\ Len(to_core') = Len(to_core) + f - a
      /\ \A k \in 1..Len(to_core') :
           to_core'[k] =
             IF k + a <= Len(to_core) THEN to_core[k + a]
             ELSE [text |-> dram[mm2s.buffer][mm2s.next].text, last |-> mm2s.next = mm2s.end]
  BY <1>2, CountsOfCycle DEF current
<1>4. /\ accepted \in Nat /\ offset \in Int /\ Len(to_core) \in Nat
      /\ stored \in Nat /\ taken \in Nat /\ inout \in Nat /\ given \in Nat
      /\ delivered \in Nat /\ Len(from_core) \in Nat
      /\ taken = accepted + offset + Len(to_core)
  BY <1>1, PlaceTypes DEF ChannelsInStep
<1>5. stored + Len(from_core) <= accepted + offset
  BY <1>4 DEF offset, Driven, OrderInv
<1> SUFFICES ASSUME NEW k \in 1..Len(to_core')
             PROVE  to_core'[k] = [text |-> << current, accepted + a + offset + k >>,
                                   last |-> accepted + a + offset + k \in {inout', given'}]
  BY <1>3
<1> DEFINE n == accepted + a + offset + k
<1>6. k \in Nat /\ k > 0 /\ n \in Int /\ n > stored
  BY <1>2, <1>3, <1>4, <1>5
<1>7. CASE k + a <= Len(to_core)
  <2>1. k + a \in 1..Len(to_core) /\ accepted + offset + (k + a) = n /\ n <= taken
    BY <1>2, <1>4, <1>6, <1>7
  <2>2. to_core'[k] = [text |-> << current, n >>, last |-> EndsTransfer(n)]
    BY <1>1, <1>3, <1>7, <2>1 DEF WordsInStep
  <2> HIDE DEF n
  <2>3. n \in {inout', given'} <=> EndsTransfer(n)
    BY <1>6, <2>1, EndsStep
  <2>4. (n \in {inout', given'}) = EndsTransfer(n)
    BY <2>3 DEF EndsTransfer
  <2> QED
    BY <2>2, <2>4 DEF n
<1>8. CASE ~(k + a <= Len(to_core))
  <2>1. f = 1 /\ fetching /\ k + a = Len(to_core) + 1 /\ n = taken + 1
    BY <1>2, <1>3, <1>4, <1>6, <1>8
  <2>2. /\ mm2s.busy /\ mm2s.next = n /\ mm2s.end = given /\ mm2s.buffer = current
        /\ n <= given
    <3>1. mm2s.next = taken + 1 /\ taken + 1 <= given
      BY <1>1, <2>1, TakenStep
    <3> QED
      BY <1>1, <2>1, <3>1 DEF Mm2sMay, ChannelsInStep
  <2> HIDE DEF n
  <2>3. to_core'[k] = [text |-> dram[current][n].text, last |-> n = given]
    BY <1>3, <1>8, <2>2
  <2>4. dram[current][n].text = << current, n >>
    <3>1. pc # "flush" /\ current > 0
      <4>1. pc \notin AtRest
        BY <1>1, <2>2 DEF ChannelsInStep
      <4> QED
        BY <1>1, <4>1, PlaceTypes DEF AtRest
    <3>2. n \in 1..calls[current].n_blocks
      <4>1. n >= 1
        BY <1>4, <1>6
      <4>2. given <= calls[current].n_blocks
        BY <1>1, <2>2 DEF DmaInv, WithinBuffer
      <4>3. calls[current].n_blocks \in Nat
        BY <1>1, <3>1, PlaceTypes, SMTT(30) DEF DriverInv
      <4> QED
        BY <1>4, <1>6, <2>2, <4>1, <4>2, <4>3
    <3>3. dram[current] = PartlyEncrypted
      BY <1>1, <3>1 DEF MemoryInStep
    <3> QED
      BY <3>2, <3>3 DEF PartlyEncrypted
  <2>5. (n = given) = (n \in {inout', given'})
    <3>1. n \in {inout', given'} <=> n = inout' \/ n = given'
      OBVIOUS
    <3>2. ~StartMm2s(step, storing)
      BY <2>2, GivenStep
    <3>3. pc = "s2mm" => inout < n
      BY <1>1, <2>2 DEF ChannelsInStep
    <3>4. pc # "s2mm" => given = inout
      BY DEF given
    <3>5. CASE Steady(step)
      <4>1. inout' = inout /\ given' = given
        BY <3>5, GivenStep
      <4> QED
        BY <1>4, <1>6, <3>1, <3>3, <3>4, <4>1
    <3>6. CASE StartS2mm(step, storing)
      BY <3>1, <3>6, GivenStep
    <3> QED
      BY <3>2, <3>5, <3>6
  <2> QED
    BY <2>3, <2>4, <2>5 DEF n
<1> QED
  BY <1>7, <1>8

\* The place in the buffer of a block that is offered to the core or in it.
LEMMA OnTheWay ==
  ASSUME Driven, NEW m \in Nat, delivered <= m, m < accepted \/ (m = accepted /\ 1 <= Len(to_core))
  PROVE  /\ m + 1 + offset \in Int /\ stored < m + 1 + offset /\ m + 1 + offset <= taken
         /\ stored + Len(from_core) < m + 1 + offset
<1>1. /\ accepted \in Nat /\ offset \in Int /\ Len(to_core) \in Nat
      /\ stored \in Nat /\ taken \in Nat /\ delivered \in Nat /\ Len(from_core) \in Nat
  BY PlaceTypes DEF Driven, HwInv, KeyInv
<1>2. taken = accepted + offset + Len(to_core) /\ offset = stored + Len(from_core) - delivered
  BY DEF Driven, InStep, ChannelsInStep, offset
<1> QED
  BY <1>1, <1>2

\* With a block on its way the processor is past the key.
LEMMA UnderWay ==
  ASSUME Driven, s2mm.busy \/ pc = "s2mm"
  PROVE  /\ pc \in {"mm2s", "s2mm", "wait"} /\ current \in 1..current
         /\ aes_key = calls[current].key /\ aes_key # NoKey
         /\ dram[current] = PartlyEncrypted
         /\ calls[current].n_blocks \in Nat
<1>1. DriverInv /\ DmaInv /\ TypeOK /\ ChannelsInStep /\ RegistersInStep /\ MemoryInStep
  BY DEF Driven, HwInv, KeyInv, InStep
<1>2. pc \in {"mm2s", "s2mm", "wait"}
  BY <1>1 DEF DriverInv, ChannelsInStep, Pcs, AtRest
<1>3. current \in 1..current /\ current > 0
  BY <1>1, <1>2, PlaceTypes
<1>4. aes_key = calls[current].key /\ dram[current] = PartlyEncrypted
  BY <1>1, <1>2, <1>3 DEF RegistersInStep, MemoryInStep
<1>5. calls[current].key \in Keys /\ calls[current].n_blocks \in Nat
  BY <1>1, <1>3, KeysAssumption DEF DriverInv, CallKeys
<1> QED
  BY <1>2, <1>3, <1>4, <1>5, NoKeyAssumption

\* The word the core is offered is for the next place in the buffer.
LEMMA OfferedWord ==
  ASSUME Driven, NEW fetching, NEW tvalid, Mm2sMay(fetching, tvalid), tvalid
  PROVE  /\ 1 <= Len(to_core)
         /\ Head(to_core).text = << current, accepted + 1 + offset >>
         /\ tlast(tvalid) <=> EndsTransfer(accepted + 1 + offset)
<1>1. /\ IsQueue(to_core) /\ to_core # << >> /\ WordsInStep
      /\ accepted \in Nat /\ offset \in Int /\ Len(to_core) \in Nat
  BY PlaceTypes DEF Driven, HwInv, KeyInv, DmaInv, InStep, Mm2sMay
<1>2. 1 \in 1..Len(to_core) /\ Head(to_core) = to_core[1]
  <2>1. Len(to_core) # 0
    BY <1>1, EmptySeq DEF IsQueue
  <2> QED
    BY <1>1, <2>1
<1>3. to_core[1] = [text |-> << current, accepted + offset + 1 >>,
                    last |-> EndsTransfer(accepted + offset + 1)]
  BY <1>2, <1>1 DEF WordsInStep
<1>4. accepted + offset + 1 = accepted + 1 + offset
  BY <1>1
<1> QED
  BY <1>2, <1>3, <1>4 DEF tlast

\* The blocks in the pipeline keep their places and the ends of their packets.
LEMMA WordsInPipelineStep ==
  ASSUME Driven, BlockingProgram,
         NEW tvalid \in BOOLEAN, NEW wready \in BOOLEAN, NEW fetching \in BOOLEAN,
         NEW storing \in BOOLEAN, NEW step, NEW key,
         HwClock(tvalid, wready, fetching, storing, step, key), UNCHANGED calls,
         Steady(step) \/ StartMm2s(step, storing) \/ StartS2mm(step, storing)
  PROVE  \A i \in Stages : Valid(i)' =>
           (Last(i)' <=> blocks'[i].id + 1 + offset' \in {inout', given'})
<1>1. /\ TypeOK /\ WordsInStep /\ Mm2sMay(fetching, tvalid) /\ OrderInv
      /\ accepted \in Nat /\ offset \in Int /\ delivered \in Nat
      /\ \A i \in Stages : blocks[i] \in StreamBlock /\ blocks[i].id \in Nat
      /\ \A i \in Stages : round_keys[i] \in RoundKey
  BY PlaceTypes DEF Driven, HwInv, KeyInv, InStep, HwClock, TypeOK, RounderTypeOK, StreamBlock
<1>2. offset' = offset
  BY CountsOfCycle
<1>3. PICK k : CycleOf(tvalid, tlast(tvalid), wready, step = "key", k)
  BY CoreCycle DEF Driven
<1>4. ASSUME NEW i \in Stages, Valid(i)
      PROVE  Last(i) <=> blocks[i].id + 1 + offset \in {inout', given'}
  <2>1. delivered <= blocks[i].id /\ blocks[i].id < accepted /\ blocks[i].id \in Nat
    BY <1>1, <1>4 DEF OrderInv
  <2> DEFINE n == blocks[i].id + 1 + offset
  <2>2. n \in Int /\ stored < n /\ n <= taken
    BY <2>1, OnTheWay
  <2>3. Last(i) <=> EndsTransfer(n)
    BY <1>1, <1>4 DEF WordsInStep
  <2> HIDE DEF n
  <2>4. n \in {inout', given'} <=> EndsTransfer(n)
    BY <2>2, EndsStep
  <2> QED
    BY <2>3, <2>4 DEF n
<1> DEFINE last == tlast(tvalid)
           write == step = "key"
<1>5. CycleOf(tvalid, last, wready, write, k)
  BY <1>3
<1>6. last = tlast(tvalid)
  OBVIOUS
<1> HIDE DEF last, write
<1>7. CASE ~read_tready(wready)
  <2>1. \A i \in Stages : /\ Valid(i)' <=> Valid(i)
                          /\ Last(i)' <=> Last(i)
                          /\ blocks'[i] = blocks[i]
    BY <1>1, <1>5, <1>7, PipelineStep
  <2> QED
    BY <1>2, <1>4, <2>1
<1>8. CASE read_tready(wready)
  <2>1. /\ Valid(0)' <=> tvalid
        /\ Last(0)' <=> tvalid /\ last
        /\ Valid(0)' => blocks'[0] =
             add_round_key([id |-> accepted, want |-> OfferedKey, key |-> NoKey], round_keys[0], 0)
        /\ \A i \in Stages \ {0} :
             /\ i - 1 \in Stages
             /\ Valid(i)' <=> Valid(i - 1)
             /\ Last(i)' <=> Last(i - 1)
             /\ Valid(i)' => blocks'[i] = add_round_key(blocks[i - 1], round_keys[i], i)
    BY <1>1, <1>5, <1>8, PipelineStep
  <2>2. ASSUME Valid(0)' PROVE Last(0)' <=> blocks'[0].id + 1 + offset \in {inout', given'}
    <3>1. 0 \in Stages /\ [id |-> accepted, want |-> OfferedKey, key |-> NoKey] \in StreamBlock
      BY <1>1, RoundsAssumption DEF Stages, TypeOK, OfferedKey, StreamBlock
    <3>2. blocks'[0].id = accepted
      BY <1>1, <2>1, <2>2, <3>1, AddRoundKeyType
    <3> DEFINE n == accepted + 1 + offset
    <3>3. n \in Int /\ stored < n /\ n <= taken
      BY <1>1, <2>1, <2>2, OfferedWord, OnTheWay DEF OrderInv
    <3>4. last <=> EndsTransfer(n)
      BY <1>1, <1>6, <2>1, <2>2, OfferedWord
    <3> HIDE DEF n
    <3>5. n \in {inout', given'} <=> EndsTransfer(n)
      BY <3>3, EndsStep
    <3> QED
      BY <2>1, <2>2, <3>2, <3>4, <3>5 DEF n
  <2>3. ASSUME NEW i \in Stages \ {0}, Valid(i)'
        PROVE  Last(i)' <=> blocks'[i].id + 1 + offset \in {inout', given'}
    <3>1. i - 1 \in Stages /\ Valid(i - 1) /\ blocks'[i].id = blocks[i - 1].id
      BY <1>1, <2>1, <2>3, AddRoundKeyType
    <3> QED
      BY <1>4, <2>1, <3>1
  <2> QED
    BY <1>2, <2>2, <2>3
<1> QED
  BY <1>7, <1>8

\* The texts in the pipeline are those of the buffer.
LEMMA TextsStep ==
  ASSUME Driven, BlockingProgram,
         NEW tvalid \in BOOLEAN, NEW wready \in BOOLEAN, NEW fetching \in BOOLEAN,
         NEW storing \in BOOLEAN, NEW step, NEW key,
         HwClock(tvalid, wready, fetching, storing, step, key), UNCHANGED calls,
         Steady(step) \/ StartMm2s(step, storing) \/ StartS2mm(step, storing)
  PROVE  \A n \in Nat : delivered' <= n /\ n < accepted' =>
           fetched'[n + 1] = << current', n + 1 + offset' >>
<1>1. /\ WordsInStep /\ OrderInv /\ Mm2sMay(fetching, tvalid)
      /\ Mm2sClock(tvalid, read_tready(wready), fetching, step)
      /\ accepted \in Nat /\ offset \in Int /\ delivered \in Nat
      /\ IsQueue(fetched) /\ Len(fetched) = accepted
  BY PlaceTypes DEF Driven, HwInv, KeyInv, DmaInv, InStep, HwClock
<1>2. PICK a \in {0, 1}, d \in {0, 1} :
        /\ Count(tvalid /\ read_tready(wready)) = a /\ Count(wready /\ write_tvalid) = d
        /\ a = 1 <=> tvalid /\ read_tready(wready)
  BY CountType
<1>3. /\ accepted' = accepted + a /\ delivered' = delivered + d
      /\ offset' = offset /\ current' = current
  BY <1>2, CountsOfCycle DEF current
<1>4. SUFFICES ASSUME NEW n \in Nat, delivered' <= n, n < accepted'
               PROVE  fetched'[n + 1] = << current, n + 1 + offset >>
  BY <1>3
<1>5. delivered <= n
  BY <1>1, <1>2, <1>3, <1>4
<1>6. CASE n < accepted
  <2>1. fetched[n + 1] = << current, n + 1 + offset >>
    BY <1>1, <1>5, <1>6 DEF WordsInStep
  <2>2. n + 1 \in 1..Len(fetched)
    BY <1>1, <1>6
  <2>3. fetched'[n + 1] = fetched[n + 1]
    <3> DEFINE text == Head(to_core).text
    <3>1. fetched' = Append(fetched, text) \/ fetched' = fetched
      BY <1>1 DEF Mm2sClock
    <3> HIDE DEF text
    <3> QED
      BY <1>1, <2>2, <3>1, QueueAppend
  <2> QED
    BY <2>1, <2>3
<1>7. CASE ~(n < accepted)
  <2>1. a = 1 /\ n = accepted
    BY <1>1, <1>2, <1>3, <1>4, <1>7
  <2> DEFINE text == Head(to_core).text
  <2>2. fetched' = Append(fetched, text)
    BY <1>1, <1>2, <2>1 DEF Mm2sClock
  <2>3. text = << current, accepted + 1 + offset >>
    BY <1>1, <1>2, <2>1, OfferedWord
  <2> HIDE DEF text
  <2>4. fetched'[accepted + 1] = text
    BY <1>1, <2>2, QueueAppend
  <2> QED
    BY <2>1, <2>3, <2>4
<1> QED
  BY <1>6, <1>7

\* The word the core hands out is the next one due: the caller's next block,
\* encrypted with the key of the call.
LEMMA WordDue ==
  ASSUME Driven, write_tvalid
  PROVE  LET n == stored + Len(from_core) + 1
         IN  /\ n \in Int /\ stored < n /\ n <= taken
             /\ fetched[data_matrix_out.id + 1] = << current, n >>
             /\ data_matrix_out.key = calls[current].key
             /\ write_tlast = EndsTransfer(n)
<1>1. /\ TypeOK /\ OrderInv /\ WordsInStep /\ BlocksOfRegisters
      /\ stored \in Nat /\ Len(from_core) \in Nat /\ delivered \in Nat /\ offset \in Int
  BY PlaceTypes DEF Driven, HwInv, KeyInv, InStep, QuietInv
<1>2. Rounds \in Stages /\ Valid(Rounds)
  BY RoundsAssumption DEF Stages, write_tvalid, Valid
<1>3. data_matrix_out.id = delivered /\ delivered < accepted
  BY <1>1, <1>2, OutputIsDue DEF data_matrix_out
<1>4. delivered + 1 + offset = stored + Len(from_core) + 1
  BY <1>1 DEF offset
<1> DEFINE n == stored + Len(from_core) + 1
<1>5. n \in Int /\ stored < n /\ n <= taken
  BY <1>1, <1>3, <1>4, OnTheWay
<1>6. fetched[data_matrix_out.id + 1] = << current, n >>
  BY <1>1, <1>3, <1>4 DEF WordsInStep
<1>7. data_matrix_out.key = calls[current].key
  <2>1. s2mm.busy \/ pc = "s2mm"
    BY <1>2, Drained
  <2>2. aes_key = calls[current].key /\ aes_key # NoKey
    BY <2>1, UnderWay
  <2> QED
    BY <1>1, <1>2, <2>2 DEF BlocksOfRegisters, data_matrix_out
<1>8. write_tlast = EndsTransfer(n)
  <2>1. Last(Rounds) <=> EndsTransfer(n)
    BY <1>1, <1>2, <1>3, <1>4 DEF WordsInStep, data_matrix_out
  <2>2. write_tlast \in BOOLEAN /\ (Last(Rounds) <=> write_tlast)
    BY <1>1, <1>2 DEF TypeOK, RounderTypeOK, Status, write_tlast, Last
  <2> QED
    BY <2>1, <2>2 DEF EndsTransfer
<1> QED
  BY <1>5, <1>6, <1>7, <1>8

LEMMA WordsFromCoreStep ==
  ASSUME Driven, BlockingProgram,
         NEW tvalid \in BOOLEAN, NEW wready \in BOOLEAN, NEW fetching \in BOOLEAN,
         NEW storing \in BOOLEAN, NEW step, NEW key,
         HwClock(tvalid, wready, fetching, storing, step, key), UNCHANGED calls,
         Steady(step) \/ StartMm2s(step, storing) \/ StartS2mm(step, storing)
  PROVE  \A k \in 1..Len(from_core') :
           from_core'[k] = [text |-> << current', stored' + k >>, key |-> calls'[current'].key,
                            last |-> stored' + k \in {inout', given'}]
<1>1. /\ WordsInStep /\ S2mmMay(wready, storing) /\ S2mmClock(wready, storing, step)
      /\ stored \in Nat /\ Len(from_core) \in Nat /\ Len(to_core) \in Nat
      /\ accepted \in Nat /\ delivered \in Nat /\ delivered <= accepted
      /\ offset \in Int /\ taken \in Nat
      /\ taken = accepted + offset + Len(to_core)
  BY PlaceTypes DEF Driven, HwInv, KeyInv, InStep, HwClock, OrderInv, ChannelsInStep
<1>2. PICK st \in {0, 1}, d \in {0, 1} :
        /\ Count(storing) = st /\ Count(wready /\ write_tvalid) = d
        /\ d = 1 => write_tvalid
  BY CountType
<1>3. /\ stored' = stored + st /\ current' = current
      /\ calls'[current'].key = calls[current].key
      /\ Len(from_core') = Len(from_core) + d - st
      /\ \A k \in 1..Len(from_core') :
           from_core'[k] =
             IF k + st <= Len(from_core) THEN from_core[k + st]
             ELSE [text |-> fetched[data_matrix_out.id + 1], key |-> data_matrix_out.key,
                   last |-> write_tlast]
  <2>1. stored' = stored + st
    BY <1>1, <1>2, StoredStep
  <2>2. current' = current
    BY DEF current
  <2>3. calls'[current'].key = calls[current].key
    BY <2>2
  <2>4. /\ Len(from_core') = Len(from_core) + d - st
        /\ \A k \in 1..Len(from_core') :
             from_core'[k] =
               IF k + st <= Len(from_core) THEN from_core[k + st]
               ELSE [text |-> fetched[data_matrix_out.id + 1], key |-> data_matrix_out.key,
                     last |-> write_tlast]
    <3>1. /\ Len(from_core') = Len(from_core) + Count(wready /\ write_tvalid) - Count(storing)
          /\ \A k \in 1..Len(from_core') :
               from_core'[k] =
                 IF k + Count(storing) <= Len(from_core) THEN from_core[k + Count(storing)]
                 ELSE [text |-> fetched[data_matrix_out.id + 1], key |-> data_matrix_out.key,
                       last |-> write_tlast]
      BY CountsOfCycle
    <3> QED
      BY <1>2, <3>1
  <2> QED
    BY <2>1, <2>2, <2>3, <2>4
<1> SUFFICES ASSUME NEW k \in 1..Len(from_core')
             PROVE  from_core'[k] = [text |-> << current, stored + st + k >>,
                                     key |-> calls[current].key,
                                     last |-> stored + st + k \in {inout', given'}]
  BY <1>3
<1> DEFINE n == stored + st + k
<1>4. k \in Nat /\ k > 0 /\ n \in Int /\ n > stored
  BY <1>1, <1>2, <1>3
<1>5. CASE k + st <= Len(from_core)
  <2>1. k + st \in 1..Len(from_core) /\ stored + (k + st) = n
    BY <1>1, <1>2, <1>4, <1>5
  <2>2. from_core'[k] = [text |-> << current, n >>, key |-> calls[current].key,
                         last |-> EndsTransfer(n)]
    BY <1>1, <1>3, <1>5, <2>1 DEF WordsInStep
  <2>3. n <= taken
    BY <1>1, <2>1 DEF offset
  <2> HIDE DEF n
  <2>4. n \in {inout', given'} <=> EndsTransfer(n)
    BY <1>4, <2>3, EndsStep
  <2>5. (n \in {inout', given'}) = EndsTransfer(n)
    BY <2>4 DEF EndsTransfer
  <2> QED
    BY <2>2, <2>5 DEF n
<1>6. CASE ~(k + st <= Len(from_core))
  <2>1. d = 1 /\ n = stored + Len(from_core) + 1
    <3>1. k <= Len(from_core) + d - st
      BY <1>3
    <3>2. Len(from_core) < k + st
      BY <1>1, <1>4, <1>6
    <3> QED
      BY <1>1, <1>4, <3>1, <3>2
  <2>2. /\ n <= taken
        /\ fetched[data_matrix_out.id + 1] = << current, n >>
        /\ data_matrix_out.key = calls[current].key
        /\ write_tlast = EndsTransfer(n)
    BY <1>2, <2>1, WordDue
  <2> HIDE DEF n
  <2>3. from_core'[k] = [text |-> << current, n >>, key |-> calls[current].key,
                         last |-> EndsTransfer(n)]
    BY <1>3, <1>6, <2>2
  <2>4. n \in {inout', given'} <=> EndsTransfer(n)
    BY <1>4, <2>2, EndsStep
  <2>5. (n \in {inout', given'}) = EndsTransfer(n)
    BY <2>4 DEF EndsTransfer
  <2> QED
    BY <2>3, <2>5 DEF n
<1> QED
  BY <1>5, <1>6

\* A packet the core has begun goes on with the blocks of its transfer.
LEMMA PacketStep ==
  ASSUME Driven, BlockingProgram,
         NEW tvalid \in BOOLEAN, NEW wready \in BOOLEAN, NEW fetching \in BOOLEAN,
         NEW storing \in BOOLEAN, NEW step, NEW key,
         HwClock(tvalid, wready, fetching, storing, step, key), UNCHANGED calls,
         Steady(step) \/ StartMm2s(step, storing) \/ StartS2mm(step, storing)
  PROVE  SourceInStep'
<1> DEFINE last == tlast(tvalid)
           ready == read_tready(wready)
<1>1. /\ SourceInStep /\ Mm2sMay(fetching, tvalid)
      /\ MayOffer(tvalid, last) /\ source' = SourceAfter(tvalid, last, ready)
      /\ accepted \in Nat /\ offset \in Int /\ Len(to_core) \in Nat /\ taken \in Nat
      /\ taken = accepted + offset + Len(to_core)
  BY PlaceTypes DEF Driven, HwInv, KeyInv, InStep, HwClock, Clock, StreamClock, ChannelsInStep
<1>2. PICK a \in {0, 1}, f \in {0, 1} :
        /\ Count(tvalid /\ ready) = a /\ Count(fetching) = f
        /\ a = 1 <=> tvalid /\ ready
  BY CountType
<1>3. /\ accepted' = accepted + a /\ offset' = offset
      /\ Len(to_core') = Len(to_core) + f - a
  BY <1>2, CountsOfCycle
<1>4. ready \in BOOLEAN /\ last \in BOOLEAN
  BY DEF read_tready, tlast
<1>5. tvalid => 1 <= Len(to_core) /\ (last <=> EndsTransfer(accepted + 1 + offset))
  BY <1>1, OfferedWord
<1> HIDE DEF last, ready
<1>6. source' \in {"beat", "last"} => to_core' # << >>
  <2> SUFFICES ASSUME source' \in {"beat", "last"} PROVE to_core' # << >>
    OBVIOUS
  <2>1. tvalid /\ ~ready
    BY <1>1, <1>4 DEF SourceAfter, MayOffer
  <2>2. Len(to_core') # 0
    BY <1>1, <1>2, <1>3, <1>5, <2>1
  <2> QED
    BY <2>2, EmptySeq
<1>7. source' = "packet" => accepted' + offset' \notin {inout', given'}
  <2> SUFFICES ASSUME source' = "packet" PROVE accepted' + offset' \notin {inout', given'}
    OBVIOUS
  <2> DEFINE n == accepted + a + offset
  <2>1. n \in Int /\ n <= taken /\ ~EndsTransfer(n)
    <3>1. CASE tvalid
      <4>1. ready /\ ~last /\ a = 1
        BY <1>1, <1>2, <1>4, <3>1 DEF SourceAfter
      <4> QED
        BY <1>1, <1>5, <3>1, <4>1
    <3>2. CASE ~tvalid
      <4>1. a = 0 /\ source = "packet"
        BY <1>1, <1>2, <3>2 DEF SourceAfter
      <4> QED
        BY <1>1, <4>1 DEF SourceInStep
    <3> QED
      BY <3>1, <3>2
  <2> HIDE DEF n
  <2>2. n \notin {inout', given'}
    BY <2>1, EndsStep
  <2> QED
    BY <1>3, <2>2 DEF n
<1> QED
  BY <1>6, <1>7 DEF SourceInStep, EndsTransfer

\* The last word of the key written, the registers hold the key of the call.
LEMMA RegistersStep ==
  ASSUME Driven, BlockingProgram,
         NEW tvalid \in BOOLEAN, NEW wready \in BOOLEAN, NEW fetching \in BOOLEAN,
         NEW storing \in BOOLEAN, NEW step, NEW key,
         HwClock(tvalid, wready, fetching, storing, step, key), UNCHANGED calls,
         Steady(step) \/ StartMm2s(step, storing) \/ StartS2mm(step, storing)
  PROVE  RegistersInStep'
<1>1. /\ RegistersInStep /\ DriverInv /\ TypeOK
      /\ Processor(step, key, storing) /\ SlaveClock(step = "key", key, tvalid)
  BY DEF Driven, HwInv, KeyInv, InStep, HwClock, Clock
<1>2. current' = current /\ calls'[current] = calls[current]
  BY DEF current
<1>3. CASE WriteKeyWord(step, key, storing)
  <2>1. step = "key" /\ aes_key' = key /\ pc \in {"init", "key"}
    BY <1>1, <1>3 DEF WriteKeyWord, SlaveClock, KeyRegisters!WriteKey
  <2>2. CASE pc = "init"
    <3>1. pc' \in {"init", "reset"}
      BY <1>3, <2>2 DEF WriteKeyWord
    <3> QED
      BY <3>1 DEF RegistersInStep
  <2>3. CASE pc = "key"
    <3> DEFINE k == calls[current].key
    <3>1. PICK w \in words_left : /\ key = [aes_key EXCEPT ![w] = k[w]]
                                  /\ words_left' = words_left \ {w}
      BY <1>3, <2>3 DEF WriteKeyWord
    <3>2. /\ pc' = IF words_left' # {} THEN "key" ELSE AfterKey
          /\ AfterKey \in {"wait", "mm2s"}
      BY <1>3, <2>3 DEF WriteKeyWord, AfterKey
    <3>3. aes_key = [v \in Words |-> aes_key[v]]
      BY <1>1 DEF TypeOK, BlockingProgram
    <3>4. k = [v \in Words |-> k[v]]
      <4>1. current \in 1..current
        BY <1>1, <2>3, PlaceTypes DEF Driven, HwInv
      <4>2. k \in Keys
        BY <1>1, <4>1, KeysAssumption DEF DriverInv, CallKeys
      <4> HIDE DEF k
      <4> QED
        BY <4>2 DEF BlockingProgram
    <3>5. \A v \in Words \ words_left : aes_key[v] = k[v]
      BY <1>1, <2>3 DEF RegistersInStep
    <3> HIDE DEF k
    <3>6. \A v \in Words \ words_left' : aes_key'[v] = k[v]
      BY <2>1, <3>1, <3>3, <3>5
    <3>7. aes_key' = [v \in Words |-> aes_key'[v]]
      BY <2>1, <3>1, <3>3
    <3>8. words_left' = {} => aes_key' = k
      BY <3>4, <3>6, <3>7
    <3>9. calls'[current'].key = k
      BY <1>2 DEF k
    <3> QED
      BY <3>2, <3>6, <3>8, <3>9 DEF RegistersInStep
  <2> QED
    BY <2>1, <2>2, <2>3
<1>4. CASE ~WriteKeyWord(step, key, storing)
  <2>1. aes_key' = aes_key
    <3>1. step # "key"
      BY <1>1, <1>4, ProcessorStep
    <3> QED
      BY <1>1, <3>1 DEF SlaveClock, KeyRegisters!HoldKey
  <2>2. /\ words_left' = words_left
        /\ pc' \in {"flush", "key"} => pc \in {"flush", "key"}
        /\ pc' \in {"mm2s", "s2mm", "wait"} => pc \in {"mm2s", "s2mm", "wait"}
    <3>1. CASE \/ ProcessorIdle(step, storing)
               \/ Prefetch(step, storing)
               \/ InvalidateByCaller(step, storing)
      BY <3>1 DEF ProcessorIdle, Prefetch, InvalidateByCaller, driverVars
    <3>2. CASE Flush(step, storing) \/ WaitForS2mm(step, storing) \/ Invalidate(step, storing)
      BY <3>2 DEF Flush, WaitForS2mm, Invalidate
    <3>3. CASE StartMm2s(step, storing) \/ StartS2mm(step, storing)
      BY <3>3 DEF StartMm2s, StartS2mm
    <3>4. ~Calling(step, storing)
      BY <1>1, CallingCalls
    <3> QED
      BY <1>1, <1>4, <3>1, <3>2, <3>3, <3>4 DEF Processor, Calling
  <2> QED
    BY <1>1, <1>2, <2>1, <2>2 DEF RegistersInStep
<1> QED
  BY <1>3, <1>4

\* What the processor does to memory and to the cache within a call.
LEMMA ProcessorMemory ==
  ASSUME DriverInv, MemoryInStep, NEW step, NEW key, NEW storing,
         Processor(step, key, storing), UNCHANGED calls
  PROVE  /\ \/ dram' = Stored(dram, storing) /\ (pc = "flush" => pc' = "flush")
            \/ Flush(step, storing)
         /\ \A c \in 1..current : c # current => cache'[c] = cache[c]
         /\ current > 0 /\ pc' = "returned" /\ Flushing(current) => cache'[current] = "absent"
<1>1. /\ IsQueue(cache) /\ Len(cache) = current /\ current \in Nat
      /\ current > 0 /\ pc = "returned" /\ Flushing(current) => cache[current] = "absent"
  <2>1. current \in Nat
    BY LenProperties DEF DriverInv, IsQueue, current
  <2> QED
    BY <2>1 DEF DriverInv, MemoryInStep, Returned
<1>2. /\ \A c \in 1..current : \A copy :
           c # current => Replaced(cache, current, copy)[c] = cache[c]
      /\ \A copy : current > 0 => Replaced(cache, current, copy)[current] = copy
  <2>1. /\ cache \in [1..current -> {cache[n] : n \in 1..current}]
    BY <1>1, LenProperties DEF IsQueue
  <2> QED
    BY <1>1, <2>1 DEF Replaced
<1>3. CASE \/ ProcessorIdle(step, storing) \/ WriteKeyWord(step, key, storing)
           \/ StartMm2s(step, storing) \/ StartS2mm(step, storing)
           \/ WaitForS2mm(step, storing)
  <2>1. CASE ProcessorIdle(step, storing)
    BY <1>1, <2>1 DEF ProcessorIdle, driverVars
  <2>2. CASE WriteKeyWord(step, key, storing)
    BY <2>2 DEF WriteKeyWord, AfterKey
  <2>3. CASE StartMm2s(step, storing)
    BY <2>3 DEF StartMm2s
  <2>4. CASE StartS2mm(step, storing)
    <3>1. Flushing(current) => Blocking(current)
      BY DEF Flushing, Blocking
    <3> QED
      BY <2>4, <3>1 DEF StartS2mm
  <2>5. CASE WaitForS2mm(step, storing)
    BY <2>5 DEF WaitForS2mm
  <2> QED
    BY <1>3, <2>1, <2>2, <2>3, <2>4, <2>5
<1>4. CASE \/ Prefetch(step, storing) \/ Flush(step, storing)
           \/ Invalidate(step, storing) \/ InvalidateByCaller(step, storing)
  <2>1. CASE Prefetch(step, storing)
    <3>1. cache' = Replaced(cache, current, "clean") /\ pc' # "returned"
          /\ dram' = Stored(dram, storing) /\ pc' = pc
      BY <2>1 DEF Prefetch, Replaced, driverVars
    <3> QED
      BY <1>2, <3>1
  <2>2. CASE Flush(step, storing)
    <3>1. cache' = Replaced(cache, current, "absent")
      BY <2>2 DEF Flush, Replaced
    <3> QED
      BY <1>2, <2>2, <3>1
  <2>3. CASE Invalidate(step, storing) \/ InvalidateByCaller(step, storing)
    <3>1. cache' = Replaced(cache, current, "absent") /\ pc # "flush"
          /\ dram' = Stored(dram, storing)
      BY <2>3 DEF Invalidate, InvalidateByCaller, Replaced
    <3> QED
      BY <1>2, <3>1
  <2> QED
    BY <1>4, <2>1, <2>2, <2>3
<1>5. ~Calling(step, storing)
  BY CallingCalls
<1> QED
  BY <1>3, <1>4, <1>5 DEF Processor, Calling

\* A word stored is the next block of the caller's buffer, encrypted with its key.
LEMMA StoredBlock ==
  ASSUME Driven, NEW wready, NEW storing \in BOOLEAN, S2mmMay(wready, storing)
  PROVE  /\ \A c \in 1..current : c # current => Stored(dram, storing)[c] = dram[c]
         /\ current > 0 /\ pc # "flush" =>
              Stored(dram, storing)[current] =
                [i \in 1..calls[current].n_blocks |->
                   [text |-> << current, i >>,
                    key |-> IF i <= stored + Count(storing) THEN calls[current].key ELSE NoKey]]
<1>1. /\ DriverInv /\ DmaInv /\ ChannelsInStep /\ WordsInStep /\ MemoryInStep
      /\ IsQueue(dram) /\ Len(dram) = current
      /\ stored \in Nat /\ current \in Nat
      /\ Len(from_core) \in Nat
  BY PlaceTypes DEF Driven, HwInv, KeyInv, DriverInv, InStep
<1>2. CASE ~storing
  <2>1. Stored(dram, storing) = dram /\ stored + Count(storing) = stored
    BY <1>1, <1>2 DEF Stored, Count
  <2>2. current > 0 /\ pc # "flush" => dram[current] = PartlyEncrypted
    BY <1>1 DEF MemoryInStep
  <2>3. PartlyEncrypted =
          [i \in 1..calls[current].n_blocks |->
             [text |-> << current, i >>,
              key |-> IF i <= stored + Count(storing) THEN calls[current].key ELSE NoKey]]
    <3> DEFINE upto == stored + Count(storing)
    <3>1. upto = stored
      BY <2>1
    <3> HIDE DEF upto
    <3>2. PartlyEncrypted =
            [i \in 1..calls[current].n_blocks |->
               [text |-> << current, i >>,
                key |-> IF i <= upto THEN calls[current].key ELSE NoKey]]
      BY <3>1 DEF PartlyEncrypted
    <3> QED
      BY <3>2 DEF upto
  <2> QED
    BY <2>1, <2>2, <2>3
<1>3. CASE storing
  <2>1. /\ s2mm.busy /\ s2mm.buffer = current /\ s2mm.next = stored + 1
        /\ from_core # << >>
    <3>1. s2mm.busy /\ from_core # << >>
      BY <1>3 DEF S2mmMay
    <3>2. s2mm.next \in Nat
      BY <1>1 DEF DmaInv, Channel
    <3> QED
      BY <1>1, <3>1, <3>2 DEF ChannelsInStep, stored
  <2>2. Head(from_core) = [text |-> << current, stored + 1 >>, key |-> calls[current].key,
                           last |-> EndsTransfer(stored + 1)]
    <3>1. Len(from_core) # 0
      BY <1>1, <2>1, EmptySeq DEF DmaInv, IsQueue
    <3>2. Head(from_core) = from_core[1] /\ 1 \in 1..Len(from_core)
      BY <1>1, <2>1, <3>1
    <3> QED
      BY <1>1, <3>2 DEF WordsInStep
  <2> DEFINE word == [text |-> << current, stored + 1 >>, key |-> calls[current].key]
             buffer == [dram[current] EXCEPT ![stored + 1] = word]
  <2>3. Stored(dram, storing) = Replaced(dram, current, buffer)
    <3>1. Stored(dram, storing) =
            Replaced(dram, s2mm.buffer,
                     [dram[s2mm.buffer] EXCEPT ![s2mm.next] =
                        [text |-> Head(from_core).text, key |-> Head(from_core).key]])
      BY <1>3 DEF Stored, Replaced
    <3>2. [text |-> Head(from_core).text, key |-> Head(from_core).key] = word
      BY <2>2
    <3> HIDE DEF word
    <3> QED
      BY <2>1, <3>1, <3>2
  <2>4. dram \in [1..current -> {dram[n] : n \in 1..current}]
    BY <1>1, LenProperties DEF IsQueue
  <2>5. current > 0 /\ dram[current] = PartlyEncrypted /\ calls[current].n_blocks \in Nat
    BY <1>1, <2>1, UnderWay
  <2> DEFINE n_blocks == calls[current].n_blocks
             k == calls[current].key
  <2>6. buffer = [i \in 1..n_blocks |->
                    [text |-> << current, i >>, key |-> IF i <= stored + 1 THEN k ELSE NoKey]]
    <3>1. dram[current] = [i \in 1..n_blocks |->
                    [text |-> << current, i >>, key |-> IF i <= stored THEN k ELSE NoKey]]
      BY <2>5 DEF PartlyEncrypted
    <3>2. n_blocks \in Nat
      BY <2>5
    <3> HIDE DEF n_blocks, k
    <3>3. buffer = [i \in 1..n_blocks |-> IF i = stored + 1 THEN [text |-> << current, stored + 1 >>, key |-> k]
                      ELSE [text |-> << current, i >>, key |-> IF i <= stored THEN k ELSE NoKey]]
      BY <3>1 DEF k
    <3>4. \A i \in 1..n_blocks :
            (IF i = stored + 1 THEN [text |-> << current, stored + 1 >>, key |-> k]
             ELSE [text |-> << current, i >>, key |-> IF i <= stored THEN k ELSE NoKey]) =
            [text |-> << current, i >>, key |-> IF i <= stored + 1 THEN k ELSE NoKey]
      <4> SUFFICES ASSUME NEW i \in 1..n_blocks
                   PROVE  (IF i = stored + 1 THEN [text |-> << current, stored + 1 >>, key |-> k]
                           ELSE [text |-> << current, i >>,
                                 key |-> IF i <= stored THEN k ELSE NoKey]) =
                          [text |-> << current, i >>,
                           key |-> IF i <= stored + 1 THEN k ELSE NoKey]
        OBVIOUS
      <4>1. stored \in Nat /\ i \in Nat
        BY <1>1, <3>2
      <4>2. CASE i = stored + 1
        BY <4>1, <4>2
      <4>3. CASE i # stored + 1
        <5>1. i <= stored + 1 <=> i <= stored
          BY <4>1, <4>3
        <5> QED
          BY <4>3, <5>1
      <4> QED
        BY <4>2, <4>3
    <3> QED
      BY <3>3, <3>4
  <2>7. stored + Count(storing) = stored + 1
    BY <1>3 DEF Count
  <2> HIDE DEF buffer, n_blocks, k
  <2>8. /\ Replaced(dram, current, buffer)[current] = buffer
        /\ \A c \in 1..current : c # current => Replaced(dram, current, buffer)[c] = dram[c]
    BY <1>1, <2>4, <2>5 DEF Replaced
  <2> QED
    BY <2>3, <2>6, <2>7, <2>8 DEF n_blocks, k
<1> QED
  BY <1>2, <1>3

LEMMA MemoryStep ==
  ASSUME Driven, BlockingProgram,
         NEW tvalid \in BOOLEAN, NEW wready \in BOOLEAN, NEW fetching \in BOOLEAN,
         NEW storing \in BOOLEAN, NEW step, NEW key,
         HwClock(tvalid, wready, fetching, storing, step, key), UNCHANGED calls,
         Steady(step) \/ StartMm2s(step, storing) \/ StartS2mm(step, storing)
  PROVE  MemoryInStep'
<1>1. /\ DriverInv /\ MemoryInStep /\ CallInStep /\ ChannelsInStep
      /\ Processor(step, key, storing)
      /\ S2mmMay(wready, storing) /\ S2mmClock(wready, storing, step)
      /\ current \in Nat /\ stored \in Nat
  BY PlaceTypes DEF Driven, HwInv, KeyInv, InStep, HwClock
<1>2. current' = current /\ UNCHANGED calls
  BY DEF current
<1>3. stored' = stored + Count(storing)
  BY <1>1, StoredStep
<1>4. /\ \A c \in 1..current : c # current => dram'[c] = dram[c]
      /\ current > 0 /\ pc' # "flush" => dram'[current] = PartlyEncrypted'
  <2> DEFINE after == [i \in 1..calls[current].n_blocks |->
                         [text |-> << current, i >>,
                          key |-> IF i <= stored + Count(storing) THEN calls[current].key
                                                                  ELSE NoKey]]
  <2>1. PartlyEncrypted' = after
    BY <1>2, <1>3 DEF PartlyEncrypted
  <2>2. CASE dram' = Stored(dram, storing) /\ (pc = "flush" => pc' = "flush")
    BY <1>1, <2>1, <2>2, StoredBlock
  <2>3. CASE Flush(step, storing)
    <3>1. pc = "flush" /\ ~s2mm.busy /\ ~storing
      BY <1>1, <2>3 DEF Flush, ChannelsInStep, AtRest, S2mmMay
    <3>2. dram' = Replaced(dram, current, Text(current))
      BY <2>3, <3>1 DEF Flush, Stored, Replaced
    <3>3. stored + Count(storing) = 0 /\ current > 0
      <4>1. current > 0
        BY <3>1, PlaceTypes DEF Driven, HwInv, KeyInv
      <4> QED
        BY <1>1, <3>1, <4>1 DEF CallInStep, stored, Count
    <3>4. Text(current) = after
      BY <3>3 DEF Text
    <3>5. dram \in [1..current -> {dram[n] : n \in 1..current}]
      BY <1>1, LenProperties DEF IsQueue, DriverInv
    <3> HIDE DEF after
    <3>6. /\ Replaced(dram, current, Text(current))[current] = Text(current)
          /\ \A c \in 1..current : c # current => Replaced(dram, current, Text(current))[c] = dram[c]
      BY <1>1, <3>3, <3>5 DEF Replaced
    <3> QED
      BY <2>1, <3>2, <3>4, <3>6
  <2> QED
    BY <1>1, <2>2, <2>3, ProcessorMemory
<1>5. ASSUME NEW c \in 1..current, c # current
      PROVE  /\ dram'[c] = Ciphertext(c)'
             /\ Flushing(c)' => cache'[c] = "absent"
  <2>1. Returned(c) /\ Ciphertext(c)' = Ciphertext(c) /\ (Flushing(c)' <=> Flushing(c))
    BY <1>1, <1>2, <1>5 DEF Returned, Ciphertext, Flushing
  <2>2. dram[c] = Ciphertext(c) /\ (Flushing(c) => cache[c] = "absent")
    BY <1>1, <2>1 DEF MemoryInStep
  <2> QED
    BY <1>1, <1>4, <1>5, <2>1, <2>2, ProcessorMemory
<1>6. ASSUME current > 0, pc' = "returned"
      PROVE  /\ dram'[current] = Ciphertext(current)'
             /\ Flushing(current)' => cache'[current] = "absent"
  <2>1. Flushing(current)' <=> Flushing(current)
    BY <1>2 DEF Flushing
  <2>2. DriverInv' /\ CallInStep' /\ ChannelsInStep'
    BY <1>1, ProcessorStep, CallStays, ChannelsStep
  <2>3. stored' = inout' /\ bytes_remaining' = 0 /\ inout' \in Nat
    BY <1>2, <1>6, <2>2 DEF ChannelsInStep, CallInStep, DriverInv, stored, AtRest
  <2>4. 16 * inout' + bytes_remaining' = 16 * calls[current].n_blocks
        /\ calls[current].n_blocks \in Nat
    BY <1>1, <1>2, <1>6, <2>2 DEF DriverInv
  <2> DEFINE n == calls[current].n_blocks
  <2>5. \A i \in 1..n : i <= stored'
    <3> HIDE DEF n
    <3> QED
      BY <2>3, <2>4 DEF n
  <2>6. PartlyEncrypted' = Ciphertext(current)'
    <3>1. PartlyEncrypted' = [i \in 1..n |-> [text |-> << current, i >>,
                                  key |-> IF i <= stored' THEN calls[current].key ELSE NoKey]]
      BY <1>2 DEF PartlyEncrypted
    <3>2. Ciphertext(current)' = [i \in 1..n |-> [text |-> << current, i >>,
                                                  key |-> calls[current].key]]
      BY <1>2 DEF Ciphertext
    <3> QED
      BY <2>5, <3>1, <3>2
  <2> QED
    BY <1>1, <1>4, <1>6, <2>1, <2>6, ProcessorMemory
<1> QED
  BY <1>1, <1>2, <1>4, <1>5, <1>6 DEF MemoryInStep, Returned

\* A cycle within a call keeps everything in step.
LEMMA WithinCallInStep ==
  ASSUME Driven, BlockingProgram,
         NEW tvalid \in BOOLEAN, NEW wready \in BOOLEAN, NEW fetching \in BOOLEAN,
         NEW storing \in BOOLEAN, NEW step, NEW key,
         HwClock(tvalid, wready, fetching, storing, step, key), UNCHANGED calls,
         Steady(step) \/ StartMm2s(step, storing) \/ StartS2mm(step, storing)
  PROVE  InStep'
<1>1. CallInStep'
  BY CallStays DEF HwClock
<1>2. ChannelsInStep'
  BY ChannelsStep
<1>3. WordsInStep'
  BY WordsToCoreStep, WordsInPipelineStep, TextsStep, WordsFromCoreStep
     DEF WordsInStep, EndsTransfer, Valid, Last
<1>4. SourceInStep' /\ RegistersInStep' /\ MemoryInStep'
  BY PacketStep, RegistersStep, MemoryStep
<1> QED
  BY <1>1, <1>2, <1>3, <1>4 DEF InStep

-----------------------------------------------------------------------------
(* A cycle in which a call begins *)

\* The call that begins, beside the ones before.
LEMMA NewCall ==
  ASSUME DriverInv, CallInStep, BlockingProgram, NEW step, NEW storing, ~storing,
         Calling(step, storing)
  PROVE  /\ pc \in {"returned", "reset"} /\ pc' \in {"flush", "key"}
         /\ current \in Nat /\ current' = current + 1
         /\ words_left' = Words /\ inout' = 0
         /\ \A c \in 1..current : /\ calls'[c] = calls[c]
                                  /\ dram'[c] = dram[c]
                                  /\ cache'[c] = cache[c]
         /\ Blocking(current)'
         /\ ~Large(current)' => 16 * calls'[current'].n_blocks <= max_dma_size
         /\ pc' = "flush" => Flushing(current)'
         /\ pc' = "key" => dram'[current'] = Text(current)'
<1>1. PICK fn \in AllFunctions \ {"aes_hw_encrypt_nonblocking"},
           key \in CallKeys, n_blocks \in Nat :
        /\ Call(fn, key, n_blocks)
        /\ MayCall(fn, n_blocks)
  <2>1. CASE CallDriver(step, storing)
    <3>1. PICK fn \in Functions, key \in CipherKeys, n_blocks \in Sizes :
            MayCall(fn, n_blocks) /\ Call(fn, key, n_blocks)
      BY <2>1 DEF CallDriver
    <3>2. /\ fn \in AllFunctions \ {"aes_hw_encrypt_nonblocking"}
          /\ key \in CallKeys /\ n_blocks \in Nat
      BY FunctionsAssumption, SizesAssumption DEF BlockingProgram, CallKeys
    <3> QED
      BY <3>1, <3>2
  <2>2. CASE ResetDma(step, storing)
    <3>1. ZeroKey \in CallKeys /\ "aes_hw_encrypt" \in AllFunctions
      BY DEF CallKeys, AllFunctions
    <3>2. max_dma_size \in Int
      BY LengthAssumption DEF max_dma_size
    <3>3. MayCall("aes_hw_encrypt", 1)
      BY <3>2 DEF MayCall, BlockingProgram
    <3> QED
      BY <2>2, <3>1, <3>3 DEF ResetDma
  <2> QED
    BY <2>1, <2>2 DEF Calling
<1> DEFINE call == [fn |-> fn, key |-> key, n_blocks |-> n_blocks]
<1>2. /\ calls' = Append(calls, call) /\ words_left' = Words /\ inout' = 0
  BY <1>1 DEF Call
<1>3. /\ current \in Nat /\ current' = current + 1
      /\ \A c \in 1..current : calls'[c] = calls[c]
      /\ calls'[current'] = call
  <2> HIDE DEF call
  <2> QED
    BY <1>2, QueueAppend DEF DriverInv, current
<1>4. /\ Blocking(current)'
      /\ ~Large(current)' => 16 * calls'[current'].n_blocks <= max_dma_size
  <2>1. calls'[current'].fn = fn /\ calls'[current'].n_blocks = n_blocks
    BY <1>3
  <2>2. Blocking(current)'
    BY <2>1 DEF Blocking
  <2>3. n_blocks * 16 > max_dma_size => Large(current)'
    BY <1>1, <2>1 DEF MayCall, Large
  <2>4. max_dma_size \in Int
    BY LengthAssumption DEF max_dma_size
  <2>5. ~(n_blocks * 16 > max_dma_size) => 16 * n_blocks <= max_dma_size
    BY <2>4
  <2> QED
    BY <2>1, <2>2, <2>3, <2>5
<1>5. PICK text, copy :
        /\ pc \in {"returned", "reset"} /\ pc' \in {"flush", "key"}
        /\ dram' = Append(dram, text) /\ cache' = Append(cache, copy)
        /\ pc' = "flush" => Flushing(current)'
        /\ pc' = "key" => text = Text(current)'
  BY DEF Calling, CallDriver, ResetDma, Stored
<1>6. /\ \A c \in 1..current : dram'[c] = dram[c] /\ cache'[c] = cache[c]
      /\ dram'[current'] = text
  BY <1>3, <1>5, QueueAppend DEF DriverInv
<1> QED
  BY <1>2, <1>3, <1>4, <1>5, <1>6

\* A call begins with nothing on its way and no block of it encrypted.
LEMMA CallingInStep ==
  ASSUME Driven, BlockingProgram,
         NEW tvalid \in BOOLEAN, NEW wready \in BOOLEAN, NEW fetching \in BOOLEAN,
         NEW storing \in BOOLEAN, NEW step, NEW key,
         HwClock(tvalid, wready, fetching, storing, step, key),
         Calling(step, storing)
  PROVE  InStep'
<1>1. /\ DriverInv /\ CallInStep /\ ChannelsInStep /\ MemoryInStep /\ OrderInv
      /\ Mm2sMay(fetching, tvalid) /\ S2mmMay(wready, storing)
      /\ Mm2sClock(tvalid, read_tready(wready), fetching, step)
      /\ S2mmClock(wready, storing, step)
      /\ StreamClock(tvalid, tlast(tvalid), read_tready(wready), wready)
      /\ accepted \in Nat /\ delivered \in Nat
  BY PlaceTypes DEF Driven, HwInv, KeyInv, InStep, HwClock, Clock
<1>2. pc \in {"returned", "reset"} /\ step \in {"call", "reset"}
  BY DEF Calling, CallDriver, ResetDma
<1>3. ~s2mm.busy
  BY <1>1, <1>2 DEF ChannelsInStep, AtRest
<1>4. /\ ~mm2s.busy /\ to_core = << >> /\ from_core = << >> /\ accepted = delivered
      /\ source = "idle" /\ \A i \in Stages : ~Valid(i)
  BY <1>2, <1>3, Drained
<1>5. ~storing /\ ~fetching /\ ~tvalid /\ ~write_tvalid
  <2>1. ~storing /\ ~fetching /\ ~tvalid
    BY <1>1, <1>3, <1>4 DEF Mm2sMay, S2mmMay
  <2>2. Rounds \in Stages
    BY RoundsAssumption DEF Stages
  <2> QED
    BY <1>4, <2>1, <2>2 DEF write_tvalid, Valid
<1>6. /\ pc' \in {"flush", "key"}
      /\ current \in Nat /\ current' = current + 1
      /\ words_left' = Words /\ inout' = 0
      /\ \A c \in 1..current : /\ calls'[c] = calls[c]
                               /\ dram'[c] = dram[c]
                               /\ cache'[c] = cache[c]
      /\ Blocking(current)'
      /\ ~Large(current)' => 16 * calls'[current'].n_blocks <= max_dma_size
      /\ pc' = "flush" => Flushing(current)'
      /\ pc' = "key" => dram'[current'] = Text(current)'
  BY <1>1, <1>5, NewCall
<1>7. ~mm2s'.busy /\ ~s2mm'.busy
  <2>1. /\ mm2s' = CASE step = "reset" -> IdleChannel
                     [] step = "mm2s"  -> XAxiDma_SimpleTransfer(mm2s, transfer)
                     [] OTHER          -> mm2s
        /\ s2mm' = CASE step = "reset" -> IdleChannel
                     [] step = "s2mm"  -> XAxiDma_SimpleTransfer(s2mm, transfer)
                     [] OTHER          -> s2mm
    BY <1>1, <1>5 DEF Mm2sClock, S2mmClock
  <2>2. CASE step = "reset"
    BY <2>1, <2>2 DEF IdleChannel
  <2>3. CASE step = "call"
    BY <1>3, <1>4, <2>1, <2>3
  <2> QED
    BY <1>2, <2>2, <2>3
<1>8. /\ to_core' = << >> /\ from_core' = << >>
      /\ accepted' = accepted /\ delivered' = accepted /\ source' = "idle"
  BY <1>1, <1>4, <1>5 DEF Mm2sClock, S2mmClock, StreamClock, SourceAfter
<1>9. \A i \in Stages : ~Valid(i)'
  <2>1. OrderInv' /\ TypeOK'
    BY CoreStep DEF HwInv, KeyInv
  <2>2. SUFFICES ASSUME NEW i \in Stages, Valid(i)' PROVE FALSE
    OBVIOUS
  <2>3. accepted' <= blocks'[i].id /\ blocks'[i].id < accepted'
    BY <1>8, <2>1, <2>2 DEF OrderInv, Valid
  <2>4. blocks'[i].id \in Nat
    BY <2>1 DEF TypeOK, RounderTypeOK, StreamBlock
  <2> QED
    BY <1>1, <1>8, <2>3, <2>4
<1>10. stored' = 0 /\ given' = 0 /\ taken' = 0
  BY <1>6, <1>7 DEF stored, given, taken
<1>11. CallInStep'
  <2>1. \A c \in 1..current' : Blocking(c)'
    <3> SUFFICES ASSUME NEW c \in 1..current' PROVE Blocking(c)'
      OBVIOUS
    <3>1. CASE c \in 1..current
      BY <1>1, <1>6, <3>1 DEF CallInStep, Blocking
    <3>2. CASE c = current'
      BY <1>6, <3>2 DEF Blocking
    <3> QED
      BY <1>6, <3>1, <3>2
  <2> QED
    BY <1>6, <2>1 DEF CallInStep
<1>12. ChannelsInStep'
  <2>1. taken' = accepted' + offset' + Len(to_core')
    BY <1>1, <1>8, <1>10, EmptyQueue DEF offset
  <2> QED
    BY <1>6, <1>7, <2>1 DEF ChannelsInStep
<1>13. WordsInStep'
  BY <1>1, <1>8, <1>9, EmptyQueue DEF WordsInStep, Valid
<1>14. SourceInStep' /\ RegistersInStep'
  BY <1>6, <1>8 DEF SourceInStep, RegistersInStep
<1>15. MemoryInStep'
  <2>1. ASSUME NEW c \in 1..current', Returned(c)'
        PROVE  dram'[c] = Ciphertext(c)' /\ (Flushing(c)' => cache'[c] = "absent")
    <3>1. c \in 1..current /\ c < current'
      BY <1>6, <2>1 DEF Returned
    <3>2. Returned(c)
      <4>1. current # 0
        BY <1>6, <3>1
      <4>2. pc = "returned"
        BY <1>1, <1>2, <4>1 DEF DriverInv
      <4> QED
        BY <4>2 DEF Returned
    <3>3. calls'[c] = calls[c] /\ dram'[c] = dram[c] /\ cache'[c] = cache[c]
      BY <1>6, <3>1
    <3> QED
      BY <1>1, <3>1, <3>2, <3>3 DEF MemoryInStep, Ciphertext, Flushing
  <2>2. pc' # "flush" => dram'[current'] = PartlyEncrypted'
    <3> SUFFICES ASSUME pc' = "key" PROVE dram'[current'] = PartlyEncrypted'
      BY <1>6
    <3>1. dram'[current'] = Text(current)'
      BY <1>6
    <3>2. Text(current)' = PartlyEncrypted'
      BY <1>10 DEF Text, PartlyEncrypted
    <3> QED
      BY <3>1, <3>2
  <2> QED
    BY <2>1, <2>2 DEF MemoryInStep
<1> QED
  BY <1>11, <1>12, <1>13, <1>14, <1>15 DEF InStep

-----------------------------------------------------------------------------
(* Every cycle *)

LEMMA InitInStep == HwInit => InStep
<1> SUFFICES ASSUME HwInit PROVE InStep
  OBVIOUS
<1>1. /\ current = 0 /\ pc = "init" /\ inout = 0
      /\ ~mm2s.busy /\ ~s2mm.busy
      /\ to_core = << >> /\ from_core = << >> /\ Len(to_core) = 0 /\ Len(from_core) = 0
  BY EmptyQueue DEF HwInit, current, IdleChannel
<1>2. /\ accepted = 0 /\ delivered = 0 /\ source = "idle"
      /\ \A i \in Stages : ~Valid(i)
  BY DEF HwInit, Init, StreamInit, RounderInit, PipelineInit, Valid
<1>3. stored = 0 /\ given = 0 /\ taken = 0 /\ offset = 0
  BY <1>1, <1>2 DEF stored, given, taken, offset
<1>4. CallInStep /\ MemoryInStep /\ SourceInStep /\ RegistersInStep
  BY <1>1, <1>2 DEF CallInStep, MemoryInStep, SourceInStep, RegistersInStep
<1>5. ChannelsInStep /\ WordsInStep
  BY <1>1, <1>2, <1>3 DEF ChannelsInStep, WordsInStep
<1> QED
  BY <1>4, <1>5 DEF InStep

LEMMA ResetInStep == HwReset => InStep'
<1> SUFFICES ASSUME HwReset PROVE InStep'
  OBVIOUS
<1>1. /\ current' = 0 /\ pc' = "init" /\ inout' = 0
      /\ ~mm2s'.busy /\ ~s2mm'.busy
      /\ to_core' = << >> /\ from_core' = << >> /\ Len(to_core') = 0 /\ Len(from_core') = 0
  BY EmptyQueue DEF HwReset, current, IdleChannel
<1>2. /\ accepted' = 0 /\ delivered' = 0 /\ source' = "idle"
      /\ \A i \in Stages : ~Valid(i)'
  BY DEF HwReset, Reset, StreamReset, RounderReset, PipelineReset, Valid
<1>3. stored' = 0 /\ given' = 0 /\ taken' = 0 /\ offset' = 0
  BY <1>1, <1>2 DEF stored, given, taken, offset
<1>4. CallInStep' /\ MemoryInStep' /\ SourceInStep' /\ RegistersInStep'
  BY <1>1, <1>2 DEF CallInStep, MemoryInStep, SourceInStep, RegistersInStep
<1>5. ChannelsInStep' /\ WordsInStep'
  BY <1>1, <1>2, <1>3 DEF ChannelsInStep, WordsInStep, Valid
<1> QED
  BY <1>4, <1>5 DEF InStep

\* While nothing changes, everything stays in step.
LEMMA StutterInStep == Driven /\ UNCHANGED hwVars => HwInv' /\ QuietInv' /\ OrderInv' /\ InStep'
<1> SUFFICES ASSUME Driven, UNCHANGED << vars, driverVars, dmaVars, cache >>
             PROVE  HwInv' /\ QuietInv' /\ OrderInv' /\ InStep'
  BY DEF hwVars
<1>1. UNCHANGED vars /\ UNCHANGED << driverVars, dmaVars, cache >>
  OBVIOUS
<1>2. UNCHANGED << source, packet_key, accepted, delivered, aes_key,
                   key_change_pending_rounder, transaction_state, refresh_state,
                   key_syncing_counter, parallel_status_pipeline, blocks >>
  BY <1>1 DEF vars, rounderVars, transactionVars, refreshVars, pipelineVars, flagVars, slaveVars,
     streamVars
<1>3. KeyInv'
  BY <1>1 DEF Driven, HwInv, vars, keyExpansionVars, rounderVars, transactionVars, refreshVars,
     pipelineVars, flagVars, slaveVars, streamVars, KeyInv, TypeOK, KeyExpansionTypeOK,
     RounderTypeOK, ExpansionRunning, ExpansionDone, PendingTogether, KeyLoaded, RefreshBehind,
     LocalKeysCurrent, Expanding, Expanded, AllOf, key_syncing
<1>4. DriverInv' /\ DmaInv'
  BY <1>1, <1>2 DEF Driven, HwInv, driverVars, dmaVars, DriverInv, DmaInv, IsQueue, current,
     Large, WithinBuffer
<1>5. QuietInv'
  BY <1>2 DEF Driven, QuietInv, BlocksOfRegisters, OfferOfRegisters, PendingAlone,
     TransactionEnds, Valid, Last, transaction_status, key_syncing
<1>6. OrderInv'
  BY <1>2 DEF Driven, OrderInv, OldestFirst, DueInPipeline, Valid
<1>7. UNCHANGED << pc, calls, words_left, bytes_remaining, inout, mm2s, s2mm, to_core, from_core,
                   fetched, dram, cache >>
  BY <1>1 DEF driverVars, dmaVars
<1>8. /\ current' = current /\ given' = given /\ taken' = taken /\ stored' = stored
      /\ offset' = offset
      /\ \A c : /\ Large(c)' <=> Large(c)
                /\ Flushing(c)' <=> Flushing(c)
                /\ Blocking(c)' <=> Blocking(c)
  BY <1>2, <1>7 DEF current, transfer, LargeTransfer, given, taken, stored, offset, Large,
     Flushing, Blocking
<1>9. CallInStep' /\ ChannelsInStep' /\ SourceInStep' /\ RegistersInStep'
  BY <1>2, <1>7, <1>8 DEF Driven, InStep, CallInStep, ChannelsInStep, SourceInStep,
     RegistersInStep, EndsTransfer
<1>10. WordsInStep'
  BY <1>2, <1>7, <1>8 DEF Driven, InStep, WordsInStep, EndsTransfer, Valid, Last
<1>11. MemoryInStep'
  BY <1>7, <1>8 DEF Driven, InStep, MemoryInStep, Returned, Ciphertext, PartlyEncrypted
<1> QED
  BY <1>3, <1>4, <1>5, <1>6, <1>9, <1>10, <1>11 DEF HwInv, InStep

LEMMA DrivenNext ==
  ASSUME Driven, BlockingProgram, [HwNext]_hwVars
  PROVE  HwInv' /\ QuietInv' /\ OrderInv' /\ InStep'
<1>1. ASSUME NEW tvalid \in BOOLEAN, NEW wready \in BOOLEAN, NEW fetching \in BOOLEAN,
             NEW storing \in BOOLEAN, NEW step \in Steps, NEW key \in KeysWritten,
             HwClock(tvalid, wready, fetching, storing, step, key)
      PROVE  HwInv' /\ QuietInv' /\ OrderInv' /\ InStep'
  <2>1. HwInv' /\ QuietInv' /\ OrderInv'
    BY <1>1, CoreStep
  <2>2. Processor(step, key, storing)
    BY <1>1 DEF HwClock
  <2>3. InStep'
    <3>1. CASE Calling(step, storing)
      BY <1>1, <3>1, CallingInStep
    <3>2. CASE Steady(step) \/ StartMm2s(step, storing) \/ StartS2mm(step, storing)
      <4>1. UNCHANGED calls
        BY <3>2 DEF Steady, StartMm2s, StartS2mm
      <4> QED
        BY <1>1, <3>2, <4>1, WithinCallInStep
    <3> QED
      BY <2>2, <3>1, <3>2, StepKinds
  <2> QED
    BY <2>1, <2>3
<1>2. CASE HwReset
  <2>1. HwInv'
    BY <1>2, ResetHwInv DEF Driven
  <2>2. Reset
    BY <1>2 DEF HwReset
  <2> QED
    BY <1>2, <2>1, <2>2, ResetQuietInv, ResetOrderInv, ResetInStep
<1>3. CASE UNCHANGED hwVars
  BY <1>3, StutterInStep
<1> QED
  BY <1>1, <1>2, <1>3 DEF HwNext

LEMMA InitDriven == HwInit => Driven
<1> SUFFICES ASSUME HwInit PROVE Driven
  OBVIOUS
<1>1. Init
  BY DEF HwInit
<1> QED
  BY <1>1, InitHwInv, InitQuietInv, InitOrderInv, InitInStep DEF Driven

\* Driver, DMA engine and core stay in step, whatever blocking functions are
\* called, with whatever sizes, keys and length register.
THEOREM DrivenInvariance ==
  ASSUME BlockingProgram
  PROVE  HwSpec => []Driven
<1>1. HwInit => Driven
  BY InitDriven
<1>2. ASSUME Driven, [HwNext]_hwVars PROVE Driven'
  BY <1>2, DrivenNext DEF Driven
<1> QED
  BY <1>1, <1>2, PTL DEF HwSpec

\* aes_hw.h:11 (EncryptedInPlace): when a function returns, every block of its
\* buffer is in memory, encrypted with the key of the call, and a flushing
\* function has left no older copy in the cache.
THEOREM EncryptedInPlaceCorrect ==
  ASSUME BlockingProgram
  PROVE  HwSpec => []EncryptedInPlace
<1>1. Driven => EncryptedInPlace
  BY DEF Driven, InStep, MemoryInStep, EncryptedInPlace
<1> QED
  BY <1>1, DrivenInvariance, PTL

\* Overlapping packets or not, every block of every call goes through the core
\* under the key of its packet, once and in order.
THEOREM DriverStream ==
  ASSUME BlockingProgram
  PROVE  HwSpec => [](KeyCommitted /\ ExactlyOnce)
<1>1. Driven => KeyCommitted /\ ExactlyOnce
  <2> SUFFICES ASSUME Driven PROVE KeyCommitted /\ ExactlyOnce
    OBVIOUS
  <2>1. KeyInv /\ QuietInv /\ OrderInv /\ TypeOK
    BY DEF Driven, HwInv, KeyInv
  <2>2. KeyCommitted
    BY <2>1, QuietFlows
  <2>3. ExactlyOnce
    BY <2>1, OrderIsOnce
  <2> QED
    BY <2>2, <2>3
<1> QED
  BY <1>1, DrivenInvariance, PTL


-----------------------------------------------------------------------------
(* The discipline *)

\* The core with the discipline that guards key writes differs in that guard alone.
LEMMA SameStart == Init => Disciplined!Init
BY Zenon DEF Init, Disciplined!Init, KeyExpansionInit, Disciplined!KeyExpansionInit,
   RounderInit, Disciplined!RounderInit, FlagsInit, Disciplined!FlagsInit, StreamInit,
   Disciplined!StreamInit, KeyRegisters!SlaveInit, Disciplined!KeyRegisters!SlaveInit,
   NoRoundKey, Disciplined!NoRoundKey, TransactionInit, Disciplined!TransactionInit,
   RefreshInit, Disciplined!RefreshInit, PipelineInit, Disciplined!PipelineInit, NoBlock,
   Disciplined!NoBlock, Stages, Disciplined!Stages

LEMMA SameStutter == UNCHANGED vars => UNCHANGED Disciplined!vars
BY Zenon DEF vars, Disciplined!vars, keyExpansionVars, Disciplined!keyExpansionVars,
   rounderVars, Disciplined!rounderVars, flagVars, Disciplined!flagVars, slaveVars,
   Disciplined!slaveVars, streamVars, Disciplined!streamVars, transactionVars,
   Disciplined!transactionVars, refreshVars, Disciplined!refreshVars, pipelineVars,
   Disciplined!pipelineVars

LEMMA SameReset == Reset => Disciplined!Reset
BY Zenon DEF Reset, Disciplined!Reset, KeyExpansionReset, Disciplined!KeyExpansionReset,
   RounderReset, Disciplined!RounderReset, FlagsReset, Disciplined!FlagsReset, StreamReset,
   Disciplined!StreamReset, KeyRegisters!SlaveReset, Disciplined!KeyRegisters!SlaveReset,
   TransactionReset, Disciplined!TransactionReset, RefreshReset, Disciplined!RefreshReset,
   PipelineReset, Disciplined!PipelineReset, NoRoundKey, Disciplined!NoRoundKey, NoBlock,
   Disciplined!NoBlock, Stages, Disciplined!Stages

LEMMA QuietClock ==
  ASSUME NEW tvalid, NEW tlast0, NEW wready, NEW write, NEW key,
         Clock(tvalid, tlast0, wready, write, key), QuietCycle(tvalid, write)
  PROVE  Disciplined!Clock(tvalid, tlast0, wready, write, key)
<1>1. write => Disciplined!WriteAllowed(tvalid)
  BY DEF QuietCycle, Disciplined!WriteAllowed, InFlight, Disciplined!InFlight, Stages,
     Disciplined!Stages
<1>2. Disciplined!SlaveClock(write, key, tvalid)
  BY <1>1 DEF Clock, SlaveClock, Disciplined!SlaveClock, KeyRegisters!WriteKey,
     Disciplined!KeyRegisters!WriteKey, KeyRegisters!HoldKey, Disciplined!KeyRegisters!HoldKey
<1> QED
  BY <1>2, Zenon DEF Clock, Disciplined!Clock, KeyExpansionClock,
     Disciplined!KeyExpansionClock, RounderClock, Disciplined!RounderClock, FlagsClock,
     Disciplined!FlagsClock, StreamClock, Disciplined!StreamClock, key_expansion_ack,
     Disciplined!key_expansion_ack, rounder_key_ack, Disciplined!rounder_key_ack,
     selected_key, Disciplined!selected_key, read_tready, Disciplined!read_tready, MayOffer,
     Disciplined!MayOffer, SourceAfter, Disciplined!SourceAfter, OfferedKey,
     Disciplined!OfferedKey, KeyRegisters!WriteKey, Disciplined!KeyRegisters!WriteKey,
     KeyRegisters!HoldKey, Disciplined!KeyRegisters!HoldKey, KeyExpansionIdle,
     Disciplined!KeyExpansionIdle, StartExpansion, Disciplined!StartExpansion,
     GenerateRoundKey, Disciplined!GenerateRoundKey, RestartExpansion,
     Disciplined!RestartExpansion, LoadKey, Disciplined!LoadKey, keyExpansionVars,
     Disciplined!keyExpansionVars, RoundKeyOf, Disciplined!RoundKeyOf, NoRoundKey,
     Disciplined!NoRoundKey, next_round_key, Disciplined!next_round_key, key_consumed,
     Disciplined!key_consumed, round_key, Disciplined!round_key, TransactionClock,
     Disciplined!TransactionClock, RefreshClock, Disciplined!RefreshClock, PipelineClock,
     Disciplined!PipelineClock, BeginTransaction, Disciplined!BeginTransaction,
     EndTransaction, Disciplined!EndTransaction, KeepTransaction,
     Disciplined!KeepTransaction, RefreshIdle, Disciplined!RefreshIdle, RefreshSync,
     Disciplined!RefreshSync, Stall, Disciplined!Stall, Advance, Disciplined!Advance, stall,
     Disciplined!stall, key_ack, Disciplined!key_ack, add_round_key,
     Disciplined!add_round_key, transaction_status, Disciplined!transaction_status,
     key_syncing, Disciplined!key_syncing, key_select, Disciplined!key_select, write_tvalid,
     Disciplined!write_tvalid, write_tlast, Disciplined!write_tlast, data_matrix_out,
     Disciplined!data_matrix_out, NoBlock, Disciplined!NoBlock, Stages, Disciplined!Stages,
     pipelineVars, Disciplined!pipelineVars, InFlight, Disciplined!InFlight

\* Software that waits for its transfers never writes a word of a key while a
\* packet is offered or in the pipeline, so every guarantee of the core that asks
\* for that holds under the driver.
THEOREM UsesTheCoreSafelyCorrect ==
  ASSUME BlockingProgram
  PROVE  HwSpec => UsesTheCoreSafely
<1>1. HwInit => Disciplined!Init
  BY SameStart DEF HwInit
<1>2. ASSUME Driven, [HwNext]_hwVars PROVE [Disciplined!Next]_(Disciplined!vars)
  <2>1. ASSUME NEW tvalid \in BOOLEAN, NEW wready \in BOOLEAN, NEW fetching \in BOOLEAN,
               NEW storing \in BOOLEAN, NEW step \in Steps, NEW key \in KeysWritten,
               HwClock(tvalid, wready, fetching, storing, step, key)
        PROVE  Disciplined!Next
    <3> DEFINE last == tlast(tvalid)
               write == step = "key"
    <3>1. PICK k : CycleOf(tvalid, last, wready, write, k)
      BY <1>2, <2>1, CoreCycle DEF Driven
    <3>2. QuietCycle(tvalid, write)
      BY <1>2, <2>1, DriverIsQuiet
    <3> HIDE DEF last, write
    <3>3. Disciplined!Clock(tvalid, last, wready, write, k)
      BY <3>1, <3>2, QuietClock DEF CycleOf
    <3> QED
      BY <3>1, <3>3 DEF CycleOf, Disciplined!Next
  <2>2. CASE HwReset
    BY <2>2, SameReset DEF HwReset, Disciplined!Next
  <2>3. CASE UNCHANGED hwVars
    BY <2>3, SameStutter DEF hwVars
  <2> QED
    BY <1>2, <2>1, <2>2, <2>3 DEF HwNext
<1> QED
  BY <1>1, <1>2, DrivenInvariance, PTL DEF HwSpec, UsesTheCoreSafely, Disciplined!Spec
=============================================================================
