------------------------ MODULE DemonstrationProofs ------------------------
(***************************************************************************)
(* Proofs that the demonstration program prints ciphertext and finds that  *)
(* software and hardware match, for every size of the file, every keys and *)
(* every timing of processor, DMA engine, cache and core.                  *)
(***************************************************************************)
EXTENDS Demonstration, DriverProofs

\* What is asked of the constants: the two functions main calls are there, the
\* file can have any size that is allowed as a number of blocks, and the two blocks
\* of test 1 fit a transfer.
DemonstrationProgram ==
  /\ BlockingProgram
  /\ {"aes_hw_encrypt", "aes_hw_encrypt_flushing_large"} \subseteq Functions
  /\ FileSizes \subseteq Nat
  /\ {test1_blocks} \cup {(size + 16 - 1) \div 16 : size \in FileSizes} \subseteq Sizes
  /\ 16 * test1_blocks <= max_dma_size
  /\ MaxCalls \in Nat /\ MaxCalls >= 3

Test1Call == [fn |-> "aes_hw_encrypt", key |-> Test1Key, n_blocks |-> test1_blocks]
FileCall  == [fn |-> "aes_hw_encrypt_flushing_large", key |-> FileTestKey, n_blocks |-> n_blocks]

MainPlaces == {"init", "flushed", "test1", "invalidated", "printed", "read", "software",
               "hardware", "returned"}

\* The calls main has made by each of its places, and what it relies on there.
CallsOfMain ==
  /\ main \in MainPlaces
  /\ main = "init" => current <= 1
  /\ main = "flushed" => current = 1
  /\ main \in {"test1", "invalidated", "printed", "read", "software"} =>
       current = 2 /\ calls[2] = Test1Call
  /\ main \in {"hardware", "returned"} => current = 3 /\ calls[3] = FileCall
  /\ main \notin {"init", "test1", "hardware"} => pc = "returned"

BuffersOfMain ==
  /\ lines = IF main = "flushed" THEN "written" ELSE "dirty"
  /\ main = "invalidated" => cache[2] = "absent"

ResultsOfMain ==
  /\ main \in {"printed", "read", "software", "hardware", "returned"} =>
       printed = [i \in 1..test1_blocks |-> [text |-> << 2, i >>, key |-> Test1Key]]
  /\ main \in {"read", "software"} => bytes_read \in FileSizes
  /\ main \in {"software", "hardware"} =>
       cipher = [i \in 1..n_blocks |-> [text |-> << 3, i >>, key |-> FileTestKey]]
  /\ matches = TRUE

MainInv == CallsOfMain /\ BuffersOfMain /\ ResultsOfMain

-----------------------------------------------------------------------------
(* main as a caller of the driver *)

LEMMA CallPlace ==
  ASSUME DriverInv
  PROVE  /\ current \in Nat
         /\ current = 0 <=> pc \in {"init", "reset"}
BY LenProperties DEF DriverInv, IsQueue, current

\* Between its calls main leaves the driver alone.
LEMMA UnseenIsIdle ==
  ASSUME NEW step, NEW key, NEW storing, Unseen(step, storing)
  PROVE  Processor(step, key, storing)
BY DEF Unseen, Processor, ProcessorIdle

LEMMA CallAppended ==
  ASSUME DriverInv, NEW call, calls' = Append(calls, call)
  PROVE  current' = current + 1 /\ calls'[current + 1] = call
BY QueueAppend DEF DriverInv, current

\* A call main makes is one that AesHw lets software make.
LEMMA CallIsAsked ==
  ASSUME DriverInv, NEW step, NEW key, NEW storing, pc = "returned", current < MaxCalls,
         NEW fn \in Functions, NEW k \in CipherKeys, NEW n \in Sizes, MayCall(fn, n),
         fn = "aes_hw_encrypt" => lines = "written",
         fn # "aes_hw_encrypt" => lines = "dirty",
         fn \in {"aes_hw_encrypt", "aes_hw_encrypt_flushing_large"},
         CallWith(step, storing, fn, k, n)
  PROVE  /\ Processor(step, key, storing)
         /\ calls' = Append(calls, [fn |-> fn, key |-> k, n_blocks |-> n])
         /\ current' = current + 1
         /\ calls'[current'] = [fn |-> fn, key |-> k, n_blocks |-> n]
<1>1. /\ Call(fn, k, n) /\ step = "call"
      /\ calls' = Append(calls, [fn |-> fn, key |-> k, n_blocks |-> n])
  BY DEF CallWith, Call
<1>2. /\ current' = current + 1
      /\ calls'[current'] = [fn |-> fn, key |-> k, n_blocks |-> n]
  BY <1>1, CallAppended
<1>3. Flushing(current)' <=> fn # "aes_hw_encrypt"
  BY <1>2 DEF Flushing
<1>4. CallDriver(step, storing)
  <2>1. \E fn1 \in Functions, key1 \in CipherKeys, n_blocks1 \in Sizes :
          MayCall(fn1, n_blocks1) /\ Call(fn1, key1, n_blocks1)
    BY <1>1
  <2>2. calls'[current'].n_blocks = n
    BY <1>2
  <2>3. CASE fn = "aes_hw_encrypt"
    BY <1>1, <1>3, <2>1, <2>3 DEF CallDriver, CallWith
  <2>4. CASE fn # "aes_hw_encrypt"
    BY <1>1, <1>3, <2>1, <2>2, <2>4 DEF CallDriver, CallWith
  <2> QED
    BY <2>3, <2>4
<1> QED
  BY <1>1, <1>2, <1>4 DEF Processor

\* Whatever main does, the processor takes a step of AesHw.
LEMMA MainIsAsked ==
  ASSUME DriverInv, MainInv, DemonstrationProgram, NEW step, NEW key, NEW storing,
         Main(step, storing)
  PROVE  Processor(step, key, storing)
<1>1. current \in Nat
  BY CallPlace
<1>2. CASE EncryptTest1(step, storing)
  <2>1. /\ main = "flushed" /\ pc = "returned" /\ current = 1 /\ lines = "written"
        /\ CallWith(step, storing, "aes_hw_encrypt", Test1Key, test1_blocks)
    BY <1>2 DEF EncryptTest1, AtReturn, MainInv, CallsOfMain, BuffersOfMain
  <2>2. MayCall("aes_hw_encrypt", test1_blocks)
    <3>1. max_dma_size \in Int
      BY LengthAssumption DEF max_dma_size
    <3> QED
      BY <3>1 DEF DemonstrationProgram, MayCall, test1_blocks
  <2>3. /\ "aes_hw_encrypt" \in Functions /\ Test1Key \in CipherKeys
        /\ test1_blocks \in Sizes /\ current < MaxCalls
    BY <2>1, TestKeysAssumption DEF DemonstrationProgram
  <2> QED
    BY <2>1, <2>2, <2>3, CallIsAsked
<1>3. CASE EncryptInHardware(step, storing)
  <2>1. /\ main = "software" /\ pc = "returned" /\ current = 2 /\ lines = "dirty"
        /\ bytes_read \in FileSizes
        /\ CallWith(step, storing, "aes_hw_encrypt_flushing_large", FileTestKey, n_blocks)
    BY <1>3 DEF EncryptInHardware, AtReturn, MainInv, CallsOfMain, BuffersOfMain, ResultsOfMain
  <2>2. MayCall("aes_hw_encrypt_flushing_large", n_blocks)
    BY DEF MayCall
  <2>3. /\ "aes_hw_encrypt_flushing_large" \in Functions /\ FileTestKey \in CipherKeys
        /\ n_blocks \in Sizes /\ current < MaxCalls
    BY <2>1, TestKeysAssumption DEF DemonstrationProgram, n_blocks
  <2> QED
    BY <2>1, <2>2, <2>3, CallIsAsked
<1>4. CASE InvalidateTest1(step, storing)
  <2>1. pc = "returned" /\ current > 0
    BY <1>4 DEF InvalidateTest1, AtReturn, MainInv, CallsOfMain
  <2> QED
    BY <1>4, <2>1 DEF InvalidateTest1, InvalidateByCaller, Processor
<1> QED
  BY <1>2, <1>3, <1>4, UnseenIsIdle DEF Main, FlushTest1, PrintTest1, ReadFile,
     EncryptInSoftware, Compare

-----------------------------------------------------------------------------
(* Step by step *)

\* A step within the driver makes no call but that of aes_hw_init, and after a
\* call's return nothing at all.
LEMMA InDriverStep ==
  ASSUME DriverInv, NEW step, NEW key, NEW storing, InDriver(step, key, storing)
  PROVE  /\ current > 0 => UNCHANGED calls
         /\ current = 0 => current' \in {0, 1}
         /\ pc = "returned" => UNCHANGED << pc, cache >>
<1>1. /\ step = "none" \/ pc # "returned"
      /\ current \in Nat
      /\ current = 0 <=> pc \in {"init", "reset"}
      /\ Processor(step, key, storing)
  BY CallPlace DEF InDriver
<1>2. CASE ResetDma(step, storing)
  <2>1. current' = current + 1 /\ pc = "reset"
    BY <1>2, QueueAppend DEF ResetDma, Call, DriverInv, current
  <2> QED
    BY <1>1, <2>1
<1>3. CASE CallDriver(step, storing)
  BY <1>1, <1>3 DEF CallDriver
<1>4. CASE ~ResetDma(step, storing) /\ ~CallDriver(step, storing)
  <2>1. UNCHANGED calls
    BY <1>1, <1>4 DEF Processor, ProcessorIdle, Prefetch, Flush, WriteKeyWord, StartMm2s,
       StartS2mm, WaitForS2mm, Invalidate, InvalidateByCaller, driverVars
  <2>2. pc = "returned" => UNCHANGED << pc, cache >>
    BY <1>1, <1>4 DEF Processor, ProcessorIdle, Prefetch, Flush, WriteKeyWord, StartMm2s,
       StartS2mm, WaitForS2mm, Invalidate, InvalidateByCaller, driverVars
  <2> QED
    BY <1>1, <2>1, <2>2 DEF current
<1> QED
  BY <1>2, <1>3, <1>4

LEMMA InDriverMainInv ==
  ASSUME DriverInv, MainInv, NEW step, NEW key, NEW storing, InDriver(step, key, storing)
  PROVE  MainInv'
<1>1. /\ current > 0 => UNCHANGED calls
      /\ current = 0 => current' \in {0, 1}
      /\ pc = "returned" => UNCHANGED << pc, cache >>
      /\ current \in Nat
      /\ current = 0 <=> pc \in {"init", "reset"}
  BY InDriverStep, CallPlace
<1>2. UNCHANGED << main, lines, printed, bytes_read, cipher, matches, n_blocks >>
  BY DEF InDriver, mainVars, n_blocks
<1>3. CallsOfMain'
  <2>1. current > 0 => current' = current
    BY <1>1 DEF current
  <2> QED
    BY <1>1, <1>2, <2>1 DEF MainInv, CallsOfMain, MainPlaces, FileCall, Test1Call
<1>4. BuffersOfMain'
  BY <1>1, <1>2 DEF MainInv, BuffersOfMain, CallsOfMain
<1>5. ResultsOfMain'
  BY <1>2 DEF MainInv, ResultsOfMain
<1> QED
  BY <1>3, <1>4, <1>5 DEF MainInv

\* The steps of main that leave the driver alone, up to the results of the first
\* call: what main prints is what the driver has left in memory.
LEMMA PreparingMainInv ==
  ASSUME Driven, MainInv, NEW step, NEW storing,
         \/ FlushTest1(step, storing)
         \/ InvalidateTest1(step, storing)
         \/ PrintTest1(step, storing)
         \/ ReadFile(step, storing)
  PROVE  MainInv'
<1>1. /\ DriverInv /\ current \in Nat
      /\ current = 0 <=> pc \in {"init", "reset"}
  BY CallPlace DEF Driven, HwInv
<1>2. CASE FlushTest1(step, storing)
  <2>1. /\ UNCHANGED << pc, calls, current, printed, bytes_read, cipher, matches >>
        /\ main = "init" /\ main' = "flushed" /\ pc = "returned" /\ lines' = "written"
    BY <1>2 DEF FlushTest1, AtReturn, Unseen, driverVars, current
  <2>2. current = 1
    BY <1>1, <2>1 DEF MainInv, CallsOfMain
  <2> QED
    BY <2>1, <2>2 DEF MainInv, CallsOfMain, BuffersOfMain, ResultsOfMain, MainPlaces, n_blocks
<1>3. CASE InvalidateTest1(step, storing)
  <2>1. /\ UNCHANGED << pc, calls, current, lines, printed, bytes_read, cipher, matches >>
        /\ main = "test1" /\ main' = "invalidated" /\ pc = "returned"
        /\ cache' = [cache EXCEPT ![current] = "absent"]
    BY <1>3 DEF InvalidateTest1, AtReturn, driverVars, current
  <2>2. current = 2 /\ calls[2] = Test1Call
    BY <2>1 DEF MainInv, CallsOfMain
  <2>3. cache'[2] = "absent"
    BY <1>1, <2>1, <2>2 DEF DriverInv, IsQueue
  <2>4. CallsOfMain'
    BY <2>1, <2>2 DEF CallsOfMain, MainPlaces, Test1Call
  <2> QED
    BY <2>1, <2>3, <2>4 DEF MainInv, BuffersOfMain, ResultsOfMain, n_blocks
<1>4. CASE PrintTest1(step, storing)
  <2>1. /\ UNCHANGED << pc, calls, current, lines, bytes_read, cipher, matches >>
        /\ main = "invalidated" /\ main' = "printed" /\ pc = "returned"
        /\ printed' = SeenByProcessor(current)
    BY <1>4 DEF PrintTest1, AtReturn, Unseen, driverVars, current
  <2>2. current = 2 /\ calls[2] = Test1Call /\ cache[2] = "absent"
    BY <2>1 DEF MainInv, CallsOfMain, BuffersOfMain
  <2>3. dram[2] = Ciphertext(2)
    BY <2>1, <2>2 DEF Driven, InStep, MemoryInStep, Returned
  <2>4. printed' = [i \in 1..test1_blocks |-> [text |-> << 2, i >>, key |-> Test1Key]]
    BY <2>1, <2>2, <2>3 DEF SeenByProcessor, Ciphertext, Test1Call
  <2>5. CallsOfMain'
    BY <2>1, <2>2 DEF CallsOfMain, MainPlaces, Test1Call
  <2> QED
    BY <2>1, <2>4, <2>5 DEF MainInv, BuffersOfMain, ResultsOfMain, n_blocks
<1>5. CASE ReadFile(step, storing)
  <2>1. /\ UNCHANGED << pc, calls, current, lines, printed, cipher, matches >>
        /\ main = "printed" /\ main' = "read" /\ pc = "returned"
        /\ bytes_read' \in FileSizes
    BY <1>5 DEF ReadFile, AtReturn, Unseen, driverVars, current
  <2>2. CallsOfMain'
    BY <2>1 DEF MainInv, CallsOfMain, MainPlaces, Test1Call
  <2> QED
    BY <2>1, <2>2 DEF MainInv, BuffersOfMain, ResultsOfMain
<1> QED
  BY <1>2, <1>3, <1>4, <1>5

\* The two encryptions of the file and their comparison: both are of the buffer as
\* it was, and nothing of the hardware's is left in the cache.
LEMMA ComparingMainInv ==
  ASSUME Driven, MainInv, NEW step, NEW storing,
         \/ EncryptInSoftware(step, storing)
         \/ Compare(step, storing)
  PROVE  MainInv'
<1>1. CASE EncryptInSoftware(step, storing)
  <2>1. /\ UNCHANGED << pc, calls, current, lines, printed, bytes_read, matches, n_blocks >>
        /\ main = "read" /\ main' = "software" /\ pc = "returned"
        /\ cipher' = [i \in 1..n_blocks |->
                        [text |-> << current + 1, i >>, key |-> FileTestKey]]
    BY <1>1 DEF EncryptInSoftware, AtReturn, Unseen, driverVars, current, n_blocks
  <2>2. current = 2 /\ current + 1 = 3
    BY <2>1 DEF MainInv, CallsOfMain
  <2>3. CallsOfMain'
    BY <2>1 DEF MainInv, CallsOfMain, MainPlaces, Test1Call
  <2>4. ResultsOfMain'
    BY <2>1, <2>2 DEF MainInv, ResultsOfMain
  <2> QED
    BY <2>1, <2>3, <2>4 DEF MainInv, BuffersOfMain
<1>2. CASE Compare(step, storing)
  <2>1. /\ UNCHANGED << pc, calls, current, lines, printed, bytes_read, cipher, n_blocks >>
        /\ main = "hardware" /\ main' = "returned" /\ pc = "returned"
        /\ matches' = \A i \in 1..n_blocks : SeenByProcessor(current)[i] = cipher[i]
    BY <1>2 DEF Compare, AtReturn, Unseen, driverVars, current, n_blocks
  <2>2. current = 3 /\ calls[3] = FileCall
    BY <2>1 DEF MainInv, CallsOfMain
  <2>3. dram[3] = Ciphertext(3) /\ cache[3] = "absent"
    BY <2>1, <2>2 DEF Driven, InStep, MemoryInStep, Returned, Flushing, FileCall
  <2>4. SeenByProcessor(current) = cipher
    BY <2>1, <2>2, <2>3 DEF SeenByProcessor, Ciphertext, FileCall, MainInv, ResultsOfMain
  <2>5. matches' = TRUE
    BY <2>1, <2>4
  <2>6. CallsOfMain'
    BY <2>1, <2>2 DEF CallsOfMain, MainPlaces, FileCall
  <2> QED
    BY <2>1, <2>5, <2>6 DEF MainInv, BuffersOfMain, ResultsOfMain
<1> QED
  BY <1>1, <1>2

\* The two calls main makes itself.
LEMMA CallingMainInv ==
  ASSUME DriverInv, MainInv, NEW step, NEW storing,
         EncryptTest1(step, storing) \/ EncryptInHardware(step, storing)
  PROVE  MainInv'
<1>1. CASE EncryptTest1(step, storing)
  <2>1. /\ UNCHANGED << printed, bytes_read, cipher, matches >>
        /\ main = "flushed" /\ main' = "test1" /\ lines' = "dirty"
        /\ calls' = Append(calls, Test1Call)
    BY <1>1 DEF EncryptTest1, AtReturn, CallWith, Call, Test1Call
  <2>2. current = 1
    BY <2>1 DEF MainInv, CallsOfMain
  <2>3. current' = 2 /\ calls'[2] = Test1Call
    <3>1. current' = current + 1 /\ calls'[current + 1] = Test1Call
      BY <2>1, CallAppended
    <3> QED
      BY <2>2, <3>1
  <2>4. CallsOfMain'
    BY <2>1, <2>3 DEF CallsOfMain, MainPlaces, Test1Call
  <2> QED
    BY <2>1, <2>4 DEF MainInv, BuffersOfMain, ResultsOfMain, n_blocks
<1>2. CASE EncryptInHardware(step, storing)
  <2>1. /\ UNCHANGED << lines, printed, bytes_read, cipher, matches, n_blocks >>
        /\ main = "software" /\ main' = "hardware"
        /\ calls' = Append(calls, FileCall)
    BY <1>2 DEF EncryptInHardware, AtReturn, CallWith, Call, FileCall, n_blocks
  <2>2. current = 2
    BY <2>1 DEF MainInv, CallsOfMain
  <2>3. current' = 3 /\ calls'[3] = FileCall
    <3>1. current' = current + 1 /\ calls'[current + 1] = FileCall
      BY <2>1, CallAppended
    <3> QED
      BY <2>2, <3>1
  <2>4. CallsOfMain'
    BY <2>1, <2>3 DEF CallsOfMain, MainPlaces, FileCall
  <2> QED
    BY <2>1, <2>4 DEF MainInv, BuffersOfMain, ResultsOfMain
<1> QED
  BY <1>1, <1>2

-----------------------------------------------------------------------------
(* The theorems *)

LEMMA InitMainInv == DemonstrationInit => HwInit /\ MainInv
<1> SUFFICES ASSUME DemonstrationInit PROVE HwInit /\ MainInv
  OBVIOUS
<1>1. HwInit /\ current = 0
  BY EmptyQueue DEF DemonstrationInit, HwInit, current
<1> QED
  BY <1>1 DEF DemonstrationInit, MainInv, CallsOfMain, BuffersOfMain, ResultsOfMain, MainPlaces

\* A step of the demonstration is a step of AesHw and keeps what main relies on.
LEMMA DemonstrationStep ==
  ASSUME Driven, MainInv, DemonstrationProgram, [DemonstrationNext]_demonstrationVars
  PROVE  [HwNext]_hwVars /\ MainInv'
<1>0. DriverInv
  BY DEF Driven, HwInv
<1>1. ASSUME NEW tvalid \in BOOLEAN, NEW wready \in BOOLEAN, NEW fetching \in BOOLEAN,
             NEW storing \in BOOLEAN, NEW step \in Steps, NEW key \in KeysWritten,
             DemonstrationClock(tvalid, wready, fetching, storing, step, key)
      PROVE  HwNext /\ MainInv'
  <2>1. Main(step, storing) \/ InDriver(step, key, storing)
    BY <1>1 DEF DemonstrationClock
  <2>2. Processor(step, key, storing)
    BY <1>0, <2>1, MainIsAsked DEF InDriver
  <2>3. HwClock(tvalid, wready, fetching, storing, step, key)
    BY <1>1, <2>2 DEF DemonstrationClock, HwClock
  <2>4. HwNext
    BY <2>3 DEF HwNext
  <2>5. MainInv'
    BY <1>0, <2>1, InDriverMainInv, PreparingMainInv, ComparingMainInv, CallingMainInv DEF Main
  <2> QED
    BY <2>4, <2>5
<1>2. CASE DemonstrationReset
  <2>1. HwReset /\ current' = 0
    BY <1>2, EmptyQueue DEF DemonstrationReset, HwReset, current
  <2>2. MainInv'
    BY <1>2, <2>1 DEF DemonstrationReset, MainInv, CallsOfMain, BuffersOfMain, ResultsOfMain,
       MainPlaces
  <2> QED
    BY <2>1, <2>2 DEF HwNext
<1>3. CASE UNCHANGED demonstrationVars
  <2>1. /\ UNCHANGED hwVars
        /\ UNCHANGED << pc, calls, cache, main, lines, printed, bytes_read, cipher, matches >>
        /\ current' = current /\ n_blocks' = n_blocks
    BY <1>3 DEF demonstrationVars, mainVars, hwVars, driverVars, dmaVars, current, n_blocks
  <2>2. CallsOfMain'
    BY <2>1 DEF MainInv, CallsOfMain, FileCall, Test1Call
  <2> QED
    BY <2>1, <2>2 DEF MainInv, BuffersOfMain, ResultsOfMain
<1> QED
  BY <1>1, <1>2, <1>3 DEF DemonstrationNext

\* main, the driver, the DMA engine and the core stay in step.
THEOREM DemonstrationInvariance ==
  ASSUME DemonstrationProgram
  PROVE  DemonstrationSpec => [](Driven /\ MainInv)
<1>1. DemonstrationInit => Driven /\ MainInv
  BY InitMainInv, InitDriven
<1>2. ASSUME Driven /\ MainInv, [DemonstrationNext]_demonstrationVars
      PROVE  (Driven /\ MainInv)'
  <2>1. [HwNext]_hwVars /\ MainInv'
    BY <1>2, DemonstrationStep
  <2>2. Driven'
    BY <1>2, <2>1, DrivenNext DEF DemonstrationProgram, Driven
  <2> QED
    BY <2>1, <2>2
<1> QED
  BY <1>1, <1>2, PTL DEF DemonstrationSpec

\* helloworld.c uses the driver as AesHw takes its callers to (UsesTheDriverAsAsked):
\* all that is proved of the driver holds of the demonstration.
THEOREM UsesTheDriverAsAskedCorrect ==
  ASSUME DemonstrationProgram
  PROVE  DemonstrationSpec => UsesTheDriverAsAsked
<1>1. DemonstrationInit => HwInit
  BY InitMainInv
<1>2. ASSUME Driven /\ MainInv, [DemonstrationNext]_demonstrationVars
      PROVE  [HwNext]_hwVars
  BY <1>2, DemonstrationStep
<1> QED
  BY <1>1, <1>2, DemonstrationInvariance, PTL
  DEF DemonstrationSpec, UsesTheDriverAsAsked, HwSpec

\* helloworld.c:88-89 (PrintsCiphertext): the blocks of test 1 that main prints are the
\* ciphertext of its text under its key, in order.
THEOREM PrintsCiphertextCorrect ==
  ASSUME DemonstrationProgram
  PROVE  DemonstrationSpec => []PrintsCiphertext
<1>1. MainInv => PrintsCiphertext
  BY DEF MainInv, CallsOfMain, ResultsOfMain, PrintsCiphertext, MainPlaces
<1> QED
  BY <1>1, DemonstrationInvariance, PTL

\* helloworld.c:141 (SoftwareAndHardwareMatch): the comparison never finds a block
\* of the file on which the library and the accelerator differ.
THEOREM SoftwareAndHardwareMatchCorrect ==
  ASSUME DemonstrationProgram
  PROVE  DemonstrationSpec => []SoftwareAndHardwareMatch
<1>1. MainInv => SoftwareAndHardwareMatch
  BY DEF MainInv, ResultsOfMain, SoftwareAndHardwareMatch
<1> QED
  BY <1>1, DemonstrationInvariance, PTL
=============================================================================
