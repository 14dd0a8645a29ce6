---------------------------- MODULE Demonstration ----------------------------
(***************************************************************************)
(* The demonstration program (sw/src/helloworld.c) on the driver, the DMA  *)
(* engine and the core.  main calls the driver three times, each time with *)
(* a buffer of its own: aes_hw_init's dummy, the text of test 1, whose     *)
(* cache lines it looks after itself, and a file, which it encrypts with   *)
(* the library too and compares.                                           *)
(*                                                                         *)
(* A step of main is one step of the processor, as in AesHw.               *)
(***************************************************************************)
EXTENDS AesHw

CONSTANTS
  Test1Key, FileTestKey, \* two of the CipherKeys
  FileSizes              \* what f_read reports in bytes_read; 0 also when it,
                         \* f_open or f_mount has failed, which main only prints

ASSUME TestKeysAssumption == {Test1Key, FileTestKey} \subseteq CipherKeys

VARIABLES
  main,       \* where main is
  lines,      \* the cache lines of the buffer main prepares: "dirty" or "written"
  copy,       \* what the lines last fetched into the cache were fetched with
  printed,    \* the blocks of test 1, as main prints them
  bytes_read,
  cipher,     \* the library's ciphertext of the file
  matches

mainVars == << main, lines, printed, bytes_read, cipher, matches >>
demonstrationVars == << hwVars, mainVars, copy >>

test1_blocks == 2
n_blocks     == (bytes_read + 16 - 1) \div 16

\* A buffer as the processor sees it.
SeenByProcessor(c) == IF cache[c] = "clean" THEN copy ELSE dram[c]

-----------------------------------------------------------------------------
(* main *)

\* Between two calls of the driver, or after the last one.
AtReturn(place) == main = place /\ pc = "returned"

\* A step of main that neither the driver nor the DMA engine sees.
Unseen(step, storing) ==
  /\ step = "none"
  /\ dram' = Stored(dram, storing)
  /\ UNCHANGED << driverVars, cache >>

\* Mutant: the flush is forgotten.
FlushTest1Forgotten(step, storing) ==
  /\ AtReturn("init")
  /\ Unseen(step, storing)
  /\ main' = "flushed"
  /\ UNCHANGED << lines, printed, bytes_read, cipher, matches >>

FlushTest1(step, storing) ==
  /\ AtReturn("init")
  /\ Unseen(step, storing)
  /\ lines' = "written"
  /\ main' = "flushed"
  /\ UNCHANGED << printed, bytes_read, cipher, matches >>

\* The driver finds the buffer as main has left it.
CallWith(step, storing, fn, key, n) ==
  /\ step = "call"
  /\ Call(fn, key, n)
  /\ pc' = IF Flushing(current)' THEN "flush" ELSE "key"
  /\ dram' = Stored(Append(dram, IF lines = "written" THEN Text(current)' ELSE Unwritten(n)),
                    storing)
  /\ cache' = Append(cache, IF lines = "written" THEN "absent" ELSE "dirty")

EncryptTest1(step, storing) ==
  /\ AtReturn("flushed")
  /\ CallWith(step, storing, "aes_hw_encrypt", Test1Key, test1_blocks)
  /\ lines' = "dirty"
  /\ main' = "test1"
  /\ UNCHANGED << printed, bytes_read, cipher, matches >>

\* Mutant: the lines are left in the cache.
InvalidateTest1Forgotten(step, storing) ==
  /\ AtReturn("test1")
  /\ Unseen(step, storing)
  /\ main' = "invalidated"
  /\ UNCHANGED << lines, printed, bytes_read, cipher, matches >>

InvalidateTest1(step, storing) ==
  /\ AtReturn("test1")
  /\ step = "invalidate"
  /\ dram' = Stored(dram, storing)
  /\ cache' = [cache EXCEPT ![current] = "absent"]
  /\ main' = "invalidated"
  /\ UNCHANGED << driverVars, lines, printed, bytes_read, cipher, matches >>

PrintTest1(step, storing) ==
  /\ AtReturn("invalidated")
  /\ Unseen(step, storing)
  /\ printed' = SeenByProcessor(current)
  /\ main' = "printed"
  /\ UNCHANGED << lines, bytes_read, cipher, matches >>

\* The rest of the buffer's last block is zero, as the array is.
ReadFile(step, storing) ==
  /\ AtReturn("printed")
  /\ Unseen(step, storing)
  /\ bytes_read' \in FileSizes
  /\ main' = "read"
  /\ UNCHANGED << lines, printed, cipher, matches >>

\* AES_ECB_encrypt, whose blocks are the subject of MicroAes.
EncryptInSoftware(step, storing) ==
  /\ AtReturn("read")
  /\ Unseen(step, storing)
  /\ cipher' = [i \in 1..n_blocks |-> [text |-> << current + 1, i >>, key |-> FileTestKey]]
  /\ main' = "software"
  /\ UNCHANGED << lines, printed, bytes_read, matches >>

\* aes_hw_time_test_encrypt does what aes_hw_encrypt_flushing_large does.
EncryptInHardware(step, storing) ==
  /\ AtReturn("software")
  /\ CallWith(step, storing, "aes_hw_encrypt_flushing_large", FileTestKey, n_blocks)
  /\ main' = "hardware"
  /\ UNCHANGED << lines, printed, bytes_read, cipher, matches >>

Compare(step, storing) ==
  /\ AtReturn("hardware")
  /\ Unseen(step, storing)
  /\ matches' = \A i \in 1..n_blocks : SeenByProcessor(current)[i] = cipher[i]
  /\ main' = "returned"
  /\ UNCHANGED << lines, printed, bytes_read, cipher >>

Main(step, storing) ==
  \/ FlushTest1(step, storing)
  \/ EncryptTest1(step, storing)
  \/ InvalidateTest1(step, storing)
  \/ PrintTest1(step, storing)
  \/ ReadFile(step, storing)
  \/ EncryptInSoftware(step, storing)
  \/ EncryptInHardware(step, storing)
  \/ Compare(step, storing)

InDriver(step, key, storing) ==
  /\ step = "none" \/ pc # "returned"
  /\ Processor(step, key, storing)
  /\ UNCHANGED mainVars

-----------------------------------------------------------------------------
DemonstrationInit ==
  /\ HwInit
  /\ main = "init"
  /\ lines = "dirty"
  /\ copy = << >>
  /\ printed = << >>
  /\ bytes_read = 0
  /\ cipher = << >>
  /\ matches = TRUE

DemonstrationClock(tvalid, wready, fetching, storing, step, key) ==
  /\ Mm2sMay(fetching, tvalid)
  /\ S2mmMay(wready, storing)
  /\ \/ Main(step, storing)
     \/ InDriver(step, key, storing)
  /\ copy' = IF step = "prefetch" THEN dram[current] ELSE copy
  /\ Clock(tvalid, tlast(tvalid), wready, step = "key", key)
  /\ Mm2sClock(tvalid, read_tready(wready), fetching, step)
  /\ S2mmClock(wready, storing, step)

DemonstrationReset ==
  /\ HwReset
  /\ main' = "init"
  /\ lines' = "dirty"
  /\ copy' = << >>
  /\ printed' = << >>
  /\ bytes_read' = 0
  /\ cipher' = << >>
  /\ matches' = TRUE

DemonstrationNext ==
  \/ \E tvalid, wready, fetching, storing \in BOOLEAN, step \in Steps,
        key \in KeysWritten :
       DemonstrationClock(tvalid, wready, fetching, storing, step, key)
  \/ DemonstrationReset

DemonstrationSpec == DemonstrationInit /\ [][DemonstrationNext]_demonstrationVars

-----------------------------------------------------------------------------
(* Properties *)

\* What main prints of test 1 is ciphertext under the key of test 1: no line that
\* was fetched during the transfer is printed, and no block of stale memory was
\* encrypted.
PrintsCiphertext ==
  main \notin {"init", "flushed", "test1", "invalidated"} =>
    printed = [i \in 1..test1_blocks |-> [text |-> << 2, i >>, key |-> Test1Key]]

\* helloworld.c:141, "Sw and Hw matches": the processor finds in the buffer, block
\* by block, what the library has computed from it before, however many transfers
\* and cache lines are in between.
SoftwareAndHardwareMatch == matches

\* main uses the driver as AesHw takes its callers to: one call at a time, with
\* buffers written back where the function does not, and no more blocks than the
\* function can take.  What is shown of the driver holds of the demonstration.
UsesTheDriverAsAsked == HwSpec
=============================================================================
