--------------------------- MODULE DriverInvariant ---------------------------
(***************************************************************************)
(* What ties the two channels of the DMA engine, the words in the buffers  *)
(* and in the pipeline and the caller's buffer together, when software     *)
(* calls the blocking functions only: the inductive invariant behind       *)
(* EncryptedInPlace and UsesTheCoreSafely.                                 *)
(***************************************************************************)
EXTENDS AesHw, AesInvariant

\* Blocks of the caller's buffer that transfers to the core have been started for,
\* that are fetched, and that are stored again.
given  == IF pc = "s2mm" THEN inout + transfer \div 16 ELSE inout
taken  == IF mm2s.busy THEN mm2s.next - 1 ELSE given
stored == IF s2mm.busy THEN s2mm.next - 1 ELSE inout

\* What a block's place in the buffer is beyond its place in the core's stream.
offset == stored + Len(from_core) - delivered

\* The core's word for a block is the last one of its packet.
EndsTransfer(n) == n \in {inout, given}

\* The places of a call where all its blocks, or none, have been through the core.
AtRest == {"init", "reset", "flush", "key", "invalidate", "returned"}

CallInStep ==
  /\ \A c \in 1..current : Blocking(c)
  /\ current > 0 =>
       /\ ~Large(current) => 16 * calls[current].n_blocks <= max_dma_size
       /\ pc \in {"wait", "invalidate", "returned"} => bytes_remaining = 0
       /\ pc \in {"flush", "invalidate"} => Flushing(current)
       /\ pc \in {"flush", "key"} => inout = 0

\* Every block between the two channels is in a buffer or in the core, and a
\* channel is at work within the call's transfers only.
ChannelsInStep ==
  /\ taken = accepted + offset + Len(to_core)
  /\ mm2s.busy => /\ mm2s.buffer = current /\ mm2s.end = given
                  /\ pc = "s2mm" => inout < mm2s.next
  /\ s2mm.busy => /\ s2mm.buffer = current /\ s2mm.end = inout
                  /\ s2mm.next <= s2mm.end
  /\ pc \in AtRest => ~mm2s.busy /\ ~s2mm.busy
  /\ pc \in {"mm2s", "s2mm"} /\ ~Large(current) => ~s2mm.busy /\ inout = 0
  /\ pc = "mm2s" /\ ~Large(current) => ~mm2s.busy

\* The n-th block on its way carries the text of the caller's n-th block, with
\* tlast at the end of a transfer.
WordsInStep ==
  /\ \A k \in 1..Len(to_core) :
       to_core[k] = [text |-> << current, accepted + offset + k >>,
                     last |-> EndsTransfer(accepted + offset + k)]
  /\ \A i \in Stages : Valid(i) => (Last(i) <=> EndsTransfer(blocks[i].id + 1 + offset))
  /\ \A n \in Nat : delivered <= n /\ n < accepted =>
       fetched[n + 1] = << current, n + 1 + offset >>
  /\ \A k \in 1..Len(from_core) :
       from_core[k] = [text |-> << current, stored + k >>, key |-> calls[current].key,
                       last |-> EndsTransfer(stored + k)]

\* A packet the core has begun is one of this call.
SourceInStep ==
  /\ source \in {"beat", "last"} => to_core # << >>
  /\ source = "packet" => ~EndsTransfer(accepted + offset)

\* The key is written before the first transfer and stays until the last word.
RegistersInStep ==
  /\ pc \in {"flush", "key"} => \A w \in Words \ words_left : aes_key[w] = calls[current].key[w]
  /\ pc \in {"mm2s", "s2mm", "wait"} => aes_key = calls[current].key

PartlyEncrypted ==
  [i \in 1..calls[current].n_blocks |->
     [text |-> << current, i >>, key |-> IF i <= stored THEN calls[current].key ELSE NoKey]]

\* Memory, block by block, while a call is under way and after it.
MemoryInStep ==
  /\ \A c \in 1..current :
       Returned(c) => dram[c] = Ciphertext(c) /\ (Flushing(c) => cache[c] = "absent")
  /\ current > 0 /\ pc # "flush" => dram[current] = PartlyEncrypted

InStep ==
  /\ CallInStep
  /\ ChannelsInStep
  /\ WordsInStep
  /\ SourceInStep
  /\ RegistersInStep
  /\ MemoryInStep
=============================================================================
