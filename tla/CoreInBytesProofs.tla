-------------------------- MODULE CoreInBytesProofs --------------------------
(***************************************************************************)
(* Proofs about CoreInBytes: that the matrices in the registers are what   *)
(* the symbols of Aes stand for, and from that and what is proved of the   *)
(* symbols (AesProofs) and of a round and a round key (AesRoundsProofs),   *)
(* that every word delivered is FIPS-197's ciphertext.                     *)
(***************************************************************************)
EXTENDS CoreInBytes, AesProofs, AesRoundsProofs

-----------------------------------------------------------------------------
(* What the symbols stand for *)

RoundKeyMatrix(entry) == Matrix(KeySchedule(entry.key, Rounds)[entry.round])
Stands(matrix, entry) == entry.key # NoKey => matrix = RoundKeyMatrix(entry)

ExpansionInBytes ==
  /\ key_matrices = [n \in Stages |-> key_matrices[n]]
  /\ \A n \in Stages : Stands(key_matrices[n], expanded_keys[n])
  /\ Stands(previous_key_matrix, previous_key)
  /\ Expanding => round_constant_byte = RoundConstant(round_constant)

LocalKeysInBytes ==
  /\ local_key_matrices = [n \in Stages |-> local_key_matrices[n]]
  /\ \A n \in Stages : Stands(local_key_matrices[n], round_keys[n])

TextsTaken == texts \in Seq(Block) /\ Len(texts) = accepted

\* A block that one key has touched is its text after so many rounds with that key.
BlocksInBytes ==
  \A i \in Stages : Valid(i) =>
    /\ blocks[i].id < accepted
    /\ blocks[i].key # NoKey =>
         data_matrices[i] = Matrix(Encryption(blocks[i].key, texts[blocks[i].id + 1], Rounds)[i])

DataInv == ExpansionInBytes /\ LocalKeysInBytes /\ TextsTaken /\ BlocksInBytes

\* Every key the core loads is a block and its rounds are at most ten.
LEMMA KeysAndRounds ==
  /\ Rounds \in 1..10 /\ 0 \in Stages /\ Rounds \in Stages
  /\ \A k \in Keys : k \in Block
  /\ \A i \in Stages : i # 0 => i \in 1..Rounds /\ i - 1 \in Stages
BY RoundsAssumption, CoreInBytesAssumption DEF Stages

\* The cipher key itself, in entry 0.
LEMMA LoadedStands ==
  ASSUME NEW key \in Keys
  PROVE  Stands(Matrix(key), RoundKeyOf(key, 0))
<1>1. KeySchedule(key, Rounds)[0] = key
  BY KeysAndRounds, KeySchedules
<1> QED BY <1>1 DEF Stands, RoundKeyMatrix, RoundKeyOf

\* The expansion unit derives what stands for the next round key, with the constant
\* that its index stands for.
LEMMA DerivedStands ==
  ASSUME NEW previous \in RoundKey, NEW matrix, Stands(matrix, previous),
         NEW constant \in 0..15, NEW byte, byte = RoundConstant(constant)
  PROVE  Stands(expand_key(matrix, byte), next_round_key(previous, constant))
<1> DEFINE k == previous.key
           keys == KeySchedule(k, Rounds)
           n == constant + 1
<1> SUFFICES ASSUME next_round_key(previous, constant).key # NoKey
             PROVE  expand_key(matrix, byte) = RoundKeyMatrix(next_round_key(previous, constant))
  BY DEF Stands
<1>1. constant = previous.round /\ constant < Rounds
  BY DEF next_round_key, NoRoundKey
<1>2. next_round_key(previous, constant) = RoundKeyOf(k, n)
  BY <1>1 DEF next_round_key
<1>3. k \in Keys /\ k \in Block
  BY <1>2, KeysAndRounds DEF RoundKeyOf, RoundKey
<1>4. Rounds \in 1..10 /\ n \in 1..Rounds /\ n \in 1..10 /\ n - 1 = constant /\ constant \in 0..9
      /\ constant \in 0..Rounds
  BY <1>1, KeysAndRounds
<1>5. byte = PowerOfX(n - 1)
  <2>1. byte = ROUND_G_CONSTANTS[constant + 1]
    BY <1>1 DEF RoundConstant
  <2> QED BY <1>4, <2>1, HardwareConstants
<1>6. matrix = Matrix(keys[constant])
  BY <1>1, <1>3, NoKeyAssumption DEF Stands, RoundKeyMatrix
<1>7. keys[constant] \in Block /\ keys[n] = NextRoundKey(keys[constant], n)
  BY <1>3, <1>4, KeySchedules
<1> HIDE DEF keys, n
<1>8. expand_key(matrix, byte) = Matrix(keys[n])
  BY <1>4, <1>5, <1>6, <1>7, NextKeyMatrix
<1> QED BY <1>2, <1>8 DEF RoundKeyMatrix, RoundKeyOf, keys

-----------------------------------------------------------------------------
(* The registers of a cycle *)

\* The expansion unit fills its register file with what its symbols stand for.
LEMMA ExpansionInBytesStep ==
  ASSUME KeyInv, ExpansionInBytes, KeyExpansionClock(aes_key, key_expansion_ack),
         ExpansionData(aes_key, key_expansion_ack)
  PROVE  ExpansionInBytes'
<1> DEFINE derived == expand_key(previous_key_matrix, round_constant_byte)
           next == next_round_key(previous_key, round_constant)
<1>1. /\ key_expansion_ack \in BOOLEAN
      /\ key_expansion_ack => aes_key \in Keys
      /\ previous_key \in RoundKey /\ round_constant \in 0..15
      /\ expanded_keys = [n \in Stages |-> expanded_keys[n]]
  BY DEF KeyInv, TypeOK, KeyExpansionTypeOK, PendingTogether, key_expansion_ack, key_consumed, Stages
<1>2. Expanding => Stands(derived, next)
  BY <1>1, DerivedStands DEF ExpansionInBytes
<1>3. key_expansion_ack => Stands(Matrix(aes_key), RoundKeyOf(aes_key, 0))
  BY <1>1, LoadedStands
<1> HIDE DEF derived, next
<1>4. CASE KeyExpansionIdle(key_expansion_ack)
  <2>1. UNCHANGED expansionData
    BY <1>4 DEF ExpansionData, KeyExpansionIdle
  <2> QED BY <1>4, <2>1 DEF ExpansionInBytes, expansionData, KeyExpansionIdle, keyExpansionVars,
                            Stands, RoundKeyMatrix, Expanding
<1>5. CASE StartExpansion(aes_key, key_expansion_ack)
  <2>1. /\ key_matrices' = [key_matrices EXCEPT ![0] = Matrix(aes_key)]
        /\ previous_key_matrix' = Matrix(aes_key)
        /\ round_constant_byte' = RoundConstant(0)
    BY <1>5 DEF ExpansionData, StartExpansion
  <2>2. /\ expanded_keys' = [expanded_keys EXCEPT ![0] = RoundKeyOf(aes_key, 0)]
        /\ previous_key' = RoundKeyOf(aes_key, 0)
        /\ round_constant' = 0
        /\ key_expansion_ack
    BY <1>5 DEF StartExpansion, LoadKey
  <2>3. key_matrices' = [n \in Stages |-> key_matrices'[n]]
    BY <2>1 DEF ExpansionInBytes
  <2>4. \A n \in Stages : Stands(key_matrices'[n], expanded_keys'[n])
    <3> TAKE n \in Stages
    <3>1. /\ key_matrices'[n] = IF n = 0 THEN Matrix(aes_key) ELSE key_matrices[n]
          /\ expanded_keys'[n] = IF n = 0 THEN RoundKeyOf(aes_key, 0) ELSE expanded_keys[n]
      BY <1>1, <2>1, <2>2 DEF ExpansionInBytes
    <3> QED BY <1>3, <2>2, <3>1 DEF ExpansionInBytes
  <2> QED BY <1>3, <2>1, <2>2, <2>3, <2>4 DEF ExpansionInBytes, Stands, RoundKeyMatrix
<1>6. CASE GenerateRoundKey(key_expansion_ack)
  <2>1. /\ key_matrices' = [key_matrices EXCEPT ![round_counter] = derived]
        /\ previous_key_matrix' = derived
        /\ round_constant_byte' = RoundConstant(round_counter)
    BY <1>6 DEF ExpansionData, GenerateRoundKey, derived
  <2>2. /\ expanded_keys' = [expanded_keys EXCEPT ![round_counter] = next]
        /\ previous_key' = next
        /\ round_constant' = round_counter
        /\ Expanding
    BY <1>6 DEF GenerateRoundKey, Expanding, next
  <2>3. key_matrices' = [n \in Stages |-> key_matrices'[n]]
    BY <2>1 DEF ExpansionInBytes
  <2>4. \A n \in Stages : Stands(key_matrices'[n], expanded_keys'[n])
    <3> TAKE n \in Stages
    <3>1. /\ key_matrices'[n] = IF n = round_counter THEN derived ELSE key_matrices[n]
          /\ expanded_keys'[n] = IF n = round_counter THEN next ELSE expanded_keys[n]
      BY <1>1, <2>1, <2>2 DEF ExpansionInBytes
    <3> QED BY <1>2, <2>2, <3>1 DEF ExpansionInBytes
  <2> QED BY <1>2, <2>1, <2>2, <2>3, <2>4 DEF ExpansionInBytes, Stands, RoundKeyMatrix
<1>7. CASE RestartExpansion(aes_key, key_expansion_ack)
  <2>1. /\ key_matrices' = [key_matrices EXCEPT ![round_counter] = derived, ![0] = Matrix(aes_key)]
        /\ previous_key_matrix' = Matrix(aes_key)
        /\ round_constant_byte' = RoundConstant(0)
    BY <1>7 DEF ExpansionData, RestartExpansion, derived
  <2>2. /\ expanded_keys' = [expanded_keys EXCEPT ![round_counter] = next,
                                                  ![0] = RoundKeyOf(aes_key, 0)]
        /\ previous_key' = RoundKeyOf(aes_key, 0)
        /\ round_constant' = 0
        /\ key_expansion_ack
        /\ Expanding
    BY <1>7 DEF RestartExpansion, LoadKey, Expanding, next
  <2>3. key_matrices' = [n \in Stages |-> key_matrices'[n]]
    BY <2>1 DEF ExpansionInBytes
  <2>4. \A n \in Stages : Stands(key_matrices'[n], expanded_keys'[n])
    <3> TAKE n \in Stages
    <3>1. /\ key_matrices'[n] = IF n = 0 THEN Matrix(aes_key)
                                ELSE IF n = round_counter THEN derived ELSE key_matrices[n]
          /\ expanded_keys'[n] = IF n = 0 THEN RoundKeyOf(aes_key, 0)
                                 ELSE IF n = round_counter THEN next ELSE expanded_keys[n]
      BY <1>1, <2>1, <2>2 DEF ExpansionInBytes
    <3> QED BY <1>2, <1>3, <2>2, <3>1 DEF ExpansionInBytes
  <2> QED BY <1>3, <2>1, <2>2, <2>3, <2>4 DEF ExpansionInBytes, Stands, RoundKeyMatrix
<1> QED BY <1>4, <1>5, <1>6, <1>7 DEF KeyExpansionClock

\* A refresh copies it.
LEMMA LocalKeysInBytesStep ==
  ASSUME KeyInv, ExpansionInBytes, LocalKeysInBytes,
         RefreshClock(selected_key, key_change_pending_rounder), RefreshData
  PROVE  LocalKeysInBytes'
<1>1. CASE ~key_syncing
  <2>1. round_keys' = round_keys /\ local_key_matrices' = local_key_matrices
    BY <1>1 DEF RefreshClock, RefreshIdle, RefreshSync, RefreshData, key_syncing
  <2> QED BY <2>1 DEF LocalKeysInBytes, Stands, RoundKeyMatrix
<1>2. CASE key_syncing
  <2>1. /\ round_keys' = [round_keys EXCEPT ![key_syncing_counter] = expanded_keys[key_select]]
        /\ local_key_matrices' = [local_key_matrices EXCEPT ![key_syncing_counter] = key_matrices[key_select]]
    BY <1>2 DEF RefreshClock, RefreshIdle, RefreshSync, RefreshData, key_syncing, selected_key, round_key
  <2>2. key_select \in Stages
    BY <1>2 DEF KeyInv, RefreshBehind, key_select
  <2>3. round_keys = [n \in Stages |-> round_keys[n]]
    BY DEF KeyInv, TypeOK, RounderTypeOK
  <2>4. \A n \in Stages : Stands(local_key_matrices'[n], round_keys'[n])
    <3> TAKE n \in Stages
    <3>1. /\ local_key_matrices'[n] = IF n = key_syncing_counter THEN key_matrices[key_select]
                                                                 ELSE local_key_matrices[n]
          /\ round_keys'[n] = IF n = key_syncing_counter THEN expanded_keys[key_select]
                                                         ELSE round_keys[n]
      BY <2>1, <2>3 DEF LocalKeysInBytes
    <3> QED BY <2>2, <3>1 DEF ExpansionInBytes, LocalKeysInBytes
  <2>5. local_key_matrices' = [n \in Stages |-> local_key_matrices'[n]]
    BY <2>1 DEF LocalKeysInBytes
  <2> QED BY <2>4, <2>5 DEF LocalKeysInBytes, Stands, RoundKeyMatrix
<1> QED BY <1>1, <1>2

\* A stage makes of a block that one key has touched what FIPS-197's round makes of it.
LEMMA StageInBytes ==
  ASSUME LocalKeysInBytes, TypeOK, NEW i \in Stages, NEW block \in StreamBlock, NEW matrix,
         NEW text \in Block,
         i = 0 => matrix = Matrix(text),
         i # 0 /\ block.key # NoKey => matrix = Matrix(Encryption(block.key, text, Rounds)[i - 1]),
         add_round_key(block, round_keys[i], i).key # NoKey
  PROVE  out_state(matrix, i)
           = Matrix(Encryption(add_round_key(block, round_keys[i], i).key, text, Rounds)[i])
<1> DEFINE k == add_round_key(block, round_keys[i], i).key
           keys == KeySchedule(k, Rounds)
           after == Encryption(k, text, Rounds)
<1>1. /\ round_keys[i].round = i /\ round_keys[i].key = k
      /\ i # 0 => block.key = k
      /\ k # NoKey
  BY DEF add_round_key, StreamBlock
<1>2. k \in Block
  <2>1. round_keys[i] \in RoundKey
    BY DEF TypeOK, RounderTypeOK
  <2> QED BY <1>1, <2>1, KeysAndRounds DEF RoundKey
<1>3. local_key_matrices[i] = Matrix(keys[i])
  BY <1>1 DEF LocalKeysInBytes, Stands, RoundKeyMatrix
<1> HIDE DEF k
<1>4. /\ keys[0] = k /\ after[0] = XorAll(text, k)
      /\ \A n \in Stages : keys[n] \in Block /\ after[n] \in Block
      /\ \A n \in 1..Rounds : after[n] = XorAll(BeforeKey(after[n - 1], n, Rounds), keys[n])
  BY <1>2, KeysAndRounds, KeySchedules, Encryptions DEF Stages
<1> HIDE DEF keys
<1>5. CASE i = 0
  <2>1. out_state(matrix, i) = add_key(Matrix(text), Matrix(k))
    BY <1>3, <1>4, <1>5, Zenon DEF out_state
  <2>2. out_state(matrix, i) = Matrix(after[0])
    BY <1>2, <1>4, <2>1, AddedMatrix
  <2> QED BY <1>5, <2>2 DEF k
<1>6. CASE i # 0
  <2>1. i \in 1..Rounds /\ i - 1 \in Stages
    BY <1>6, KeysAndRounds
  <2>2. matrix = Matrix(after[i - 1])
    BY <1>1, <1>6
  <2> HIDE DEF after
  <2>3. out_state(matrix, i) = aes_round_pe(i # Rounds, Matrix(after[i - 1]), Matrix(keys[i]))
    BY <1>3, <1>6, <2>2, Zenon DEF out_state
  <2>4. out_state(matrix, i) = Matrix(after[i])
    BY <1>4, <2>1, <2>3, RoundOfMatrix
  <2> QED BY <2>4 DEF k, after
<1> QED BY <1>5, <1>6

\* The texts of a cycle: those taken before stay what they are.
LEMMA TextsStep ==
  ASSUME TypeOK, TextsTaken, NEW tvalid, NEW tlast, NEW wready, NEW write, NEW key, NEW text \in Block,
         CycleOf(tvalid, tlast, wready, write, key),
         texts' = IF tvalid /\ read_tready(wready) THEN Append(texts, text) ELSE texts
  PROVE  /\ TextsTaken'
         /\ accepted \in Nat /\ accepted <= accepted'
         /\ \A id \in Nat : id < accepted => texts'[id + 1] = texts[id + 1]
         /\ tvalid /\ read_tready(wready) => accepted' = accepted + 1 /\ texts'[accepted + 1] = text
<1>1. accepted' = IF tvalid /\ read_tready(wready) THEN accepted + 1 ELSE accepted
  BY DEF CycleOf, Clock, StreamClock
<1>2. accepted \in Nat /\ texts \in Seq(Block) /\ Len(texts) = accepted
  BY DEF TypeOK, TextsTaken
<1>3. CASE tvalid /\ read_tready(wready)
  <2>1. texts' = Append(texts, text) /\ accepted' = accepted + 1
    BY <1>1, <1>3
  <2>2. texts' \in Seq(Block) /\ Len(texts') = accepted'
    BY <1>2, <2>1
  <2>3. \A id \in Nat : id < accepted => texts'[id + 1] = texts[id + 1]
    BY <1>2, <2>1
  <2>4. texts'[accepted + 1] = text
    BY <1>2, <2>1
  <2> QED BY <1>2, <2>1, <2>2, <2>3, <2>4 DEF TextsTaken
<1>4. CASE ~(tvalid /\ read_tready(wready))
  BY <1>1, <1>2, <1>4 DEF TextsTaken
<1> QED BY <1>3, <1>4

\* The pipeline moves the matrices with the blocks.
LEMMA BlocksInBytesStep ==
  ASSUME KeyInv, LocalKeysInBytes, TextsTaken, BlocksInBytes,
         NEW tvalid, NEW tlast, NEW wready, NEW write, NEW key, NEW text \in Block,
         CycleOf(tvalid, tlast, wready, write, key),
         PipelineData(Matrix(text), read_tready(wready)),
         texts' = IF tvalid /\ read_tready(wready) THEN Append(texts, text) ELSE texts
  PROVE  BlocksInBytes'
<1> DEFINE offered == [id |-> accepted, want |-> OfferedKey, key |-> NoKey]
           Follows(i) ==
             /\ blocks'[i].id < accepted'
             /\ blocks'[i].key # NoKey =>
                  data_matrices'[i]
                    = Matrix(Encryption(blocks'[i].key, texts'[blocks'[i].id + 1], Rounds)[i])
<1>1. TypeOK
  BY DEF KeyInv
<1>2. /\ accepted \in Nat /\ accepted' \in Nat /\ accepted <= accepted'
      /\ \A id \in Nat : id < accepted => texts'[id + 1] = texts[id + 1]
      /\ tvalid /\ read_tready(wready) => accepted' = accepted + 1 /\ texts'[accepted + 1] = text
  <2>1. accepted' \in Nat
    BY <1>1 DEF CycleOf, Clock, StreamClock, TypeOK
  <2> QED BY <1>1, <2>1, TextsStep
<1>3. \A i \in Stages : blocks[i] \in StreamBlock /\ blocks[i].id \in Nat
  BY <1>1 DEF TypeOK, RounderTypeOK, StreamBlock
<1>4. \A i \in Stages : Valid(i) => texts[blocks[i].id + 1] \in Block
  <2> TAKE i \in Stages
  <2>1. Valid(i) => blocks[i].id + 1 \in 1..Len(texts)
    BY <1>2, <1>3 DEF BlocksInBytes, TextsTaken
  <2> QED BY <2>1 DEF TextsTaken
<1>5. ASSUME ~read_tready(wready), NEW i \in Stages, Valid(i)'
      PROVE  Follows(i)
  <2>1. Valid(i) /\ blocks'[i] = blocks[i] /\ data_matrices' = data_matrices
    BY <1>1, <1>5, PipelineStep DEF PipelineData
  <2>2. blocks[i].id < accepted /\ texts'[blocks[i].id + 1] = texts[blocks[i].id + 1]
    BY <1>2, <1>3, <2>1 DEF BlocksInBytes
  <2>3. blocks[i].id < accepted'
    BY <1>2, <1>3, <2>2
  <2> QED BY <2>1, <2>2, <2>3 DEF BlocksInBytes
<1>6. ASSUME read_tready(wready), NEW i \in Stages, Valid(i)'
      PROVE  Follows(i)
  <2> DEFINE block  == IF i = 0 THEN offered ELSE blocks[i - 1]
             matrix == IF i = 0 THEN Matrix(text) ELSE data_matrices[i - 1]
             mine   == texts'[block.id + 1]
  <2>1. data_matrices'[i] = out_state(matrix, i)
    BY <1>6 DEF PipelineData, Valid
  <2>2. /\ block \in StreamBlock
        /\ blocks'[i] = add_round_key(block, round_keys[i], i)
        /\ block.id < accepted'
        /\ mine \in Block
        /\ i = 0 => matrix = Matrix(mine)
        /\ i # 0 /\ block.key # NoKey => matrix = Matrix(Encryption(block.key, mine, Rounds)[i - 1])
    <3>1. CASE i = 0
      <4>1. tvalid /\ blocks'[0] = add_round_key(offered, round_keys[0], 0)
        BY <1>1, <1>6, <3>1, PipelineStep
      <4>2. offered \in StreamBlock
        BY <1>1 DEF TypeOK, OfferedKey, StreamBlock
      <4>3. mine = text /\ offered.id < accepted'
        <5>1. accepted' = accepted + 1 /\ texts'[accepted + 1] = text
          BY <1>2, <1>6, <4>1, Zenon
        <5>2. offered.id = accepted /\ mine = texts'[accepted + 1]
          BY <3>1
        <5> HIDE DEF mine, offered
        <5> QED BY <1>2, <5>1, <5>2
      <4> QED BY <3>1, <4>1, <4>2, <4>3
    <3>2. CASE i # 0
      <4>1. /\ i - 1 \in Stages /\ Valid(i - 1)
            /\ blocks'[i] = add_round_key(blocks[i - 1], round_keys[i], i)
        BY <1>1, <1>6, <3>2, PipelineStep
      <4>2. blocks[i - 1].id < accepted /\ mine = texts[blocks[i - 1].id + 1]
        BY <1>2, <1>3, <3>2, <4>1 DEF BlocksInBytes
      <4>3. blocks[i - 1].id < accepted'
        BY <1>2, <1>3, <4>1, <4>2
      <4> QED BY <1>3, <1>4, <3>2, <4>1, <4>2, <4>3 DEF BlocksInBytes
    <3> QED BY <3>1, <3>2
  <2> HIDE DEF block, matrix
  <2>3. blocks'[i].id = block.id
    <3>1. round_keys[i] \in RoundKey
      BY <1>1 DEF TypeOK, RounderTypeOK
    <3> QED BY <2>2, <3>1, AddRoundKeyType
  <2> HIDE DEF mine
  <2>4. blocks'[i].key # NoKey =>
          data_matrices'[i] = Matrix(Encryption(blocks'[i].key, mine, Rounds)[i])
    BY <1>1, <2>1, <2>2, StageInBytes
  <2> QED BY <2>2, <2>3, <2>4 DEF mine
<1> HIDE DEF Follows
<1>7. \A i \in Stages : Valid(i)' => Follows(i)
  BY <1>5, <1>6
<1> QED BY <1>7 DEF Follows, BlocksInBytes

-----------------------------------------------------------------------------
(* The theorems *)

\* The core with its data is the core: what is proved of its symbols holds of it.
THEOREM ImplementsAes == BytesSpec => Spec
<1>1. BytesInit => Init
  BY DEF BytesInit
<1>2. [BytesNext]_<< vars, dataVars >> => [Next]_vars
  BY DEF BytesNext, BytesClock, BytesReset, Next
<1> QED BY <1>1, <1>2, PTL DEF BytesSpec, Spec

\* At power-up the symbols stand for nothing.
LEMMA InitDataInv == BytesInit => DataInv
<1> SUFFICES ASSUME BytesInit PROVE DataInv
  OBVIOUS
<1>1. Init /\ DataInit
  BY DEF BytesInit
<1>2. ExpansionInBytes
  BY <1>1 DEF Init, KeyExpansionInit, DataInit, ExpansionInBytes, Stands, NoRoundKey, Expanding, Stages
<1>3. LocalKeysInBytes
  BY <1>1 DEF Init, RounderInit, RefreshInit, DataInit, LocalKeysInBytes, Stands, NoRoundKey
<1>4. TextsTaken
  BY <1>1 DEF Init, StreamInit, DataInit, TextsTaken
<1>5. BlocksInBytes
  BY <1>1 DEF Init, RounderInit, PipelineInit, BlocksInBytes, Valid
<1> QED BY <1>2, <1>3, <1>4, <1>5 DEF DataInv

\* A reset keeps the register file and the local keys, and their symbols.
LEMMA ResetDataInv ==
  ASSUME DataInv, BytesReset
  PROVE  DataInv'
<1>1. ExpansionInBytes'
  BY DEF DataInv, ExpansionInBytes, BytesReset, Reset, KeyExpansionReset, Expanding, Stands,
         RoundKeyMatrix, NoRoundKey
<1>2. LocalKeysInBytes'
  BY DEF DataInv, LocalKeysInBytes, BytesReset, Reset, RounderReset, RefreshReset, Stands, RoundKeyMatrix
<1>3. TextsTaken'
  BY DEF BytesReset, Reset, StreamReset, TextsTaken
<1>4. BlocksInBytes'
  BY DEF BytesReset, Reset, RounderReset, PipelineReset, BlocksInBytes, Valid
<1> QED BY <1>1, <1>2, <1>3, <1>4 DEF DataInv

\* Whatever the source offers and whenever keys are written: every register that has
\* the symbol of a round key holds that round key of FIPS-197, and every block that
\* one key has touched so far is its text after so many of FIPS-197's rounds.
THEOREM DataInvariance == BytesSpec => []DataInv
<1>1. ASSUME KeyInv, DataInv, [BytesNext]_<< vars, dataVars >>
      PROVE  DataInv'
  <2>1. CASE BytesReset
    BY <1>1, <2>1, ResetDataInv
  <2>2. ASSUME NEW tvalid \in BOOLEAN, NEW tlast \in BOOLEAN, NEW wready \in BOOLEAN,
               NEW write \in BOOLEAN, NEW key \in Keys, NEW text \in Offered(tvalid),
               BytesClock(tvalid, tlast, wready, write, key, text)
        PROVE  DataInv'
    <3>1. text \in Block
      <4>1. ZeroBytes \in Block
        BY DEF ZeroBytes, Block, Byte
      <4> QED BY <4>1, CoreInBytesAssumption DEF Offered
    <3>2. CycleOf(tvalid, tlast, wready, write, key)
      BY <2>2 DEF BytesClock, CycleOf
    <3>3. ExpansionInBytes'
      BY <1>1, <2>2, ExpansionInBytesStep DEF DataInv, BytesClock, Clock
    <3>4. LocalKeysInBytes'
      BY <1>1, <2>2, LocalKeysInBytesStep DEF DataInv, BytesClock, Clock, RounderClock
    <3>5. TextsTaken'
      BY <1>1, <2>2, <3>1, <3>2, TextsStep DEF DataInv, BytesClock, KeyInv
    <3>6. BlocksInBytes'
      BY <1>1, <2>2, <3>1, <3>2, BlocksInBytesStep DEF DataInv, BytesClock
    <3> QED BY <3>3, <3>4, <3>5, <3>6 DEF DataInv
  <2>3. CASE UNCHANGED << vars, dataVars >>
    BY <1>1, <2>3
       DEF vars, keyExpansionVars, rounderVars, refreshVars, pipelineVars, streamVars,
           dataVars, expansionData, DataInv, ExpansionInBytes, LocalKeysInBytes, TextsTaken,
           BlocksInBytes, Stands, RoundKeyMatrix, Expanding, Valid
  <2> QED BY <1>1, <2>1, <2>2, <2>3 DEF BytesNext
<1> QED BY <1>1, InitDataInv, ImplementsAes, KeyInvariance, PTL DEF BytesSpec

\* A valid word at the output is the text due, after the last round.
LEMMA OutputInBytes ==
  ASSUME TypeOK, DataInv, KeyCommitted, ExactlyOnce
  PROVE  DeliversCiphertexts
<1> SUFFICES ASSUME write_tvalid, data_matrix_out.want # NoKey
             PROVE  BytesOf(data_matrices[Rounds])
                      = Ciphertext(data_matrix_out.want, texts[delivered + 1], Rounds)
  BY DEF DeliversCiphertexts
<1> DEFINE k == data_matrix_out.want
           text == texts[delivered + 1]
<1>1. Rounds \in Stages /\ Valid(Rounds) /\ Rounds \in InFlight
  BY KeysAndRounds DEF write_tvalid, Valid, InFlight
<1>2. blocks[Rounds].key = k /\ blocks[Rounds].id = delivered /\ delivered < accepted
  BY <1>1 DEF KeyCommitted, ExactlyOnce, DataInv, BlocksInBytes, data_matrix_out
<1>3. k \in Block
  <2>1. blocks[Rounds] \in StreamBlock
    BY <1>1 DEF TypeOK, RounderTypeOK
  <2> QED BY <2>1, KeysAndRounds DEF StreamBlock, data_matrix_out
<1>4. text \in Block
  <2>1. delivered + 1 \in 1..Len(texts)
    BY <1>2 DEF TypeOK, DataInv, TextsTaken
  <2> QED BY <2>1 DEF DataInv, TextsTaken
<1>5. data_matrices[Rounds] = Matrix(Encryption(k, text, Rounds)[Rounds])
  BY <1>1, <1>2 DEF DataInv, BlocksInBytes
<1> HIDE DEF k, text
<1>6. Encryption(k, text, Rounds)[Rounds] \in Block
  BY <1>1, <1>3, <1>4, KeysAndRounds, Encryptions DEF Stages
<1>7. BytesOf(data_matrices[Rounds]) = Ciphertext(k, text, Rounds)
  BY <1>5, <1>6, MatrixOfBlock DEF Ciphertext
<1> QED BY <1>7 DEF k, text

\* README.md's promise, in bytes, under either discipline: every word delivered is the
\* ciphertext that FIPS-197 has of the text due under the packet's key.
THEOREM DeliversCiphertextsCorrect ==
  ASSUME ~Overlap \/ ~WriteWhileBusy
  PROVE  BytesSpec => []DeliversCiphertexts
BY OutputInBytes, ImplementsAes, TypeCorrect, DataInvariance, KeyCommittedUnderDiscipline,
   ExactlyOnceCorrect, PTL
=============================================================================
