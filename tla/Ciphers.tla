------------------------------- MODULE Ciphers -------------------------------
(***************************************************************************)
(* The three implementations of AES in this repository on the same keys    *)
(* and plaintexts, one after the other: aes.c, the library of the          *)
(* demonstration program on a buffer that begins with the text, and the    *)
(* stages of the hardware.  Meanwhile the byte operations of all three are *)
(* compared, a row of sixteen bytes in every state.                        *)
(***************************************************************************)
EXTENDS AesBytes, AesRounds, TestVectors

CONSTANTS
  CipherKeys, Texts, \* the keys and plaintexts tried
  Blocks             \* the length of the library's buffer

ASSUME CiphersAssumption ==
  /\ CipherKeys \subseteq Block
  /\ Texts \subseteq Block
  /\ Blocks \in Nat \ {0}

VARIABLES
  data, expanded_keys, last_word_g_ed, loop, at,                \* AesSoftware
  crtxt, RoundKey, rcon, micro_i, micro_y, micro_r, micro_at,   \* MicroAes
  data_matrix, previous_key, round_constant, stage, given       \* AesDatapath

softwareVars == << data, expanded_keys, last_word_g_ed, loop, at >>
microVars    == << crtxt, RoundKey, rcon, micro_i, micro_y, micro_r, micro_at >>
hardwareVars == << data_matrix, previous_key, round_constant, stage, given >>

Software == INSTANCE AesSoftware
Hardware == INSTANCE AesDatapath

\* (Under names of their own: TLC reevaluates a constant at every use when a
\* variable has the name of one of its bound identifiers.)
Micro == INSTANCE MicroAes WITH
           i <- micro_i, y <- micro_y, r <- micro_r, at <- micro_at,
           Plaintexts <- [1..Blocks -> Texts]

SameInputs ==
  /\ given = << expanded_keys[0], data >>
  /\ crtxt[1] = data
  /\ \A p \in Places : RoundKey[p] = expanded_keys[0][p]

CiphersInit ==
  /\ row = 0
  /\ Software!Init
  /\ Micro!Init
  /\ Hardware!Init
  /\ SameInputs

MicroDone == micro_y > Blocks

CiphersNext ==
  /\ \/ Software!Next /\ UNCHANGED << microVars, hardwareVars >>
     \/ at = "returned" /\ Micro!Next /\ UNCHANGED << softwareVars, hardwareVars >>
     \/ MicroDone /\ Hardware!Next /\ UNCHANGED << softwareVars, microVars >>
  /\ row' = (row + 1) % 16

CiphersSpec == CiphersInit /\ [][CiphersNext]_<< row, softwareVars, microVars, hardwareVars >>

-----------------------------------------------------------------------------
(* Properties *)

SoftwareStandard == INSTANCE AesStandard WITH
  block <- data, round <- Software!RoundsDone, round_key <- Software!RoundKeyInUse
MicroStandard(b) == INSTANCE AesStandard WITH
  block <- crtxt[b], round <- Micro!RoundsDone(b), round_key <- Micro!RoundKeyInUse(b)
HardwareStandard == INSTANCE AesStandard WITH
  block <- Hardware!BytesOf(data_matrix), round <- stage,
  round_key <- Hardware!BytesOf(previous_key)

\* Round for round, and with keys expanded ahead instead of as they are needed,
\* aes.c computes FIPS-197's AES-128.
SoftwareIsStandard == SoftwareStandard!Spec

\* Every block of the buffer goes through FIPS-197's rounds with the round keys of
\* the one expansion, although all but the first are encrypted with what the ones
\* before have left in the static array, and the round constant runs out of its byte.
EcbIsStandard ==
  /\ \A b \in 1..Blocks : MicroStandard(b)!Init
  /\ [][\A b \in 1..Blocks : [MicroStandard(b)!Round]_(MicroStandard(b)!vars)]_microVars

\* Stage for stage, the hardware computes FIPS-197's AES-128.
DatapathIsStandard == HardwareStandard!Spec

\* FIPS-197's cipher on the texts of the test benches' files, under the key of
\* tb/test1, is what the files say.  TLC evaluates this once.
ASSUME StandardAnswers ==
  /\ Ciphertext(Key1, Text1, 10) = Cipher1
  /\ \A pair \in SecondTest : Ciphertext(Key1, pair[1], 10) = pair[2]

Answers(key, text, cipher) ==
  given = << key, text >> =>
    /\ at = "returned" => data = cipher
    /\ MicroDone => crtxt[1] = cipher
    /\ stage = 11 => Hardware!BytesOf(data_matrix) = cipher

\* What tb_rounder.sv:92 compares, of all three: the block that comes out is the
\* ciphertext of the file.  Those of tb/test2 are known answers too, for the key
\* of tb/test1.
KnownAnswers ==
  /\ Answers(Key1, Text1, Cipher1)
  /\ \A pair \in SecondTest : Answers(Key1, pair[1], pair[2])
=============================================================================
