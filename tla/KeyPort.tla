------------------------------- MODULE KeyPort -------------------------------
(***************************************************************************)
(* The key port between the AXI-lite slave and the core: what the core     *)
(* sees of the key registers.  The write strobe lasts one cycle, with at   *)
(* least one cycle between two, and the registers change only with it.  A  *)
(* key is several words written one by one, so a value on the port may be  *)
(* a key part of whose words are old.                                      *)
(***************************************************************************)
CONSTANTS Keys,   \* the values software may leave in the registers
          NoKey   \* stands for the registers before the first write

VARIABLES aes_key,       \* the registers' value
          aes_key_write  \* the strobe of the last cycle

slaveVars == << aes_key, aes_key_write >>

SlaveInit  == aes_key = NoKey /\ aes_key_write = FALSE
SlaveReset == aes_key' = NoKey /\ aes_key_write' = FALSE

WriteKey(key) ==
  /\ ~aes_key_write
  /\ aes_key' = key
  /\ aes_key_write' = TRUE

HoldKey ==
  /\ aes_key_write' = FALSE
  /\ UNCHANGED aes_key

SlaveNext == (\E key \in Keys : WriteKey(key)) \/ HoldKey \/ SlaveReset

Spec == SlaveInit /\ [][SlaveNext]_slaveVars
=============================================================================
