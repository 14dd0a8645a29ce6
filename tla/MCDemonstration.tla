--------------------------- MODULE MCDemonstration ---------------------------
(***************************************************************************)
(* A small instance of Demonstration for TLC: keys of two words.           *)
(***************************************************************************)
EXTENDS Demonstration

TwoWords == {1, 2}

KeyOf(word)  == [w \in TwoWords |-> word]
ResetKey     == KeyOf("reset")
Zeros        == KeyOf("zero")
KeyA         == KeyOf("a")
KeyB         == KeyOf("b")
TestKeys     == {KeyA, KeyB}
RegisterKeys == [TwoWords -> {"reset", "zero", "a", "b"}] \ {ResetKey}
=============================================================================
