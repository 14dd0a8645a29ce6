------------------------------- MODULE MCAesHw -------------------------------
(***************************************************************************)
(* Small instances of AesHw for TLC: keys of two words.                    *)
(***************************************************************************)
EXTENDS AesHw

TwoWords == {1, 2}

KeyOf(word)   == [w \in TwoWords |-> word]
ResetKey      == KeyOf("reset")
Zeros         == KeyOf("zero")
SoftwareKeys  == {KeyOf("a"), KeyOf("b")}
RegisterKeys  == [TwoWords -> {"reset", "zero", "a", "b"}] \ {ResetKey}
=============================================================================
