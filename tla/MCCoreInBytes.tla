---------------------------- MODULE MCCoreInBytes ----------------------------
(***************************************************************************)
(* CoreInBytes with keys and texts of the test benches.                    *)
(***************************************************************************)
EXTENDS CoreInBytes, TestVectors

TwoKeys  == {Key1, Key2}
TwoTexts == {Text1, Text2a}
Blank    == {AllZero}
=============================================================================
