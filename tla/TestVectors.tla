----------------------------- MODULE TestVectors -----------------------------
(***************************************************************************)
(* The keys, plaintexts and ciphertexts of the test benches: tb/test1,     *)
(* which aes.c and sw/src/helloworld.c use too, and tb/test2, whose last   *)
(* block is padded.                                                        *)
(***************************************************************************)
EXTENDS Bytes

\* "aaa aaa aaa aaaa"
Key1    == BlockOf(<< \h61, \h61, \h61, \h20, \h61, \h61, \h61, \h20,
                 \h61, \h61, \h61, \h20, \h61, \h61, \h61, \h61 >>)
\* "hello hellohello"
Text1   == BlockOf(<< \h68, \h65, \h6c, \h6c, \h6f, \h20, \h68, \h65,
                 \h6c, \h6c, \h6f, \h68, \h65, \h6c, \h6c, \h6f >>)
Cipher1 == BlockOf(<< \ha0, \hb1, \h61, \h93, \hd6, \h35, \he1, \h2b,
                 \h44, \hd8, \hc3, \h8e, \h63, \hdb, \h60, \h15 >>)

\* "not a secret key"
Key2    == BlockOf(<< \h6e, \h6f, \h74, \h20, \h61, \h20, \h73, \h65,
                 \h63, \h72, \h65, \h74, \h20, \h6b, \h65, \h79 >>)
\* "hello hello plai"
Text2a  == BlockOf(<< \h68, \h65, \h6c, \h6c, \h6f, \h20, \h68, \h65,
                 \h6c, \h6c, \h6f, \h20, \h70, \h6c, \h61, \h69 >>)
Cipher2a == BlockOf(<< \h08, \heb, \h3f, \hbe, \h75, \hcf, \hab, \h9e,
                  \hf2, \h12, \h72, \h23, \ha3, \h9c, \h4d, \h8c >>)
\* "n text to be enc"
Text2b  == BlockOf(<< \h6e, \h20, \h74, \h65, \h78, \h74, \h20, \h74,
                 \h6f, \h20, \h62, \h65, \h20, \h65, \h6e, \h63 >>)
Cipher2b == BlockOf(<< \hd6, \he3, \hde, \hdc, \he3, \hb8, \h27, \h71,
                  \h3a, \h69, \hcc, \he1, \h15, \h91, \hf1, \h92 >>)
\* "rypted with aes-"
Text2c  == BlockOf(<< \h72, \h79, \h70, \h74, \h65, \h64, \h20, \h77,
                 \h69, \h74, \h68, \h20, \h61, \h65, \h73, \h2d >>)
Cipher2c == BlockOf(<< \h7e, \ha5, \h31, \h39, \h59, \h3d, \hc6, \hc9,
                  \h35, \h24, \h67, \hf5, \h4a, \ha1, \h19, \h09 >>)
\* "128." and twelve bytes of padding
Text2d  == BlockOf(<< \h31, \h32, \h38, \h2e, \h0c, \h0c, \h0c, \h0c,
                 \h0c, \h0c, \h0c, \h0c, \h0c, \h0c, \h0c, \h0c >>)
Cipher2d == BlockOf(<< \hba, \hff, \h22, \h45, \h7f, \hf5, \h2c, \h82,
                  \he3, \h62, \h89, \h02, \hd1, \hf6, \h99, \h75 >>)

\* What aes_hw_init encrypts, and with what.
AllZero == [p \in Places |-> 0]

TestKeys  == {AllZero, Key1, Key2}
TestTexts == {AllZero, Text1, Text2a, Text2b, Text2c, Text2d}

SecondTest == { << Text2a, Cipher2a >>, << Text2b, Cipher2b >>,
                << Text2c, Cipher2c >>, << Text2d, Cipher2d >> }
=============================================================================
