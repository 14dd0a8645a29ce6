------------------------------ MODULE FieldTables ------------------------------
(***************************************************************************)
(* The multiplicative group of GF(2^8), which the powers of 3 run through: *)
(* the witnesses of the proof that the substitution tables are FIPS-197's. *)
(***************************************************************************)
EXTENDS Naturals, Sequences

\* Powers[k + 1] is the k-th power of 3.
Powers ==
  << \h01, \h03, \h05, \h0f, \h11, \h33, \h55, \hff, \h1a, \h2e, \h72, \h96, \ha1, \hf8, \h13, \h35,
     \h5f, \he1, \h38, \h48, \hd8, \h73, \h95, \ha4, \hf7, \h02, \h06, \h0a, \h1e, \h22, \h66, \haa,
     \he5, \h34, \h5c, \he4, \h37, \h59, \heb, \h26, \h6a, \hbe, \hd9, \h70, \h90, \hab, \he6, \h31,
     \h53, \hf5, \h04, \h0c, \h14, \h3c, \h44, \hcc, \h4f, \hd1, \h68, \hb8, \hd3, \h6e, \hb2, \hcd,
     \h4c, \hd4, \h67, \ha9, \he0, \h3b, \h4d, \hd7, \h62, \ha6, \hf1, \h08, \h18, \h28, \h78, \h88,
     \h83, \h9e, \hb9, \hd0, \h6b, \hbd, \hdc, \h7f, \h81, \h98, \hb3, \hce, \h49, \hdb, \h76, \h9a,
     \hb5, \hc4, \h57, \hf9, \h10, \h30, \h50, \hf0, \h0b, \h1d, \h27, \h69, \hbb, \hd6, \h61, \ha3,
     \hfe, \h19, \h2b, \h7d, \h87, \h92, \had, \hec, \h2f, \h71, \h93, \hae, \he9, \h20, \h60, \ha0,
     \hfb, \h16, \h3a, \h4e, \hd2, \h6d, \hb7, \hc2, \h5d, \he7, \h32, \h56, \hfa, \h15, \h3f, \h41,
     \hc3, \h5e, \he2, \h3d, \h47, \hc9, \h40, \hc0, \h5b, \hed, \h2c, \h74, \h9c, \hbf, \hda, \h75,
     \h9f, \hba, \hd5, \h64, \hac, \hef, \h2a, \h7e, \h82, \h9d, \hbc, \hdf, \h7a, \h8e, \h89, \h80,
     \h9b, \hb6, \hc1, \h58, \he8, \h23, \h65, \haf, \hea, \h25, \h6f, \hb1, \hc8, \h43, \hc5, \h54,
     \hfc, \h1f, \h21, \h63, \ha5, \hf4, \h07, \h09, \h1b, \h2d, \h77, \h99, \hb0, \hcb, \h46, \hca,
     \h45, \hcf, \h4a, \hde, \h79, \h8b, \h86, \h91, \ha8, \he3, \h3e, \h42, \hc6, \h51, \hf3, \h0e,
     \h12, \h36, \h5a, \hee, \h29, \h7b, \h8d, \h8c, \h8f, \h8a, \h85, \h94, \ha7, \hf2, \h0d, \h17,
     \h39, \h4b, \hdd, \h7c, \h84, \h97, \ha2, \hfd, \h1c, \h24, \h6c, \hb4, \hc7, \h52, \hf6 >>

\* Logs[a] is the k of which a is the power.
Logs ==
  << \h00, \h19, \h01, \h32, \h02, \h1a, \hc6, \h4b, \hc7, \h1b, \h68, \h33, \hee, \hdf, \h03, \h64,
     \h04, \he0, \h0e, \h34, \h8d, \h81, \hef, \h4c, \h71, \h08, \hc8, \hf8, \h69, \h1c, \hc1, \h7d,
     \hc2, \h1d, \hb5, \hf9, \hb9, \h27, \h6a, \h4d, \he4, \ha6, \h72, \h9a, \hc9, \h09, \h78, \h65,
     \h2f, \h8a, \h05, \h21, \h0f, \he1, \h24, \h12, \hf0, \h82, \h45, \h35, \h93, \hda, \h8e, \h96,
     \h8f, \hdb, \hbd, \h36, \hd0, \hce, \h94, \h13, \h5c, \hd2, \hf1, \h40, \h46, \h83, \h38, \h66,
     \hdd, \hfd, \h30, \hbf, \h06, \h8b, \h62, \hb3, \h25, \he2, \h98, \h22, \h88, \h91, \h10, \h7e,
     \h6e, \h48, \hc3, \ha3, \hb6, \h1e, \h42, \h3a, \h6b, \h28, \h54, \hfa, \h85, \h3d, \hba, \h2b,
     \h79, \h0a, \h15, \h9b, \h9f, \h5e, \hca, \h4e, \hd4, \hac, \he5, \hf3, \h73, \ha7, \h57, \haf,
     \h58, \ha8, \h50, \hf4, \hea, \hd6, \h74, \h4f, \hae, \he9, \hd5, \he7, \he6, \had, \he8, \h2c,
     \hd7, \h75, \h7a, \heb, \h16, \h0b, \hf5, \h59, \hcb, \h5f, \hb0, \h9c, \ha9, \h51, \ha0, \h7f,
     \h0c, \hf6, \h6f, \h17, \hc4, \h49, \hec, \hd8, \h43, \h1f, \h2d, \ha4, \h76, \h7b, \hb7, \hcc,
     \hbb, \h3e, \h5a, \hfb, \h60, \hb1, \h86, \h3b, \h52, \ha1, \h6c, \haa, \h55, \h29, \h9d, \h97,
     \hb2, \h87, \h90, \h61, \hbe, \hdc, \hfc, \hbc, \h95, \hcf, \hcd, \h37, \h3f, \h5b, \hd1, \h53,
     \h39, \h84, \h3c, \h41, \ha2, \h6d, \h47, \h14, \h2a, \h9e, \h5d, \h56, \hf2, \hd3, \hab, \h44,
     \h11, \h92, \hd9, \h23, \h20, \h2e, \h89, \hb4, \h7c, \hb8, \h26, \h77, \h99, \he3, \ha5, \h67,
     \h4a, \hed, \hde, \hc5, \h31, \hfe, \h18, \h0d, \h63, \h8c, \h80, \hc0, \hf7, \h70, \h07 >>

\* Inverses[a + 1] is the reciprocal of a.
Inverses ==
  << \h00, \h01, \h8d, \hf6, \hcb, \h52, \h7b, \hd1, \he8, \h4f, \h29, \hc0, \hb0, \he1, \he5, \hc7,
     \h74, \hb4, \haa, \h4b, \h99, \h2b, \h60, \h5f, \h58, \h3f, \hfd, \hcc, \hff, \h40, \hee, \hb2,
     \h3a, \h6e, \h5a, \hf1, \h55, \h4d, \ha8, \hc9, \hc1, \h0a, \h98, \h15, \h30, \h44, \ha2, \hc2,
     \h2c, \h45, \h92, \h6c, \hf3, \h39, \h66, \h42, \hf2, \h35, \h20, \h6f, \h77, \hbb, \h59, \h19,
     \h1d, \hfe, \h37, \h67, \h2d, \h31, \hf5, \h69, \ha7, \h64, \hab, \h13, \h54, \h25, \he9, \h09,
     \hed, \h5c, \h05, \hca, \h4c, \h24, \h87, \hbf, \h18, \h3e, \h22, \hf0, \h51, \hec, \h61, \h17,
     \h16, \h5e, \haf, \hd3, \h49, \ha6, \h36, \h43, \hf4, \h47, \h91, \hdf, \h33, \h93, \h21, \h3b,
     \h79, \hb7, \h97, \h85, \h10, \hb5, \hba, \h3c, \hb6, \h70, \hd0, \h06, \ha1, \hfa, \h81, \h82,
     \h83, \h7e, \h7f, \h80, \h96, \h73, \hbe, \h56, \h9b, \h9e, \h95, \hd9, \hf7, \h02, \hb9, \ha4,
     \hde, \h6a, \h32, \h6d, \hd8, \h8a, \h84, \h72, \h2a, \h14, \h9f, \h88, \hf9, \hdc, \h89, \h9a,
     \hfb, \h7c, \h2e, \hc3, \h8f, \hb8, \h65, \h48, \h26, \hc8, \h12, \h4a, \hce, \he7, \hd2, \h62,
     \h0c, \he0, \h1f, \hef, \h11, \h75, \h78, \h71, \ha5, \h8e, \h76, \h3d, \hbd, \hbc, \h86, \h57,
     \h0b, \h28, \h2f, \ha3, \hda, \hd4, \he4, \h0f, \ha9, \h27, \h53, \h04, \h1b, \hfc, \hac, \he6,
     \h7a, \h07, \hae, \h63, \hc5, \hdb, \he2, \hea, \h94, \h8b, \hc4, \hd5, \h9d, \hf8, \h90, \h6b,
     \hb1, \h0d, \hd6, \heb, \hc6, \h0e, \hcf, \had, \h08, \h4e, \hd7, \he3, \h5d, \h50, \h1e, \hb3,
     \h5b, \h23, \h38, \h34, \h68, \h46, \h03, \h8c, \hdd, \h9c, \h7d, \ha0, \hcd, \h1a, \h41, \h1c >>
=============================================================================
