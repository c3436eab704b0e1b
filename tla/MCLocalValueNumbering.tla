----------------------- MODULE MCLocalValueNumbering -----------------------
EXTENDS LocalValueNumbering, TLC

MCPreObjs == {101}
(* The int[] argument, when not null, is an array of length 1 holding 0; *)
(* other arrays come from NEW_ARRAY and FILLED_NEW_ARRAY.                 *)
MCPreArrs == {301}
MCPreArrInit == 301 :> <<0>>
(* "f" is a resolved field, "uf" an unresolved reference that resolves to *)
(* "f" at run time, "v" a volatile field.                                  *)
MCIFieldRefs == {"f", "uf", "v"}
MCFieldOf == ("f" :> "f") @@ ("uf" :> "f") @@ ("v" :> "v")
MCFieldKind == ("f" :> "resolved") @@ ("uf" :> "unresolved") @@ ("v" :> "volatile")
MCSFields == {"s"}
MCConstVals == {0, 1}
MCConstValsWide == {0, 65536}
MCHigh16Vals == {1}
(* One literal: two ADD_INT_LIT8 of one source then add the same literal. *)
MCLitVals == {1}
MCLitValsTwo == {1, 2}
MCArgInts == {1}
MCCalleeInts == {1}
(* Wide literals: CONST_WIDE_16 #-1, CONST_WIDE #0xffff (the same low     *)
(* halfword, so only the high word's key tells them apart) and            *)
(* CONST_WIDE_HIGH16 #0xffff.                                              *)
MCWide32Vals == {<<65535, 65535>>}
MCWideVals == {<<65535, 0, 0, 0>>}
MCWideHigh16Vals == {65535}
MCCalleeLongs == {<<1, 0, 0, 0>>}
MCMaxInsns == 3
MCMaxInsnsShort == 2
====
