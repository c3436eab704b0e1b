-------------------------- MODULE MCMirrorString ---------------------------
EXTENDS MirrorString, TLC

(* NUL, a Latin-1 char, and the largest char, whose differences with the  *)
(* others span the whole uint16 range.                                     *)
MCChars == {0, 233, 65535}
(* s1 = <<0xE9, 0xFFFF>> has a non-zero hash; s0, one NUL char, hashes   *)
(* to 0 and is recomputed on every call.                                  *)
MCObjs == {"s1", "s0"}
MCValue == ("s1" :> <<233, 65535>>) @@ ("s0" :> <<0>>)
MCStarts == {-1, 0, 1, 2, 3}
(* A char, and a value above 0xFFFF whose low 16 bits are that char.      *)
MCSearchChars == {233, 65536 + 233}
MCBytes == {-128, -1, 0, 65}
MCHighBytes == {-1, 0, 1, 256}
====
