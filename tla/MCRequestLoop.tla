---------------------------- MODULE MCRequestLoop ----------------------------
(* Small instances of RequestLoop for TLC. *)
EXTENDS RequestLoop

CONSTANTS r1, w1, u1

OneRead  == {r1}
OneWrite == {w1}
OneUnlisted == {u1}
Nothing == {}

==============================================================================
