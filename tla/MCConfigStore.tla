--------------------------- MODULE MCConfigStore ---------------------------
(* Small instances of ConfigStore for TLC.                                 *)
EXTENDS ConfigStore, TLC

CONSTANTS c1, c2, home, away, pwd1, pwd2, ds

DefaultSlot == {"default"}

(* Two names that differ only in case, next to the implicit one.           *)
TwoCases == {"default", "garage", "GARAGE"}

LowerOf == [i \in TwoCases |-> IF i = "GARAGE" THEN "garage" ELSE i]

ConnSymmetry == Permutations(Conn)

=============================================================================
