--------------------------- MODULE MCNodeCommands --------------------------
(* Small instances of NodeCommands for TLC.                                *)
EXTENDS NodeCommands, TLC

CONSTANTS c1, c2, p1, a, b

(* One report of each kind that competes with the commands.                *)
RaceBudget == {[k \in Kinds |-> IF k \in {"Connected", "AttributesChanged"}
                                THEN 1 ELSE 0]}

(* A supervisor that connects while the commands run.                      *)
UpBudget == {[k \in Kinds |-> IF k = "Connected" THEN 1 ELSE 0]}

(* The clients are interchangeable.                                        *)
ClientSymmetry == Permutations(Client)

FirstNodeOrNone == {{}, {1}}

=============================================================================
