--------------------------- MODULE MCStackThread ----------------------------
(* Two callers, two supervised nodes and at most two calls.  One caller    *)
(* makes every request; the other a read, a command with a follow-up and   *)
(* the label, so that two of each may be under way.                        *)
EXTENDS StackThread

CONSTANTS c1, c2

MCCaller == {c1, c2}

MCAsks == [c \in MCCaller |-> IF c = c1 THEN StackRequest
                              ELSE {"Read", "OpenWindow", "UpdateFabricLabel"}]

=============================================================================
