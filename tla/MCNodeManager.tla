--------------------------- MODULE MCNodeManager ---------------------------
(* Small instances of NodeManager for TLC.                                 *)
EXTENDS NodeManagerView, TLC

CONSTANTS n1, n2, p1, p2, a, b

Nothing == [k \in Kinds |-> 0]

(* Three scenarios: changes of the links; reports of attributes while a    *)
(* node connects; events of a device.                                      *)
Scenarios ==
  {("Connected" :> 3 @@ "Reconnecting" :> 2) @@ Nothing,
   ("Connected" :> 1 @@ "PrimingSnapshot" :> 1 @@ "AttributesChanged" :> 1) @@ Nothing,
   ("NodeEvent" :> 3) @@ Nothing}

(* The files of both nodes, or of one: the other's events are dropped.     *)
OneOrBoth == {{n1}, {n1, n2}}

=============================================================================
