------------------------------ MODULE NodeView ------------------------------
(***************************************************************************)
(* What the node manager promises the clients, without its registry        *)
(* calls, its timers and its files: the reports of the stack are taken in  *)
(* the order in which they were made; every change they make to a node is  *)
(* shown to the clients before the next change is made to any node; and a  *)
(* node is shown as unavailable only at the end of a grace period that an  *)
(* outage began and no connection ended.                                   *)
(*                                                                         *)
(* Module NodeManagerView shows that NodeManager implements it.            *)
(***************************************************************************)
EXTENDS Sequences

CONSTANTS
  Node,   \* node ids
  Report  \* what the stack may report: the events of its interface

VARIABLES
  nodes,  \* the nodes the controller knows
  inbox,  \* the reports it has yet to take, the first of them perhaps in part
  mode,   \* whether each node is up, in its grace period, or down
  data,   \* its attributes
  view,   \* what the clients were shown of it
  log,    \* the node events they were shown
  ended   \* whether the stack is gone and its last report taken

vars == <<nodes, inbox, mode, data, view, log, ended>>

Actual(n) == [available |-> mode[n] # "down", attributes |-> data[n]]

Shown == \A n \in nodes : view[n] = Actual(n)

Init ==
  /\ nodes \subseteq Node
  /\ inbox = <<>>
  /\ mode = [n \in Node |-> "down"]
  /\ view = [n \in Node |-> Actual(n)]
  /\ log = <<>>
  /\ ended = FALSE

Arrives(r) ==
  /\ ~ended
  /\ inbox' = Append(inbox, r)
  /\ UNCHANGED <<nodes, mode, data, view, log, ended>>

-----------------------------------------------------------------------------
(* Taking a report.                                                        *)

First == Head(inbox)

Take(kind) ==
  /\ inbox # <<>>
  /\ First.kind = kind /\ First.node \in nodes
  /\ Shown
  /\ UNCHANGED <<nodes, view, ended>>

(* A node the controller does not know.                                    *)
Ignore ==
  /\ inbox # <<>>
  /\ First.node \notin nodes
  /\ inbox' = Tail(inbox)
  /\ UNCHANGED <<nodes, mode, data, view, log, ended>>

Connect ==
  /\ Take("Connected")
  /\ mode' = [mode EXCEPT ![First.node] = "up"]
  /\ inbox' = Tail(inbox)
  /\ UNCHANGED <<data, log>>

(* A further loss within the grace period does not prolong it.             *)
Lose ==
  /\ Take("Reconnecting")
  /\ mode' = [mode EXCEPT ![First.node] = IF @ = "up" THEN "grace" ELSE @]
  /\ inbox' = Tail(inbox)
  /\ UNCHANGED <<data, log>>

Prime ==
  /\ Take("PrimingSnapshot")
  /\ data' = [data EXCEPT ![First.node] = First.attributes]
  /\ inbox' = Tail(inbox)
  /\ UNCHANGED <<mode, log>>

(* A report of several changes is taken one change at a time.              *)
Change ==
  /\ Take("AttributesChanged")
  /\ LET c == Head(First.changes)
         rest == Tail(First.changes)
     IN /\ data' = [data EXCEPT ![First.node] = [@ EXCEPT ![c.path] = c.value]]
        /\ inbox' = (IF rest = <<>> THEN <<>> ELSE <<[First EXCEPT !.changes = rest]>>)
                      \o Tail(inbox)
  /\ UNCHANGED <<mode, log>>

(* An event of the device is shown as it is.                               *)
Pass ==
  /\ Take("NodeEvent")
  /\ log' = Append(log, First.event)
  /\ inbox' = Tail(inbox)
  /\ UNCHANGED <<mode, data>>

-----------------------------------------------------------------------------
(* The grace period of a node ends.                                        *)
Expire(n) ==
  /\ ~ended /\ Shown
  /\ n \in nodes /\ mode[n] = "grace"
  /\ mode' = [mode EXCEPT ![n] = "down"]
  /\ UNCHANGED <<nodes, inbox, data, view, log, ended>>

Show(n) ==
  /\ n \in nodes
  /\ view' = [view EXCEPT ![n] = Actual(n)]
  /\ UNCHANGED <<nodes, inbox, mode, data, log, ended>>

(* Without the stack no grace period ends any more.                        *)
End ==
  /\ ~ended /\ Shown
  /\ inbox = <<>>
  /\ ended' = TRUE
  /\ mode' = [n \in Node |-> IF mode[n] = "grace" THEN "up" ELSE mode[n]]
  /\ UNCHANGED <<nodes, inbox, data, view, log>>

Next ==
  \/ \E r \in Report : Arrives(r)
  \/ Ignore \/ Connect \/ Lose \/ Prime \/ Change \/ Pass
  \/ \E n \in Node : Expire(n) \/ Show(n)
  \/ End

Spec == Init /\ [][Next]_vars

=============================================================================
