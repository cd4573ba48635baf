--------------------------- MODULE NodeManagerView --------------------------
(***************************************************************************)
(* NodeManager implements NodeView.  The registry calls, file writes and   *)
(* timers in between are stutters: a report leaves the inbox at the step   *)
(* that applies it to the registry or, an event of a device, broadcasts    *)
(* it; a grace period is an entry of grace_timers.                         *)
(***************************************************************************)
EXTENDS NodeManager

(* The part of the event in hand that is not applied yet.                  *)
Unapplied ==
  LET next == IF pc = "announce" THEN idx + 1 ELSE idx
  IN CASE pc \in {"handle", "announce"} /\ cur.kind = "AttributesChanged" ->
            IF next > Len(cur.changes) THEN <<>>
            ELSE <<[cur EXCEPT !.changes = SubSeq(@, next, Len(@))]>>
       [] pc \in {"handle", "broadcast"} /\ cur.kind # "AttributesChanged" -> <<cur>>
       [] OTHER -> <<>>

ModeOf(n) ==
  CASE n \notin available -> "down"
    [] n \in available /\ graceTimers[n] = 0 -> "up"
    [] n \in available /\ graceTimers[n] # 0 -> "grace"

View ==
  INSTANCE NodeView WITH
    Report <- [kind : {"Connected", "Reconnecting"}, node : Node]
                \cup [kind : {"PrimingSnapshot"}, node : Node, attributes : Attrs]
                \cup [kind : {"AttributesChanged"}, node : Node, changes : Reports]
                \cup [kind : {"NodeEvent"}, node : Node, event : Payload],
    nodes <- known,
    inbox <- Unapplied \o rx,
    mode  <- [n \in Node |-> ModeOf(n)],
    data  <- attrs,
    view  <- [n \in Node |-> [available |-> n \in seenAvailable,
                              attributes |-> seenAttrs[n]]],
    log   <- eventLog,
    ended <- pc = "stopped"

(* The consumer keeps the promise of NodeView: whatever its own steps, the *)
(* timers and the stack interleave, no report is lost, doubled or taken    *)
(* out of order, no change of a node overtakes the broadcast of the one    *)
(* before it, and no node becomes unavailable but by the end of a grace    *)
(* period (registry.rs, header: the two "can never disagree").             *)
ImplementsNodeView == View!Spec

=============================================================================
