------------------------- MODULE NodeManagerProofs -------------------------
(* Theorems about NodeManager, for every value of its constants.           *)
EXTENDS NodeManagerView, SequenceTheorems, TLAPS

-----------------------------------------------------------------------------
(* Facts about the data the handlers work on.                              *)

(* Every stack event has one of the five kinds and names a node; none is   *)
(* the idle marker.                                                        *)
LEMMA StackEventShape ==
  ASSUME NEW ev \in StackEvent
  PROVE  /\ ev.kind \in Kinds
         /\ ev.node \in Node
         /\ ev # Idle
         /\ ev.kind = "PrimingSnapshot" => ev.attributes \in Attrs
         /\ ev.kind = "AttributesChanged" => ev.changes \in Seq(Change) \ {<<>>}
         /\ ev.kind = "NodeEvent" => ev.event \in Payload
  BY DEF StackEvent, Kinds, Idle

(* Whatever the handler is working on, it has a node unless it is idle.    *)
LEMMA CurShape ==
  ASSUME TypeOK, cur # Idle
  PROVE  /\ cur \in StackEvent \cup GraceExpired
         /\ cur.node \in Node
         /\ cur.kind \in Kinds => cur \in StackEvent
  BY StackEventShape DEF TypeOK, GraceExpired, Kinds

(* A report of at least one change has a first change.                     *)
LEMMA ReportsShape ==
  Reports \subseteq Seq(Change) \ {<<>>}
<1>1. \A c \in Change : <<c>> \in Seq(Change) \ {<<>>}
  OBVIOUS
<1>2. \A c, d \in Change : <<c, d>> \in Seq(Change) \ {<<>>}
  OBVIOUS
<1>3. ASSUME NEW r \in Reports
      PROVE  \/ \E c \in Change : r = <<c>>
             \/ \E c, d \in Change : r = <<c, d>>
  BY <1>3, Zenon DEF Reports
<1>4. QED
  BY <1>1, <1>2, <1>3

(* Taking the first element off a queue keeps its type.                    *)
LEMMA QueueTypes ==
  ASSUME NEW S, NEW q \in Seq(S), q # <<>>
  PROVE  Head(q) \in S /\ Tail(q) \in Seq(S)
  OBVIOUS

LEMMA AppendType ==
  ASSUME NEW S, NEW q \in Seq(S), NEW x \in S
  PROVE  Append(q, x) \in Seq(S)
  OBVIOUS

-----------------------------------------------------------------------------
(* Type correctness.                                                       *)

(* A stack event of any kind leaves every variable in its type.            *)
LEMMA StackSendsType ==
  ASSUME TypeOK, NEW ev \in StackEvent, StackSends(ev)
  PROVE  TypeOK'
<1>1. rx' \in Seq(StackEvent)
  BY AppendType DEF TypeOK, StackSends
<1>2. budget' \in [Kinds -> Nat]
  BY StackEventShape DEF TypeOK, StackSends
<1>3. link' \in [Node -> {"none", "Connected", "Reconnecting"}]
  BY StackEventShape DEF TypeOK, StackSends
<1>4. QED
  BY <1>1, <1>2, <1>3
     DEF TypeOK, ControlOK, StackSends, registryVars, storageVars, timerVars,
         localVars, busVars

LEMMA StackReportsType ==
  ASSUME TypeOK, NEW n \in Node, StackReports(n)
  PROVE  TypeOK'
<1>1. CASE \E k \in {"Connected", "Reconnecting"} : StackSends([kind |-> k, node |-> n])
  BY <1>1, StackSendsType DEF StackEvent
<1>2. CASE \E a \in Attrs :
        StackSends([kind |-> "PrimingSnapshot", node |-> n, attributes |-> a])
  BY <1>2, StackSendsType DEF StackEvent
<1>3. CASE \E s \in Reports :
        StackSends([kind |-> "AttributesChanged", node |-> n, changes |-> s])
  BY <1>3, StackSendsType, ReportsShape DEF StackEvent
<1>4. CASE \E p \in Payload :
        StackSends([kind |-> "NodeEvent", node |-> n, event |-> p])
  BY <1>4, StackSendsType DEF StackEvent
<1>5. QED
  BY <1>1, <1>2, <1>3, <1>4 DEF StackReports

(* Any change that leaves the handler's locals and the queues alone keeps  *)
(* their types: each action below shows the parts it assigns.              *)
LEMMA RecvEventType ==
  ASSUME TypeOK, RecvEvent
  PROVE  TypeOK'
<1>1. Head(rx) \in StackEvent /\ Tail(rx) \in Seq(StackEvent)
  BY QueueTypes DEF RecvEvent, TypeOK
<1>2. CASE Head(rx).node \in known
  <2>1. /\ cur' = Head(rx) /\ pc' = "handle" /\ idx' = 1 /\ snap' = snap
    BY <1>2 DEF RecvEvent, TypeOK, ControlOK
  <2>2. /\ cur' \in StackEvent /\ cur'.kind \in Kinds /\ cur' # Idle
        /\ cur'.kind = "AttributesChanged" => cur'.changes \in Seq(Change) \ {<<>>}
    BY <1>1, <2>1, StackEventShape
  <2>3. cur'.kind = "AttributesChanged" => 1 <= Len(cur'.changes)
    BY <2>2
  <2>4. ControlOK'
    BY <2>1, <2>2, <2>3 DEF ControlOK
  <2>5. QED
    BY <1>1, <2>1, <2>2, <2>4
       DEF TypeOK, RecvEvent, Pcs, registryVars, storageVars, timerVars, busVars
<1>3. CASE Head(rx).node \notin known
  BY <1>1, <1>3
     DEF TypeOK, ControlOK, RecvEvent, registryVars, storageVars, timerVars,
         localVars, busVars
<1>4. QED
  BY <1>2, <1>3

LEMMA RecvClosedType ==
  ASSUME TypeOK, RecvClosed
  PROVE  TypeOK'
  BY DEF TypeOK, ControlOK, RecvClosed, Pcs, registryVars, storageVars, busVars,
         stackVars

LEMMA HandleGraceExpiryType ==
  ASSUME TypeOK, HandleGraceExpiry
  PROVE  TypeOK'
<1> DEFINE n == Head(graceRx).node
<1>1. n \in Node /\ Tail(graceRx) \in Seq(TimerTask)
  <2>1. Head(graceRx) \in TimerTask /\ Tail(graceRx) \in Seq(TimerTask)
    BY QueueTypes DEF HandleGraceExpiry, TypeOK
  <2>2. QED
    BY <2>1 DEF TimerTask
<1>2. CASE graceTimers[n] # 0 /\ n \in available
  <2>1. /\ cur' = [kind |-> "GraceExpired", node |-> n]
        /\ pc' = "emit" /\ idx' = idx /\ snap' = snap
        /\ available' = available \ {n}
    BY <1>2 DEF HandleGraceExpiry
  <2>2. cur' \in GraceExpired /\ cur' # Idle
    BY <1>1, <2>1 DEF GraceExpired, Idle
  <2>3. ControlOK'
    BY <2>1, <2>2 DEF ControlOK
  <2>4. QED
    BY <1>1, <2>1, <2>2, <2>3
       DEF TypeOK, HandleGraceExpiry, Pcs, storageVars, busVars, stackVars
<1>3. CASE ~(graceTimers[n] # 0 /\ n \in available)
  BY <1>1, <1>3
     DEF TypeOK, ControlOK, HandleGraceExpiry, storageVars, busVars, stackVars,
         localVars
<1>4. QED
  BY <1>2, <1>3

LEMMA HandleConnectedType ==
  ASSUME TypeOK, HandleConnected
  PROVE  TypeOK'
<1>1. cur \in StackEvent /\ cur # Idle /\ cur.node \in Node /\ pc = "handle"
  BY CurShape, StackEventShape DEF HandleConnected, Handling, TypeOK, ControlOK
<1>2. /\ available' \subseteq known /\ known' = known
      /\ graceTimers' \in [Node -> Nat] /\ sleeping' \subseteq TimerTask
  BY <1>1 DEF HandleConnected, TypeOK
<1>3. pc' \in Pcs /\ ControlOK' /\ cur' \in StackEvent \cup GraceExpired \cup {Idle}
      /\ idx' \in Nat \ {0} /\ snap' \in NodeSnapshot \cup {NoSnapshot}
  BY <1>1 DEF HandleConnected, TypeOK, ControlOK, Goto, Return, Pcs, Handling
<1>4. QED
  BY <1>2, <1>3 DEF TypeOK, HandleConnected, storageVars, busVars, stackVars

(* What TypeOK says of the handler's locals.                               *)
LocalsOK ==
  /\ ControlOK
  /\ pc \in Pcs
  /\ cur \in StackEvent \cup GraceExpired \cup {Idle}
  /\ idx \in Nat \ {0}
  /\ snap \in NodeSnapshot \cup {NoSnapshot}

(* A handler that returns leaves idle locals behind.                       *)
LEMMA ReturnType ==
  ASSUME Return
  PROVE  LocalsOK'
  BY DEF Return, LocalsOK, ControlOK, Pcs, NoSnapshot, Idle

(* A handler's event, at the steps where it is known to be a stack event.  *)
LEMMA HandlerEvent ==
  ASSUME TypeOK, pc \in {"handle", "announce", "broadcast", "persist", "save"}
  PROVE  /\ cur \in StackEvent /\ cur # Idle
         /\ cur.node \in Node /\ cur.kind \in Kinds
  BY CurShape, StackEventShape DEF TypeOK, ControlOK, Kinds

(* The snapshot a handler takes of a known node.                           *)
LEMMA SnapshotType ==
  ASSUME TypeOK, NEW n \in Node
  PROVE  Snapshot(n) \in NodeSnapshot
  BY DEF Snapshot, NodeSnapshot, TypeOK

LEMMA HandleReconnectingType ==
  ASSUME TypeOK, HandleReconnecting
  PROVE  TypeOK'
<1>1. cur.node \in Node
  BY HandlerEvent DEF HandleReconnecting, Handling
<1>2. /\ graceTimers' \in [Node -> Nat] /\ sleeping' \subseteq TimerTask
      /\ nextTimer' \in Nat \ {0}
  BY <1>1 DEF HandleReconnecting, TypeOK, TimerTask
<1>3. LocalsOK'
  BY ReturnType DEF HandleReconnecting
<1>4. QED
  BY <1>2, <1>3
     DEF TypeOK, LocalsOK, HandleReconnecting, registryVars, storageVars,
         busVars, stackVars

LEMMA HandlePrimingSnapshotType ==
  ASSUME TypeOK, HandlePrimingSnapshot
  PROVE  TypeOK'
<1>1. cur \in StackEvent /\ cur # Idle /\ cur.node \in Node /\ cur.attributes \in Attrs
  BY HandlerEvent, StackEventShape DEF HandlePrimingSnapshot, Handling
<1>2. attrs' \in [Node -> Attrs]
  BY <1>1 DEF HandlePrimingSnapshot, TypeOK
<1>3. LocalsOK'
  BY <1>1 DEF HandlePrimingSnapshot, Handling, Goto, LocalsOK, TypeOK, ControlOK, Pcs
<1>4. QED
  BY <1>2, <1>3
     DEF TypeOK, LocalsOK, HandlePrimingSnapshot, storageVars, timerVars, busVars,
         stackVars

(* The change under way is one of the report's.                            *)
LEMMA CurrentChange ==
  ASSUME TypeOK, pc \in {"handle", "announce"}, cur.kind = "AttributesChanged"
  PROVE  /\ cur.changes \in Seq(Change)
         /\ idx \in 1..Len(cur.changes)
         /\ cur.changes[idx].path \in Path
         /\ cur.changes[idx].value \in Value
<1>1. cur.changes \in Seq(Change)
  BY HandlerEvent, StackEventShape
<1>2. idx \in 1..Len(cur.changes)
  BY <1>1 DEF TypeOK, ControlOK
<1>3. cur.changes[idx] \in Change
  BY <1>1, <1>2
<1>4. QED
  BY <1>1, <1>2, <1>3 DEF Change

(* Assigning one attribute of one node.                                    *)
LEMMA AssignType ==
  ASSUME NEW f \in [Node -> Attrs], NEW n \in Node, NEW p \in Path, NEW v \in Value
  PROVE  [f EXCEPT ![n] = [@ EXCEPT ![p] = v]] \in [Node -> Attrs]
  BY DEF Attrs

LEMMA HandleChangeType ==
  ASSUME TypeOK, HandleChange
  PROVE  TypeOK'
<1>1. cur \in StackEvent /\ cur # Idle /\ cur.node \in Node
  BY HandlerEvent DEF HandleChange, Handling
<1>2. attrs' \in [Node -> Attrs]
  BY <1>1, CurrentChange, AssignType DEF HandleChange, Handling, TypeOK
<1>3. LocalsOK'
  BY <1>1 DEF HandleChange, Handling, Goto, LocalsOK, TypeOK, ControlOK, Pcs
<1>4. QED
  BY <1>2, <1>3
     DEF TypeOK, LocalsOK, HandleChange, storageVars, timerVars, busVars, stackVars

LEMMA AnnounceChangeType ==
  ASSUME TypeOK, AnnounceChange
  PROVE  TypeOK'
<1>1. /\ cur \in StackEvent /\ cur # Idle /\ cur.node \in Node
      /\ cur.kind = "AttributesChanged"
  BY HandlerEvent DEF AnnounceChange, TypeOK, ControlOK
<1>2. seenAttrs' \in [Node -> Attrs]
  BY <1>1, CurrentChange, AssignType DEF AnnounceChange, TypeOK
<1>3. LocalsOK'
  BY <1>1, CurrentChange
     DEF AnnounceChange, LocalsOK, TypeOK, ControlOK, Pcs, Kinds
<1>4. QED
  BY <1>2, <1>3
     DEF TypeOK, LocalsOK, AnnounceChange, registryVars, storageVars, timerVars,
         stackVars

LEMMA NodeEventType ==
  ASSUME TypeOK, HandleNodeEvent \/ BroadcastNodeEvent
  PROVE  TypeOK'
<1>1. cur \in StackEvent /\ cur # Idle /\ cur.event \in Payload
  BY HandlerEvent, StackEventShape
     DEF HandleNodeEvent, BroadcastNodeEvent, Handling, TypeOK, ControlOK
<1>2. CASE HandleNodeEvent
  <2>1. Len(history) >= HistorySize => history # <<>>
    BY HistorySizeAssumption DEF TypeOK
  <2>2. history' \in Seq(Payload)
    BY <1>1, <1>2, <2>1, QueueTypes, AppendType DEF HandleNodeEvent, TypeOK
  <2>3. LocalsOK'
    BY <1>1, <1>2 DEF HandleNodeEvent, Handling, Goto, LocalsOK, TypeOK, ControlOK, Pcs
  <2>4. QED
    BY <1>2, <2>2, <2>3
       DEF TypeOK, LocalsOK, HandleNodeEvent, registryVars, storageVars, timerVars,
           busVars, stackVars
<1>3. CASE BroadcastNodeEvent
  <2>1. eventLog' \in Seq(Payload)
    BY <1>1, <1>3, AppendType DEF BroadcastNodeEvent, TypeOK
  <2>2. LocalsOK'
    BY <1>3, ReturnType DEF BroadcastNodeEvent
  <2>3. QED
    BY <1>3, <2>1, <2>2
       DEF TypeOK, LocalsOK, BroadcastNodeEvent, registryVars, storageVars,
           timerVars, stackVars
<1>4. QED
  BY <1>2, <1>3

(* After a save the handler returns or goes on to announce the snapshot.   *)
LEMMA AfterPersistType ==
  ASSUME TypeOK, pc \in {"persist", "save"}, AfterPersist
  PROVE  LocalsOK'
<1>1. CASE cur.kind = "PrimingSnapshot"
  BY <1>1, HandlerEvent DEF AfterPersist, LocalsOK, TypeOK, ControlOK, Pcs
<1>2. CASE cur.kind # "PrimingSnapshot"
  BY <1>2, ReturnType DEF AfterPersist
<1>3. QED
  BY <1>1, <1>2

LEMMA PersistType ==
  ASSUME TypeOK, Persist
  PROVE  TypeOK'
<1>1. cur \in StackEvent /\ cur # Idle /\ cur.node \in Node
  BY HandlerEvent DEF Persist
<1>2. LocalsOK'
  <2>1. CASE cur.node \in known
    BY <1>1, <2>1, SnapshotType
       DEF Persist, LocalsOK, TypeOK, ControlOK, Pcs
  <2>2. CASE cur.node \notin known
    BY <2>2, AfterPersistType DEF Persist
  <2>3. QED
    BY <2>1, <2>2
<1>3. QED
  BY <1>2
     DEF TypeOK, LocalsOK, Persist, registryVars, storageVars, timerVars, busVars,
         stackVars

LEMMA SaveNodeType ==
  ASSUME TypeOK, SaveNode
  PROVE  TypeOK'
<1>1. cur.node \in Node /\ snap \in NodeSnapshot /\ snap.attributes \in Attrs
  BY HandlerEvent DEF SaveNode, TypeOK, ControlOK, NodeSnapshot
<1>2. /\ files' \subseteq Node /\ file' \in [Node -> Attrs]
      /\ unsaved' \subseteq Node
  BY <1>1 DEF SaveNode, WriteFile, TypeOK
<1>3. LocalsOK'
  BY AfterPersistType DEF SaveNode
<1>4. QED
  BY <1>2, <1>3
     DEF TypeOK, LocalsOK, SaveNode, registryVars, timerVars, busVars, stackVars

(* Only an idle handler has no node.                                       *)
LEMMA EmitNode ==
  ASSUME TypeOK, pc \in {"emit", "send"}
  PROVE  cur \in StackEvent \cup GraceExpired /\ cur # Idle /\ cur.node \in Node
  BY CurShape DEF TypeOK, ControlOK

LEMMA EmitNodeUpdatedType ==
  ASSUME TypeOK, EmitNodeUpdated
  PROVE  TypeOK'
<1>1. LocalsOK'
  <2>1. CASE cur.node \in known
    BY <2>1, EmitNode, SnapshotType
       DEF EmitNodeUpdated, LocalsOK, TypeOK, ControlOK, Pcs
  <2>2. CASE cur.node \notin known
    BY <2>2, ReturnType DEF EmitNodeUpdated
  <2>3. QED
    BY <2>1, <2>2
<1>2. QED
  BY <1>1
     DEF TypeOK, LocalsOK, EmitNodeUpdated, registryVars, storageVars, timerVars,
         busVars, stackVars

LEMMA SendNodeUpdatedType ==
  ASSUME TypeOK, SendNodeUpdated
  PROVE  TypeOK'
<1>1. cur.node \in Node /\ snap.attributes \in Attrs
  BY EmitNode DEF SendNodeUpdated, TypeOK, ControlOK, NodeSnapshot
<1>2. /\ seen' \subseteq Node /\ seenAvailable' \subseteq seen'
      /\ seenAttrs' \in [Node -> Attrs] /\ eventLog' = eventLog
  BY <1>1 DEF SendNodeUpdated, Publish, TypeOK
<1>3. LocalsOK'
  BY ReturnType DEF SendNodeUpdated
<1>4. QED
  BY <1>2, <1>3
     DEF TypeOK, LocalsOK, SendNodeUpdated, registryVars, storageVars, timerVars,
         stackVars

LEMMA ConsumerType ==
  ASSUME TypeOK, Consumer
  PROVE  TypeOK'
  BY RecvEventType, RecvClosedType, HandleGraceExpiryType, HandleConnectedType,
     HandleReconnectingType, HandlePrimingSnapshotType, HandleChangeType,
     AnnounceChangeType, NodeEventType, PersistType, SaveNodeType,
     EmitNodeUpdatedType, SendNodeUpdatedType
     DEF Consumer

LEMMA TimerFiresType ==
  ASSUME TypeOK, NEW t \in sleeping, TimerFires(t)
  PROVE  TypeOK'
<1>1. graceRx' \in Seq(TimerTask)
  BY AppendType DEF TimerFires, TypeOK
<1>2. QED
  BY <1>1
     DEF TypeOK, ControlOK, TimerFires, registryVars, storageVars, localVars,
         busVars, stackVars

LEMMA StackGoneType ==
  ASSUME TypeOK, StackGone
  PROVE  TypeOK'
  BY DEF TypeOK, ControlOK, StackGone, registryVars, storageVars, timerVars,
         localVars, busVars

LEMMA NextType ==
  ASSUME TypeOK, [Next]_vars
  PROVE  TypeOK'
<1>1. CASE UNCHANGED vars
  BY <1>1 DEF TypeOK, ControlOK, vars, registryVars, storageVars, timerVars,
              localVars, busVars, stackVars
<1>2. CASE Next
  BY <1>2, StackReportsType, StackGoneType, TimerFiresType, ConsumerType DEF Next
<1>3. QED
  BY <1>1, <1>2

LEMMA InitType ==
  ASSUME Init
  PROVE  TypeOK
<1>1. ControlOK
  BY DEF Init, ControlOK, Idle
<1>2. file \in [Node -> Attrs] /\ files \subseteq Node
  BY ProvisionedAssumption DEF Init
<1>3. /\ rx \in Seq(StackEvent) /\ graceRx \in Seq(TimerTask)
      /\ history \in Seq(Payload) /\ eventLog \in Seq(Payload)
  BY DEF Init
<1>4. /\ graceTimers \in [Node -> Nat] /\ budget \in [Kinds -> Nat]
      /\ link \in [Node -> {"none", "Connected", "Reconnecting"}]
  BY BudgetAssumption DEF Init
<1>5. /\ pc \in Pcs /\ cur \in StackEvent \cup GraceExpired \cup {Idle}
      /\ idx \in Nat \ {0} /\ snap \in NodeSnapshot \cup {NoSnapshot}
      /\ nextTimer \in Nat \ {0} /\ closed \in BOOLEAN
  <2>1. /\ pc = "select" /\ cur = Idle /\ idx = 1 /\ snap = NoSnapshot
        /\ nextTimer = 1 /\ closed = FALSE
    BY Zenon DEF Init
  <2>2. pc \in Pcs /\ idx \in Nat \ {0} /\ nextTimer \in Nat \ {0}
    BY <2>1 DEF Pcs
  <2>3. /\ cur \in StackEvent \cup GraceExpired \cup {Idle}
        /\ snap \in NodeSnapshot \cup {NoSnapshot} /\ closed \in BOOLEAN
    BY <2>1, Zenon
  <2>4. QED
    BY <2>2, <2>3
<1>6. QED
  BY <1>1, <1>2, <1>3, <1>4, <1>5 DEF Init, TypeOK

(* Every variable keeps its type, and a handler finds at each of its steps *)
(* what the steps before it left: the event it took off the channel, a     *)
(* change that exists, the snapshot it is about to save or send.           *)
THEOREM TypeCorrect == Spec => []TypeOK
<1>1. Init => TypeOK
  BY InitType
<1>2. TypeOK /\ [Next]_vars => TypeOK'
  BY NextType
<1>3. QED
  BY <1>1, <1>2, PTL DEF Spec

-----------------------------------------------------------------------------
(* Availability follows the link.                                          *)

NoStateEvent(n) == \A i \in 1..Len(rx) : ~StateEvent(rx[i], n)

InHand(n) == pc = "handle" /\ StateEvent(cur, n)

(* What the registry says of the nodes of K, a set of known nodes that a   *)
(* step leaves as it is: all known nodes here, and with the commands at    *)
(* work those whose id was handed out once.                                *)

(* Of such a node's link-state events still to be handled, the last is the *)
(* link state the stack reported last.                                     *)
LastPendingIsLink(K) ==
  \A n \in K :
    /\ \A i \in 1..Len(rx) :
         /\ StateEvent(rx[i], n)
         /\ \A j \in 1..Len(rx) : j > i => ~StateEvent(rx[j], n)
         => rx[i].kind = link[n]
    /\ NoStateEvent(n) /\ InHand(n) => cur.kind = link[n]

(* A map entry left when all is handled means that the link is down.       *)
EntryMeansDown(K) ==
  \A n \in K :
    graceTimers[n] # 0 /\ NoStateEvent(n) /\ ~InHand(n) => link[n] = "Reconnecting"

UpIsAvailable(K) ==
  \A n \in K :
    NoStateEvent(n) /\ ~InHand(n) /\ link[n] = "Connected" => n \in available

DownHasEntry(K) ==
  \A n \in K \cap available :
    NoStateEvent(n) /\ ~InHand(n) /\ link[n] = "Reconnecting" /\ pc # "stopped"
      => graceTimers[n] # 0

(* The timer a map entry names is asleep, or its signal is queued.         *)
EntryHasTimer ==
  \A n \in Node :
    graceTimers[n] # 0 =>
      LET t == [node |-> n, id |-> graceTimers[n]]
      IN t \in sleeping \/ \E i \in 1..Len(graceRx) : graceRx[i] = t

LinkInv(K) ==
  /\ LastPendingIsLink(K)
  /\ EntryMeansDown(K)
  /\ UpIsAvailable(K)
  /\ DownHasEntry(K)
  /\ EntryHasTimer

(* A step that handles no link-state event and leaves queue, link, timers  *)
(* and availability alone.                                                 *)
LEMMA DataStepLink ==
  ASSUME NEW K, K \subseteq known, LinkInv(K), TypeOK,
         UNCHANGED <<rx, link, known, available, timerVars>>,
         pc = "stopped" => pc' = "stopped",
         \A n \in Node : ~InHand(n) /\ ~InHand(n)'
  PROVE  LinkInv(K)'
<1>1. \A n \in Node : NoStateEvent(n)' <=> NoStateEvent(n)
  BY DEF NoStateEvent, StateEvent
<1>2. K \subseteq known /\ known \subseteq Node /\ available \subseteq Node
  BY DEF TypeOK
<1>3. LastPendingIsLink(K)'
  BY <1>1, <1>2 DEF LinkInv, LastPendingIsLink, StateEvent
<1>4. EntryMeansDown(K)' /\ UpIsAvailable(K)' /\ DownHasEntry(K)'
  BY <1>1, <1>2 DEF LinkInv, EntryMeansDown, UpIsAvailable, DownHasEntry, timerVars
<1>5. EntryHasTimer'
  BY DEF LinkInv, EntryHasTimer, timerVars
<1>6. QED
  BY <1>3, <1>4, <1>5 DEF LinkInv

LEMMA DataStepsLink ==
  ASSUME NEW K, K \subseteq known, LinkInv(K), TypeOK,
         \/ HandlePrimingSnapshot \/ HandleChange \/ AnnounceChange
         \/ HandleNodeEvent \/ BroadcastNodeEvent \/ Persist \/ SaveNode
         \/ EmitNodeUpdated \/ SendNodeUpdated
  PROVE  LinkInv(K)'
<1>1. UNCHANGED <<rx, link, known, available, timerVars>>
  BY DEF HandlePrimingSnapshot, HandleChange, AnnounceChange, HandleNodeEvent,
         BroadcastNodeEvent, Persist, SaveNode, EmitNodeUpdated, SendNodeUpdated,
         registryVars, stackVars
<1>2. pc # "stopped"
  BY DEF HandlePrimingSnapshot, HandleChange, AnnounceChange, HandleNodeEvent,
         BroadcastNodeEvent, Persist, SaveNode, EmitNodeUpdated, SendNodeUpdated,
         Handling
<1>3. \A n \in Node : ~InHand(n)
  BY DEF HandlePrimingSnapshot, HandleChange, AnnounceChange, HandleNodeEvent,
         BroadcastNodeEvent, Persist, SaveNode, EmitNodeUpdated, SendNodeUpdated,
         Handling, InHand, StateEvent
<1>4. \A n \in Node : ~InHand(n)'
  BY DEF HandlePrimingSnapshot, HandleChange, AnnounceChange, HandleNodeEvent,
         BroadcastNodeEvent, Persist, SaveNode, EmitNodeUpdated, SendNodeUpdated,
         Handling, InHand, StateEvent, Goto, Return, AfterPersist, TypeOK, ControlOK
<1>5. QED
  BY <1>1, <1>2, <1>3, <1>4, DataStepLink

LEMMA StackSendsLink ==
  ASSUME NEW K, K \subseteq known, LinkInv(K), TypeOK,
         NEW ev \in StackEvent, StackSends(ev)
  PROVE  LinkInv(K)'
<1>1. /\ rx \in Seq(StackEvent) /\ rx' = Append(rx, ev) /\ Len(rx') = Len(rx) + 1
      /\ \A i \in 1..Len(rx) : rx'[i] = rx[i]
      /\ rx'[Len(rx) + 1] = ev
      /\ Len(rx) \in Nat
  BY DEF StackSends, TypeOK
<1>2. UNCHANGED <<known, available, pc, cur, timerVars>>
  BY DEF StackSends, registryVars, localVars
<1>3. \A n \in Node : InHand(n)' <=> InHand(n)
  BY <1>2 DEF InHand, StateEvent
<1>4. \A n \in Node : NoStateEvent(n)' <=> NoStateEvent(n) /\ ~StateEvent(ev, n)
  BY <1>1 DEF NoStateEvent, StateEvent
<1>5. \A n \in Node : StateEvent(ev, n) => link'[n] = ev.kind
  BY DEF StateEvent, StackSends, TypeOK
<1>6. \A n \in Node : ~StateEvent(ev, n) => link'[n] = link[n]
  BY DEF StateEvent, StackSends, TypeOK
<1>7. K \subseteq known /\ known \subseteq Node /\ available \subseteq Node
  BY DEF TypeOK
<1>8. LastPendingIsLink(K)'
  <2> SUFFICES ASSUME NEW n \in K
               PROVE  /\ \A i \in 1..Len(rx') :
                           /\ StateEvent(rx'[i], n)
                           /\ \A j \in 1..Len(rx') : j > i => ~StateEvent(rx'[j], n)
                           => rx'[i].kind = link'[n]
                      /\ NoStateEvent(n)' /\ InHand(n)' => cur'.kind = link'[n]
    BY <1>2 DEF LastPendingIsLink, StateEvent
  <2>1. CASE StateEvent(ev, n)
    BY <1>1, <1>4, <1>5, <1>7, <2>1
  <2>2. CASE ~StateEvent(ev, n)
    BY <1>1, <1>2, <1>3, <1>4, <1>6, <1>7, <2>2 DEF LinkInv, LastPendingIsLink
  <2>3. QED
    BY <2>1, <2>2
<1>9. EntryMeansDown(K)' /\ UpIsAvailable(K)' /\ DownHasEntry(K)'
  BY <1>2, <1>3, <1>4, <1>6, <1>7
     DEF LinkInv, EntryMeansDown, UpIsAvailable, DownHasEntry, timerVars
<1>10. EntryHasTimer'
  BY <1>2 DEF LinkInv, EntryHasTimer, timerVars
<1>11. QED
  BY <1>8, <1>9, <1>10 DEF LinkInv

LEMMA StackReportsLink ==
  ASSUME NEW K, K \subseteq known, LinkInv(K), TypeOK,
         NEW n \in Node, StackReports(n)
  PROVE  LinkInv(K)'
<1>1. CASE \E k \in {"Connected", "Reconnecting"} : StackSends([kind |-> k, node |-> n])
  BY <1>1, StackSendsLink DEF StackEvent
<1>2. CASE \E a \in Attrs :
        StackSends([kind |-> "PrimingSnapshot", node |-> n, attributes |-> a])
  BY <1>2, StackSendsLink DEF StackEvent
<1>3. CASE \E s \in Reports :
        StackSends([kind |-> "AttributesChanged", node |-> n, changes |-> s])
  BY <1>3, StackSendsLink, ReportsShape DEF StackEvent
<1>4. CASE \E p \in Payload :
        StackSends([kind |-> "NodeEvent", node |-> n, event |-> p])
  BY <1>4, StackSendsLink DEF StackEvent
<1>5. QED
  BY <1>1, <1>2, <1>3, <1>4 DEF StackReports

(* Nothing but the end of the channel, or no change at all.                *)
LEMMA QuietStepLink ==
  ASSUME NEW K, K \subseteq known, LinkInv(K), TypeOK,
         UNCHANGED <<rx, link, known, available, pc, cur, timerVars>>
  PROVE  LinkInv(K)'
  BY DEF LinkInv, LastPendingIsLink, EntryMeansDown, UpIsAvailable, DownHasEntry,
         EntryHasTimer, NoStateEvent, InHand, StateEvent, timerVars

LEMMA TimerFiresLink ==
  ASSUME NEW K, K \subseteq known, LinkInv(K), TypeOK,
         NEW t \in sleeping, TimerFires(t)
  PROVE  LinkInv(K)'
<1>1. UNCHANGED <<rx, link, known, available, pc, cur, graceTimers>>
  BY DEF TimerFires, registryVars, localVars, stackVars
<1>2. /\ graceRx \in Seq(TimerTask) /\ t \in TimerTask
      /\ graceRx' = Append(graceRx, t) /\ Len(graceRx') = Len(graceRx) + 1
      /\ \A i \in 1..Len(graceRx) : graceRx'[i] = graceRx[i]
      /\ graceRx'[Len(graceRx) + 1] = t
      /\ Len(graceRx) \in Nat
  BY DEF TimerFires, TypeOK
<1>3. EntryHasTimer'
  <2> SUFFICES ASSUME NEW n \in Node, graceTimers[n] # 0
               PROVE  LET u == [node |-> n, id |-> graceTimers[n]]
                      IN u \in sleeping' \/ \E i \in 1..Len(graceRx') : graceRx'[i] = u
    BY <1>1 DEF EntryHasTimer
  <2> DEFINE u == [node |-> n, id |-> graceTimers[n]]
  <2>1. CASE u = t
    BY <1>2, <2>1
  <2>2. CASE u # t
    <3>1. u \in sleeping \/ \E i \in 1..Len(graceRx) : graceRx[i] = u
      BY DEF LinkInv, EntryHasTimer
    <3>2. u \in sleeping => u \in sleeping'
      BY <2>2 DEF TimerFires
    <3>3. QED
      BY <1>2, <3>1, <3>2
  <2>3. QED
    BY <2>1, <2>2
<1>4. QED
  BY <1>1, <1>3
     DEF LinkInv, LastPendingIsLink, EntryMeansDown, UpIsAvailable, DownHasEntry,
         NoStateEvent, InHand, StateEvent

LEMMA RecvEventLink ==
  ASSUME NEW K, K \subseteq known, LinkInv(K), TypeOK, RecvEvent
  PROVE  LinkInv(K)'
<1> DEFINE ev == Head(rx)
<1>1. /\ rx \in Seq(StackEvent) /\ rx # <<>> /\ Len(rx) \in Nat /\ Len(rx) >= 1
      /\ rx' = Tail(rx) /\ Len(rx') = Len(rx) - 1 /\ rx[1] = ev
      /\ \A i \in 1..Len(rx') : rx'[i] = rx[i + 1]
  BY DEF RecvEvent, TypeOK
<1>2. UNCHANGED <<link, known, available, timerVars>> /\ pc = "select"
  BY DEF RecvEvent, registryVars
<1>3. \A n \in Node : ~InHand(n)
  BY <1>2 DEF InHand
<1>4. \A n \in known : InHand(n)' <=> StateEvent(ev, n)
  BY <1>2 DEF RecvEvent, InHand, StateEvent, localVars
<1>5. \A n \in Node : NoStateEvent(n) <=> NoStateEvent(n)' /\ ~StateEvent(ev, n)
  <2> SUFFICES ASSUME NEW n \in Node
               PROVE  NoStateEvent(n) <=> NoStateEvent(n)' /\ ~StateEvent(ev, n)
    OBVIOUS
  <2>1. NoStateEvent(n) => NoStateEvent(n)' /\ ~StateEvent(ev, n)
    BY <1>1 DEF NoStateEvent, StateEvent
  <2>2. ASSUME NoStateEvent(n)', ~StateEvent(ev, n), NEW i \in 1..Len(rx)
        PROVE  ~StateEvent(rx[i], n)
    <3>1. CASE i = 1
      BY <1>1, <2>2, <3>1
    <3>2. CASE i # 1
      <4>1. i - 1 \in 1..Len(rx') /\ rx'[i - 1] = rx[i]
        BY <1>1, <3>2
      <4>2. QED
        BY <2>2, <4>1 DEF NoStateEvent, StateEvent
    <3>3. QED
      BY <3>1, <3>2
  <2>3. QED
    BY <2>1, <2>2 DEF NoStateEvent
<1>6. K \subseteq known /\ known \subseteq Node /\ available \subseteq known
  BY DEF TypeOK
<1>7. LastPendingIsLink(K)'
  <2> SUFFICES ASSUME NEW n \in K
               PROVE  /\ \A i \in 1..Len(rx') :
                           /\ StateEvent(rx'[i], n)
                           /\ \A j \in 1..Len(rx') : j > i => ~StateEvent(rx'[j], n)
                           => rx'[i].kind = link[n]
                      /\ NoStateEvent(n)' /\ InHand(n)' => cur'.kind = link[n]
    BY <1>2 DEF LastPendingIsLink, StateEvent
  <2>1. ASSUME NEW i \in 1..Len(rx'), StateEvent(rx'[i], n),
               \A j \in 1..Len(rx') : j > i => ~StateEvent(rx'[j], n)
        PROVE  rx'[i].kind = link[n]
    <3>1. i + 1 \in 1..Len(rx) /\ rx[i + 1] = rx'[i]
      BY <1>1
    <3>2. ASSUME NEW j \in 1..Len(rx), j > i + 1
          PROVE  ~StateEvent(rx[j], n)
      <4>1. j - 1 \in 1..Len(rx') /\ j - 1 > i /\ rx'[j - 1] = rx[j]
        BY <1>1, <3>2
      <4>2. QED
        BY <2>1, <4>1
    <3>3. QED
      BY <2>1, <3>1, <3>2 DEF LinkInv, LastPendingIsLink
  <2>2. ASSUME NoStateEvent(n)', InHand(n)'
        PROVE  cur'.kind = link[n]
    <3>1. StateEvent(rx[1], n) /\ cur' = rx[1]
      BY <1>1, <1>2, <1>4, <2>2 DEF RecvEvent, InHand, localVars, StateEvent
    <3>2. ASSUME NEW j \in 1..Len(rx), j > 1
          PROVE  ~StateEvent(rx[j], n)
      <4>1. j - 1 \in 1..Len(rx') /\ rx'[j - 1] = rx[j]
        BY <1>1, <3>2
      <4>2. QED
        BY <2>2, <4>1 DEF NoStateEvent, StateEvent
    <3>3. 1 \in 1..Len(rx)
      BY <1>1
    <3>4. rx[1].kind = link[n]
      BY <3>1, <3>2, <3>3 DEF LinkInv, LastPendingIsLink
    <3>5. QED
      BY <3>1, <3>4
  <2>3. QED
    BY <2>1, <2>2
<1>8. EntryMeansDown(K)' /\ UpIsAvailable(K)' /\ DownHasEntry(K)'
  BY <1>2, <1>3, <1>4, <1>5, <1>6
     DEF LinkInv, EntryMeansDown, UpIsAvailable, DownHasEntry, timerVars
<1>9. EntryHasTimer'
  BY <1>2 DEF LinkInv, EntryHasTimer, timerVars
<1>10. QED
  BY <1>7, <1>8, <1>9 DEF LinkInv

(* The loop ends: the map and the timers it names go together.             *)
LEMMA RecvClosedLink ==
  ASSUME NEW K, K \subseteq known, LinkInv(K), TypeOK, RecvClosed
  PROVE  LinkInv(K)'
<1>1. UNCHANGED <<rx, link, known, available, cur>> /\ pc = "select" /\ pc' = "stopped"
  BY DEF RecvClosed, registryVars, stackVars
<1>2. \A n \in Node : ~InHand(n) /\ ~InHand(n)'
  BY <1>1 DEF InHand
<1>3. \A n \in Node : NoStateEvent(n)' <=> NoStateEvent(n)
  BY <1>1 DEF NoStateEvent, StateEvent
<1>4. \A n \in Node : graceTimers'[n] = 0
  BY DEF RecvClosed
<1>5. K \subseteq known /\ known \subseteq Node /\ available \subseteq Node
  BY DEF TypeOK
<1>6. LastPendingIsLink(K)'
  BY <1>1, <1>2, <1>3, <1>5 DEF LinkInv, LastPendingIsLink, StateEvent
<1>7. UpIsAvailable(K)'
  BY <1>1, <1>2, <1>3, <1>5 DEF LinkInv, UpIsAvailable
<1>8. EntryMeansDown(K)' /\ DownHasEntry(K)' /\ EntryHasTimer'
  BY <1>1, <1>4, <1>5 DEF EntryMeansDown, DownHasEntry, EntryHasTimer
<1>9. QED
  BY <1>6, <1>7, <1>8 DEF LinkInv

(* A signal that finds an entry finds a node that is down; one that finds  *)
(* none changes nothing.                                                   *)
LEMMA HandleGraceExpiryLink ==
  ASSUME NEW K, K \subseteq known, LinkInv(K), TypeOK, HandleGraceExpiry
  PROVE  LinkInv(K)'
<1> DEFINE m == Head(graceRx).node
<1>1. /\ graceRx \in Seq(TimerTask) /\ Len(graceRx) \in Nat /\ Len(graceRx) >= 1
      /\ graceRx' = Tail(graceRx) /\ Len(graceRx') = Len(graceRx) - 1
      /\ graceRx[1] = Head(graceRx) /\ graceRx[1] \in TimerTask
      /\ \A i \in 1..Len(graceRx') : graceRx'[i] = graceRx[i + 1]
  BY DEF HandleGraceExpiry, TypeOK
<1>2. m \in Node
  BY <1>1 DEF TimerTask
<1>3. UNCHANGED <<rx, link, known, sleeping>> /\ pc = "select"
  BY DEF HandleGraceExpiry, stackVars
<1>4. \A n \in Node : ~InHand(n) /\ ~InHand(n)'
  <2>1. \A n \in Node : ~InHand(n)
    BY <1>3 DEF InHand
  <2>2. pc' # "handle"
    BY <1>3 DEF HandleGraceExpiry, localVars
  <2>3. QED
    BY <2>1, <2>2 DEF InHand
<1>5. \A n \in Node : NoStateEvent(n)' <=> NoStateEvent(n)
  BY <1>3 DEF NoStateEvent, StateEvent
<1>6. /\ \A n \in Node : graceTimers'[n] = IF n = m THEN 0 ELSE graceTimers[n]
      /\ graceTimers'[m] = 0
  BY <1>2 DEF HandleGraceExpiry, TypeOK
<1>7. /\ available' \subseteq available
      /\ \A n \in available : n # m => n \in available'
      /\ graceTimers[m] = 0 => available' = available
      /\ graceTimers[m] # 0 => m \notin available'
  BY DEF HandleGraceExpiry
<1>8. K \subseteq known /\ known \subseteq Node /\ available \subseteq known
  BY DEF TypeOK
<1>9. LastPendingIsLink(K)'
  BY <1>3, <1>4, <1>5, <1>8 DEF LinkInv, LastPendingIsLink, StateEvent
<1>10. EntryMeansDown(K)'
  BY <1>3, <1>4, <1>5, <1>6, <1>8 DEF LinkInv, EntryMeansDown
<1>11. UpIsAvailable(K)'
  <2> SUFFICES ASSUME NEW n \in K, NoStateEvent(n), link[n] = "Connected"
               PROVE  n \in available'
    BY <1>3, <1>4, <1>5, <1>8 DEF UpIsAvailable
  <2>1. n \in available
    BY <1>4, <1>8 DEF LinkInv, UpIsAvailable
  <2>2. n = m => graceTimers[m] = 0
    BY <1>4, <1>8 DEF LinkInv, EntryMeansDown
  <2>3. QED
    BY <1>7, <2>1, <2>2
<1>12. DownHasEntry(K)'
  <2> SUFFICES ASSUME NEW n \in K \cap available', NoStateEvent(n), link[n] = "Reconnecting"
               PROVE  graceTimers'[n] # 0
    BY <1>3, <1>5, <1>7, <1>8 DEF DownHasEntry
  <2>1. graceTimers[n] # 0
    BY <1>3, <1>4, <1>7, <1>8 DEF LinkInv, DownHasEntry
  <2>2. n # m
    BY <1>7, <2>1
  <2>3. QED
    BY <1>6, <1>7, <1>8, <2>1, <2>2
<1>13. EntryHasTimer'
  <2> SUFFICES ASSUME NEW n \in Node, graceTimers'[n] # 0
               PROVE  LET u == [node |-> n, id |-> graceTimers'[n]]
                      IN u \in sleeping' \/ \E i \in 1..Len(graceRx') : graceRx'[i] = u
    BY DEF EntryHasTimer
  <2> DEFINE u == [node |-> n, id |-> graceTimers[n]]
  <2>1. n # m /\ graceTimers'[n] = graceTimers[n]
    BY <1>6
  <2>2. u \in sleeping \/ \E i \in 1..Len(graceRx) : graceRx[i] = u
    BY <2>1 DEF LinkInv, EntryHasTimer
  <2>3. ASSUME NEW i \in 1..Len(graceRx), graceRx[i] = u
        PROVE  \E j \in 1..Len(graceRx') : graceRx'[j] = u
    <3>1. i # 1
      BY <1>1, <2>1, <2>3
    <3>2. i - 1 \in 1..Len(graceRx') /\ graceRx'[i - 1] = graceRx[i]
      BY <1>1, <3>1
    <3>3. QED
      BY <2>3, <3>2
  <2>4. QED
    BY <1>3, <2>1, <2>2, <2>3
<1>14. QED
  BY <1>9, <1>10, <1>11, <1>12, <1>13 DEF LinkInv

(* What handling a link-state event leaves alone.                          *)
LEMMA HandledLink ==
  ASSUME NEW K, K \subseteq known, LinkInv(K), TypeOK,
         pc = "handle", cur.kind \in {"Connected", "Reconnecting"},
         UNCHANGED <<rx, link, known>>, pc' # "handle"
  PROVE  /\ \A n \in Node : NoStateEvent(n)' <=> NoStateEvent(n)
         /\ \A n \in Node : ~InHand(n)' /\ (InHand(n) <=> n = cur.node)
         /\ cur.node \in K /\ NoStateEvent(cur.node) => cur.kind = link[cur.node]
         /\ LastPendingIsLink(K)'
<1>1. \A n \in Node : NoStateEvent(n)' <=> NoStateEvent(n)
  BY DEF NoStateEvent, StateEvent
<1>2. \A n \in Node : ~InHand(n)' /\ (InHand(n) <=> n = cur.node)
  BY DEF InHand, StateEvent
<1>3. K \subseteq known /\ known \subseteq Node
  BY DEF TypeOK
<1>4. cur.node \in K /\ NoStateEvent(cur.node) => cur.kind = link[cur.node]
  BY <1>2, <1>3 DEF LinkInv, LastPendingIsLink
<1>5. LastPendingIsLink(K)'
  BY <1>1, <1>2, <1>3 DEF LinkInv, LastPendingIsLink, StateEvent
<1>6. QED
  BY <1>1, <1>2, <1>4, <1>5

LEMMA HandleConnectedLink ==
  ASSUME NEW K, K \subseteq known, LinkInv(K), TypeOK, HandleConnected
  PROVE  LinkInv(K)'
<1> DEFINE m == cur.node
<1>1. /\ UNCHANGED <<rx, link, known, graceRx>> /\ pc = "handle" /\ pc' # "handle"
      /\ cur.kind = "Connected" /\ pc' # "stopped"
  BY DEF HandleConnected, Handling, Goto, Return, stackVars
<1>2. m \in Node
  BY <1>1, HandlerEvent DEF TypeOK
<1>3. /\ \A n \in Node : NoStateEvent(n)' <=> NoStateEvent(n)
      /\ \A n \in Node : ~InHand(n)' /\ (InHand(n) <=> n = m)
      /\ m \in K /\ NoStateEvent(m) => link[m] = "Connected"
      /\ LastPendingIsLink(K)'
  BY <1>1, HandledLink
<1>4. \A n \in Node : graceTimers'[n] = IF n = m THEN 0 ELSE graceTimers[n]
  BY <1>2 DEF HandleConnected, TypeOK
<1>5. /\ \A n \in known : n \in available' <=> n \in available \/ n = m
      /\ available' \subseteq known
  BY DEF HandleConnected, TypeOK
<1>6. K \subseteq known /\ known \subseteq Node /\ available \subseteq known
  BY DEF TypeOK
<1>7. EntryMeansDown(K)'
  BY <1>1, <1>3, <1>4, <1>6 DEF LinkInv, EntryMeansDown
<1>8. UpIsAvailable(K)'
  BY <1>1, <1>3, <1>5, <1>6 DEF LinkInv, UpIsAvailable
<1>9. DownHasEntry(K)'
  <2> SUFFICES ASSUME NEW n \in K \cap available', NoStateEvent(n), link[n] = "Reconnecting"
               PROVE  graceTimers'[n] # 0
    BY <1>1, <1>3, <1>5, <1>6 DEF DownHasEntry
  <2>1. n # m
    BY <1>3, <1>5
  <2>2. n \in available /\ n \in Node
    BY <1>5, <1>6, <2>1
  <2>3. QED
    BY <1>1, <1>3, <1>4, <2>1, <2>2 DEF LinkInv, DownHasEntry
<1>10. EntryHasTimer'
  <2> SUFFICES ASSUME NEW n \in Node, graceTimers'[n] # 0
               PROVE  LET u == [node |-> n, id |-> graceTimers'[n]]
                      IN u \in sleeping' \/ \E i \in 1..Len(graceRx') : graceRx'[i] = u
    BY DEF EntryHasTimer
  <2> DEFINE u == [node |-> n, id |-> graceTimers[n]]
  <2>1. n # m /\ graceTimers'[n] = graceTimers[n]
    BY <1>4
  <2>2. u \in sleeping \/ \E i \in 1..Len(graceRx) : graceRx[i] = u
    BY <2>1 DEF LinkInv, EntryHasTimer
  <2>3. u \in sleeping => u \in sleeping'
    BY <2>1 DEF HandleConnected
  <2>4. QED
    BY <1>1, <2>1, <2>2, <2>3
<1>11. QED
  BY <1>3, <1>7, <1>8, <1>9, <1>10 DEF LinkInv

LEMMA HandleReconnectingLink ==
  ASSUME NEW K, K \subseteq known, LinkInv(K), TypeOK, HandleReconnecting
  PROVE  LinkInv(K)'
<1> DEFINE m == cur.node
<1>1. /\ UNCHANGED <<rx, link, known, available, graceRx>>
      /\ pc = "handle" /\ pc' = "select" /\ cur.kind = "Reconnecting"
  BY DEF HandleReconnecting, Handling, Return, stackVars, registryVars
<1>2. m \in Node
  BY <1>1, HandlerEvent DEF TypeOK
<1>3. /\ \A n \in Node : NoStateEvent(n)' <=> NoStateEvent(n)
      /\ \A n \in Node : ~InHand(n)' /\ (InHand(n) <=> n = m)
      /\ m \in K /\ NoStateEvent(m) => link[m] = "Reconnecting"
      /\ LastPendingIsLink(K)'
  BY <1>1, HandledLink
<1>4. /\ \A n \in Node : n # m => graceTimers'[n] = graceTimers[n]
      /\ m \in available => graceTimers'[m] # 0
      /\ sleeping \subseteq sleeping'
      /\ graceTimers'[m] = graceTimers[m]
         \/ [node |-> m, id |-> graceTimers'[m]] \in sleeping'
  BY <1>2 DEF HandleReconnecting, TypeOK
<1>5. K \subseteq known /\ known \subseteq Node /\ available \subseteq known
  BY DEF TypeOK
<1>6. EntryMeansDown(K)'
  BY <1>1, <1>3, <1>4, <1>5 DEF LinkInv, EntryMeansDown
<1>7. UpIsAvailable(K)'
  BY <1>1, <1>3, <1>5 DEF LinkInv, UpIsAvailable
<1>8. DownHasEntry(K)'
  BY <1>1, <1>3, <1>4, <1>5 DEF LinkInv, DownHasEntry
<1>9. EntryHasTimer'
  BY <1>1, <1>4 DEF LinkInv, EntryHasTimer
<1>10. QED
  BY <1>3, <1>6, <1>7, <1>8, <1>9 DEF LinkInv

LEMMA InitLink == Init => LinkInv(known)
<1> SUFFICES ASSUME Init PROVE LinkInv(known)
  OBVIOUS
<1>1. rx = <<>> /\ pc = "select" /\ available = {} /\ known \subseteq Node
  BY InitType DEF Init, TypeOK
<1>2. \A n \in Node : graceTimers[n] = 0 /\ link[n] = "none"
  BY DEF Init
<1>3. QED
  BY <1>1, <1>2 DEF LinkInv, LastPendingIsLink, EntryMeansDown, UpIsAvailable,
     DownHasEntry, EntryHasTimer, InHand

LEMMA StepLink ==
  ASSUME NEW K, K \subseteq known, LinkInv(K), TypeOK, [Next]_vars
  PROVE  LinkInv(K)'
<1>1. CASE UNCHANGED vars \/ StackGone
  <2>1. UNCHANGED <<rx, link, known, available, pc, cur, timerVars>>
    BY <1>1 DEF vars, StackGone, registryVars, localVars, stackVars
  <2>2. QED
    BY <2>1, QuietStepLink
<1>2. CASE Consumer
  BY <1>2, RecvEventLink, RecvClosedLink, HandleGraceExpiryLink,
     HandleConnectedLink, HandleReconnectingLink, DataStepsLink DEF Consumer
<1>3. QED
  BY <1>1, <1>2, StackReportsLink, TimerFiresLink DEF Next

(* The node manager neither adds nor removes nodes.                        *)
LEMMA KnownStays ==
  ASSUME [Next]_vars
  PROVE  known' = known
<1>1. CASE UNCHANGED vars \/ StackGone \/ (\E t \in sleeping : TimerFires(t))
           \/ (\E n \in Node : StackReports(n))
  BY <1>1 DEF vars, StackGone, TimerFires, StackReports, StackSends, registryVars
<1>2. CASE Consumer
  BY <1>2 DEF Consumer, RecvEvent, RecvClosed, HandleGraceExpiry, HandleConnected,
     HandleReconnecting, HandlePrimingSnapshot, HandleChange, AnnounceChange,
     HandleNodeEvent, BroadcastNodeEvent, Persist, SaveNode, EmitNodeUpdated,
     SendNodeUpdated, registryVars
<1>3. QED
  BY <1>1, <1>2 DEF Next

LEMMA NextLink ==
  ASSUME LinkInv(known), TypeOK, [Next]_vars
  PROVE  LinkInv(known)'
<1>1. PICK K : K = known
  OBVIOUS
<1>2. K \subseteq known /\ LinkInv(K)
  BY <1>1
<1>3. LinkInv(K)'
  BY <1>2, StepLink
<1>4. known' = K
  BY <1>1, KnownStays
<1>5. QED
  BY <1>3, <1>4
     DEF LinkInv, LastPendingIsLink, EntryMeansDown, UpIsAvailable, DownHasEntry

LEMMA QuietLink ==
  ASSUME TypeOK, NEW n \in Node
  PROVE  Quiet(n) <=> NoStateEvent(n) /\ ~InHand(n)
<1>1. DOMAIN rx = 1..Len(rx)
  BY DEF TypeOK
<1>2. QED
  BY <1>1 DEF Quiet, NoStateEvent, InHand

LEMMA LinkInvImplies ==
  ASSUME TypeOK, LinkInv(known)
  PROVE  ConnectedIsAvailable /\ OutageIsTimed
<1>1. known \subseteq Node /\ available \subseteq known /\ DOMAIN graceRx = 1..Len(graceRx)
  BY DEF TypeOK
<1>2. ConnectedIsAvailable
  BY <1>1, QuietLink DEF LinkInv, UpIsAvailable, ConnectedIsAvailable
<1>3. OutageIsTimed
  BY <1>1, QuietLink DEF LinkInv, DownHasEntry, EntryHasTimer, OutageIsTimed
<1>4. QED
  BY <1>2, <1>3

(* A node whose last reported link state is Connected is available once    *)
(* the report is handled: no stale expiry signal of handle_grace_expiry    *)
(* takes it down, with any number of nodes, timers and queued events.      *)
THEOREM LinkUpIsServed == Spec => []ConnectedIsAvailable
<1>1. Init => TypeOK /\ LinkInv(known)
  BY InitType, InitLink
<1>2. TypeOK /\ LinkInv(known) /\ [Next]_vars => (TypeOK /\ LinkInv(known))'
  BY NextType, NextLink
<1>3. TypeOK /\ LinkInv(known) => ConnectedIsAvailable
  BY LinkInvImplies
<1>4. QED
  BY <1>1, <1>2, <1>3, PTL DEF Spec

(* An available node whose link is down always has an entry in             *)
(* grace_timers, and the timer task or queued signal of that very entry:   *)
(* no outage is forgotten.                                                 *)
THEOREM OutagesAreTimed == Spec => []OutageIsTimed
<1>1. Init => TypeOK /\ LinkInv(known)
  BY InitType, InitLink
<1>2. TypeOK /\ LinkInv(known) /\ [Next]_vars => (TypeOK /\ LinkInv(known))'
  BY NextType, NextLink
<1>3. TypeOK /\ LinkInv(known) => OutageIsTimed
  BY LinkInvImplies
<1>4. QED
  BY <1>1, <1>2, <1>3, PTL DEF Spec

-----------------------------------------------------------------------------
(* What a running handler may rely on: known never loses a node here, and  *)
(* only a report of attribute changes is handled in more than one turn.    *)

InHandIsKnown == pc \notin {"select", "stopped"} => cur.node \in known

LaterTurn == pc = "handle" /\ idx > 1 => cur.kind = "AttributesChanged"

HandInv == InHandIsKnown /\ LaterTurn

LEMMA InitHand == Init => HandInv
  BY DEF Init, HandInv, InHandIsKnown, LaterTurn

(* A step that is not the consumer's leaves the handler and the registry.  *)
LEMMA OutsideSteps ==
  ASSUME UNCHANGED vars \/ StackGone \/ (\E t \in sleeping : TimerFires(t))
         \/ (\E n \in Node : StackReports(n))
  PROVE  UNCHANGED <<registryVars, storageVars, localVars, busVars, history>>
<1>1. CASE \E n \in Node : StackReports(n)
  BY <1>1 DEF StackReports, StackSends
<1>2. QED
  BY <1>1 DEF vars, StackGone, TimerFires

LEMMA NextHand ==
  ASSUME HandInv, TypeOK, [Next]_vars
  PROVE  HandInv'
<1> USE DEF HandInv, InHandIsKnown, LaterTurn
<1>1. CASE UNCHANGED vars \/ StackGone \/ (\E t \in sleeping : TimerFires(t))
           \/ (\E n \in Node : StackReports(n))
  BY <1>1, OutsideSteps DEF registryVars, localVars
<1>2. CASE RecvEvent
  BY <1>2 DEF RecvEvent, registryVars, localVars, TypeOK, ControlOK
<1>3. CASE RecvClosed
  BY <1>3 DEF RecvClosed, registryVars
<1>4. CASE HandleGraceExpiry
  BY <1>4 DEF HandleGraceExpiry, localVars, TypeOK
<1>5. CASE HandleConnected
  BY <1>5 DEF HandleConnected, Handling, Goto, Return
<1>6. CASE HandleReconnecting \/ BroadcastNodeEvent \/ SendNodeUpdated
  BY <1>6 DEF HandleReconnecting, BroadcastNodeEvent, SendNodeUpdated, Handling, Return,
     registryVars
<1>7. CASE HandlePrimingSnapshot \/ HandleChange \/ HandleNodeEvent
  BY <1>7 DEF HandlePrimingSnapshot, HandleChange, HandleNodeEvent, Handling, Goto,
     registryVars
<1>8. CASE AnnounceChange
  BY <1>8 DEF AnnounceChange, registryVars, TypeOK, ControlOK
<1>9. CASE Persist \/ SaveNode
  BY <1>9 DEF Persist, SaveNode, AfterPersist, Return, registryVars
<1>10. CASE EmitNodeUpdated
  BY <1>10 DEF EmitNodeUpdated, Return, registryVars
<1>11. QED
  BY <1>1, <1>2, <1>3, <1>4, <1>5, <1>6, <1>7, <1>8, <1>9, <1>10 DEF Next, Consumer

-----------------------------------------------------------------------------
(* The files.  A handler that has begun to change a node has not written   *)
(* its file yet; every other known node has the file its attributes say,   *)
(* unless its last write failed.                                           *)

(* The node in hand has changed since its file was last written.           *)
Dirty(n) ==
  /\ pc \in {"announce", "persist", "save"} \/ (pc = "handle" /\ idx > 1)
  /\ cur.node = n

CleanIsOnDisk ==
  \A n \in known \ unsaved : ~Dirty(n) => n \in files /\ file[n] = attrs[n]

SavesTheLatest == pc = "save" => snap.attributes = attrs[cur.node]

DiskInv == CleanIsOnDisk /\ SavesTheLatest

LEMMA InitDisk == Init => DiskInv
  BY DEF Init, DiskInv, CleanIsOnDisk, SavesTheLatest

LEMMA NextDisk ==
  ASSUME DiskInv, HandInv, TypeOK, [Next]_vars
  PROVE  DiskInv'
<1> USE DEF DiskInv, CleanIsOnDisk, SavesTheLatest, Dirty
<1>1. CASE UNCHANGED vars \/ StackGone \/ (\E t \in sleeping : TimerFires(t))
           \/ (\E n \in Node : StackReports(n))
  BY <1>1, OutsideSteps DEF registryVars, storageVars, localVars
<1>2. CASE RecvEvent
  BY <1>2 DEF RecvEvent, registryVars, storageVars, localVars, TypeOK, ControlOK
<1>3. CASE RecvClosed
  BY <1>3 DEF RecvClosed, registryVars, storageVars
<1>4. CASE HandleGraceExpiry
  BY <1>4 DEF HandleGraceExpiry, storageVars, localVars
<1>5. CASE HandleConnected
  BY <1>5 DEF HandleConnected, Handling, Goto, Return, HandInv, LaterTurn, storageVars
<1>6. CASE HandleReconnecting
  BY <1>6 DEF HandleReconnecting, Handling, Return, HandInv, LaterTurn, registryVars,
     storageVars
(* The node in hand becomes dirty; the attributes of the others stay.      *)
<1>7. CASE HandlePrimingSnapshot \/ HandleChange
  <2>1. /\ \A n \in known : n # cur.node => attrs'[n] = attrs[n]
        /\ UNCHANGED <<known, storageVars, cur, idx>> /\ pc = "handle"
        /\ pc' \in {"announce", "persist"}
    BY <1>7 DEF HandlePrimingSnapshot, HandleChange, Handling, Goto, TypeOK
  <2>2. QED
    BY <2>1 DEF storageVars
<1>8. CASE AnnounceChange
  BY <1>8 DEF AnnounceChange, registryVars, storageVars, TypeOK
<1>9. CASE HandleNodeEvent
  BY <1>9 DEF HandleNodeEvent, Handling, Goto, HandInv, LaterTurn, registryVars,
     storageVars
<1>10. CASE BroadcastNodeEvent \/ SendNodeUpdated
  BY <1>10 DEF BroadcastNodeEvent, SendNodeUpdated, Return, registryVars, storageVars
<1>11. CASE Persist
  BY <1>11 DEF Persist, Snapshot, HandInv, InHandIsKnown, registryVars, storageVars
(* The write takes the node in hand out of the dirty ones, or it fails.    *)
<1>12. CASE SaveNode
  <2>1. pc = "save" /\ pc' \in {"emit", "select"} /\ UNCHANGED registryVars
    BY <1>12 DEF SaveNode, AfterPersist, Return
  <2>2. cur.node \in Node /\ known \subseteq Node /\ file \in [Node -> Attrs]
    BY <2>1, HandlerEvent DEF TypeOK
  <2>3. CASE UNCHANGED <<files, file>> /\ unsaved' = unsaved \cup {cur.node}
    BY <2>1, <2>3 DEF registryVars
  <2>4. CASE /\ files' = files \cup {cur.node}
             /\ file' = [file EXCEPT ![cur.node] = attrs[cur.node]]
             /\ unsaved' = unsaved \ {cur.node}
    BY <2>1, <2>2, <2>4 DEF registryVars
  <2>5. QED
    BY <1>12, <2>1, <2>3, <2>4 DEF SaveNode, WriteFile
<1>13. CASE EmitNodeUpdated
  BY <1>13 DEF EmitNodeUpdated, Return, registryVars, storageVars
<1>14. QED
  BY <1>1, <1>2, <1>3, <1>4, <1>5, <1>6, <1>7, <1>8, <1>9, <1>10, <1>11, <1>12, <1>13
     DEF Next, Consumer

(* Between two events nodes/<id>.json of every known node holds what the   *)
(* registry serves, unless its last save_node failed: no handler returns   *)
(* with an attribute that is only in memory.                               *)
THEOREM DiskFollowsRegistry == Spec => []DiskMirrorsRegistry
<1>1. Init => TypeOK /\ HandInv /\ DiskInv
  BY InitType, InitHand, InitDisk
<1>2. TypeOK /\ HandInv /\ DiskInv /\ [Next]_vars => (TypeOK /\ HandInv /\ DiskInv)'
  BY NextType, NextHand, NextDisk
<1>3. DiskInv => DiskMirrorsRegistry
  BY DEF DiskInv, CleanIsOnDisk, Dirty, DiskMirrorsRegistry
<1>4. QED
  BY <1>1, <1>2, <1>3, PTL DEF Spec

-----------------------------------------------------------------------------
(* The history.                                                            *)

(* The last k elements of a sequence, HistorySize at most.                 *)
Recent(s) ==
  LET k == IF Len(s) < HistorySize THEN Len(s) ELSE HistorySize
  IN SubSeq(s, Len(s) - k + 1, Len(s))

(* The event in hand is in the history before it is broadcast.             *)
HistoryInv ==
  /\ pc # "broadcast" => history = Recent(eventLog)
  /\ pc = "broadcast" => history = Recent(Append(eventLog, cur.event))

(* What Recent returns, element by element.                                *)
LEMMA RecentElements ==
  ASSUME NEW S, NEW s \in Seq(S)
  PROVE  LET k == IF Len(s) < HistorySize THEN Len(s) ELSE HistorySize
         IN /\ Recent(s) \in Seq(S) /\ Len(Recent(s)) = k
            /\ \A i \in 1..k : Recent(s)[i] = s[Len(s) - k + i]
<1> DEFINE k == IF Len(s) < HistorySize THEN Len(s) ELSE HistorySize
           m == Len(s) - k + 1
<1>1. k \in Nat /\ k <= Len(s) /\ Len(s) \in Nat /\ m \in Int /\ m >= 1
  BY HistorySizeAssumption
<1>2. \A i \in m..Len(s) : s[i] \in S
  BY <1>1
<1> HIDE DEF m
<1>3. /\ SubSeq(s, m, Len(s)) \in Seq(S)
      /\ Len(SubSeq(s, m, Len(s))) = IF m <= Len(s) THEN Len(s) - m + 1 ELSE 0
      /\ \A i \in 1..(Len(s) - m + 1) : SubSeq(s, m, Len(s))[i] = s[m + i - 1]
  BY <1>1, <1>2, SubSeqProperties
<1>4. Recent(s) = SubSeq(s, m, Len(s))
  BY DEF Recent, m
<1>5. QED
  BY <1>1, <1>3, <1>4 DEF m

LEMMA RecentOfShort ==
  ASSUME NEW S, NEW s \in Seq(S), Len(s) <= HistorySize
  PROVE  /\ Recent(s) \in Seq(S) /\ Len(Recent(s)) = Len(s)
         /\ \A i \in 1..Len(s) : Recent(s)[i] = s[i]
<1>1. (IF Len(s) < HistorySize THEN Len(s) ELSE HistorySize) = Len(s) /\ Len(s) \in Nat
  BY HistorySizeAssumption
<1>2. /\ Recent(s) \in Seq(S) /\ Len(Recent(s)) = Len(s)
      /\ \A i \in 1..Len(s) : Recent(s)[i] = s[Len(s) - Len(s) + i]
  BY <1>1, RecentElements, Zenon
<1>3. QED
  BY <1>1, <1>2

LEMMA RecentOfLong ==
  ASSUME NEW S, NEW s \in Seq(S), Len(s) >= HistorySize
  PROVE  /\ Recent(s) \in Seq(S) /\ Len(Recent(s)) = HistorySize
         /\ \A i \in 1..HistorySize : Recent(s)[i] = s[Len(s) - HistorySize + i]
<1>1. (IF Len(s) < HistorySize THEN Len(s) ELSE HistorySize) = HistorySize
  BY HistorySizeAssumption
<1>2. QED
  BY <1>1, RecentElements, Zenon

(* The ring: dropping the oldest of a full history and appending an event  *)
(* gives the recent events of the longer log.                              *)
LEMMA RecentOfAppend ==
  ASSUME NEW S, NEW s \in Seq(S), NEW x \in S
  PROVE  Recent(Append(s, x)) =
           Append(IF Len(Recent(s)) >= HistorySize THEN Tail(Recent(s)) ELSE Recent(s), x)
<1> DEFINE t == Append(s, x)
           r == Recent(s)
           q == IF Len(r) >= HistorySize THEN Tail(r) ELSE r
<1>1. /\ t \in Seq(S) /\ Len(t) = Len(s) + 1 /\ t[Len(s) + 1] = x
      /\ \A i \in 1..Len(s) : t[i] = s[i]
      /\ Len(s) \in Nat /\ HistorySize \in Nat \ {0}
  BY HistorySizeAssumption
<1>2. CASE Len(s) < HistorySize
  <2>1. /\ r \in Seq(S) /\ Len(r) = Len(s) /\ \A i \in 1..Len(s) : r[i] = s[i]
    BY <1>1, <1>2, RecentOfShort
  <2> HIDE DEF t
  <2>2. /\ Recent(t) \in Seq(S) /\ Len(Recent(t)) = Len(s) + 1
        /\ \A i \in 1..(Len(s) + 1) : Recent(t)[i] = t[i]
    BY <1>1, <1>2, RecentOfShort
  <2>3. q = r
    BY <1>1, <1>2, <2>1
  <2>4. Append(r, x) \in Seq(S) /\ Len(Append(r, x)) = Len(s) + 1
        /\ \A i \in 1..(Len(s) + 1) : Append(r, x)[i] = t[i]
    BY <1>1, <2>1
  <2> HIDE DEF r
  <2>5. Recent(t) = Append(r, x)
    BY <1>1, <2>2, <2>4, SeqEqual
  <2>6. QED
    BY <2>3, <2>5 DEF r, t
<1>3. CASE Len(s) >= HistorySize
  <2>1. /\ r \in Seq(S) /\ Len(r) = HistorySize
        /\ \A i \in 1..HistorySize : r[i] = s[Len(s) - HistorySize + i]
    BY <1>1, <1>3, RecentOfLong
  <2> HIDE DEF t
  <2>2. /\ Recent(t) \in Seq(S) /\ Len(Recent(t)) = HistorySize
        /\ \A i \in 1..HistorySize : Recent(t)[i] = t[Len(s) + 1 - HistorySize + i]
    <3>1. Len(t) >= HistorySize
      BY <1>1, <1>3
    <3>2. /\ Recent(t) \in Seq(S) /\ Len(Recent(t)) = HistorySize
          /\ \A i \in 1..HistorySize : Recent(t)[i] = t[Len(t) - HistorySize + i]
      BY <1>1, <3>1, RecentOfLong, Zenon
    <3>3. QED
      BY <1>1, <3>2
  <2>3. q = Tail(r) /\ r # <<>>
    BY <1>1, <2>1
  <2> HIDE DEF r, q
  <2>4. /\ q \in Seq(S) /\ Len(q) = HistorySize - 1
        /\ \A i \in 1..(HistorySize - 1) : q[i] = r[i + 1]
    BY <1>1, <2>1, <2>3, HeadTailProperties
  <2>5. /\ Append(q, x) \in Seq(S) /\ Len(Append(q, x)) = HistorySize
        /\ \A i \in 1..(HistorySize - 1) : Append(q, x)[i] = q[i]
        /\ Append(q, x)[HistorySize] = x
    BY <1>1, <2>4
  <2>6. ASSUME NEW i \in 1..HistorySize
        PROVE  Recent(t)[i] = Append(q, x)[i]
    <3>1. CASE i = HistorySize
      BY <1>1, <2>2, <2>5, <3>1
    <3>2. CASE i < HistorySize
      <4>1. i \in 1..(HistorySize - 1) /\ i + 1 \in 1..HistorySize
            /\ Len(s) + 1 - HistorySize + i \in 1..Len(s)
        BY <1>1, <1>3, <3>2
      <4>2. Append(q, x)[i] = s[Len(s) - HistorySize + (i + 1)]
        BY <2>1, <2>4, <2>5, <4>1
      <4>3. Recent(t)[i] = s[Len(s) + 1 - HistorySize + i]
        BY <1>1, <2>2, <4>1
      <4>4. Len(s) - HistorySize + (i + 1) = Len(s) + 1 - HistorySize + i
        BY <1>1
      <4>5. QED
        BY <4>2, <4>3, <4>4
    <3>3. i = HistorySize \/ i < HistorySize
      BY <2>6, HistorySizeAssumption
    <3>4. QED
      BY <3>1, <3>2, <3>3
  <2>7. Recent(t) = Append(q, x)
    BY <2>2, <2>5, <2>6, SeqEqual
  <2>8. QED
    BY <2>7 DEF q, r, t
<1>4. QED
  BY <1>1, <1>2, <1>3

LEMMA InitHistory == Init => HistoryInv
<1> SUFFICES ASSUME Init PROVE HistoryInv
  OBVIOUS
<1>1. eventLog = <<>> /\ history = <<>> /\ pc = "select"
  BY DEF Init
<1>2. Len(<<>>) = 0 /\ 0 < HistorySize /\ 0 - 0 + 1 = 1
  BY HistorySizeAssumption
<1>3. Recent(<<>>) = <<>>
  BY <1>2, SubSeqEmpty DEF Recent
<1>4. QED
  BY <1>1, <1>3 DEF HistoryInv

LEMMA NextHistory ==
  ASSUME HistoryInv, TypeOK, [Next]_vars
  PROVE  HistoryInv'
<1>1. CASE UNCHANGED vars \/ StackGone \/ (\E t \in sleeping : TimerFires(t))
           \/ (\E n \in Node : StackReports(n))
  BY <1>1, OutsideSteps DEF HistoryInv, localVars, busVars, Recent
<1>2. CASE HandleNodeEvent
  <2>1. /\ pc = "handle" /\ pc' = "broadcast" /\ UNCHANGED <<cur, eventLog>>
        /\ history' = Append(IF Len(history) >= HistorySize THEN Tail(history)
                             ELSE history, cur.event)
    BY <1>2 DEF HandleNodeEvent, Handling, Goto, busVars
  <2>2. cur.event \in Payload /\ eventLog \in Seq(Payload)
    BY <1>2, HandlerEvent, StackEventShape DEF HandleNodeEvent, Handling, TypeOK
  <2>3. history = Recent(eventLog)
    BY <2>1 DEF HistoryInv
  <2>4. QED
    BY <2>1, <2>2, <2>3, RecentOfAppend DEF HistoryInv
<1>3. CASE BroadcastNodeEvent
  BY <1>3 DEF BroadcastNodeEvent, Return, HistoryInv
<1>4. ASSUME UNCHANGED <<history, eventLog>>, pc # "broadcast", pc' # "broadcast"
      PROVE  HistoryInv'
  BY <1>4 DEF HistoryInv
<1>5. CASE RecvEvent \/ RecvClosed \/ HandleGraceExpiry
  BY <1>4, <1>5 DEF RecvEvent, RecvClosed, HandleGraceExpiry, localVars, busVars
<1>6. CASE HandleConnected \/ HandleReconnecting \/ HandlePrimingSnapshot \/ HandleChange
  BY <1>4, <1>6 DEF HandleConnected, HandleReconnecting, HandlePrimingSnapshot,
     HandleChange, Handling, Goto, Return, busVars
<1>7. CASE AnnounceChange \/ Persist \/ SaveNode \/ EmitNodeUpdated \/ SendNodeUpdated
  BY <1>4, <1>7 DEF AnnounceChange, Persist, SaveNode, EmitNodeUpdated, SendNodeUpdated,
     AfterPersist, Return, Publish, busVars
<1>8. QED
  BY <1>1, <1>2, <1>3, <1>5, <1>6, <1>7 DEF Next, Consumer

(* The event history of diagnostics is the tail of the node events that    *)
(* were broadcast, for every EVENT_HISTORY_SIZE and however many there     *)
(* were: the ring neither drops nor repeats one.                           *)
THEOREM HistoryIsExact == Spec => []HistoryIsTail
<1>1. Init => TypeOK /\ HistoryInv
  BY InitType, InitHistory
<1>2. TypeOK /\ HistoryInv /\ [Next]_vars => (TypeOK /\ HistoryInv)'
  BY NextType, NextHistory
<1>3. HistoryInv => HistoryIsTail
  BY DEF HistoryInv, HistoryIsTail, Recent
<1>4. QED
  BY <1>1, <1>2, <1>3, PTL DEF Spec

-----------------------------------------------------------------------------
(* What the clients were shown.                                            *)

(* The node in hand has changed since it was last shown.                   *)
Unshown(n) ==
  /\ \/ pc \in {"announce", "emit", "send"}
     \/ pc \in {"persist", "save"} /\ cur.kind = "PrimingSnapshot"
  /\ cur.node = n

SameAvailability(n) == n \in seenAvailable <=> n \in available

OthersAreShown ==
  \A n \in known : ~Unshown(n) => SameAvailability(n) /\ seenAttrs[n] = attrs[n]

(* The clients are one change behind while it is announced.                *)
OneBehind ==
  pc = "announce" =>
    LET c == cur.changes[idx]
    IN /\ SameAvailability(cur.node)
       /\ attrs[cur.node] = [seenAttrs[cur.node] EXCEPT ![c.path] = c.value]

SendsTheLatest == pc = "send" => snap = Snapshot(cur.node)

EndsDrained == pc = "stopped" => closed /\ rx = <<>>

ShownInv ==
  /\ seen = known
  /\ OthersAreShown /\ OneBehind /\ SendsTheLatest /\ EndsDrained

LEMMA InitShown == Init => ShownInv
  BY DEF Init, ShownInv, OthersAreShown, OneBehind, SendsTheLatest, EndsDrained,
     SameAvailability, Unshown

(* Neither the registry nor what was shown changes, and no node in hand    *)
(* stops waiting to be shown.                                              *)
LEMMA OthersStay ==
  ASSUME OthersAreShown, UNCHANGED <<known, available, attrs, seenAvailable, seenAttrs>>,
         \A n \in known : Unshown(n) => Unshown(n)'
  PROVE  OthersAreShown'
  BY DEF OthersAreShown, SameAvailability

(* The fields of a snapshot.                                               *)
LEMMA SnapshotFields ==
  ASSUME NEW n
  PROVE  /\ Snapshot(n).available <=> n \in available
         /\ Snapshot(n).attributes = attrs[n]
  BY DEF Snapshot

LEMMA NextShown ==
  ASSUME ShownInv, HandInv, TypeOK, [Next]_vars
  PROVE  ShownInv'
<1> USE DEF ShownInv
<1>1. CASE UNCHANGED vars \/ StackGone \/ (\E t \in sleeping : TimerFires(t))
           \/ (\E n \in Node : StackReports(n))
  <2>1. UNCHANGED <<known, available, attrs, pc, cur, idx, snap, seen, seenAvailable,
                    seenAttrs>>
    BY <1>1, OutsideSteps DEF registryVars, localVars, busVars
  <2>2. EndsDrained'
    <3>1. CASE UNCHANGED vars \/ StackGone \/ (\E t \in sleeping : TimerFires(t))
      BY <2>1, <3>1 DEF EndsDrained, vars, StackGone, TimerFires, stackVars
    <3>2. CASE \E n \in Node : StackReports(n)
      BY <2>1, <3>2 DEF EndsDrained, StackReports, StackSends
    <3>3. QED
      BY <1>1, <3>1, <3>2
  <2>3. QED
    BY <2>1, <2>2 DEF OthersAreShown, OneBehind, SendsTheLatest, SameAvailability,
       Unshown, Snapshot
<1>2. CASE RecvEvent
  <2>1. /\ UNCHANGED <<known, available, attrs, seen, seenAvailable, seenAttrs>>
        /\ pc = "select" /\ pc' \in {"select", "handle"}
    BY <1>2 DEF RecvEvent, registryVars, busVars, localVars
  <2>2. OthersAreShown'
    BY <2>1, OthersStay DEF Unshown
  <2>3. QED
    BY <2>1, <2>2 DEF OneBehind, SendsTheLatest, EndsDrained
<1>3. CASE RecvClosed
  <2>1. /\ UNCHANGED <<known, available, attrs, seen, seenAvailable, seenAttrs, closed, rx>>
        /\ pc = "select" /\ pc' = "stopped" /\ closed /\ rx = <<>>
    BY <1>3 DEF RecvClosed, registryVars, busVars, stackVars
  <2>2. OthersAreShown'
    BY <2>1, OthersStay DEF Unshown
  <2>3. QED
    BY <2>1, <2>2 DEF OneBehind, SendsTheLatest, EndsDrained
<1>4. CASE HandleGraceExpiry
  <2> DEFINE m == Head(graceRx).node
  <2>1. /\ UNCHANGED <<known, attrs, seen, seenAvailable, seenAttrs, snap>>
        /\ pc = "select" /\ pc' \in {"select", "emit"}
        /\ \/ available' = available /\ pc' = "select"
           \/ available' = available \ {m} /\ pc' = "emit" /\ cur'.node = m
    BY <1>4 DEF HandleGraceExpiry, busVars, localVars
  <2>2. OthersAreShown'
    BY <2>1 DEF OthersAreShown, SameAvailability, Unshown
  <2>3. QED
    BY <2>1, <2>2 DEF OneBehind, SendsTheLatest, EndsDrained
<1>5. CASE HandleConnected
  <2>1. /\ UNCHANGED <<known, attrs, seen, seenAvailable, seenAttrs>>
        /\ pc = "handle" /\ pc' \in {"select", "emit"}
        /\ \/ available' = available /\ pc' = "select"
           \/ available' = available \cup {cur.node} /\ pc' = "emit" /\ cur' = cur
    BY <1>5 DEF HandleConnected, Handling, Goto, Return, busVars, TypeOK, HandInv,
       InHandIsKnown
  <2>2. OthersAreShown'
    BY <2>1 DEF OthersAreShown, SameAvailability, Unshown
  <2>3. QED
    BY <2>1, <2>2 DEF OneBehind, SendsTheLatest, EndsDrained
<1>6. CASE HandleReconnecting \/ HandleNodeEvent \/ BroadcastNodeEvent
  <2>1. /\ UNCHANGED <<known, available, attrs, seen, seenAvailable, seenAttrs>>
        /\ pc \in {"handle", "broadcast"} /\ pc' \in {"select", "broadcast"}
    BY <1>6 DEF HandleReconnecting, HandleNodeEvent, BroadcastNodeEvent, Handling, Goto,
       Return, registryVars, busVars
  <2>2. OthersAreShown'
    BY <2>1, OthersStay DEF Unshown
  <2>3. QED
    BY <2>1, <2>2 DEF OneBehind, SendsTheLatest, EndsDrained
<1>7. CASE HandlePrimingSnapshot
  <2>1. /\ \A n \in known : n # cur.node => attrs'[n] = attrs[n]
        /\ UNCHANGED <<known, available, cur, seen, seenAvailable, seenAttrs>>
        /\ pc = "handle" /\ pc' = "persist" /\ cur.kind = "PrimingSnapshot"
    BY <1>7 DEF HandlePrimingSnapshot, Handling, Goto, busVars, TypeOK
  <2>2. OthersAreShown'
    BY <2>1 DEF OthersAreShown, SameAvailability, Unshown
  <2>3. QED
    BY <2>1, <2>2 DEF OneBehind, SendsTheLatest, EndsDrained
(* A change is made to a node that was shown as it is.                     *)
<1>8. CASE HandleChange
  <2> DEFINE c == cur.changes[idx]
  <2>1. /\ attrs' = [attrs EXCEPT ![cur.node] = [@ EXCEPT ![c.path] = c.value]]
        /\ UNCHANGED <<known, available, cur, idx, seen, seenAvailable, seenAttrs>>
        /\ pc = "handle" /\ pc' = "announce" /\ cur.node \in known /\ cur.node \in Node
    BY <1>8 DEF HandleChange, Handling, Goto, busVars, HandInv, InHandIsKnown, TypeOK
  <2>2. OthersAreShown'
    BY <2>1 DEF OthersAreShown, SameAvailability, Unshown
  <2>3. SameAvailability(cur.node) /\ seenAttrs[cur.node] = attrs[cur.node]
    BY <2>1 DEF OthersAreShown, Unshown
  <2>4. OneBehind'
    BY <2>1, <2>3 DEF OneBehind, SameAvailability, TypeOK
  <2>5. QED
    BY <2>1, <2>2, <2>4 DEF SendsTheLatest, EndsDrained
<1>9. CASE AnnounceChange
  <2> DEFINE c == cur.changes[idx]
  <2>1. /\ seenAttrs' = [seenAttrs EXCEPT ![cur.node] = [@ EXCEPT ![c.path] = c.value]]
        /\ UNCHANGED <<known, available, attrs, cur, seen, seenAvailable>>
        /\ pc = "announce" /\ pc' \in {"handle", "persist"}
        /\ cur.node \in known /\ cur.node \in Node
    BY <1>9 DEF AnnounceChange, registryVars, HandInv, InHandIsKnown, TypeOK
  <2>2. seenAttrs'[cur.node] = attrs[cur.node] /\ SameAvailability(cur.node)
    BY <2>1 DEF OneBehind, TypeOK
  <2>3. \A n \in known : n # cur.node => seenAttrs'[n] = seenAttrs[n]
    BY <2>1 DEF TypeOK
  <2>4. OthersAreShown'
    BY <2>1, <2>2, <2>3 DEF OthersAreShown, SameAvailability, Unshown
  <2>5. QED
    BY <2>1, <2>4 DEF OneBehind, SendsTheLatest, EndsDrained
<1>10. CASE Persist \/ SaveNode
  <2>1. /\ UNCHANGED <<known, available, attrs, seen, seenAvailable, seenAttrs>>
        /\ pc \in {"persist", "save"}
        /\ \/ pc' = "save" /\ cur' = cur
           \/ pc' = "emit" /\ cur' = cur
           \/ pc' = "select" /\ cur.kind # "PrimingSnapshot"
    BY <1>10 DEF Persist, SaveNode, AfterPersist, Return, registryVars, busVars
  <2>2. OthersAreShown'
    BY <2>1, OthersStay DEF Unshown
  <2>3. QED
    BY <2>1, <2>2 DEF OneBehind, SendsTheLatest, EndsDrained
<1>11. CASE EmitNodeUpdated
  <2>1. /\ UNCHANGED <<known, available, attrs, cur, seen, seenAvailable, seenAttrs>>
        /\ pc = "emit" /\ pc' = "send" /\ snap' = Snapshot(cur.node)
    BY <1>11 DEF EmitNodeUpdated, HandInv, InHandIsKnown, registryVars, busVars
  <2>2. OthersAreShown'
    BY <2>1, OthersStay DEF Unshown
  <2>3. QED
    BY <2>1, <2>2 DEF OneBehind, SendsTheLatest, EndsDrained, Snapshot
(* The message shows the node in hand as it is; the others were.           *)
<1>12. CASE SendNodeUpdated
  <2>0. /\ pc = "send"
        /\ snap.available <=> cur.node \in available
        /\ snap.attributes = attrs[cur.node]
    BY <1>12, SnapshotFields DEF SendNodeUpdated, SendsTheLatest
  <2>1. /\ UNCHANGED <<known, available, attrs>> /\ seen' = seen \cup {cur.node}
        /\ seenAvailable' = IF cur.node \in available THEN seenAvailable \cup {cur.node}
                            ELSE seenAvailable \ {cur.node}
        /\ seenAttrs' = [seenAttrs EXCEPT ![cur.node] = attrs[cur.node]]
        /\ pc = "send" /\ pc' = "select"
    BY <1>12, <2>0 DEF SendNodeUpdated, Publish, Return, registryVars
  <2>2. cur.node \in known /\ known \subseteq Node /\ seenAttrs \in [Node -> Attrs]
    BY <2>1 DEF HandInv, InHandIsKnown, TypeOK
  <2>3. OthersAreShown'
    BY <2>1, <2>2 DEF OthersAreShown, SameAvailability, Unshown
  <2>4. QED
    BY <2>1, <2>2, <2>3 DEF OneBehind, SendsTheLatest, EndsDrained
<1>13. QED
  BY <1>1, <1>2, <1>3, <1>4, <1>5, <1>6, <1>7, <1>8, <1>9, <1>10, <1>11, <1>12
     DEF Next, Consumer

-----------------------------------------------------------------------------
(* NodeManager implements NodeView.  The state NodeManagerView maps to:    *)

Inbox == Unapplied \o rx

Modes == [n \in Node |-> ModeOf(n)]

ShownView ==
  [n \in Node |-> [available |-> n \in seenAvailable, attributes |-> seenAttrs[n]]]

(* Queues whose first element is set apart.                                *)
LEMMA FirstOfQueue ==
  ASSUME NEW S, NEW x \in S, NEW q \in Seq(S)
  PROVE  /\ <<x>> \o q # <<>>
         /\ Head(<<x>> \o q) = x
         /\ Tail(<<x>> \o q) = q
<1>1. <<x>> \o q \in Seq(S) /\ Len(<<x>> \o q) = Len(q) + 1 /\ Len(q) \in Nat
  OBVIOUS
<1>2. (<<x>> \o q)[1] = x /\ \A i \in 1..Len(q) : (<<x>> \o q)[i + 1] = q[i]
  OBVIOUS
<1>3. <<x>> \o q # <<>>
  BY <1>1
<1>4. /\ Tail(<<x>> \o q) \in Seq(S) /\ Len(Tail(<<x>> \o q)) = Len(q)
      /\ \A i \in 1..Len(q) : Tail(<<x>> \o q)[i] = q[i]
  BY <1>1, <1>2, <1>3, HeadTailProperties
<1>5. Tail(<<x>> \o q) = q
  BY <1>4, SeqEqual
<1>6. QED
  BY <1>2, <1>3, <1>5

LEMMA EmptyBefore ==
  ASSUME NEW S, NEW q \in Seq(S)
  PROVE  <<>> \o q = q
  BY ConcatEmptySeq

LEMMA AppendAfter ==
  ASSUME NEW S, NEW u \in Seq(S), NEW q \in Seq(S), NEW x \in S
  PROVE  Append(u \o q, x) = u \o Append(q, x)
<1>1. u \o q \in Seq(S) /\ <<x>> \in Seq(S)
  BY ConcatProperties
<1>2. Append(u \o q, x) = (u \o q) \o <<x>> /\ Append(q, x) = q \o <<x>>
  BY <1>1, AppendIsConcat
<1>3. QED
  BY <1>1, <1>2, ConcatAssociative

(* What is unapplied of the event in hand, at each step of its handler.    *)
LEMMA UnappliedNone ==
  /\ pc \notin {"handle", "announce", "broadcast"} => Unapplied = <<>>
  /\ pc' \notin {"handle", "announce", "broadcast"} => Unapplied' = <<>>
  BY DEF Unapplied

LEMMA UnappliedWhole ==
  /\ pc \in {"handle", "broadcast"} /\ cur.kind # "AttributesChanged" =>
       Unapplied = <<cur>>
  /\ pc' \in {"handle", "broadcast"} /\ cur'.kind # "AttributesChanged" =>
       Unapplied' = <<cur'>>
  BY DEF Unapplied

(* The part of a report from its i-th change on.                           *)
From(r, i) ==
  IF i > Len(r.changes) THEN <<>>
  ELSE <<[r EXCEPT !.changes = SubSeq(r.changes, i, Len(r.changes))]>>

LEMMA UnappliedReport ==
  /\ pc = "handle" /\ cur.kind = "AttributesChanged" => Unapplied = From(cur, idx)
  /\ pc = "announce" /\ cur.kind = "AttributesChanged" => Unapplied = From(cur, idx + 1)
  /\ pc' = "handle" /\ cur'.kind = "AttributesChanged" => Unapplied' = From(cur', idx')
  /\ pc' = "announce" /\ cur'.kind = "AttributesChanged" =>
       Unapplied' = From(cur', idx' + 1)
  BY DEF Unapplied, From

(* The mapping's parts decide whether a step shows.                        *)
LEMMA ViewStutters ==
  ASSUME UNCHANGED <<known, Inbox, Modes, attrs, ShownView, eventLog>>,
         pc' = "stopped" <=> pc = "stopped"
  PROVE  UNCHANGED View!vars
  BY DEF View!vars, Inbox, Modes, ShownView

(* Every known node is shown as it is unless a change of it is in hand.    *)
LEMMA ShownMapped ==
  ASSUME ShownInv, TypeOK, \A n \in known : ~Unshown(n)
  PROVE  View!Shown
<1> SUFFICES ASSUME NEW n \in known
             PROVE  ShownView[n] = [available |-> Modes[n] # "down", attributes |-> attrs[n]]
  BY DEF View!Shown, View!Actual, ShownView, Modes
<1>1. n \in Node /\ SameAvailability(n) /\ seenAttrs[n] = attrs[n]
  BY DEF ShownInv, OthersAreShown, TypeOK
<1>2. Modes[n] # "down" <=> n \in available
  BY <1>1 DEF Modes, ModeOf
<1>3. (n \in seenAvailable) = (Modes[n] # "down")
  BY <1>1, <1>2 DEF SameAvailability
<1>4. ShownView[n] = [available |-> n \in seenAvailable, attributes |-> seenAttrs[n]]
  BY <1>1 DEF ShownView
<1>5. QED
  BY <1>1, <1>3, <1>4

(* The rest of a report is a report.                                       *)
LEMMA FromType ==
  ASSUME NEW r \in StackEvent, r.kind = "AttributesChanged", NEW i \in Nat \ {0}
  PROVE  From(r, i) \in Seq(StackEvent)
<1>1. r \in [kind : {"AttributesChanged"}, node : Node, changes : Seq(Change) \ {<<>>}]
  BY DEF StackEvent
<1>2. CASE i > Len(r.changes)
  BY <1>2 DEF From
<1>3. CASE ~(i > Len(r.changes))
  <2> DEFINE c == SubSeq(r.changes, i, Len(r.changes))
  <2>1. r.changes \in Seq(Change) /\ Len(r.changes) \in Nat /\ i \in 1..Len(r.changes)
    BY <1>1, <1>3
  <2>2. c \in Seq(Change) /\ Len(c) = Len(r.changes) - i + 1
    BY <2>1, SubSeqProperties
  <2> HIDE DEF c
  <2>3. c \in Seq(Change) \ {<<>>}
    BY <2>1, <2>2
  <2>4. [r EXCEPT !.changes = c] \in StackEvent
    BY <1>1, <2>3 DEF StackEvent
  <2>5. From(r, i) = <<[r EXCEPT !.changes = c]>>
    BY <1>3 DEF From, c
  <2>6. QED
    BY <2>4, <2>5
<1>4. QED
  BY <1>2, <1>3

LEMMA UnappliedType ==
  ASSUME TypeOK
  PROVE  Unapplied \in Seq(StackEvent)
<1>1. CASE pc \notin {"handle", "announce", "broadcast"}
  BY <1>1, UnappliedNone
<1>2. CASE pc \in {"handle", "announce", "broadcast"}
  <2>1. cur \in StackEvent /\ idx \in Nat \ {0}
    BY <1>2, HandlerEvent DEF TypeOK
  <2>2. CASE cur.kind = "AttributesChanged" /\ pc \in {"handle", "announce"}
    BY <2>1, <2>2, UnappliedReport, FromType
  <2>3. CASE cur.kind # "AttributesChanged" /\ pc \in {"handle", "broadcast"}
    BY <2>1, <2>3, UnappliedWhole
  <2>4. QED
    BY <1>2, <2>2, <2>3 DEF TypeOK, ControlOK
<1>3. QED
  BY <1>1, <1>2

(* A report of the stack arrives.                                          *)
LEMMA StackSendsMapped ==
  ASSUME TypeOK, ShownInv, NEW ev \in StackEvent, StackSends(ev)
  PROVE  View!Arrives(ev)
<1>1. /\ rx' = Append(rx, ev) /\ rx \in Seq(StackEvent)
      /\ UNCHANGED <<known, available, attrs, graceTimers, pc, cur, idx, seenAvailable,
                     seenAttrs, eventLog>>
      /\ pc # "stopped"
  BY DEF StackSends, TypeOK, ShownInv, EndsDrained, registryVars, timerVars, localVars,
     busVars
<1>2. Unapplied' = Unapplied
  BY <1>1 DEF Unapplied
<1>3. Inbox' = Append(Inbox, ev)
  BY <1>1, <1>2, UnappliedType, AppendAfter DEF Inbox
<1>4. Modes' = Modes /\ ShownView' = ShownView
  BY <1>1 DEF Modes, ModeOf, ShownView
<1>5. QED
  BY <1>1, <1>3, <1>4 DEF View!Arrives, Inbox, Modes, ShownView

LEMMA StackReportsMapped ==
  ASSUME TypeOK, ShownInv, NEW n \in Node, StackReports(n)
  PROVE  View!Next
<1>1. CASE \E k \in {"Connected", "Reconnecting"} : StackSends([kind |-> k, node |-> n])
  <2>1. PICK k \in {"Connected", "Reconnecting"} : StackSends([kind |-> k, node |-> n])
    BY <1>1
  <2>2. View!Arrives([kind |-> k, node |-> n])
    BY <2>1, StackSendsMapped DEF StackEvent
  <2>3. QED
    BY <2>2 DEF View!Next
<1>2. CASE \E a \in Attrs :
        StackSends([kind |-> "PrimingSnapshot", node |-> n, attributes |-> a])
  <2>1. PICK a \in Attrs :
          StackSends([kind |-> "PrimingSnapshot", node |-> n, attributes |-> a])
    BY <1>2
  <2>2. View!Arrives([kind |-> "PrimingSnapshot", node |-> n, attributes |-> a])
    BY <2>1, StackSendsMapped DEF StackEvent
  <2>3. QED
    BY <2>2 DEF View!Next
<1>3. CASE \E r \in Reports :
        StackSends([kind |-> "AttributesChanged", node |-> n, changes |-> r])
  <2>1. PICK r \in Reports :
          StackSends([kind |-> "AttributesChanged", node |-> n, changes |-> r])
    BY <1>3
  <2>2. View!Arrives([kind |-> "AttributesChanged", node |-> n, changes |-> r])
    BY <2>1, StackSendsMapped, ReportsShape DEF StackEvent
  <2>3. QED
    BY <2>2 DEF View!Next
<1>4. CASE \E p \in Payload :
        StackSends([kind |-> "NodeEvent", node |-> n, event |-> p])
  <2>1. PICK p \in Payload : StackSends([kind |-> "NodeEvent", node |-> n, event |-> p])
    BY <1>4
  <2>2. View!Arrives([kind |-> "NodeEvent", node |-> n, event |-> p])
    BY <2>1, StackSendsMapped DEF StackEvent
  <2>3. QED
    BY <2>2 DEF View!Next
<1>5. QED
  BY <1>1, <1>2, <1>3, <1>4 DEF StackReports

(* The end of the stack and a timer that fires show nothing.               *)
LEMMA SilentSteps ==
  ASSUME UNCHANGED vars \/ StackGone \/ (\E t \in sleeping : TimerFires(t))
  PROVE  UNCHANGED View!vars
<1>1. UNCHANGED <<known, available, attrs, graceTimers, pc, cur, idx, rx, seenAvailable,
                  seenAttrs, eventLog>>
  BY DEF vars, StackGone, TimerFires, registryVars, timerVars, localVars, busVars,
     stackVars
<1>2. UNCHANGED <<Inbox, Modes, ShownView>>
  BY <1>1 DEF Inbox, Unapplied, Modes, ModeOf, ShownView
<1>3. QED
  BY <1>1, <1>2, ViewStutters

(* Taking an event off the channel moves it into hand; that of an unknown  *)
(* node is ignored.                                                        *)
LEMMA WholeReport ==
  ASSUME NEW r \in StackEvent, r.kind = "AttributesChanged"
  PROVE  From(r, 1) = <<r>>
<1>1. r \in [kind : {"AttributesChanged"}, node : Node, changes : Seq(Change) \ {<<>>}]
  BY DEF StackEvent
<1>2. r.changes \in Seq(Change) /\ ~(1 > Len(r.changes))
  BY <1>1
<1>3. SubSeq(r.changes, 1, Len(r.changes)) = r.changes
  BY <1>2, SubSeqFull
<1>4. [r EXCEPT !.changes = r.changes] = r
  BY <1>1
<1>5. QED
  BY <1>2, <1>3, <1>4 DEF From

LEMMA RecvEventMapped ==
  ASSUME TypeOK, RecvEvent
  PROVE  View!Next \/ UNCHANGED View!vars
<1>1. /\ rx \in Seq(StackEvent) /\ rx # <<>> /\ rx' = Tail(rx) /\ pc = "select" /\ idx = 1
      /\ UNCHANGED <<known, available, attrs, graceTimers, seenAvailable, seenAttrs, eventLog>>
  BY DEF RecvEvent, TypeOK, ControlOK, registryVars, timerVars, busVars
<1>2. Head(rx) \in StackEvent /\ Tail(rx) \in Seq(StackEvent)
  BY <1>1, QueueTypes
<1>3. Inbox = rx
  BY <1>1, UnappliedNone, EmptyBefore DEF Inbox
<1>4. Modes' = Modes /\ ShownView' = ShownView
  BY <1>1 DEF Modes, ModeOf, ShownView
<1>5. CASE Head(rx).node \in known
  <2>1. pc' = "handle" /\ cur' = Head(rx) /\ idx' = 1
    BY <1>1, <1>5 DEF RecvEvent
  <2>2. Unapplied' = <<Head(rx)>>
    <3>1. CASE Head(rx).kind = "AttributesChanged"
      BY <1>2, <2>1, <3>1, UnappliedReport, WholeReport
    <3>2. CASE Head(rx).kind # "AttributesChanged"
      BY <2>1, <3>2, UnappliedWhole
    <3>3. QED
      BY <3>1, <3>2
  <2>3. Inbox' = <<Head(rx)>> \o Tail(rx)
    BY <1>1, <2>2 DEF Inbox
  <2>4. <<Head(rx)>> \o Tail(rx) = rx
    BY <1>1
  <2>5. QED
    BY <1>1, <1>3, <1>4, <2>1, <2>3, <2>4, ViewStutters
<1>6. CASE Head(rx).node \notin known
  <2>1. UNCHANGED localVars
    BY <1>6 DEF RecvEvent
  <2>2. Inbox' = Tail(rx)
    BY <1>1, <1>2, <2>1, UnappliedNone, EmptyBefore DEF Inbox, localVars
  <2>3. View!Ignore
    BY <1>1, <1>3, <1>4, <1>6, <2>1, <2>2
       DEF View!Ignore, View!First, Inbox, Modes, ShownView, localVars
  <2>4. QED
    BY <2>3 DEF View!Next
<1>7. QED
  BY <1>5, <1>6

(* The loop ends: no grace period is left.                                 *)
LEMMA RecvClosedMapped ==
  ASSUME TypeOK, ShownInv, RecvClosed
  PROVE  View!Next
<1>1. /\ rx = <<>> /\ pc = "select" /\ pc' = "stopped"
      /\ UNCHANGED <<known, available, attrs, rx, seenAvailable, seenAttrs, eventLog>>
      /\ \A n \in Node : graceTimers'[n] = 0
  BY DEF RecvClosed, registryVars, busVars, stackVars
<1>2. Inbox = <<>> /\ Inbox' = <<>>
  BY <1>1, UnappliedNone DEF Inbox
<1>3. Modes' = [n \in Node |-> IF Modes[n] = "grace" THEN "up" ELSE Modes[n]]
  BY <1>1 DEF Modes, ModeOf, TypeOK
<1>4. ShownView' = ShownView
  BY <1>1 DEF ShownView
<1>5. View!Shown
  BY <1>1, ShownMapped DEF Unshown
<1>6. View!End
  BY <1>1, <1>2, <1>3, <1>4, <1>5 DEF View!End, Inbox, Modes, ShownView
<1>7. QED
  BY <1>6 DEF View!Next

(* An expiry ends the grace period of a node that has one, and shows       *)
(* nothing otherwise.                                                      *)
LEMMA HandleGraceExpiryMapped ==
  ASSUME TypeOK, ShownInv, HandleGraceExpiry
  PROVE  View!Next \/ UNCHANGED View!vars
<1> DEFINE m == Head(graceRx).node
<1>1. /\ pc = "select" /\ pc' \in {"select", "emit"}
      /\ UNCHANGED <<known, attrs, rx, seenAvailable, seenAttrs, eventLog>>
      /\ graceTimers' = [graceTimers EXCEPT ![m] = 0]
  BY DEF HandleGraceExpiry, busVars, stackVars, localVars
<1>2. m \in Node
  <2>1. Head(graceRx) \in TimerTask
    BY QueueTypes DEF HandleGraceExpiry, TypeOK
  <2>2. QED
    BY <2>1 DEF TimerTask
<1>3. Inbox' = Inbox /\ ShownView' = ShownView
  BY <1>1, UnappliedNone DEF Inbox, ShownView
<1>4. CASE graceTimers[m] # 0 /\ m \in available
  <2>1. available' = available \ {m} /\ m \in known
    BY <1>4 DEF HandleGraceExpiry, TypeOK
  <2>2. Modes[m] = "grace" /\ Modes' = [Modes EXCEPT ![m] = "down"]
    BY <1>1, <1>2, <1>4, <2>1 DEF Modes, ModeOf, TypeOK
  <2>3. View!Shown
    BY <1>1, ShownMapped DEF Unshown
  <2> HIDE DEF m
  <2>4. View!Expire(m)
    BY <1>1, <1>3, <2>1, <2>2, <2>3 DEF View!Expire, Inbox, Modes, ShownView
  <2>5. QED
    BY <1>2, <2>4 DEF View!Next
<1>5. CASE ~(graceTimers[m] # 0 /\ m \in available)
  <2>1. available' = available /\ pc' = "select"
    BY <1>1, <1>5 DEF HandleGraceExpiry, localVars
  <2>2. \A n \in Node : n \in available => (graceTimers'[n] = 0 <=> graceTimers[n] = 0)
    BY <1>1, <1>2, <1>5 DEF TypeOK
  <2>3. Modes' = Modes
    BY <2>1, <2>2 DEF Modes, ModeOf
  <2>4. QED
    BY <1>1, <1>3, <2>1, <2>3, ViewStutters
<1>6. QED
  BY <1>4, <1>5

(* The step that takes the whole event in hand.                            *)
LEMMA TakeWhole ==
  ASSUME TypeOK, HandInv, ShownInv, pc \in {"handle", "broadcast"},
         cur.kind # "AttributesChanged",
         pc' \in {"select", "emit", "persist"}, rx' = rx,
         UNCHANGED <<known, seenAvailable, seenAttrs>>
  PROVE  /\ View!Take(cur.kind) /\ View!First = cur /\ cur.node \in Node
         /\ (Unapplied \o rx)' = Tail(Unapplied \o rx)
         /\ pc' # "stopped" /\ pc # "stopped"
<1>1. cur \in StackEvent /\ cur.node \in known /\ cur.node \in Node /\ rx \in Seq(StackEvent)
  BY HandlerEvent DEF HandInv, InHandIsKnown, TypeOK
<1>2. Inbox = <<cur>> \o rx /\ Inbox' = <<>> \o rx
  BY UnappliedWhole, UnappliedNone DEF Inbox
<1>3. Inbox # <<>> /\ Head(Inbox) = cur /\ Tail(Inbox) = rx /\ Inbox' = rx
  BY <1>1, <1>2, FirstOfQueue, EmptyBefore
<1>4. View!Shown
  BY ShownMapped DEF Unshown
<1>5. ShownView' = ShownView
  BY DEF ShownView
<1>6. View!First = cur
  BY <1>3 DEF View!First, Inbox
<1>7. View!Take(cur.kind)
  BY <1>1, <1>3, <1>4, <1>5, <1>6 DEF View!Take, Inbox, ShownView
<1>8. QED
  BY <1>1, <1>3, <1>6, <1>7 DEF Inbox

LEMMA HandleConnectedMapped ==
  ASSUME TypeOK, HandInv, ShownInv, HandleConnected
  PROVE  View!Next
<1>1. /\ pc = "handle" /\ pc' \in {"select", "emit"} /\ cur.kind = "Connected"
      /\ UNCHANGED <<known, attrs, rx, seenAvailable, seenAttrs, eventLog>>
      /\ graceTimers' = [graceTimers EXCEPT ![cur.node] = 0]
      /\ available' = available \cup {cur.node}
  BY DEF HandleConnected, Handling, Goto, Return, busVars, stackVars, HandInv, InHandIsKnown
<1>2. /\ View!Take("Connected") /\ View!First = cur /\ cur.node \in Node
      /\ (Unapplied \o rx)' = Tail(Unapplied \o rx)
  BY <1>1, TakeWhole
<1>3. Modes' = [Modes EXCEPT ![cur.node] = "up"]
  BY <1>1, <1>2 DEF Modes, ModeOf, TypeOK
<1>4. View!Connect
  BY <1>1, <1>2, <1>3 DEF View!Connect, Modes
<1>5. QED
  BY <1>4 DEF View!Next

LEMMA HandleReconnectingMapped ==
  ASSUME TypeOK, HandInv, ShownInv, HandleReconnecting
  PROVE  View!Next
<1> DEFINE m == cur.node
<1>1. /\ pc = "handle" /\ pc' = "select" /\ cur.kind = "Reconnecting"
      /\ UNCHANGED <<known, available, attrs, rx, seenAvailable, seenAttrs, eventLog>>
      /\ graceTimers' = IF m \in available /\ graceTimers[m] = 0
                        THEN [graceTimers EXCEPT ![m] = nextTimer] ELSE graceTimers
  BY DEF HandleReconnecting, Handling, Return, registryVars, busVars, stackVars
<1>2. /\ View!Take("Reconnecting") /\ View!First = cur /\ m \in Node
      /\ (Unapplied \o rx)' = Tail(Unapplied \o rx)
  BY <1>1, TakeWhole
<1>3. Modes' = [Modes EXCEPT ![m] = IF @ = "up" THEN "grace" ELSE @]
  BY <1>1, <1>2 DEF Modes, ModeOf, TypeOK
<1>4. View!Lose
  BY <1>1, <1>2, <1>3 DEF View!Lose, Modes
<1>5. QED
  BY <1>4 DEF View!Next

LEMMA HandlePrimingSnapshotMapped ==
  ASSUME TypeOK, HandInv, ShownInv, HandlePrimingSnapshot
  PROVE  View!Next
<1>1. /\ pc = "handle" /\ pc' = "persist" /\ cur.kind = "PrimingSnapshot"
      /\ UNCHANGED <<known, available, graceTimers, rx, seenAvailable, seenAttrs, eventLog>>
      /\ attrs' = [attrs EXCEPT ![cur.node] = cur.attributes]
  BY DEF HandlePrimingSnapshot, Handling, Goto, busVars, stackVars, timerVars, HandInv,
     InHandIsKnown
<1>2. /\ View!Take("PrimingSnapshot") /\ View!First = cur
      /\ (Unapplied \o rx)' = Tail(Unapplied \o rx)
  BY <1>1, TakeWhole
<1>3. Modes' = Modes
  BY <1>1 DEF Modes, ModeOf
<1>4. View!Prime
  BY <1>1, <1>2, <1>3 DEF View!Prime, Modes
<1>5. QED
  BY <1>4 DEF View!Next

LEMMA BroadcastNodeEventMapped ==
  ASSUME TypeOK, HandInv, ShownInv, BroadcastNodeEvent
  PROVE  View!Next
<1>1. /\ pc = "broadcast" /\ pc' = "select" /\ cur.kind = "NodeEvent"
      /\ UNCHANGED <<known, available, attrs, graceTimers, rx, seenAvailable, seenAttrs>>
      /\ eventLog' = Append(eventLog, cur.event)
  BY DEF BroadcastNodeEvent, Return, registryVars, stackVars, timerVars, TypeOK, ControlOK
<1>2. /\ View!Take("NodeEvent") /\ View!First = cur
      /\ (Unapplied \o rx)' = Tail(Unapplied \o rx)
  BY <1>1, TakeWhole
<1>3. Modes' = Modes
  BY <1>1 DEF Modes, ModeOf
<1>4. View!Pass
  BY <1>1, <1>2, <1>3 DEF View!Pass, Modes
<1>5. QED
  BY <1>4 DEF View!Next

(* One turn of the loop over a report takes its first unapplied change and *)
(* leaves the rest.                                                        *)
LEMMA HandleChangeMapped ==
  ASSUME TypeOK, HandInv, ShownInv, HandleChange
  PROVE  View!Next
<1> DEFINE s == SubSeq(cur.changes, idx, Len(cur.changes))
           r == [cur EXCEPT !.changes = s]
           c == cur.changes[idx]
<1>1. /\ pc = "handle" /\ pc' = "announce" /\ cur.kind = "AttributesChanged"
      /\ UNCHANGED <<known, available, graceTimers, rx, seenAvailable, seenAttrs,
                     eventLog, cur, idx>>
      /\ attrs' = [attrs EXCEPT ![cur.node] = [@ EXCEPT ![c.path] = c.value]]
  BY DEF HandleChange, Handling, Goto, busVars, stackVars, timerVars, HandInv, InHandIsKnown
<1>2. /\ cur \in StackEvent /\ cur.node \in known /\ rx \in Seq(StackEvent)
      /\ cur.changes \in Seq(Change) /\ idx \in 1..Len(cur.changes)
      /\ Len(cur.changes) \in Nat
  BY <1>1, HandlerEvent, CurrentChange DEF HandInv, InHandIsKnown, TypeOK
<1>3. cur \in [kind : {"AttributesChanged"}, node : Node, changes : Seq(Change) \ {<<>>}]
  BY <1>1, <1>2 DEF StackEvent
<1>4. Head(s) = c /\ Tail(s) = SubSeq(cur.changes, idx + 1, Len(cur.changes))
  BY <1>2, HeadTailOfSubSeq
<1>5. s \in Seq(Change) /\ Len(s) = Len(cur.changes) - idx + 1
  BY <1>2, SubSeqProperties
<1>6. From(cur, idx) = <<r>>
  <2>1. ~(idx > Len(cur.changes))
    BY <1>2
  <2>2. QED
    BY <2>1, Zenon DEF From
<1> HIDE DEF s
<1>7. Tail(s) = <<>> <=> idx + 1 > Len(cur.changes)
  <2>1. s # <<>>
    BY <1>2, <1>5
  <2> DEFINE t == Tail(s)
  <2>2. t \in Seq(Change) /\ Len(t) = Len(cur.changes) - idx
    BY <1>2, <1>5, <2>1, HeadTailProperties
  <2> HIDE DEF t
  <2>3. t = <<>> <=> Len(t) = 0
    BY <2>2, EmptySeq
  <2>4. t = <<>> <=> idx + 1 > Len(cur.changes)
    BY <1>2, <2>2, <2>3
  <2>5. QED
    BY <2>4 DEF t
<1>8. r.kind = "AttributesChanged" /\ r.node = cur.node /\ r.changes = s
      /\ [r EXCEPT !.changes = Tail(s)] = [cur EXCEPT !.changes = Tail(s)]
  BY <1>3
<1>9. From(cur, idx + 1) = IF Tail(s) = <<>> THEN <<>> ELSE <<[r EXCEPT !.changes = Tail(s)]>>
  BY <1>4, <1>7, <1>8 DEF From
<1>10. <<r>> \in Seq(StackEvent) /\ r \in StackEvent
  <2>1. From(cur, idx) \in Seq(StackEvent)
    BY <1>1, <1>2, FromType
  <2>2. QED
    BY <1>6, <2>1
<1> HIDE DEF r
<1>11. Inbox = <<r>> \o rx /\ Inbox' = From(cur, idx + 1) \o rx
  BY <1>1, <1>6, UnappliedReport DEF Inbox
<1>12. Inbox # <<>> /\ Head(Inbox) = r /\ Tail(Inbox) = rx
  BY <1>2, <1>10, <1>11, FirstOfQueue
<1>13. Modes' = Modes /\ ShownView' = ShownView
  BY <1>1 DEF Modes, ModeOf, ShownView
<1>14. View!Shown
  BY <1>1, ShownMapped DEF Unshown
<1>15. View!First = r
  BY <1>12 DEF View!First, Inbox
<1>16. View!Take("AttributesChanged")
  BY <1>1, <1>2, <1>8, <1>12, <1>13, <1>14, <1>15 DEF View!Take, Inbox, ShownView
<1>17. Inbox' = (IF Tail(s) = <<>> THEN <<>> ELSE <<[r EXCEPT !.changes = Tail(s)]>>)
                  \o Tail(Inbox)
  BY <1>9, <1>11, <1>12
<1>18. View!Change
  BY <1>1, <1>4, <1>8, <1>13, <1>15, <1>16, <1>17 DEF View!Change, Inbox, Modes
<1>19. QED
  BY <1>18 DEF View!Next

(* A broadcast shows the node in hand as it is.                            *)
LEMMA ShowMapped ==
  ASSUME TypeOK, NEW m \in known, Inbox' = Inbox,
         UNCHANGED <<known, available, attrs, graceTimers, eventLog>>,
         pc # "stopped", pc' # "stopped",
         m \in seenAvailable' <=> m \in available, seenAttrs'[m] = attrs[m],
         \A n \in Node : n # m =>
           /\ n \in seenAvailable' <=> n \in seenAvailable
           /\ seenAttrs'[n] = seenAttrs[n]
  PROVE  View!Next
<1>1. m \in Node /\ known \subseteq Node
  BY DEF TypeOK
<1>2. Modes' = Modes
  BY DEF Modes, ModeOf
<1>3. Modes[m] # "down" <=> m \in available
  BY <1>1 DEF Modes, ModeOf
<1>4. ShownView' = [ShownView EXCEPT ![m] =
                      [available |-> Modes[m] # "down", attributes |-> attrs[m]]]
  <2>1. ASSUME NEW n \in Node
        PROVE  ShownView'[n] =
                 IF n = m THEN [available |-> Modes[m] # "down", attributes |-> attrs[m]]
                 ELSE ShownView[n]
    <3>1. /\ ShownView'[n] = [available |-> n \in seenAvailable', attributes |-> seenAttrs'[n]]
          /\ ShownView[n] = [available |-> n \in seenAvailable, attributes |-> seenAttrs[n]]
      BY <2>1 DEF ShownView
    <3>2. CASE n = m
      <4>1. (m \in seenAvailable') = (Modes[m] # "down")
        BY <1>3
      <4>2. QED
        BY <3>1, <3>2, <4>1
    <3>3. CASE n # m
      <4>1. (n \in seenAvailable') = (n \in seenAvailable)
        BY <2>1, <3>3
      <4>2. QED
        BY <2>1, <3>1, <3>3, <4>1
    <3>4. QED
      BY <3>2, <3>3
  <2>2. ShownView' = [n \in Node |-> ShownView'[n]] /\ ShownView = [n \in Node |-> ShownView[n]]
    BY DEF ShownView
  <2> HIDE DEF ShownView
  <2>3. QED
    BY <1>1, <2>1, <2>2
<1>5. View!Show(m)
  BY <1>2, <1>4 DEF View!Show, View!Actual, Inbox, Modes, ShownView
<1>6. QED
  BY <1>1, <1>5 DEF View!Next

LEMMA AnnounceChangeMapped ==
  ASSUME TypeOK, HandInv, ShownInv, AnnounceChange
  PROVE  View!Next
<1> DEFINE c == cur.changes[idx]
<1>1. /\ seenAttrs' = [seenAttrs EXCEPT ![cur.node] = [@ EXCEPT ![c.path] = c.value]]
      /\ UNCHANGED <<known, available, attrs, graceTimers, eventLog, cur, rx, seenAvailable>>
      /\ pc = "announce" /\ pc' = (IF idx < Len(cur.changes) THEN "handle" ELSE "persist")
      /\ idx' = idx + 1 /\ cur.kind = "AttributesChanged" /\ cur.node \in known
      /\ cur.node \in Node
  BY DEF AnnounceChange, registryVars, timerVars, stackVars, HandInv, InHandIsKnown,
     ShownInv, TypeOK, ControlOK
<1>2. idx \in 1..Len(cur.changes) /\ Len(cur.changes) \in Nat
  BY <1>1, CurrentChange
<1>3. Inbox' = Inbox
  <2>1. CASE idx < Len(cur.changes)
    BY <1>1, <2>1, UnappliedReport DEF Inbox
  <2>2. CASE ~(idx < Len(cur.changes))
    <3>1. Unapplied' = <<>>
      BY <1>1, <2>2, UnappliedNone
    <3>2. Unapplied = <<>>
      BY <1>1, <1>2, <2>2, UnappliedReport DEF From
    <3>3. QED
      BY <1>1, <3>1, <3>2 DEF Inbox
  <2>3. QED
    BY <2>1, <2>2
<1>4. seenAttrs'[cur.node] = attrs[cur.node] /\ SameAvailability(cur.node)
  BY <1>1 DEF ShownInv, OneBehind, TypeOK
<1>5. \A n \in Node : n # cur.node => seenAttrs'[n] = seenAttrs[n]
  BY <1>1 DEF TypeOK
<1>6. QED
  BY <1>1, <1>3, <1>4, <1>5, ShowMapped DEF SameAvailability

LEMMA SendNodeUpdatedMapped ==
  ASSUME TypeOK, HandInv, ShownInv, SendNodeUpdated
  PROVE  View!Next
<1>1. /\ pc = "send"
      /\ snap.available <=> cur.node \in available
      /\ snap.attributes = attrs[cur.node]
  BY SnapshotFields DEF SendNodeUpdated, ShownInv, SendsTheLatest
<1>2. /\ UNCHANGED <<known, available, attrs, graceTimers, eventLog, rx>>
      /\ seenAvailable' = IF cur.node \in available THEN seenAvailable \cup {cur.node}
                          ELSE seenAvailable \ {cur.node}
      /\ seenAttrs' = [seenAttrs EXCEPT ![cur.node] = attrs[cur.node]]
      /\ pc' = "select"
  BY <1>1 DEF SendNodeUpdated, Publish, Return, registryVars, timerVars, stackVars
<1>3. cur.node \in known /\ cur.node \in Node /\ seenAttrs \in [Node -> Attrs]
  BY <1>1 DEF HandInv, InHandIsKnown, TypeOK
<1>4. Inbox' = Inbox
  BY <1>1, <1>2, UnappliedNone DEF Inbox
<1>5. QED
  BY <1>1, <1>2, <1>3, <1>4, ShowMapped

(* Reading the registry, writing the file and keeping the history show     *)
(* nothing.                                                                *)
LEMMA QuietHandlerSteps ==
  ASSUME TypeOK, HandleNodeEvent \/ Persist \/ SaveNode \/ EmitNodeUpdated
  PROVE  UNCHANGED View!vars
<1>1. UNCHANGED <<known, available, attrs, graceTimers, seenAvailable, seenAttrs,
                  eventLog, rx>>
  BY DEF HandleNodeEvent, Persist, SaveNode, EmitNodeUpdated, registryVars, timerVars,
     busVars, stackVars
<1>2. Unapplied' = Unapplied /\ pc # "stopped" /\ pc' # "stopped"
  <2>1. CASE HandleNodeEvent
    BY <2>1, UnappliedWhole DEF HandleNodeEvent, Handling, Goto
  <2>2. CASE Persist \/ SaveNode \/ EmitNodeUpdated
    BY <2>2, UnappliedNone DEF Persist, SaveNode, EmitNodeUpdated, AfterPersist, Return
  <2>3. QED
    BY <2>1, <2>2
<1>3. UNCHANGED <<Inbox, Modes, ShownView>>
  BY <1>1, <1>2 DEF Inbox, Modes, ModeOf, ShownView
<1>4. QED
  BY <1>1, <1>2, <1>3, ViewStutters

LEMMA InitMapped == Init => View!Init
<1> SUFFICES ASSUME Init PROVE View!Init
  OBVIOUS
<1>1. /\ known \subseteq Node /\ available = {} /\ rx = <<>> /\ pc = "select"
      /\ seenAvailable = {} /\ seenAttrs = attrs /\ eventLog = <<>>
  BY ProvisionedAssumption DEF Init
<1>2. Inbox = <<>>
  BY <1>1, UnappliedNone DEF Inbox
<1>3. Modes = [n \in Node |-> "down"]
  BY <1>1 DEF Modes, ModeOf
<1>4. ShownView = [n \in Node |-> [available |-> Modes[n] # "down", attributes |-> attrs[n]]]
  BY <1>1, <1>3 DEF ShownView
<1>5. QED
  BY <1>1, <1>2, <1>3, <1>4 DEF View!Init, View!Actual, Inbox, Modes, ShownView

LEMMA NextMapped ==
  ASSUME TypeOK, HandInv, ShownInv, [Next]_vars
  PROVE  [View!Next]_View!vars
<1>1. CASE UNCHANGED vars \/ StackGone \/ (\E t \in sleeping : TimerFires(t))
  BY <1>1, SilentSteps
<1>2. CASE \E n \in Node : StackReports(n)
  BY <1>2, StackReportsMapped
<1>3. CASE Consumer
  BY <1>3, RecvEventMapped, RecvClosedMapped, HandleGraceExpiryMapped,
     HandleConnectedMapped, HandleReconnectingMapped, HandlePrimingSnapshotMapped,
     HandleChangeMapped, AnnounceChangeMapped, BroadcastNodeEventMapped,
     SendNodeUpdatedMapped, QuietHandlerSteps
     DEF Consumer
<1>4. QED
  BY <1>1, <1>2, <1>3 DEF Next

(* The consumer of node_manager.rs implements NodeView: the reports are    *)
(* applied in order and once each, no change of a node overtakes the       *)
(* broadcast of the one before it, and a node is shown as unavailable only *)
(* at the end of a grace period no connection ended.                       *)
THEOREM ConsumerImplementsView == Spec => ImplementsNodeView
<1>1. Init => TypeOK /\ HandInv /\ ShownInv
  BY InitType, InitHand, InitShown
<1>2. TypeOK /\ HandInv /\ ShownInv /\ [Next]_vars => (TypeOK /\ HandInv /\ ShownInv)'
  BY NextType, NextHand, NextShown
<1>3. TypeOK /\ HandInv /\ ShownInv /\ [Next]_vars => [View!Next]_View!vars
  BY NextMapped
<1>4. QED
  BY <1>1, <1>2, <1>3, InitMapped, PTL DEF Spec, ImplementsNodeView, View!Spec

=============================================================================
