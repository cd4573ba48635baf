---------------------------- MODULE NodeManager ----------------------------
(***************************************************************************)
(* The consumer task of crates/controller/src/node_manager.rs: it takes    *)
(* the stack's events off an unbounded channel, applies them to the node   *)
(* registry (registry.rs) and to nodes/<id>.json (storage.rs), and         *)
(* broadcasts what changed.  A node whose subscription drops keeps its     *)
(* availability for a grace period (RECONNECT_GRACE) timed by a task of    *)
(* its own, whose expiry comes back on a second channel.                   *)
(*                                                                         *)
(* The registry is a mutex around a map, taken once per call, and the      *)
(* runtime is multi-threaded: commands of the clients run between any two  *)
(* of those calls (module NodeCommands).  A handler is therefore one       *)
(* action per registry call, per broadcast and per file write, joined by   *)
(* pc; what touches only the task's own state goes with the call it        *)
(* precedes.                                                               *)
(*                                                                         *)
(* known is the key set of the registry's map, available the known nodes   *)
(* whose entry says available, attrs the attribute cache.  Time is         *)
(* abstract: a sleeping timer may fire at any moment.                      *)
(***************************************************************************)
EXTENDS Naturals, Sequences, FiniteSets

CONSTANTS
  Node,         \* node ids
  Path,         \* attribute paths
  Value,        \* attribute values
  Payload,      \* payloads of a device's own events
  HistorySize,  \* EVENT_HISTORY_SIZE
  Provisioned,  \* the sets of node files the first start may find
  Budget,       \* bound: how many stack events of each kind are produced,
                \* as a set of alternatives
  MaxQueue      \* bound: stack events waiting in rx at once

Kinds == {"Connected", "Reconnecting", "PrimingSnapshot", "AttributesChanged",
          "NodeEvent"}

ASSUME HistorySizeAssumption == HistorySize \in Nat \ {0}

ASSUME ProvisionedAssumption == Provisioned \subseteq SUBSET Node

ASSUME BudgetAssumption == Budget \subseteq [Kinds -> Nat]

Attrs == [Path -> Value]

Change == [path : Path, value : Value]

StackEvent ==
  [kind : {"Connected", "Reconnecting"}, node : Node]
    \cup [kind : {"PrimingSnapshot"}, node : Node, attributes : Attrs]
    \cup [kind : {"AttributesChanged"}, node : Node, changes : Seq(Change) \ {<<>>}]
    \cup [kind : {"NodeEvent"}, node : Node, event : Payload]

GraceExpired == [kind : {"GraceExpired"}, node : Node]

Idle == [kind |-> "Idle"]

NodeSnapshot == [available : BOOLEAN, attributes : Attrs]

NoSnapshot == [none |-> TRUE]

TimerTask == [node : Node, id : Nat \ {0}]

VARIABLES
  \* the registry
  known, available, attrs,
  \* the storage: which node files exist, what they hold
  files, file,
  \* the consumer: its two channels, its timer map (0: no entry), the event
  \* history it shares, and the local state of the handler that is running
  rx, closed, graceRx, graceTimers, history, pc, cur, idx, snap,
  \* the grace timer tasks still asleep, and the name of the next one
  sleeping, nextTimer,
  \* what a subscriber of the broadcast channel makes of the messages
  seen, seenAvailable, seenAttrs, eventLog,
  \* for the bound and the properties: what is left of Budget, the last link
  \* state the stack reported, the nodes whose last write failed
  budget, link, unsaved

registryVars == <<known, available, attrs>>
storageVars  == <<files, file, unsaved>>
timerVars    == <<graceTimers, sleeping, nextTimer, graceRx>>
localVars    == <<pc, cur, idx, snap>>
busVars      == <<seen, seenAvailable, seenAttrs, eventLog>>
stackVars    == <<rx, closed, budget, link>>

vars == <<registryVars, storageVars, timerVars, localVars, busVars, stackVars,
          history>>

Pcs == {"select", "handle", "announce", "broadcast", "persist", "save", "emit",
        "send", "stopped"}

(* What the running handler may rely on at each of its steps.              *)
ControlOK ==
  /\ pc \in {"select", "stopped"} <=> cur = Idle
  /\ pc \in {"select", "stopped"} => idx = 1
  /\ pc = "handle" => cur.kind \in Kinds
  /\ pc = "announce" => cur.kind = "AttributesChanged"
  /\ pc \in {"handle", "announce"} /\ cur.kind = "AttributesChanged" =>
       idx <= Len(cur.changes)
  /\ pc = "broadcast" => cur.kind = "NodeEvent"
  /\ pc \in {"persist", "save"} => cur.kind \in {"PrimingSnapshot", "AttributesChanged"}
  /\ pc \in {"save", "send"} => snap \in NodeSnapshot

TypeOK ==
  /\ ControlOK
  /\ known \subseteq Node
  /\ available \subseteq known
  /\ attrs \in [Node -> Attrs]
  /\ files \subseteq Node
  /\ file \in [Node -> Attrs]
  /\ rx \in Seq(StackEvent)
  /\ closed \in BOOLEAN
  /\ graceRx \in Seq(TimerTask)
  /\ graceTimers \in [Node -> Nat]
  /\ history \in Seq(Payload)
  /\ pc \in Pcs
  /\ cur \in StackEvent \cup GraceExpired \cup {Idle}
  /\ idx \in Nat \ {0}
  /\ snap \in NodeSnapshot \cup {NoSnapshot}
  /\ sleeping \subseteq TimerTask
  /\ nextTimer \in Nat \ {0}
  /\ seen \subseteq Node
  /\ seenAvailable \subseteq seen
  /\ seenAttrs \in [Node -> Attrs]
  /\ eventLog \in Seq(Payload)
  /\ budget \in [Kinds -> Nat]
  /\ link \in [Node -> {"none", "Connected", "Reconnecting"}]
  /\ unsaved \subseteq Node

(* The controller starts from the files on disk: Registry::new gives every *)
(* loaded record the availability false, and a subscriber starts from a    *)
(* snapshot of that registry.                                              *)
Init ==
  /\ files \in Provisioned
  /\ \E a \in Attrs : file = [n \in Node |-> a]
  /\ known = files /\ available = {} /\ attrs = file
  /\ rx = <<>> /\ closed = FALSE
  /\ graceRx = <<>> /\ graceTimers = [n \in Node |-> 0]
  /\ history = <<>>
  /\ pc = "select" /\ cur = Idle /\ idx = 1 /\ snap = NoSnapshot
  /\ sleeping = {} /\ nextTimer = 1
  /\ seen = known /\ seenAvailable = {} /\ seenAttrs = attrs
  /\ eventLog = <<>>
  /\ budget \in Budget
  /\ link = [n \in Node |-> "none"]
  /\ unsaved = {}

-----------------------------------------------------------------------------
(* The environment: the stack's relay appends to rx and may end; a grace    *)
(* timer wakes up.  A timer polled while it is being aborted counts as one  *)
(* that fired before.                                                       *)

(* A report holds one change per path, and at least one.                   *)
Reports ==
  {<<c>> : c \in Change}
    \cup UNION {{<<c, d>> : d \in {e \in Change : e.path # c.path}} : c \in Change}

StackSends(ev) ==
  /\ ~closed
  /\ budget[ev.kind] > 0 /\ Len(rx) < MaxQueue
  /\ rx' = Append(rx, ev)
  /\ budget' = [budget EXCEPT ![ev.kind] = @ - 1]
  /\ link' = IF ev.kind \in {"Connected", "Reconnecting"}
             THEN [link EXCEPT ![ev.node] = ev.kind] ELSE link
  /\ UNCHANGED <<registryVars, storageVars, timerVars, localVars, busVars,
                 closed, history>>

StackReports(n) ==
  \/ \E k \in {"Connected", "Reconnecting"} : StackSends([kind |-> k, node |-> n])
  \/ \E a \in Attrs :
       StackSends([kind |-> "PrimingSnapshot", node |-> n, attributes |-> a])
  \/ \E s \in Reports :
       StackSends([kind |-> "AttributesChanged", node |-> n, changes |-> s])
  \/ \E p \in Payload :
       StackSends([kind |-> "NodeEvent", node |-> n, event |-> p])

StackGone ==
  /\ ~closed
  /\ closed' = TRUE
  /\ UNCHANGED <<registryVars, storageVars, timerVars, localVars, busVars,
                 rx, budget, link, history>>

TimerFires(t) ==
  /\ t \in sleeping
  /\ sleeping' = sleeping \ {t}
  /\ graceRx' = Append(graceRx, t)
  /\ UNCHANGED <<registryVars, storageVars, localVars, busVars, stackVars,
                 history, graceTimers, nextTimer>>

-----------------------------------------------------------------------------
(* The consumer: run, handle_event, handle_grace_expiry.                   *)

Return == pc' = "select" /\ cur' = Idle /\ idx' = 1 /\ snap' = NoSnapshot

Goto(label) == pc' = label /\ UNCHANGED <<cur, idx, snap>>

Handling(kind) == pc = "handle" /\ cur.kind = kind

(* An event of a node the registry does not contain is dropped.            *)
RecvEvent ==
  /\ pc = "select"
  /\ rx # <<>>
  /\ rx' = Tail(rx)
  /\ IF Head(rx).node \in known
     THEN pc' = "handle" /\ cur' = Head(rx) /\ UNCHANGED <<idx, snap>>
     ELSE UNCHANGED localVars
  /\ UNCHANGED <<registryVars, storageVars, timerVars, busVars, closed, budget,
                 link, history>>

(* The channel is closed and drained: the loop ends and aborts the timers  *)
(* its map still holds.                                                    *)
RecvClosed ==
  /\ pc = "select"
  /\ rx = <<>> /\ closed
  /\ pc' = "stopped"
  /\ sleeping' = {t \in sleeping : graceTimers[t.node] # t.id}
  /\ graceTimers' = [n \in Node |-> 0]
  /\ UNCHANGED <<registryVars, storageVars, busVars, stackVars, history, cur,
                 idx, snap, nextTimer, graceRx>>

(* Mutant: the expiry is believed without looking for the map entry.       *)
ExpiryWithoutEntryCheck ==
  /\ pc = "select"
  /\ graceRx # <<>>
  /\ graceRx' = Tail(graceRx)
  /\ LET n == Head(graceRx).node IN
     /\ graceTimers' = [graceTimers EXCEPT ![n] = 0]
     /\ IF n \in available
        THEN /\ available' = available \ {n}
             /\ pc' = "emit"
             /\ cur' = [kind |-> "GraceExpired", node |-> n]
             /\ UNCHANGED <<idx, snap>>
        ELSE UNCHANGED <<available, localVars>>
  /\ UNCHANGED <<known, attrs, storageVars, busVars, stackVars, history,
                 sleeping, nextTimer>>

(* The signal carries only the node id: any entry of that node's will do.  *)
HandleGraceExpiry ==
  /\ pc = "select"
  /\ graceRx # <<>>
  /\ graceRx' = Tail(graceRx)
  /\ LET n == Head(graceRx).node IN
     /\ graceTimers' = [graceTimers EXCEPT ![n] = 0]
     /\ IF graceTimers[n] # 0 /\ n \in available
        THEN /\ available' = available \ {n}
             /\ pc' = "emit"
             /\ cur' = [kind |-> "GraceExpired", node |-> n]
             /\ UNCHANGED <<idx, snap>>
        ELSE UNCHANGED <<available, localVars>>
  /\ UNCHANGED <<known, attrs, storageVars, busVars, stackVars, history,
                 sleeping, nextTimer>>

(* Mutant: the timer is aborted but its map entry stays.                   *)
ConnectedKeepsEntry ==
  /\ Handling("Connected")
  /\ LET n == cur.node IN
     /\ sleeping' = sleeping \ {[node |-> n, id |-> graceTimers[n]]}
     /\ available' = available \cup ({n} \cap known)
     /\ IF n \in known \ available THEN Goto("emit") ELSE Return
  /\ UNCHANGED <<known, attrs, storageVars, busVars, stackVars, history,
                 graceTimers, nextTimer, graceRx>>

(* Mutant: only a node that had a timer is marked available again.         *)
ConnectedOnlyWithTimer ==
  /\ Handling("Connected")
  /\ LET n == cur.node IN
     /\ sleeping' = sleeping \ {[node |-> n, id |-> graceTimers[n]]}
     /\ graceTimers' = [graceTimers EXCEPT ![n] = 0]
     /\ IF graceTimers[n] # 0
        THEN /\ available' = available \cup ({n} \cap known)
             /\ IF n \in known \ available THEN Goto("emit") ELSE Return
        ELSE UNCHANGED available /\ Return
  /\ UNCHANGED <<known, attrs, storageVars, busVars, stackVars, history,
                 nextTimer, graceRx>>

HandleConnected ==
  /\ Handling("Connected")
  /\ LET n == cur.node IN
     /\ sleeping' = sleeping \ {[node |-> n, id |-> graceTimers[n]]}
     /\ graceTimers' = [graceTimers EXCEPT ![n] = 0]
     /\ available' = available \cup ({n} \cap known)
     /\ IF n \in known \ available THEN Goto("emit") ELSE Return
  /\ UNCHANGED <<known, attrs, storageVars, busVars, stackVars, history,
                 nextTimer, graceRx>>

HandleReconnecting ==
  /\ Handling("Reconnecting")
  /\ LET n == cur.node IN
     IF n \in available /\ graceTimers[n] = 0
     THEN /\ graceTimers' = [graceTimers EXCEPT ![n] = nextTimer]
          /\ sleeping' = sleeping \cup {[node |-> n, id |-> nextTimer]}
          /\ nextTimer' = nextTimer + 1
     ELSE UNCHANGED <<graceTimers, sleeping, nextTimer>>
  /\ Return
  /\ UNCHANGED <<registryVars, storageVars, busVars, stackVars, history,
                 graceRx>>

HandlePrimingSnapshot ==
  /\ Handling("PrimingSnapshot")
  /\ attrs' = IF cur.node \in known
              THEN [attrs EXCEPT ![cur.node] = cur.attributes] ELSE attrs
  /\ Goto("persist")
  /\ UNCHANGED <<known, available, storageVars, timerVars, busVars, stackVars,
                 history>>

(* One turn of the loop over the changes: insert, then announce.           *)
HandleChange ==
  /\ Handling("AttributesChanged")
  /\ LET c == cur.changes[idx] IN
     attrs' = IF cur.node \in known
              THEN [attrs EXCEPT ![cur.node] = [@ EXCEPT ![c.path] = c.value]]
              ELSE attrs
  /\ Goto("announce")
  /\ UNCHANGED <<known, available, storageVars, timerVars, busVars, stackVars,
                 history>>

(* Mutant: a report is announced and never persisted.                      *)
AnnounceWithoutPersist ==
  /\ pc = "announce"
  /\ LET c == cur.changes[idx] IN
     seenAttrs' = IF cur.node \in seen
                  THEN [seenAttrs EXCEPT ![cur.node] = [@ EXCEPT ![c.path] = c.value]]
                  ELSE seenAttrs
  /\ IF idx < Len(cur.changes)
     THEN pc' = "handle" /\ idx' = idx + 1 /\ UNCHANGED <<cur, snap>>
     ELSE Return
  /\ UNCHANGED <<registryVars, storageVars, timerVars, stackVars, history,
                 seen, seenAvailable, eventLog>>

AnnounceChange ==
  /\ pc = "announce"
  /\ LET c == cur.changes[idx] IN
     seenAttrs' = IF cur.node \in seen
                  THEN [seenAttrs EXCEPT ![cur.node] = [@ EXCEPT ![c.path] = c.value]]
                  ELSE seenAttrs
  /\ pc' = IF idx < Len(cur.changes) THEN "handle" ELSE "persist"
  /\ idx' = idx + 1
  /\ UNCHANGED <<registryVars, storageVars, timerVars, stackVars, history, cur,
                 snap, seen, seenAvailable, eventLog>>

(* Mutant: the ring is trimmed one event too late.                         *)
HistoryOffByOne ==
  /\ Handling("NodeEvent")
  /\ history' = Append(IF Len(history) > HistorySize THEN Tail(history) ELSE history,
                       cur.event)
  /\ Goto("broadcast")
  /\ UNCHANGED <<registryVars, storageVars, timerVars, busVars, stackVars>>

HandleNodeEvent ==
  /\ Handling("NodeEvent")
  /\ history' = Append(IF Len(history) >= HistorySize THEN Tail(history) ELSE history,
                       cur.event)
  /\ Goto("broadcast")
  /\ UNCHANGED <<registryVars, storageVars, timerVars, busVars, stackVars>>

BroadcastNodeEvent ==
  /\ pc = "broadcast"
  /\ eventLog' = Append(eventLog, cur.event)
  /\ Return
  /\ UNCHANGED <<registryVars, storageVars, timerVars, stackVars, history, seen,
                 seenAvailable, seenAttrs>>

(* Registry::node_data and Registry::snapshot_record.                      *)
Snapshot(n) == [available |-> n \in available, attributes |-> attrs[n]]

(* Mutant: nothing is announced after the save.                            *)
PersistIsTheEnd == Return

(* A priming snapshot is announced after it was persisted.                 *)
AfterPersist ==
  IF cur.kind = "PrimingSnapshot" THEN pc' = "emit" /\ UNCHANGED <<cur, idx, snap>>
  ELSE Return

Persist ==
  /\ pc = "persist"
  /\ IF cur.node \in known
     THEN snap' = Snapshot(cur.node) /\ pc' = "save" /\ UNCHANGED <<cur, idx>>
     ELSE AfterPersist
  /\ UNCHANGED <<registryVars, storageVars, timerVars, busVars, stackVars,
                 history>>

(* Storage::save_node is atomic (temporary file and rename) or fails; a    *)
(* failure is logged and the registry keeps serving.                       *)
WriteFile(n, a) ==
  \/ /\ files' = files \cup {n}
     /\ file' = [file EXCEPT ![n] = a]
     /\ unsaved' = unsaved \ {n}
  \/ /\ unsaved' = unsaved \cup {n}
     /\ UNCHANGED <<files, file>>

SaveNode ==
  /\ pc = "save"
  /\ WriteFile(cur.node, snap.attributes)
  /\ AfterPersist
  /\ UNCHANGED <<registryVars, timerVars, busVars, stackVars, history>>

EmitNodeUpdated ==
  /\ pc = "emit"
  /\ IF cur.node \in known
     THEN snap' = Snapshot(cur.node) /\ pc' = "send" /\ UNCHANGED <<cur, idx>>
     ELSE Return
  /\ UNCHANGED <<registryVars, storageVars, timerVars, busVars, stackVars,
                 history>>

(* What a subscriber does with a node_updated message.                     *)
Publish(n, s) ==
  /\ seen' = seen \cup {n}
  /\ seenAvailable' = IF s.available THEN seenAvailable \cup {n}
                      ELSE seenAvailable \ {n}
  /\ seenAttrs' = [seenAttrs EXCEPT ![n] = s.attributes]
  /\ UNCHANGED eventLog

SendNodeUpdated ==
  /\ pc = "send"
  /\ Publish(cur.node, snap)
  /\ Return
  /\ UNCHANGED <<registryVars, storageVars, timerVars, stackVars, history>>

Consumer ==
  \/ RecvEvent
  \/ RecvClosed
  \/ HandleGraceExpiry
  \/ HandleConnected
  \/ HandleReconnecting
  \/ HandlePrimingSnapshot
  \/ HandleChange
  \/ AnnounceChange
  \/ HandleNodeEvent
  \/ BroadcastNodeEvent
  \/ Persist
  \/ SaveNode
  \/ EmitNodeUpdated
  \/ SendNodeUpdated

Next ==
  \/ \E n \in Node : StackReports(n)
  \/ StackGone
  \/ \E t \in sleeping : TimerFires(t)
  \/ Consumer

(* The runtime keeps polling the consumer task, and time passes.  Nothing  *)
(* obliges the stack to send.                                              *)
Fairness == WF_vars(Consumer) /\ WF_vars(\E t \in sleeping : TimerFires(t))

Spec == Init /\ [][Next]_vars

FairSpec == Spec /\ Fairness
-----------------------------------------------------------------------------
(* No link-state event of node n is waiting or being handled.              *)
StateEvent(ev, n) == ev.kind \in {"Connected", "Reconnecting"} /\ ev.node = n

Quiet(n) ==
  /\ \A i \in DOMAIN rx : ~StateEvent(rx[i], n)
  /\ ~(pc = "handle" /\ StateEvent(cur, n))

(* A node whose last reported link state is Connected is available once    *)
(* that report is handled, whatever expiry signals of earlier outages are  *)
(* still queued: handle_grace_expiry tells a stale signal apart by the     *)
(* missing map entry.                                                      *)
ConnectedIsAvailable ==
  \A n \in known : Quiet(n) /\ link[n] = "Connected" => n \in available

(* An available node whose link is down is always on its way to becoming   *)
(* unavailable: it has an entry in grace_timers, and the task or the       *)
(* queued signal of that very entry exists.                                *)
OutageIsTimed ==
  \A n \in available :
    Quiet(n) /\ link[n] = "Reconnecting" /\ pc # "stopped" =>
      /\ graceTimers[n] # 0
      /\ LET t == [node |-> n, id |-> graceTimers[n]]
         IN t \in sleeping \/ \E i \in DOMAIN graceRx : graceRx[i] = t

(* Between two events the file of every known node holds the attributes    *)
(* the registry serves, unless its last write failed.                      *)
DiskMirrorsRegistry ==
  pc \in {"select", "stopped"} =>
    \A n \in known \ unsaved : n \in files /\ file[n] = attrs[n]

(* The history that diagnostics reports is the tail of the node events     *)
(* that were broadcast, HistorySize of them at most.                       *)
HistoryIsTail ==
  pc \in {"select", "stopped"} =>
    LET k == IF Len(eventLog) < HistorySize THEN Len(eventLog) ELSE HistorySize
    IN history = SubSeq(eventLog, Len(eventLog) - k + 1, Len(eventLog))

(* Clients learn of the link: a node whose link came up becomes available, *)
(* unless the link drops again first, and one whose link stays down        *)
(* becomes unavailable, unless it comes back or the consumer ends with the *)
(* stack.                                                                  *)
AvailabilityFollowsLink ==
  \A n \in Node :
    /\ n \in known /\ link[n] = "Connected"
         ~> n \in available \/ link[n] # "Connected"
    /\ link[n] = "Reconnecting"
         ~> n \notin available \/ link[n] # "Reconnecting" \/ pc = "stopped"

=============================================================================
