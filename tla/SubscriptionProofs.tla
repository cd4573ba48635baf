------------------------- MODULE SubscriptionProofs -------------------------
(* Theorems about Subscription, for every set of nodes and every bound.    *)
(* Fairness plays no part in them.                                         *)
EXTENDS Subscription, SequenceTheorems, TLAPS

-----------------------------------------------------------------------------
(* The inductive invariant.                                                *)

(* Guards and the entries of ctx.subs.  A cancelled guard still stands for *)
(* the node's entry, so a node has at most one guard of either kind.       *)
GuardInv ==
  /\ \A n \in Node : owned[n] # None =>
       owned[n] = subs[n] /\ \A g \in cancelled : g.node # n
  /\ \A g \in cancelled : g.sub = subs[g.node]
  /\ SubscriptionIsOwned /\ SubscribedIsAnnounced

(* The device's own state: what it has told a subscription and what a      *)
(* report in progress holds, against its event log and what was forwarded. *)
DeviceInv(n) ==
  LET d == device[n]
      r == d.report
  IN /\ d.epoch <= d.reboots
     /\ d.sub = None => r = NoReport
     /\ d.sub # None => d.start <= d.sentEvents /\ d.sentEvents <= d.next
     /\ r # NoReport => /\ r.part <= r.parts
                        /\ r.from <= d.sentEvents /\ d.sentEvents <= r.to
                        /\ r.to <= d.next
     /\ d.sub # None => \A e \in d.start..(d.sentEvents - 1) :
                          <<n, d.epoch, e>> \in forwarded
     /\ \A ep \in 0..MaxReboots, e \in 0..MaxEvents : <<n, ep, e>> \in forwarded =>
          ep < d.epoch \/ (ep = d.epoch /\ e < d.next)

(* What the two ends of a subscription know of each other, from the        *)
(* priming on: the device's subscription, if it still believes in one, is  *)
(* the supervisor's; the high-water mark is the last event told; the parts *)
(* collected are those of the report in progress.                          *)
SinkInv(n) ==
  LET d == device[n]
      r == d.report
  IN /\ task[n] = "subscribing" => lastEvent[n] = Unseen /\ pending[n] = <<>>
     /\ task[n] = "accepted" =>
          /\ primed[n] \in [version : Version, sub : SubId] /\ pending[n] = <<>>
          /\ d.sub # None =>
               /\ primed[n].sub = d.sub /\ primed[n].version = d.sentVersion
               /\ r # NoReport => r.part = 1
     /\ task[n] = "watching" /\ d.sub # None =>
          pending[n] = IF r # NoReport /\ r.part = 2 THEN <<1>> ELSE <<>>
     /\ subs[n] # None /\ d.sub # None => subs[n] = d.sub /\ view[n] = d.sentVersion
     /\ task[n] \in {"accepted", "watching"} /\ d.sub # None =>
          /\ lastEvent[n] = d.sentEvents - 1
          /\ \A e \in 0..MaxEvents : <<n, d.epoch, e>> \in forwarded => e < d.sentEvents

Inv ==
  /\ TypeOK /\ GuardInv
  /\ \A n \in Node : DeviceInv(n) /\ SinkInv(n)
  /\ repeated = {} /\ torn = {}

-----------------------------------------------------------------------------
(* Types, in the parts that the groups of variables have.                  *)
ThreadTypeOK ==
  requests \in Seq(Request) /\ serving \in BOOLEAN /\ asked \in 0..MaxRequests

TaskTypeOK ==
  /\ task \in [Node -> Tasks]
  /\ owned \in [Node -> SubId \cup {None}]
  /\ primed \in [Node -> Primed]
  /\ cancelled \subseteq Guard
  /\ \A n \in Node : owned[n] # None <=> task[n] = "watching"

CtxTypeOK ==
  /\ subs \in [Node -> SubId \cup {None}]
  /\ liveness \subseteq Node
  /\ lastEvent \in [Node -> {Unseen} \cup 0..MaxEvents]
  /\ pending \in [Node -> Seq({1, 2})]

OutTypeOK ==
  /\ link \in [Node -> {"none", "Connected", "Reconnecting"}]
  /\ view \in [Node -> {Unseen} \cup Version]
  /\ forwarded \subseteq Node \X (0..MaxReboots) \X (0..MaxEvents)
  /\ repeated \subseteq forwarded
  /\ torn \subseteq Node

EnvTypeOK == device \in [Node -> Device] /\ faults \in 0..MaxFaults

LEMMA TypeParts ==
  TypeOK <=> ThreadTypeOK /\ TaskTypeOK /\ CtxTypeOK /\ OutTypeOK /\ EnvTypeOK
  BY DEF TypeOK, ThreadTypeOK, TaskTypeOK, CtxTypeOK, OutTypeOK, EnvTypeOK

LEMMA TypePartsNext ==
  ASSUME ThreadTypeOK', TaskTypeOK', CtxTypeOK', OutTypeOK', EnvTypeOK'
  PROVE  TypeOK'
  BY DEF TypeOK, ThreadTypeOK, TaskTypeOK, CtxTypeOK, OutTypeOK, EnvTypeOK

(* A group that a step leaves alone keeps its types.                       *)
LEMMA SameThread == ThreadTypeOK /\ UNCHANGED threadVars => ThreadTypeOK'
  BY DEF ThreadTypeOK, threadVars

LEMMA SameTask == TaskTypeOK /\ UNCHANGED taskVars => TaskTypeOK'
  BY DEF TaskTypeOK, taskVars

LEMMA SameCtx == CtxTypeOK /\ UNCHANGED ctxVars => CtxTypeOK'
  BY DEF CtxTypeOK, ctxVars

LEMMA SameOut == OutTypeOK /\ UNCHANGED outVars => OutTypeOK'
  BY DEF OutTypeOK, outVars

LEMMA SameEnv == EnvTypeOK /\ UNCHANGED envVars => EnvTypeOK'
  BY DEF EnvTypeOK, envVars

LEMMA NoneIsNoId == None \notin SubId
  BY SubIdAssumption DEF None

(* The fields of a device and of its report.                               *)
LEMMA DeviceFields ==
  ASSUME NEW d \in Device
  PROVE  /\ d.up \in BOOLEAN /\ d.version \in Version /\ d.next \in 0..MaxEvents
         /\ d.epoch \in 0..MaxReboots /\ d.reboots \in 0..MaxReboots
         /\ d.sub \in SubId \cup {None} /\ d.sentVersion \in Version
         /\ d.start \in 0..MaxEvents /\ d.sentEvents \in 0..MaxEvents
         /\ d.report \in Report \cup {NoReport}
  BY DEF Device

LEMMA ReportFields ==
  ASSUME NEW r \in Report \cup {NoReport}, r # NoReport
  PROVE  /\ r.parts \in {1, 2} /\ r.part \in {1, 2} /\ r.version \in Version \cup {Unseen}
         /\ r.from \in 0..MaxEvents /\ r.to \in 0..MaxEvents
  BY DEF Report

(* What the three kinds of change make of a device.                        *)
LEMMA RefusedDevice ==
  ASSUME NEW d \in Device
  PROVE  /\ Refused(d) \in Device
         /\ Refused(d).sub = None /\ Refused(d).report = NoReport
         /\ Refused(d).epoch = d.epoch /\ Refused(d).reboots = d.reboots
         /\ Refused(d).next = d.next /\ Refused(d).up = d.up
         /\ Refused(d).version = d.version
  BY DEF Device, Refused

LEMMA PartAccepted ==
  ASSUME NEW d \in Device, d.report # NoReport, d.report.part < d.report.parts
  PROVE  /\ Accepted(d) \in Device
         /\ Accepted(d).sub = d.sub /\ Accepted(d).epoch = d.epoch
         /\ Accepted(d).reboots = d.reboots /\ Accepted(d).next = d.next
         /\ Accepted(d).start = d.start /\ Accepted(d).sentEvents = d.sentEvents
         /\ Accepted(d).sentVersion = d.sentVersion
         /\ Accepted(d).report # NoReport
         /\ d.report.part = 1 /\ Accepted(d).report.part = 2
         /\ Accepted(d).report.parts = d.report.parts
         /\ Accepted(d).report.from = d.report.from /\ Accepted(d).report.to = d.report.to
<1>1. d.report \in Report
  BY DeviceFields
<1>2. [d.report EXCEPT !.part = @ + 1] \in Report
  BY <1>1 DEF Report
<1>3. Accepted(d) = [d EXCEPT !.report = [d.report EXCEPT !.part = @ + 1]]
  BY <1>1 DEF Accepted, Device
<1>4. QED
  BY <1>1, <1>2, <1>3 DEF Device, Report, NoReport

LEMMA ReportAccepted ==
  ASSUME NEW d \in Device, d.report # NoReport, ~(d.report.part < d.report.parts)
  PROVE  /\ Accepted(d) \in Device
         /\ Accepted(d).sub = d.sub /\ Accepted(d).epoch = d.epoch
         /\ Accepted(d).reboots = d.reboots /\ Accepted(d).next = d.next
         /\ Accepted(d).start = d.start /\ Accepted(d).sentEvents = d.report.to
         /\ Accepted(d).sentVersion = IF d.report.version = Unseen THEN d.sentVersion
                                      ELSE d.report.version
         /\ Accepted(d).report = NoReport
<1>1. d.report \in Report
  BY DeviceFields
<1>2. /\ d.report.to \in 0..MaxEvents
      /\ (IF d.report.version = Unseen THEN d.sentVersion ELSE d.report.version) \in Version
  BY <1>1 DEF Report, Device
<1>3. Accepted(d) = [d EXCEPT !.report = NoReport, !.sentEvents = d.report.to,
                       !.sentVersion = IF d.report.version = Unseen THEN d.sentVersion
                                       ELSE d.report.version]
  BY DEF Accepted, Device
<1>4. QED
  BY <1>2, <1>3 DEF Device

-----------------------------------------------------------------------------
(* A node whose part of the state a step leaves alone.                     *)
NodeSame(m) ==
  /\ task'[m] = task[m] /\ primed'[m] = primed[m] /\ subs'[m] = subs[m]
  /\ lastEvent'[m] = lastEvent[m] /\ pending'[m] = pending[m]
  /\ view'[m] = view[m] /\ device'[m] = device[m]
  /\ \A ep \in 0..MaxReboots, e \in 0..MaxEvents :
       <<m, ep, e>> \in forwarded' <=> <<m, ep, e>> \in forwarded

LEMMA DeviceKept ==
  ASSUME NEW m \in Node, EnvTypeOK, DeviceInv(m), device'[m] = device[m],
         forwarded' = forwarded
  PROVE  DeviceInv(m)'
  BY DEF DeviceInv

LEMMA SameNode ==
  ASSUME NEW m \in Node, EnvTypeOK, DeviceInv(m), SinkInv(m), NodeSame(m)
  PROVE  DeviceInv(m)' /\ SinkInv(m)'
<1> DEFINE d == device[m]
<1>1. /\ d.epoch \in 0..MaxReboots
      /\ \A e \in d.start..(d.sentEvents - 1) : e \in 0..MaxEvents
  BY DeviceFields, BoundsAssumption DEF EnvTypeOK
<1>2. DeviceInv(m)'
  BY <1>1 DEF DeviceInv, NodeSame
<1>3. SinkInv(m)'
  BY <1>1 DEF SinkInv, NodeSame
<1>4. QED
  BY <1>2, <1>3

(* Guards that are cancelled take the place of those that were owned.      *)
Cancels(ns) ==
  /\ cancelled' = cancelled \cup GuardsOf(ns)
  /\ owned' = [n \in Node |-> IF n \in ns THEN None ELSE owned[n]]
  /\ \A n \in Node : task'[n] # "watching" \/ (n \notin ns /\ task[n] = "watching")
  /\ \A n \in Node : n \notin ns => task'[n] = task[n]

LEMMA CancelGuards ==
  ASSUME NEW ns \in SUBSET Node, TaskTypeOK, CtxTypeOK, GuardInv, Cancels(ns),
         UNCHANGED <<subs, liveness, link>>
  PROVE  /\ GuardInv' /\ cancelled' \subseteq Guard
         /\ \A n \in Node : owned'[n] # None <=> task'[n] = "watching"
         /\ owned' \in [Node -> SubId \cup {None}]
<1>1. \A g \in GuardsOf(ns) : \E n \in ns :
        owned[n] # None /\ g = [node |-> n, sub |-> owned[n]]
  BY DEF GuardsOf
<1>2. \A n \in ns : owned[n] # None => [node |-> n, sub |-> owned[n]] \in GuardsOf(ns)
  BY DEF GuardsOf
<1>3. \A g \in GuardsOf(ns) : g \in Guard /\ g.node \in ns /\ g.sub = owned[g.node]
                                /\ owned[g.node] # None
  BY <1>1 DEF TaskTypeOK, Guard
<1>4. cancelled' \subseteq Guard /\ owned' \in [Node -> SubId \cup {None}]
  BY <1>3 DEF TaskTypeOK, Cancels
<1>5. \A n \in Node : owned'[n] # None <=> task'[n] = "watching"
  BY DEF TaskTypeOK, Cancels
<1>6. \A n \in Node : owned'[n] # None =>
        owned'[n] = subs'[n] /\ \A g \in cancelled' : g.node # n
  BY <1>3 DEF Cancels, GuardInv
<1>7. \A g \in cancelled' : g.sub = subs'[g.node]
  BY <1>3 DEF Cancels, GuardInv
<1>8. SubscriptionIsOwned'
  BY <1>2 DEF Cancels, GuardInv, SubscriptionIsOwned
<1>9. SubscribedIsAnnounced'
  BY DEF GuardInv, SubscribedIsAnnounced
<1>10. QED
  BY <1>4, <1>5, <1>6, <1>7, <1>8, <1>9 DEF GuardInv

(* A node without a guard has no entry in ctx.subs.                        *)
LEMMA PolledHasNone ==
  ASSUME NEW n \in Node, TaskTypeOK, GuardInv, task[n] # "watching",
         \A g \in cancelled : g.node # n
  PROVE  subs[n] = None /\ owned[n] = None /\ n \notin liveness
<1>1. owned[n] = None
  BY DEF TaskTypeOK
<1>2. [node |-> n, sub |-> subs[n]] \notin cancelled
  BY Zenon
<1>3. QED
  BY <1>1, <1>2 DEF GuardInv, SubscriptionIsOwned

-----------------------------------------------------------------------------
(* request_loop.                                                           *)
LEMMA NextRequestType ==
  ASSUME NEW op, ThreadTypeOK, NextRequest(op)
  PROVE  /\ requests' \in Seq(Request) /\ Head(requests).node \in Node
         /\ asked' \in 0..MaxRequests
<1>1. Head(requests) \in Request /\ Tail(requests) \in Seq(Request)
  BY DEF ThreadTypeOK, NextRequest
<1>2. QED
  BY <1>1 DEF ThreadTypeOK, NextRequest, Request

LEMMA AskInv ==
  ASSUME Inv, NEW op \in {"start", "stop", "shutdown"}, NEW n \in Node, Ask(op, n)
  PROVE  Inv'
<1>1. [op |-> op, node |-> n] \in Request
  BY DEF Request
<1>2. ThreadTypeOK'
  BY <1>1, TypeParts, BoundsAssumption DEF Inv, Ask, ThreadTypeOK
<1>3. TypeOK'
  BY <1>2, TypeParts, TypePartsNext, SameTask, SameCtx, SameOut, SameEnv DEF Inv, Ask
<1>4. GuardInv' /\ repeated' = {} /\ torn' = {}
  BY DEF Inv, Ask, GuardInv, SubscriptionIsOwned, SubscribedIsAnnounced, taskVars, ctxVars,
         outVars
<1>5. \A m \in Node : NodeSame(m)
  BY DEF Ask, NodeSame, taskVars, ctxVars, outVars, envVars
<1>6. QED
  BY <1>3, <1>4, <1>5, SameNode, TypeParts DEF Inv

LEMMA StartInv == ASSUME Inv, StartSupervisor PROVE Inv'
<1> DEFINE n == Head(requests).node
<1>1. ThreadTypeOK' /\ n \in Node
  BY NextRequestType, TypeParts DEF Inv, StartSupervisor, ThreadTypeOK
<1> HIDE DEF n
<1>2. /\ task' = [task EXCEPT ![n] = "spawned"] /\ primed' = [primed EXCEPT ![n] = NoReport]
      /\ cancelled' = cancelled \cup GuardsOf({n}) /\ owned' = [owned EXCEPT ![n] = None]
      /\ UNCHANGED <<ctxVars, outVars, envVars>>
  BY DEF StartSupervisor, n
<1>3. Cancels({n})
  BY <1>1, <1>2, TypeParts DEF Inv, TaskTypeOK, Cancels
<1>4. GuardInv' /\ TaskTypeOK'
  BY <1>1, <1>2, <1>3, CancelGuards, TypeParts
     DEF Inv, TaskTypeOK, Tasks, Primed, ctxVars, outVars
<1>5. TypeOK'
  BY <1>1, <1>2, <1>4, TypeParts, TypePartsNext, SameCtx, SameOut, SameEnv DEF Inv
<1>6. ASSUME NEW m \in Node PROVE DeviceInv(m)' /\ SinkInv(m)'
  <2>1. CASE m # n
    BY <1>1, <1>2, <2>1, SameNode, TypeParts
       DEF Inv, TaskTypeOK, NodeSame, ctxVars, outVars, envVars
  <2>2. CASE m = n
    BY <1>1, <1>2, <2>2, DeviceKept, TypeParts
       DEF Inv, TaskTypeOK, SinkInv, ctxVars, outVars, envVars
  <2>3. QED
    BY <2>1, <2>2
<1>7. QED
  BY <1>2, <1>4, <1>5, <1>6 DEF Inv, outVars

LEMMA StopInv == ASSUME Inv, StopSupervisor PROVE Inv'
<1> DEFINE n == Head(requests).node
<1>1. ThreadTypeOK' /\ n \in Node
  BY NextRequestType, TypeParts DEF Inv, StopSupervisor, ThreadTypeOK
<1> HIDE DEF n
<1>2. /\ task' = [task EXCEPT ![n] = "none"] /\ primed' = [primed EXCEPT ![n] = NoReport]
      /\ cancelled' = cancelled \cup GuardsOf({n}) /\ owned' = [owned EXCEPT ![n] = None]
      /\ lastEvent' = [lastEvent EXCEPT ![n] = Unseen]
      /\ pending' = [pending EXCEPT ![n] = <<>>]
      /\ UNCHANGED <<subs, liveness, outVars, envVars>>
  BY DEF StopSupervisor, n
<1>3. Cancels({n})
  BY <1>1, <1>2, TypeParts DEF Inv, TaskTypeOK, Cancels
<1>4. GuardInv' /\ TaskTypeOK'
  BY <1>1, <1>2, <1>3, CancelGuards, TypeParts
     DEF Inv, TaskTypeOK, Tasks, Primed, outVars
<1>5. CtxTypeOK'
  <2>1. <<>> \in Seq({1, 2})
    OBVIOUS
  <2>2. QED
    BY <1>2, <2>1, TypeParts DEF Inv, CtxTypeOK
<1>6. TypeOK'
  BY <1>1, <1>2, <1>4, <1>5, TypeParts, TypePartsNext, SameOut, SameEnv DEF Inv
<1>7. ASSUME NEW m \in Node PROVE DeviceInv(m)' /\ SinkInv(m)'
  <2>1. CASE m # n
    BY <1>1, <1>2, <2>1, SameNode, TypeParts
       DEF Inv, TaskTypeOK, CtxTypeOK, NodeSame, outVars, envVars
  <2>2. CASE m = n
    BY <1>1, <1>2, <2>2, DeviceKept, TypeParts
       DEF Inv, TaskTypeOK, SinkInv, outVars, envVars
  <2>3. QED
    BY <2>1, <2>2
<1>8. QED
  BY <1>2, <1>4, <1>6, <1>7 DEF Inv, outVars

LEMMA ShutdownInv == ASSUME Inv, Shutdown PROVE Inv'
<1>1. ThreadTypeOK'
  BY NextRequestType, TypeParts DEF Inv, Shutdown, ThreadTypeOK
<1>2. Cancels(Node)
  BY DEF Shutdown, Cancels
<1>3. GuardInv' /\ TaskTypeOK'
  BY <1>2, CancelGuards, TypeParts
     DEF Inv, Shutdown, TaskTypeOK, Tasks, Primed, ctxVars, outVars
<1>4. TypeOK'
  BY <1>1, <1>3, TypeParts, TypePartsNext, SameCtx, SameOut, SameEnv DEF Inv, Shutdown
<1>5. ASSUME NEW m \in Node PROVE DeviceInv(m)' /\ SinkInv(m)'
  BY DeviceKept, TypeParts DEF Inv, Shutdown, SinkInv, ctxVars, outVars, envVars
<1>6. QED
  BY <1>3, <1>4, <1>5 DEF Inv, Shutdown, outVars

(* The guard of a node is released: the one that stands for its entry.     *)
LEMMA ReleaseGuard ==
  ASSUME TaskTypeOK, CtxTypeOK, GuardInv, NEW g \in Guard, g.sub = subs[g.node], Release(g),
         UNCHANGED cancelled \/ cancelled' = cancelled \ {g},
         owned' = [owned EXCEPT ![g.node] = None],
         \A h \in cancelled' : h.node # g.node,
         \A m \in Node : m # g.node => link'[m] = link[m],
         UNCHANGED <<lastEvent, pending>>
  PROVE  GuardInv' /\ CtxTypeOK'
<1>1. g.node \in Node /\ g.sub \in SubId
  BY DEF Guard
<1>2. subs' = [subs EXCEPT ![g.node] = None] /\ liveness' = liveness \ {g.node}
  BY DEF Release
<1>3. CtxTypeOK'
  BY <1>1, <1>2 DEF CtxTypeOK
<1>4. \A n \in Node : owned'[n] # None =>
        owned'[n] = subs'[n] /\ \A h \in cancelled' : h.node # n
  BY <1>1, <1>2 DEF GuardInv, TaskTypeOK, CtxTypeOK
<1>5. \A h \in cancelled' : h.sub = subs'[h.node]
  BY <1>1, <1>2 DEF GuardInv, TaskTypeOK, CtxTypeOK, Guard
<1>6. SubscriptionIsOwned'
  <2> SUFFICES ASSUME NEW n \in Node
               PROVE  /\ subs'[n] # None =>
                           owned'[n] = subs'[n] \/ [node |-> n, sub |-> subs'[n]] \in cancelled'
                      /\ n \in liveness' <=> subs'[n] # None
    BY DEF SubscriptionIsOwned
  <2>1. CASE n = g.node
    BY <1>1, <1>2, <2>1 DEF CtxTypeOK
  <2>2. CASE n # g.node
    <3>1. subs'[n] = subs[n] /\ owned'[n] = owned[n] /\ (n \in liveness' <=> n \in liveness)
      BY <1>1, <1>2, <2>2 DEF CtxTypeOK, TaskTypeOK
    <3>2. [node |-> n, sub |-> subs[n]] # g
      BY <2>2
    <3>3. [node |-> n, sub |-> subs[n]] \in cancelled =>
            [node |-> n, sub |-> subs[n]] \in cancelled'
      BY <3>2
    <3>4. QED
      BY <3>1, <3>3 DEF GuardInv, SubscriptionIsOwned
  <2>3. QED
    BY <2>1, <2>2
<1>7. SubscribedIsAnnounced'
  BY <1>1, <1>2 DEF GuardInv, SubscribedIsAnnounced, CtxTypeOK
<1>8. QED
  BY <1>3, <1>4, <1>5, <1>6, <1>7 DEF GuardInv

LEMMA DropInv == ASSUME Inv, NEW g \in cancelled, DropCancelled(g) PROVE Inv'
<1>1. TaskTypeOK /\ CtxTypeOK /\ GuardInv
  BY TypeParts DEF Inv
<1>2. g \in Guard /\ g.node \in Node /\ g.sub = subs[g.node] /\ owned[g.node] = None
  BY <1>1 DEF TaskTypeOK, GuardInv, Guard
<1>3. \A h \in cancelled' : h.node # g.node
  <2> SUFFICES ASSUME NEW h \in cancelled, h # g, h.node = g.node PROVE FALSE
    BY DEF DropCancelled
  <2>1. h \in Guard /\ h.sub = g.sub
    BY <1>1, <1>2 DEF TaskTypeOK, GuardInv
  <2>2. QED
    BY <1>2, <2>1 DEF Guard
<1>4. owned' = [owned EXCEPT ![g.node] = None]
  BY <1>1, <1>2 DEF DropCancelled, TaskTypeOK
<1>5. GuardInv' /\ CtxTypeOK'
  BY <1>1, <1>2, <1>3, <1>4, ReleaseGuard DEF DropCancelled, outVars
<1>6. TaskTypeOK'
  BY <1>1 DEF TaskTypeOK, DropCancelled
<1>7. TypeOK'
  BY <1>5, <1>6, TypeParts, TypePartsNext, SameThread, SameOut, SameEnv
     DEF Inv, DropCancelled
<1>8. ASSUME NEW m \in Node PROVE DeviceInv(m)' /\ SinkInv(m)'
  <2>1. subs'[m] \in {subs[m], None}
    BY <1>1, <1>2 DEF DropCancelled, Release, CtxTypeOK
  <2>2. DeviceInv(m)'
    BY DeviceKept, TypeParts DEF Inv, DropCancelled, outVars, envVars
  <2>3. QED
    BY <2>1, <2>2 DEF Inv, SinkInv, DropCancelled, outVars, envVars
<1>9. QED
  BY <1>5, <1>7, <1>8 DEF Inv, DropCancelled, outVars

-----------------------------------------------------------------------------
(* The supervisor.  Its steps before the priming touch only its own place. *)

(* Nothing the guards are about changes, but for a loss announced of a     *)
(* node that has no entry.                                                 *)
LEMMA SameGuards ==
  ASSUME NEW n \in Node, GuardInv, OutTypeOK, UNCHANGED <<owned, cancelled, subs, liveness>>,
         \A m \in Node : (m = n /\ subs[n] = None) \/ link'[m] = link[m]
  PROVE  GuardInv'
  BY DEF GuardInv, SubscriptionIsOwned, SubscribedIsAnnounced

LEMMA EstablishBeginsInv == ASSUME Inv, NEW n \in Node, EstablishBegins(n) PROVE Inv'
<1> USE TypeParts DEF Inv
<1>1. TaskTypeOK'
  BY DEF EstablishBegins, TaskTypeOK, Tasks
<1>2. CtxTypeOK'
  <2>1. <<>> \in Seq({1, 2})
    OBVIOUS
  <2>2. QED
    BY <2>1 DEF EstablishBegins, CtxTypeOK
<1>3. TypeOK'
  BY <1>1, <1>2, TypePartsNext, SameThread, SameOut, SameEnv DEF EstablishBegins
<1>4. GuardInv'
  BY SameGuards DEF EstablishBegins, outVars
<1>5. ASSUME NEW m \in Node PROVE DeviceInv(m)' /\ SinkInv(m)'
  <2>1. CASE m # n
    BY <2>1, SameNode DEF EstablishBegins, TaskTypeOK, CtxTypeOK, NodeSame, outVars, envVars
  <2>2. CASE m = n
    BY <2>2, DeviceKept DEF EstablishBegins, TaskTypeOK, CtxTypeOK, SinkInv, outVars, envVars
  <2>3. QED
    BY <2>1, <2>2
<1>6. QED
  BY <1>3, <1>4, <1>5 DEF EstablishBegins, outVars

LEMMA FaultType ==
  ASSUME EnvTypeOK, Fault
  PROVE  faults' \in 0..MaxFaults
  BY BoundsAssumption DEF EnvTypeOK, Fault

LEMMA EstablishFailsInv == ASSUME Inv, NEW n \in Node, EstablishFails(n) PROVE Inv'
<1> USE TypeParts DEF Inv
<1>1. /\ \A g \in cancelled : g.node # n
      /\ task[n] \in {"subscribing", "accepted"}
  BY DEF EstablishFails, Polled
<1>2. TaskTypeOK'
  BY <1>1 DEF EstablishFails, TaskTypeOK, Tasks, Primed
<1>3. OutTypeOK'
  BY DEF EstablishFails, OutTypeOK
<1>4. EnvTypeOK'
  BY FaultType DEF EstablishFails, EnvTypeOK
<1>5. TypeOK'
  BY <1>2, <1>3, <1>4, TypePartsNext, SameThread, SameCtx DEF EstablishFails
<1>6. GuardInv'
  <2>1. subs[n] = None
    BY <1>1, PolledHasNone
  <2>2. QED
    BY <2>1, SameGuards DEF EstablishFails, OutTypeOK, ctxVars
<1>7. ASSUME NEW m \in Node PROVE DeviceInv(m)' /\ SinkInv(m)'
  <2>1. CASE m # n
    BY <2>1, SameNode DEF EstablishFails, TaskTypeOK, NodeSame, ctxVars
  <2>2. CASE m = n
    BY <2>2, DeviceKept DEF EstablishFails, TaskTypeOK, SinkInv, ctxVars
  <2>3. QED
    BY <2>1, <2>2
<1>8. QED
  BY <1>5, <1>6, <1>7 DEF EstablishFails

LEMMA BackoffElapsesInv == ASSUME Inv, NEW n \in Node, BackoffElapses(n) PROVE Inv'
<1> USE TypeParts DEF Inv
<1>1. TaskTypeOK'
  BY DEF BackoffElapses, Polled, TaskTypeOK, Tasks
<1>2. TypeOK'
  BY <1>1, TypePartsNext, SameThread, SameCtx, SameOut, SameEnv DEF BackoffElapses
<1>3. GuardInv'
  BY SameGuards DEF BackoffElapses, ctxVars, outVars
<1>4. ASSUME NEW m \in Node PROVE DeviceInv(m)' /\ SinkInv(m)'
  <2>1. CASE m # n
    BY <2>1, SameNode DEF BackoffElapses, TaskTypeOK, NodeSame, ctxVars, outVars, envVars
  <2>2. CASE m = n
    BY <2>2, DeviceKept DEF BackoffElapses, TaskTypeOK, SinkInv, ctxVars, outVars, envVars
  <2>3. QED
    BY <2>1, <2>2
<1>5. QED
  BY <1>2, <1>3, <1>4 DEF BackoffElapses, outVars

LEMMA WatchExpiresInv == ASSUME Inv, NEW n \in Node, WatchExpires(n) PROVE Inv'
<1> USE TypeParts DEF Inv
<1> DEFINE g == [node |-> n, sub |-> owned[n]]
<1>1. /\ \A h \in cancelled : h.node # n
      /\ task[n] = "watching" /\ owned[n] # None /\ owned[n] = subs[n]
  BY DEF WatchExpires, Polled, TaskTypeOK, GuardInv
<1>2. g \in Guard /\ g.sub = subs[g.node] /\ g.node = n
  BY <1>1 DEF TaskTypeOK, Guard
<1>3. TaskTypeOK'
  BY <1>1 DEF WatchExpires, TaskTypeOK, Tasks
<1>4. Release(g)
  BY DEF WatchExpires
<1> HIDE DEF g
<1>5. GuardInv' /\ CtxTypeOK'
  BY <1>1, <1>2, <1>4, ReleaseGuard DEF WatchExpires, OutTypeOK
<1>6. OutTypeOK'
  BY DEF WatchExpires, OutTypeOK
<1>7. EnvTypeOK'
  BY FaultType DEF WatchExpires, EnvTypeOK
<1>8. TypeOK'
  BY <1>3, <1>5, <1>6, <1>7, TypePartsNext, SameThread DEF WatchExpires
<1>9. ASSUME NEW m \in Node PROVE DeviceInv(m)' /\ SinkInv(m)'
  <2>1. CASE m # n
    BY <1>2, <1>4, <2>1, SameNode DEF WatchExpires, Release, TaskTypeOK, CtxTypeOK, NodeSame
  <2>2. CASE m = n
    BY <1>2, <1>4, <2>2, DeviceKept DEF WatchExpires, Release, TaskTypeOK, CtxTypeOK, SinkInv
  <2>3. QED
    BY <2>1, <2>2
<1>10. QED
  BY <1>5, <1>8, <1>9 DEF WatchExpires

LEMMA PrimingReadInv == ASSUME Inv, NEW n \in Node, PrimingRead(n) PROVE Inv'
<1> USE TypeParts DEF Inv
<1> DEFINE d == device[n]
           e(s) == [d EXCEPT !.sub = s, !.sentVersion = d.version, !.start = d.next,
                             !.sentEvents = d.next, !.report = NoReport]
<1>1. PICK s \in SubId :
        /\ primed' = [primed EXCEPT ![n] = [version |-> d.version, sub |-> s]]
        /\ device' = [device EXCEPT ![n] = e(s)]
  BY DEF PrimingRead
<1>2. /\ subs[n] = None /\ task[n] = "subscribing"
      /\ lastEvent[n] = Unseen /\ pending[n] = <<>>
  BY PolledHasNone DEF PrimingRead, Polled, SinkInv
<1>3. d \in Device
  BY DEF EnvTypeOK
<1>4. /\ e(s) \in Device /\ e(s).sub = s /\ e(s).sentVersion = d.version
      /\ e(s).start = d.next /\ e(s).sentEvents = d.next /\ e(s).report = NoReport
      /\ e(s).next = d.next /\ e(s).epoch = d.epoch /\ e(s).reboots = d.reboots
  BY <1>3 DEF Device
<1>5. device'[n] = e(s) /\ \A m \in Node : m # n => device'[m] = device[m]
  BY <1>1 DEF EnvTypeOK
<1>6. d.next \in 0..MaxEvents /\ lastEvent' = [lastEvent EXCEPT ![n] = d.next - 1]
  <2>1. d.next \in 0..MaxEvents
    BY <1>3, DeviceFields
  <2>2. (IF d.next = 0 THEN lastEvent[n] ELSE Higher(lastEvent[n], d.next - 1)) = d.next - 1
    BY <1>2, <2>1 DEF Higher, IsNew, Unseen
  <2>3. QED
    BY <2>1, <2>2 DEF PrimingRead
<1> HIDE DEF e
<1>7. TaskTypeOK'
  <2>1. [version |-> d.version, sub |-> s] \in Primed
    BY <1>3, DeviceFields DEF Primed
  <2>2. QED
    BY <1>1, <1>2, <2>1 DEF PrimingRead, TaskTypeOK, Tasks
<1>8. CtxTypeOK'
  BY <1>6, BoundsAssumption DEF PrimingRead, CtxTypeOK, Unseen
<1>9. EnvTypeOK'
  BY <1>1, <1>4 DEF PrimingRead, EnvTypeOK
<1>10. TypeOK'
  BY <1>7, <1>8, <1>9, TypePartsNext, SameThread, SameOut DEF PrimingRead
<1>11. GuardInv'
  BY SameGuards DEF PrimingRead, outVars
<1>12. DeviceInv(n)'
  BY <1>4, <1>5, <1>6, NoneIsNoId DEF DeviceInv, PrimingRead, outVars
<1>13. SinkInv(n)'
  <2>1. task'[n] = "accepted" /\ subs'[n] = None /\ pending'[n] = <<>>
    BY <1>2 DEF PrimingRead, TaskTypeOK
  <2>2. /\ primed'[n] = [version |-> d.version, sub |-> s]
        /\ primed'[n] \in [version : Version, sub : SubId]
    BY <1>1, <1>3, DeviceFields DEF TaskTypeOK
  <2>3. lastEvent'[n] = d.next - 1
    BY <1>6 DEF CtxTypeOK
  <2>4. \A x \in 0..MaxEvents : <<n, d.epoch, x>> \in forwarded' => x < d.next
    BY <1>3, DeviceFields DEF DeviceInv, PrimingRead, outVars
  <2>5. QED
    BY <1>4, <1>5, <2>1, <2>2, <2>3, <2>4 DEF SinkInv
<1>14. ASSUME NEW m \in Node, m # n PROVE DeviceInv(m)' /\ SinkInv(m)'
  BY <1>1, <1>5, <1>6, <1>14, SameNode
     DEF PrimingRead, TaskTypeOK, CtxTypeOK, NodeSame, outVars
<1>15. QED
  BY <1>10, <1>11, <1>12, <1>13, <1>14 DEF PrimingRead, outVars

LEMMA EstablishedInv == ASSUME Inv, NEW n \in Node, Established(n) PROVE Inv'
<1> USE TypeParts DEF Inv
<1> DEFINE p == primed[n]
<1>1. /\ \A g \in cancelled : g.node # n
      /\ task[n] = "accepted" /\ owned[n] = None
  BY DEF Established, Polled, TaskTypeOK
<1>2. p \in [version : Version, sub : SubId] /\ pending[n] = <<>>
  BY <1>1 DEF SinkInv
<1>3. p.version \in Version /\ p.sub \in SubId /\ p.sub # None
  BY <1>2, NoneIsNoId
<1>4. /\ subs' = [subs EXCEPT ![n] = p.sub] /\ owned' = [owned EXCEPT ![n] = p.sub]
      /\ view' = [view EXCEPT ![n] = p.version] /\ task' = [task EXCEPT ![n] = "watching"]
      /\ primed' = [primed EXCEPT ![n] = NoReport] /\ link' = [link EXCEPT ![n] = "Connected"]
      /\ liveness' = liveness \cup {n}
      /\ UNCHANGED <<threadVars, cancelled, lastEvent, pending, forwarded, repeated,
                     torn, envVars>>
  BY DEF Established
<1> HIDE DEF p
<1>5. TaskTypeOK'
  BY <1>3, <1>4 DEF TaskTypeOK, Tasks, Primed
<1>6. CtxTypeOK' /\ OutTypeOK'
  BY <1>3, <1>4 DEF CtxTypeOK, OutTypeOK
<1>7. TypeOK'
  BY <1>4, <1>5, <1>6, TypePartsNext, SameThread, SameEnv
<1>8. GuardInv'
  <2>1. \A m \in Node : owned'[m] # None =>
          owned'[m] = subs'[m] /\ \A g \in cancelled' : g.node # m
    BY <1>1, <1>4 DEF GuardInv, TaskTypeOK, CtxTypeOK
  <2>2. \A g \in cancelled' : g.sub = subs'[g.node]
    BY <1>1, <1>4 DEF GuardInv, TaskTypeOK, CtxTypeOK, Guard
  <2>3. SubscriptionIsOwned'
    BY <1>1, <1>3, <1>4 DEF GuardInv, TaskTypeOK, CtxTypeOK, SubscriptionIsOwned
  <2>4. SubscribedIsAnnounced'
    BY <1>4 DEF GuardInv, CtxTypeOK, OutTypeOK, SubscribedIsAnnounced
  <2>5. QED
    BY <2>1, <2>2, <2>3, <2>4 DEF GuardInv
<1>9. ASSUME NEW m \in Node, m # n PROVE DeviceInv(m)' /\ SinkInv(m)'
  BY <1>4, <1>9, SameNode DEF TaskTypeOK, CtxTypeOK, OutTypeOK, NodeSame, envVars
<1>10. DeviceInv(n)'
  BY <1>4, DeviceKept DEF envVars
<1>11. SinkInv(n)'
  <2>1. /\ task'[n] = "watching" /\ subs'[n] = p.sub /\ view'[n] = p.version
        /\ device' = device /\ lastEvent' = lastEvent /\ pending'[n] = <<>>
        /\ forwarded' = forwarded
    BY <1>2, <1>4 DEF TaskTypeOK, CtxTypeOK, OutTypeOK, envVars
  <2>2. /\ device[n].sub # None => p.sub = device[n].sub /\ p.version = device[n].sentVersion
        /\ device[n].sub # None /\ device[n].report # NoReport => device[n].report.part = 1
    BY <1>1 DEF SinkInv, p
  <2>3. device[n].sub # None =>
          /\ lastEvent[n] = device[n].sentEvents - 1
          /\ \A e \in 0..MaxEvents :
               <<n, device[n].epoch, e>> \in forwarded => e < device[n].sentEvents
    BY <1>1 DEF SinkInv
  <2>4. QED
    BY <2>1, <2>2, <2>3 DEF SinkInv
<1>12. QED
  BY <1>4, <1>7, <1>8, <1>9, <1>10, <1>11

LEMMA SupervisorInv == ASSUME Inv, NEW n \in Node, Supervisor(n) PROVE Inv'
  BY EstablishBeginsInv, PrimingReadInv, EstablishedInv, EstablishFailsInv, BackoffElapsesInv,
     WatchExpiresInv DEF Supervisor

-----------------------------------------------------------------------------
(* The devices.  What a device does by itself touches nothing else.        *)
LEMMA BecomeInv ==
  ASSUME Inv, NEW n \in Node, NEW d \in Device, Become(n, d), faults' \in 0..MaxFaults,
         DeviceInv(n)', SinkInv(n)'
  PROVE  Inv'
<1> USE TypeParts DEF Inv
<1>1. EnvTypeOK'
  BY DEF Become, EnvTypeOK
<1>2. TypeOK'
  BY <1>1, TypePartsNext, SameThread, SameTask, SameCtx, SameOut DEF Become
<1>3. GuardInv'
  BY SameGuards DEF Become, taskVars, ctxVars, outVars
<1>4. ASSUME NEW m \in Node, m # n PROVE DeviceInv(m)' /\ SinkInv(m)'
  BY <1>4, SameNode DEF Become, EnvTypeOK, NodeSame, taskVars, ctxVars, outVars
<1>5. QED
  BY <1>2, <1>3, <1>4 DEF Become, outVars

(* A device that gives up its subscription.                                *)
LEMMA GiveUpInv ==
  ASSUME Inv, NEW n \in Node, NEW d \in Device, Become(n, d), faults' \in 0..MaxFaults,
         d.sub = None, d.report = NoReport, d.epoch <= d.reboots,
         \/ d.epoch = device[n].epoch /\ d.next = device[n].next
         \/ d.epoch = device[n].epoch + 1
  PROVE  Inv'
<1> USE TypeParts DEF Inv
<1>1. device'[n] = d /\ UNCHANGED <<taskVars, ctxVars, outVars>>
  BY DEF Become, EnvTypeOK
<1>2. DeviceInv(n)'
  <2>1. device[n].epoch \in 0..MaxReboots
    BY DeviceFields DEF EnvTypeOK
  <2>2. QED
    BY <1>1, <2>1, BoundsAssumption DEF DeviceInv, outVars
<1>3. SinkInv(n)'
  BY <1>1 DEF SinkInv, taskVars, ctxVars, outVars
<1>4. QED
  BY <1>2, <1>3, BecomeInv

(* A device that keeps it: it may change, and may begin a report when      *)
(* there is none.                                                          *)
LEMMA KeepInv ==
  ASSUME Inv, NEW n \in Node, NEW d \in Device, Become(n, d), faults' \in 0..MaxFaults,
         d.sub = device[n].sub, d.epoch = device[n].epoch, d.reboots = device[n].reboots,
         d.start = device[n].start, d.sentEvents = device[n].sentEvents,
         d.sentVersion = device[n].sentVersion, d.next >= device[n].next,
         \/ d.report = device[n].report
         \/ /\ device[n].report = NoReport /\ d.sub # None /\ d.report # NoReport
            /\ d.report.part = 1 /\ d.report.from <= d.sentEvents /\ d.report.to = d.next
  PROVE  Inv'
<1> USE TypeParts DEF Inv
<1> DEFINE o == device[n]
<1>1. device'[n] = d /\ UNCHANGED <<taskVars, ctxVars, outVars>>
  BY DEF Become, EnvTypeOK
<1>2. /\ o \in Device /\ o.next \in 0..MaxEvents /\ o.sentEvents \in 0..MaxEvents
      /\ o.epoch \in 0..MaxReboots
      /\ d.next \in 0..MaxEvents /\ d.report \in Report \cup {NoReport}
      /\ d.report # NoReport => d.report.parts \in {1, 2} /\ d.report.to \in 0..MaxEvents
  BY DeviceFields, ReportFields DEF EnvTypeOK
<1>3. DeviceInv(n) /\ SinkInv(n)
  OBVIOUS
<1>4. DeviceInv(n)'
  <2>1. /\ d.epoch <= d.reboots /\ (d.sub = None => d.report = NoReport)
        /\ d.sub # None => d.start <= d.sentEvents /\ d.sentEvents <= d.next
    BY <1>2, <1>3, BoundsAssumption DEF DeviceInv
  <2>2. d.report # NoReport =>
          /\ d.report.part <= d.report.parts
          /\ d.report.from <= d.sentEvents /\ d.sentEvents <= d.report.to
          /\ d.report.to <= d.next
    BY <1>2, <1>3, BoundsAssumption DEF DeviceInv
  <2>3. d.sub # None => \A e \in d.start..(d.sentEvents - 1) : <<n, d.epoch, e>> \in forwarded
    BY <1>3 DEF DeviceInv
  <2>4. \A ep \in 0..MaxReboots, e \in 0..MaxEvents : <<n, ep, e>> \in forwarded =>
          ep < d.epoch \/ (ep = d.epoch /\ e < d.next)
    BY <1>2, <1>3, BoundsAssumption DEF DeviceInv
  <2>5. QED
    BY <1>1, <2>1, <2>2, <2>3, <2>4 DEF DeviceInv, outVars
<1>5. SinkInv(n)'
  BY <1>1, <1>3 DEF SinkInv, taskVars, ctxVars, outVars
<1>6. QED
  BY <1>4, <1>5, BecomeInv

LEMMA EnvironmentInv == ASSUME Inv, NEW n \in Node, Environment(n) PROVE Inv'
<1> DEFINE d == device[n]
<1>1. EnvTypeOK /\ DeviceInv(n) /\ d \in Device /\ faults \in 0..MaxFaults
  BY TypeParts DEF Inv, EnvTypeOK
<1>2. /\ d.version \in Version /\ d.next \in 0..MaxEvents /\ d.epoch \in 0..MaxReboots
      /\ d.reboots \in 0..MaxReboots /\ d.sub \in SubId \cup {None}
      /\ d.sentEvents \in 0..MaxEvents
  BY <1>1, DeviceFields
<1> HIDE DEF d
<1>3. CASE DeviceChanges(n)
  <2>1. faults' = faults
    BY <1>3 DEF DeviceChanges
  <2>2. CASE d.version < MaxVersion /\ Become(n, [d EXCEPT !.version = @ + 1])
    <3> DEFINE e == [d EXCEPT !.version = @ + 1]
    <3>1. d.version + 1 \in Version
      BY <1>2, <2>2, BoundsAssumption DEF Version
    <3>2. /\ e \in Device /\ e.sub = d.sub /\ e.epoch = d.epoch /\ e.reboots = d.reboots
          /\ e.start = d.start /\ e.sentEvents = d.sentEvents /\ e.next = d.next
          /\ e.sentVersion = d.sentVersion /\ e.report = d.report
      BY <1>1, <3>1 DEF Device
    <3>3. e.next >= d.next
      BY <1>2, <3>2
    <3> HIDE DEF e
    <3>4. Become(n, e)
      BY <2>2 DEF e
    <3>5. QED
      BY <1>1, <2>1, <3>2, <3>3, <3>4, KeepInv DEF d
  <2>3. CASE d.next < MaxEvents /\ Become(n, [d EXCEPT !.next = @ + 1])
    <3> DEFINE e == [d EXCEPT !.next = @ + 1]
    <3>1. d.next + 1 \in 0..MaxEvents
      BY <1>2, <2>3, BoundsAssumption
    <3>2. /\ e \in Device /\ e.sub = d.sub /\ e.epoch = d.epoch /\ e.reboots = d.reboots
          /\ e.start = d.start /\ e.sentEvents = d.sentEvents /\ e.next = d.next + 1
          /\ e.sentVersion = d.sentVersion /\ e.report = d.report
      BY <1>1, <3>1 DEF Device
    <3>3. e.next >= d.next
      BY <1>2, <3>2
    <3> HIDE DEF e
    <3>4. Become(n, e)
      BY <2>3 DEF e
    <3>5. QED
      BY <1>1, <2>1, <3>2, <3>3, <3>4, KeepInv DEF d
  <2>4. QED
    BY <1>3, <2>2, <2>3 DEF DeviceChanges, d
<1>4. CASE DeviceReports(n)
  <2>1. /\ faults' = faults /\ d.up /\ d.sub # None /\ d.report = NoReport
        /\ \E k \in {1, 2}, lo \in {0, d.sentEvents}, v \in Version \cup {Unseen} :
             Become(n, [d EXCEPT !.report =
               [parts |-> k, part |-> 1, version |-> v, from |-> lo, to |-> d.next]])
    BY <1>2, <1>4 DEF DeviceReports, d
  <2>2. PICK k \in {1, 2}, lo \in {0, d.sentEvents}, v \in Version \cup {Unseen} :
          Become(n, [d EXCEPT !.report =
            [parts |-> k, part |-> 1, version |-> v, from |-> lo, to |-> d.next]])
    BY <2>1
  <2> DEFINE r == [parts |-> k, part |-> 1, version |-> v, from |-> lo, to |-> d.next]
             e == [d EXCEPT !.report = r]
  <2>3. /\ r \in Report /\ r # NoReport /\ r.part = 1 /\ r.from <= d.sentEvents
        /\ r.to = d.next
    BY <1>2, BoundsAssumption DEF Report, NoReport
  <2> HIDE DEF r
  <2>4. /\ e \in Device /\ e.sub = d.sub /\ e.epoch = d.epoch /\ e.reboots = d.reboots
        /\ e.start = d.start /\ e.sentEvents = d.sentEvents /\ e.next = d.next
        /\ e.sentVersion = d.sentVersion /\ e.report = r
    BY <1>1, <2>3 DEF Device
  <2>5. e.next >= d.next
    BY <1>2, <2>4
  <2> HIDE DEF e
  <2>6. Become(n, e)
    BY <2>2 DEF e, r
  <2>7. QED
    BY <1>1, <2>1, <2>3, <2>4, <2>5, <2>6, KeepInv DEF d
<1>5. CASE DeviceGivesUp(n)
  <2>1. Become(n, Refused(d)) /\ faults' \in 0..MaxFaults
    BY <1>1, <1>5, FaultType DEF DeviceGivesUp, d
  <2>2. d.epoch <= d.reboots
    BY <1>1 DEF DeviceInv, d
  <2>3. QED
    BY <1>1, <2>1, <2>2, RefusedDevice, GiveUpInv DEF d
<1>6. CASE DeviceReboots(n)
  <2> DEFINE q == Refused(d)
             e1 == [q EXCEPT !.reboots = @ + 1]
             e2 == [q EXCEPT !.reboots = @ + 1, !.epoch = @ + 1, !.next = 0]
  <2>1. /\ q \in Device /\ q.sub = None /\ q.report = NoReport /\ q.epoch = d.epoch
        /\ q.reboots = d.reboots /\ q.next = d.next
    BY <1>1, RefusedDevice
  <2> HIDE DEF q
  <2>2. /\ q.reboots < MaxReboots /\ (Become(n, e1) \/ Become(n, e2)) /\ faults' = faults
    BY <1>6 DEF DeviceReboots, d, q
  <2>3. d.epoch <= d.reboots
    BY <1>1 DEF DeviceInv, d
  <2>4. q.reboots + 1 \in 0..MaxReboots /\ q.epoch + 1 \in 0..MaxReboots /\ 0 \in 0..MaxEvents
    BY <1>2, <2>1, <2>2, <2>3, BoundsAssumption
  <2>5. /\ e1 \in Device /\ e1.sub = None /\ e1.report = NoReport /\ e1.epoch = d.epoch
        /\ e1.next = d.next /\ e1.reboots = d.reboots + 1
    BY <2>1, <2>4 DEF Device
  <2>6. /\ e2 \in Device /\ e2.sub = None /\ e2.report = NoReport /\ e2.epoch = d.epoch + 1
        /\ e2.reboots = d.reboots + 1
    BY <2>1, <2>4 DEF Device
  <2>7. e1.epoch <= e1.reboots /\ e2.epoch <= e2.reboots
    BY <1>2, <2>3, <2>5, <2>6, BoundsAssumption
  <2> HIDE DEF e1, e2
  <2>8. QED
    BY <1>1, <2>2, <2>5, <2>6, <2>7, GiveUpInv DEF d
<1>7. ASSUME NEW b \in BOOLEAN, Become(n, [d EXCEPT !.up = b]), faults' \in 0..MaxFaults
      PROVE  Inv'
  <2> DEFINE e == [d EXCEPT !.up = b]
  <2>1. /\ e \in Device /\ e.sub = d.sub /\ e.epoch = d.epoch /\ e.reboots = d.reboots
        /\ e.start = d.start /\ e.sentEvents = d.sentEvents /\ e.next = d.next
        /\ e.sentVersion = d.sentVersion /\ e.report = d.report
    BY <1>1 DEF Device
  <2>2. e.next >= d.next
    BY <1>2, <2>1
  <2> HIDE DEF e
  <2>3. Become(n, e)
    BY <1>7 DEF e
  <2>4. QED
    BY <1>7, <2>1, <2>2, <2>3, KeepInv DEF d
<1>8. CASE DeviceVanishes(n)
  BY <1>1, <1>7, <1>8, FaultType DEF DeviceVanishes, d
<1>9. CASE DeviceReturns(n)
  BY <1>1, <1>7, <1>9 DEF DeviceReturns, d
<1>10. QED
  BY <1>3, <1>4, <1>5, <1>6, <1>8, <1>9 DEF Environment

-----------------------------------------------------------------------------
(* The report handler.                                                     *)
LEMMA DisownInv == ASSUME Inv, NEW n \in Node, DisownReport(n) PROVE Inv'
<1>1. device[n] \in Device /\ DeviceInv(n) /\ faults \in 0..MaxFaults
  BY TypeParts DEF Inv, EnvTypeOK
<1>2. Become(n, Refused(device[n])) /\ faults' = faults
  BY <1>1 DEF DisownReport, Become
<1>3. device[n].epoch <= device[n].reboots
  BY <1>1 DEF DeviceInv
<1>4. QED
  BY <1>1, <1>2, <1>3, RefusedDevice, GiveUpInv

(* A report is handled only for the running supervisor's subscription.     *)
LEMMA HandledIsWatched ==
  ASSUME Inv, NEW n \in Node, HandleReport(n)
  PROVE  /\ device[n] \in Device /\ device[n].report # NoReport
         /\ device[n].sub # None /\ subs[n] = device[n].sub
         /\ task[n] = "watching" /\ n \in liveness
<1> USE TypeParts DEF Inv
<1>1. device[n] \in Device /\ device[n].report # NoReport /\ subs[n] = device[n].sub
  BY DEF EnvTypeOK, HandleReport, Arrives
<1>2. device[n].sub # None
  BY <1>1 DEF DeviceInv
<1>3. owned[n] = subs[n]
  BY <1>1, <1>2 DEF GuardInv, SubscriptionIsOwned, HandleReport, Arrives
<1>4. QED
  BY <1>1, <1>2, <1>3 DEF TaskTypeOK, GuardInv, SubscriptionIsOwned

(* What a message of a report brings: nothing before the last one, and     *)
(* with it the events since the last that was told, from a complete        *)
(* report.                                                                 *)
LEMMA ReportNews ==
  ASSUME Inv, NEW n \in Node, HandleReport(n)
  PROVE  LET d == device[n]
             r == d.report
         IN /\ r.part <= r.parts
            /\ ~Released(n) => /\ NewEvents(n) = {} /\ r.part = 1 /\ r.parts = 2
                               /\ Absorbed(n) = <<1>>
            /\ Released(n) => /\ NewEvents(n) = d.sentEvents..(r.to - 1)
                              /\ Absorbed(n) = [i \in 1..r.parts |-> i]
<1> DEFINE d == device[n]
           r == d.report
<1>1. /\ d \in Device /\ r # NoReport /\ d.sub # None /\ task[n] = "watching"
      /\ DeviceInv(n) /\ SinkInv(n)
  BY HandledIsWatched DEF Inv
<1>2. /\ r.parts \in {1, 2} /\ r.part \in {1, 2} /\ r.from \in Nat /\ r.to \in Nat
      /\ d.sentEvents \in Nat
  BY <1>1, DeviceFields, ReportFields, BoundsAssumption
<1>3. /\ r.part <= r.parts /\ r.from <= d.sentEvents /\ d.sentEvents <= r.to
  BY <1>1 DEF DeviceInv
<1>4. /\ lastEvent[n] = d.sentEvents - 1
      /\ pending[n] = IF r.part = 2 THEN <<1>> ELSE <<>>
  BY <1>1 DEF SinkInv
<1>5. ASSUME ~Released(n)
      PROVE  NewEvents(n) = {} /\ r.part = 1 /\ r.parts = 2 /\ Absorbed(n) = <<1>>
  <2>1. r.part = 1 /\ r.parts = 2
    BY <1>2, <1>3, <1>5 DEF Released
  <2>2. Absorbed(n) = <<1>>
    BY <1>4, <2>1 DEF Absorbed
  <2>3. QED
    BY <1>5, <2>1, <2>2 DEF NewEvents
<1>6. ASSUME Released(n)
      PROVE  NewEvents(n) = d.sentEvents..(r.to - 1)
  <2>1. \A e \in r.from..(r.to - 1) : IsNew(lastEvent[n], e) <=> e >= d.sentEvents
    BY <1>2, <1>3, <1>4 DEF IsNew, Unseen
  <2>2. \A e : e \in d.sentEvents..(r.to - 1) <=> e \in r.from..(r.to - 1) /\ e >= d.sentEvents
    BY <1>2, <1>3
  <2>3. QED
    BY <1>6, <2>1, <2>2 DEF NewEvents
<1>7. ASSUME Released(n)
      PROVE  Absorbed(n) = [i \in 1..r.parts |-> i]
  <2>1. CASE r.part = 1
    BY <1>4, <1>7, <2>1 DEF Released, Absorbed
  <2>2. CASE r.part = 2
    BY <1>4, <1>7, <2>2 DEF Released, Absorbed
  <2>3. QED
    BY <1>2, <2>1, <2>2
<1>8. QED
  BY <1>3, <1>5, <1>6, <1>7

(* What a message leaves alone, whichever it is.                           *)
LEMMA HandleFrame ==
  ASSUME Inv, NEW n \in Node, HandleReport(n),
         device'[n] \in Device, DeviceInv(n)', SinkInv(n)', CtxTypeOK', OutTypeOK',
         repeated' = {}, torn' = {}
  PROVE  Inv'
<1> USE TypeParts DEF Inv
<1>1. n \in liveness
  BY HandledIsWatched
<1>2. liveness' = liveness /\ device' = [device EXCEPT ![n] = device'[n]]
  BY <1>1 DEF HandleReport, EnvTypeOK
<1>3. EnvTypeOK'
  BY <1>2 DEF HandleReport, EnvTypeOK
<1>4. TypeOK'
  BY <1>3, TypePartsNext, SameThread, SameTask DEF HandleReport
<1>5. GuardInv'
  BY <1>2, SameGuards DEF HandleReport, taskVars
<1>6. ASSUME NEW m \in Node, m # n PROVE DeviceInv(m)' /\ SinkInv(m)'
  <2>1. \A ep \in 0..MaxReboots, e \in 0..MaxEvents :
          <<m, ep, e>> \in forwarded' <=> <<m, ep, e>> \in forwarded
    BY <1>6 DEF HandleReport
  <2>2. NodeSame(m)
    BY <1>6, <2>1 DEF HandleReport, EnvTypeOK, CtxTypeOK, OutTypeOK, NodeSame, taskVars
  <2>3. QED
    BY <2>2, SameNode
<1>7. QED
  BY <1>4, <1>5, <1>6

LEMMA PartInv == ASSUME Inv, NEW n \in Node, HandleReport(n), ~Released(n) PROVE Inv'
<1> USE TypeParts DEF Inv
<1> DEFINE d == device[n]
           r == d.report
           e == Accepted(d)
<1>1. /\ d \in Device /\ r # NoReport /\ d.sub # None /\ subs[n] = d.sub
      /\ task[n] = "watching"
  BY HandledIsWatched
<1>2. NewEvents(n) = {} /\ r.part = 1 /\ r.parts = 2 /\ Absorbed(n) = <<1>>
  BY ReportNews
<1>3. /\ pending' = [pending EXCEPT ![n] = <<1>>] /\ view' = view /\ torn' = torn
      /\ lastEvent' = lastEvent /\ device' = [device EXCEPT ![n] = e]
      /\ forwarded' = forwarded /\ repeated' = repeated /\ UNCHANGED <<taskVars, subs, link>>
      /\ liveness' = liveness \cup {n}
  <2>1. {<<n, d.epoch, x>> : x \in NewEvents(n)} = {}
    BY <1>2
  <2>2. [lastEvent EXCEPT ![n] = lastEvent[n]] = lastEvent
    BY DEF CtxTypeOK
  <2>3. QED
    BY <1>2, <2>1, <2>2 DEF HandleReport
<1>4. /\ e \in Device /\ e.sub = d.sub /\ e.epoch = d.epoch /\ e.reboots = d.reboots
      /\ e.next = d.next /\ e.start = d.start /\ e.sentEvents = d.sentEvents
      /\ e.sentVersion = d.sentVersion /\ e.report # NoReport /\ e.report.part = 2
      /\ e.report.parts = 2 /\ e.report.from = r.from /\ e.report.to = r.to
  BY <1>1, <1>2, PartAccepted
<1> HIDE DEF e
<1>5. device'[n] = e
  BY <1>3 DEF EnvTypeOK
<1>6. CtxTypeOK' /\ OutTypeOK'
  <2>1. <<1>> \in Seq({1, 2})
    OBVIOUS
  <2>2. QED
    BY <1>3, <2>1 DEF CtxTypeOK, OutTypeOK
<1>7. DeviceInv(n)'
  BY <1>1, <1>3, <1>4, <1>5 DEF DeviceInv
<1>8. SinkInv(n)'
  <2>1. task'[n] = "watching" /\ pending'[n] = <<1>> /\ subs' = subs
    BY <1>1, <1>3 DEF CtxTypeOK, taskVars
  <2>2. SinkInv(n)
    OBVIOUS
  <2>3. QED
    BY <1>1, <1>3, <1>4, <1>5, <2>1, <2>2 DEF SinkInv
<1>9. QED
  BY <1>3, <1>4, <1>5, <1>6, <1>7, <1>8, HandleFrame

LEMMA LastPartInv == ASSUME Inv, NEW n \in Node, HandleReport(n), Released(n) PROVE Inv'
<1> USE TypeParts DEF Inv
<1> DEFINE d == device[n]
           r == d.report
           e == Accepted(d)
           news == {<<n, d.epoch, x>> : x \in d.sentEvents..(r.to - 1)}
<1>1. /\ d \in Device /\ r # NoReport /\ d.sub # None /\ subs[n] = d.sub
      /\ task[n] = "watching" /\ DeviceInv(n) /\ SinkInv(n)
  BY HandledIsWatched
<1>2. NewEvents(n) = d.sentEvents..(r.to - 1) /\ Absorbed(n) = [i \in 1..r.parts |-> i]
  BY ReportNews
<1>3. /\ d.sentEvents \in 0..MaxEvents /\ r.to \in 0..MaxEvents /\ d.epoch \in 0..MaxReboots
      /\ d.start \in 0..MaxEvents /\ d.next \in 0..MaxEvents
      /\ r.version \in Version \cup {Unseen} /\ d.sentVersion \in Version
      /\ d.start <= d.sentEvents /\ d.sentEvents <= r.to /\ r.to <= d.next
  BY <1>1, DeviceFields, ReportFields DEF DeviceInv
<1>4. lastEvent[n] = d.sentEvents - 1 /\ view[n] = d.sentVersion
  BY <1>1 DEF SinkInv
<1>5. /\ pending' = [pending EXCEPT ![n] = <<>>] /\ torn' = torn
      /\ view' = IF r.version # Unseen THEN [view EXCEPT ![n] = r.version] ELSE view
      /\ device' = [device EXCEPT ![n] = e]
      /\ forwarded' = forwarded \cup news /\ repeated' = repeated \cup (news \cap forwarded)
      /\ UNCHANGED <<taskVars, subs, link>> /\ liveness' = liveness \cup {n}
  BY <1>2 DEF HandleReport
<1>6. lastEvent' = [lastEvent EXCEPT ![n] = r.to - 1]
  <2>1. (IF NewEvents(n) = {} THEN lastEvent[n] ELSE Higher(lastEvent[n], r.to - 1)) = r.to - 1
    <3>1. CASE r.to = d.sentEvents
      <4>1. d.sentEvents..(r.to - 1) = {}
        BY <1>3, <3>1, BoundsAssumption
      <4>2. QED
        BY <1>2, <1>4, <3>1, <4>1
    <3>2. CASE r.to # d.sentEvents
      <4>1. r.to - 1 \in d.sentEvents..(r.to - 1)
        BY <1>3, <3>2, BoundsAssumption
      <4>2. r.to - 1 > d.sentEvents - 1
        BY <1>3, <3>2, BoundsAssumption
      <4>3. QED
        BY <1>2, <1>4, <4>1, <4>2 DEF Higher, IsNew
    <3>3. QED
      BY <3>1, <3>2
  <2>2. QED
    BY <2>1 DEF HandleReport
<1>7. /\ e \in Device /\ e.sub = d.sub /\ e.epoch = d.epoch /\ e.reboots = d.reboots
      /\ e.next = d.next /\ e.start = d.start /\ e.sentEvents = r.to
      /\ e.sentVersion = (IF r.version = Unseen THEN d.sentVersion ELSE r.version)
      /\ e.report = NoReport
  <2>1. ~(r.part < r.parts)
    BY <1>1, DeviceFields, ReportFields DEF Released
  <2>2. QED
    BY <1>1, <2>1, ReportAccepted
<1> HIDE DEF e
<1>8. device'[n] = e
  BY <1>5 DEF EnvTypeOK
<1>9. \A x \in d.sentEvents..(r.to - 1) : x \in 0..MaxEvents /\ x >= d.sentEvents /\ x < r.to
  BY <1>3, BoundsAssumption
<1>10. \A x \in 0..MaxEvents : <<n, d.epoch, x>> \in forwarded => x < d.sentEvents
  BY <1>1 DEF SinkInv
<1>11. repeated' = {}
  <2>1. news \cap forwarded = {}
    BY <1>3, <1>9, <1>10
  <2>2. QED
    BY <1>5, <2>1
<1>12. \A ep, x : <<n, ep, x>> \in forwarded' <=>
         <<n, ep, x>> \in forwarded \/ (ep = d.epoch /\ x \in d.sentEvents..(r.to - 1))
  BY <1>5
<1>13. CtxTypeOK' /\ OutTypeOK'
  <2>1. <<>> \in Seq({1, 2})
    OBVIOUS
  <2>2. r.to - 1 \in {Unseen} \cup 0..MaxEvents
    BY <1>3, BoundsAssumption DEF Unseen
  <2>3. CtxTypeOK'
    BY <1>5, <1>6, <2>1, <2>2 DEF CtxTypeOK
  <2>4. news \subseteq Node \X (0..MaxReboots) \X (0..MaxEvents)
    BY <1>3, <1>9
  <2>5. view' \in [Node -> {Unseen} \cup Version]
    BY <1>3, <1>5 DEF OutTypeOK
  <2>6. QED
    BY <1>5, <1>11, <2>3, <2>4, <2>5 DEF OutTypeOK
<1> HIDE DEF news
<1>14. DeviceInv(n)'
  <2>1. \A x \in d.start..(r.to - 1) : <<n, d.epoch, x>> \in forwarded'
    <3> SUFFICES ASSUME NEW x \in d.start..(r.to - 1)
                 PROVE  <<n, d.epoch, x>> \in forwarded'
      OBVIOUS
    <3>1. x \in d.start..(d.sentEvents - 1) \/ x \in d.sentEvents..(r.to - 1)
      BY <1>3, BoundsAssumption
    <3>2. QED
      BY <1>1, <1>12, <3>1 DEF DeviceInv
  <2>2. \A ep \in 0..MaxReboots, x \in 0..MaxEvents : <<n, ep, x>> \in forwarded' =>
          ep < d.epoch \/ (ep = d.epoch /\ x < d.next)
    BY <1>1, <1>3, <1>9, <1>12, BoundsAssumption DEF DeviceInv
  <2>3. d.epoch <= d.reboots /\ d.start <= r.to /\ r.to <= d.next
    BY <1>1, <1>3, BoundsAssumption DEF DeviceInv
  <2>4. QED
    BY <1>1, <1>7, <1>8, <2>1, <2>2, <2>3 DEF DeviceInv
<1>15. SinkInv(n)'
  <2>1. /\ task'[n] = "watching" /\ pending'[n] = <<>> /\ subs' = subs
        /\ lastEvent'[n] = r.to - 1
    BY <1>1, <1>5, <1>6 DEF CtxTypeOK, taskVars
  <2>2. view'[n] = e.sentVersion
    BY <1>4, <1>5, <1>7 DEF OutTypeOK
  <2>3. \A x \in 0..MaxEvents : <<n, d.epoch, x>> \in forwarded' => x < r.to
    BY <1>3, <1>9, <1>10, <1>12, BoundsAssumption
  <2>4. QED
    BY <1>1, <1>7, <1>8, <2>1, <2>2, <2>3 DEF SinkInv
<1>16. QED
  BY <1>5, <1>7, <1>8, <1>11, <1>13, <1>14, <1>15, HandleFrame

-----------------------------------------------------------------------------
(* The theorems.                                                           *)
LEMMA InitInv == Init => Inv
<1> SUFFICES ASSUME Init PROVE Inv
  OBVIOUS
<1>1. ThreadTypeOK
  <2>1. requests \in Seq(Request) /\ asked \in 0..MaxRequests
    BY BoundsAssumption DEF Init
  <2>2. serving \in BOOLEAN
    BY Zenon DEF Init
  <2>3. QED
    BY <2>1, <2>2 DEF ThreadTypeOK
<1>2. TaskTypeOK /\ OutTypeOK
  BY DEF Init, TaskTypeOK, OutTypeOK, Tasks, Primed
<1>3. CtxTypeOK
  <2>1. <<>> \in Seq({1, 2})
    OBVIOUS
  <2>2. QED
    BY <2>1 DEF Init, CtxTypeOK
<1> DEFINE d == [up |-> TRUE, version |-> 0, next |-> 0, epoch |-> 0, reboots |-> 0,
                 sub |-> None, sentVersion |-> 0, start |-> 0, sentEvents |-> 0,
                 report |-> NoReport]
<1>4. d \in Device
  BY BoundsAssumption DEF Device, Version
<1>5. EnvTypeOK
  BY <1>4, BoundsAssumption DEF Init, EnvTypeOK
<1>6. TypeOK
  BY <1>1, <1>2, <1>3, <1>5, TypeParts
<1>7. GuardInv
  BY DEF Init, GuardInv, SubscriptionIsOwned, SubscribedIsAnnounced
<1>8. ASSUME NEW n \in Node PROVE DeviceInv(n) /\ SinkInv(n)
  BY DEF Init, DeviceInv, SinkInv
<1>9. QED
  BY <1>6, <1>7, <1>8 DEF Init, Inv

LEMMA InvStep == Inv /\ [Next]_vars => Inv'
<1> SUFFICES ASSUME Inv, [Next]_vars PROVE Inv'
  OBVIOUS
<1>1. ASSUME NEW n \in Node, NEW op \in {"start", "stop", "shutdown"}, Ask(op, n) PROVE Inv'
  BY <1>1, AskInv
<1>2. CASE Thread
  BY <1>2, StartInv, StopInv, ShutdownInv DEF Thread
<1>3. ASSUME NEW g \in cancelled, DropCancelled(g) PROVE Inv'
  BY <1>3, DropInv
<1>4. ASSUME NEW n \in Node, Supervisor(n) PROVE Inv'
  BY <1>4, SupervisorInv
<1>5. ASSUME NEW n \in Node, Sink(n) PROVE Inv'
  BY <1>5, DisownInv, PartInv, LastPartInv DEF Sink
<1>6. ASSUME NEW n \in Node, Environment(n) PROVE Inv'
  BY <1>6, EnvironmentInv
<1>7. CASE UNCHANGED vars
  <2>1. TypeOK'
    BY <1>7, TypeParts, TypePartsNext, SameThread, SameTask, SameCtx, SameOut, SameEnv
       DEF Inv, vars
  <2>2. GuardInv'
    BY <1>7 DEF Inv, vars, GuardInv, SubscriptionIsOwned, SubscribedIsAnnounced, taskVars,
                ctxVars, outVars
  <2>3. \A n \in Node : DeviceInv(n)' /\ SinkInv(n)'
    BY <1>7, SameNode, TypeParts DEF Inv, vars, NodeSame, taskVars, ctxVars, outVars, envVars
  <2>4. QED
    BY <1>7, <2>1, <2>2, <2>3 DEF Inv, vars, outVars
<1>8. QED
  BY <1>1, <1>2, <1>3, <1>4, <1>5, <1>6, <1>7 DEF Next

(* The invariant holds in every state, however requests, cancelled tasks,  *)
(* reports and what devices do by themselves interleave.                   *)
THEOREM InvIsInvariant == Spec => []Inv
<1>1. QED
  BY InitInv, InvStep, PTL DEF Spec

(* Every variable keeps its type, and exactly the tasks that watch own a   *)
(* subscription.                                                           *)
THEOREM TypeCorrect == Spec => []TypeOK
<1>1. QED
  BY InvIsInvariant, PTL DEF Inv

(* ctx.subs and ctx.liveness have an entry exactly for the nodes whose     *)
(* running or just cancelled supervisor owns it: SubscriptionGuard::drop   *)
(* and disown leave nothing behind and take nothing of a successor's.      *)
THEOREM SubscriptionsAreOwned == Spec => []SubscriptionIsOwned
<1>1. QED
  BY InvIsInvariant, PTL DEF Inv, GuardInv

(* No report is forwarded for a node whose loss was announced: supervise   *)
(* releases the guard before it sends Reconnecting.                        *)
THEOREM SubscribedAreAnnounced == Spec => []SubscribedIsAnnounced
<1>1. QED
  BY InvIsInvariant, PTL DEF Inv, GuardInv

(* Events are forwarded exactly once for a live subscription, through      *)
(* replayed logs, reboots and new subscriptions that reuse an id.          *)
THEOREM EventsOnce == Spec => []EventsForwardedOnce
<1>1. Inv => EventsForwardedOnce
  <2> SUFFICES ASSUME Inv, NEW n \in Node, Settled(n),
                      NEW e \in device[n].start..(device[n].next - 1)
               PROVE  <<n, device[n].epoch, e>> \in forwarded
    BY DEF Inv, EventsForwardedOnce
  <2>1. device[n].sub # None /\ device[n].next = device[n].sentEvents
    BY DEF Settled
  <2>2. QED
    BY <2>1 DEF Inv, DeviceInv
<1>2. QED
  BY <1>1, InvIsInvariant, PTL

(* Once both ends agree and nothing is on its way, the controller has the  *)
(* device's attributes; and parts of different reports are never joined.   *)
THEOREM ViewsAreCurrent == Spec => []ViewIsCurrent
<1>1. Inv => ViewIsCurrent
  BY DEF Inv, SinkInv, Settled, ViewIsCurrent
<1>2. QED
  BY <1>1, InvIsInvariant, PTL

=============================================================================
