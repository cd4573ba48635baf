---------------------------- MODULE Subscription ----------------------------
(***************************************************************************)
(* One wildcard subscription per node: the supervisor tasks of             *)
(* crates/stack/src/supervisor.rs, the report handler of reports.rs, the   *)
(* per-node maps of ctx.rs and the request loop of runtime.rs that starts, *)
(* replaces and cancels supervisors.                                       *)
(*                                                                         *)
(* All of it runs on one thread, so an action is what happens between two  *)
(* awaits.  Dropping a task does not run its destructors: the executor     *)
(* drops the cancelled future later (DropCancelled).  Its run queue is     *)
(* first in, first out, so that a task spawned together with the           *)
(* cancellation is not polled a second time before that; and it runs up to *)
(* 200 ready tasks between two polls of the future that holds both         *)
(* request_loop and the report handler, so that no report is handled       *)
(* before that either.                                                     *)
(*                                                                         *)
(* The device is external: the model of it is what the code relies on.     *)
(* Its attributes are one version number; its events are numbered from 0.  *)
(* A report is a sequence of messages, each answered before the next.      *)
(***************************************************************************)
EXTENDS Integers, Sequences, FiniteSets

CONSTANTS
  Node,
  SubId,        \* subscription ids; the device picks them and may reuse one
  MaxVersion,   \* bound: attribute changes on a device
  MaxEvents,    \* bound: events of a device
  MaxReboots,   \* bound: reboots of a device
  MaxFaults,    \* bound: lost exchanges, outages and late answers, over all
  MaxRequests   \* bound: requests of the controller

ASSUME SubIdAssumption == SubId \subseteq Nat \ {0}

ASSUME BoundsAssumption ==
  /\ MaxVersion \in Nat /\ MaxEvents \in Nat /\ MaxReboots \in Nat
  /\ MaxFaults \in Nat /\ MaxRequests \in Nat

None == 0        \* no subscription id
Unseen == -1     \* no entry in last_event; an event may be numbered 0

VARIABLES
  \* the request channel, and whether request_loop still reads it
  requests, serving,
  \* ctx.supervisors: where each node's task is, the subscription its guard
  \* owns, what it collected while priming
  task, owned, primed,
  \* the guards of cancelled tasks the executor has yet to drop
  cancelled,
  \* ctx: subs, the keys of liveness, last_event, pending_reports
  subs, liveness, lastEvent, pending,
  \* what the controller made of the stack events: link state, attributes,
  \* events, and events or reports it should not have got
  link, view, forwarded, repeated, torn,
  \* the devices, and what is left of the bounds
  device, faults, asked

threadVars == <<requests, serving, asked>>
taskVars   == <<task, owned, primed, cancelled>>
ctxVars    == <<subs, liveness, lastEvent, pending>>
outVars    == <<link, view, forwarded, repeated, torn>>
envVars    == <<device, faults>>

vars == <<threadVars, taskVars, ctxVars, outVars, envVars>>

Version == 0..MaxVersion

(* A report on its way: how many messages, which one is next, and what it  *)
(* holds (a version or no attributes, the events from .. to - 1).          *)
Report == [parts : {1, 2}, part : {1, 2}, version : Version \cup {Unseen},
           from : 0..MaxEvents, to : 0..MaxEvents]

NoReport == [parts |-> 0]

(* epoch counts the restarts of the device's event numbering; sub is the   *)
(* subscription the device believes in, sent the version and the events    *)
(* it told that subscription, start the first event after its priming.     *)
Device == [up : BOOLEAN, version : Version, next : 0..MaxEvents,
           epoch : 0..MaxReboots, reboots : 0..MaxReboots,
           sub : SubId \cup {None}, sentVersion : Version, start : 0..MaxEvents,
           sentEvents : 0..MaxEvents, report : Report \cup {NoReport}]

(* What establish collects: the attributes and the subscription's id.      *)
Primed == [version : Version, sub : SubId] \cup {NoReport}

(* A supervisor: spawned but not polled, subscribing, primed by the        *)
(* device, told by the device that it is subscribed, watching, waiting     *)
(* before it tries again.                                                  *)
Tasks == {"none", "spawned", "subscribing", "accepted", "watching", "backoff"}

Guard == [node : Node, sub : SubId]

Request == [op : {"start", "stop", "shutdown"}, node : Node]

TypeOK ==
  /\ requests \in Seq(Request)
  /\ serving \in BOOLEAN
  /\ task \in [Node -> Tasks]
  /\ owned \in [Node -> SubId \cup {None}]
  /\ primed \in [Node -> Primed]
  /\ cancelled \subseteq Guard
  /\ subs \in [Node -> SubId \cup {None}]
  /\ liveness \subseteq Node
  /\ lastEvent \in [Node -> {Unseen} \cup 0..MaxEvents]
  /\ pending \in [Node -> Seq({1, 2})]
  /\ link \in [Node -> {"none", "Connected", "Reconnecting"}]
  /\ view \in [Node -> {Unseen} \cup Version]
  /\ forwarded \subseteq Node \X (0..MaxReboots) \X (0..MaxEvents)
  /\ repeated \subseteq forwarded
  /\ torn \subseteq Node
  /\ device \in [Node -> Device]
  /\ faults \in 0..MaxFaults
  /\ asked \in 0..MaxRequests
  /\ \A n \in Node : owned[n] # None <=> task[n] = "watching"

Init ==
  /\ requests = <<>> /\ serving = TRUE /\ asked = 0
  /\ task = [n \in Node |-> "none"]
  /\ owned = [n \in Node |-> None]
  /\ primed = [n \in Node |-> NoReport]
  /\ cancelled = {}
  /\ subs = [n \in Node |-> None]
  /\ liveness = {}
  /\ lastEvent = [n \in Node |-> Unseen]
  /\ pending = [n \in Node |-> <<>>]
  /\ link = [n \in Node |-> "none"]
  /\ view = [n \in Node |-> Unseen]
  /\ forwarded = {} /\ repeated = {} /\ torn = {}
  /\ device = [n \in Node |->
       [up |-> TRUE, version |-> 0, next |-> 0, epoch |-> 0, reboots |-> 0,
        sub |-> None, sentVersion |-> 0, start |-> 0, sentEvents |-> 0,
        report |-> NoReport]]
  /\ faults = 0

-----------------------------------------------------------------------------
(* The controller's requests and request_loop.                             *)

Ask(op, n) ==
  /\ asked < MaxRequests
  /\ asked' = asked + 1
  /\ requests' = Append(requests, [op |-> op, node |-> n])
  /\ UNCHANGED <<serving, taskVars, ctxVars, outVars, envVars>>

NextRequest(op) ==
  /\ serving
  /\ requests # <<>>
  /\ Head(requests).op = op
  /\ requests' = Tail(requests)
  /\ UNCHANGED asked

(* The guard a task holds, if it holds one.                                *)
GuardsOf(ns) == {[node |-> n, sub |-> owned[n]] : n \in {m \in ns : owned[m] # None}}

StartSupervisor ==
  /\ NextRequest("start")
  /\ LET n == Head(requests).node IN
     /\ cancelled' = cancelled \cup GuardsOf({n})
     /\ task' = [task EXCEPT ![n] = "spawned"]
     /\ owned' = [owned EXCEPT ![n] = None]
     /\ primed' = [primed EXCEPT ![n] = NoReport]
  /\ UNCHANGED <<serving, ctxVars, outVars, envVars>>

(* Mutant: the task is taken out of the map without being cancelled.       *)
StopDetaches ==
  /\ NextRequest("stop")
  /\ LET n == Head(requests).node IN
     /\ task' = [task EXCEPT ![n] = "none"]
     /\ owned' = [owned EXCEPT ![n] = None]
     /\ lastEvent' = [lastEvent EXCEPT ![n] = Unseen]
     /\ primed' = [primed EXCEPT ![n] = NoReport]
     /\ pending' = [pending EXCEPT ![n] = <<>>]
  /\ UNCHANGED <<serving, cancelled, subs, liveness, outVars, envVars>>

(* The map entry goes, the task is cancelled, forget_node clears the       *)
(* caches the guard does not own.                                          *)
StopSupervisor ==
  /\ NextRequest("stop")
  /\ LET n == Head(requests).node IN
     /\ cancelled' = cancelled \cup GuardsOf({n})
     /\ task' = [task EXCEPT ![n] = "none"]
     /\ owned' = [owned EXCEPT ![n] = None]
     /\ lastEvent' = [lastEvent EXCEPT ![n] = Unseen]
     /\ primed' = [primed EXCEPT ![n] = NoReport]
     /\ pending' = [pending EXCEPT ![n] = <<>>]
  /\ UNCHANGED <<serving, subs, liveness, outVars, envVars>>

(* Shutdown cancels every task and ends the loop, and with it the          *)
(* transport and the report handler.                                       *)
Shutdown ==
  /\ NextRequest("shutdown")
  /\ serving' = FALSE
  /\ cancelled' = cancelled \cup GuardsOf(Node)
  /\ task' = [n \in Node |-> "none"]
  /\ owned' = [n \in Node |-> None]
  /\ primed' = [n \in Node |-> NoReport]
  /\ UNCHANGED <<ctxVars, outVars, envVars>>

(* SubscriptionGuard::drop: disown removes the entry only if it is still   *)
(* this subscription's; the liveness entry goes with it.                   *)
Release(g) ==
  /\ subs' = IF subs[g.node] = g.sub THEN [subs EXCEPT ![g.node] = None] ELSE subs
  /\ liveness' = liveness \ {g.node}

DropCancelled(g) ==
  /\ g \in cancelled
  /\ cancelled' = cancelled \ {g}
  /\ Release(g)
  /\ UNCHANGED <<threadVars, task, owned, primed, lastEvent, pending, outVars,
                 envVars>>

-----------------------------------------------------------------------------
(* supervise and establish.                                                *)

(* The task's guard of an earlier life, and that of the task it replaced,  *)
(* are gone before it is polled again.                                     *)
Polled(n, t) == serving /\ task[n] = t /\ \A g \in cancelled : g.node # n

(* Mutant: the high-water mark of the last subscription stays.             *)
EstablishKeepsMark(n) ==
  /\ serving /\ task[n] = "spawned"
  /\ pending' = [pending EXCEPT ![n] = <<>>]
  /\ task' = [task EXCEPT ![n] = "subscribing"]
  /\ UNCHANGED <<threadVars, owned, primed, cancelled, subs, liveness, lastEvent,
                 outVars, envVars>>

(* Mutant: a half-received report of the last subscription stays.          *)
EstablishKeepsPending(n) ==
  /\ serving /\ task[n] = "spawned"
  /\ lastEvent' = [lastEvent EXCEPT ![n] = Unseen]
  /\ task' = [task EXCEPT ![n] = "subscribing"]
  /\ UNCHANGED <<threadVars, owned, primed, cancelled, subs, liveness, pending,
                 outVars, envVars>>

(* establish, up to its first await.                                       *)
EstablishBegins(n) ==
  /\ serving /\ task[n] = "spawned"
  /\ lastEvent' = [lastEvent EXCEPT ![n] = Unseen]
  /\ pending' = [pending EXCEPT ![n] = <<>>]
  /\ task' = [task EXCEPT ![n] = "subscribing"]
  /\ UNCHANGED <<threadVars, owned, primed, cancelled, subs, liveness, outVars,
                 envVars>>

(* note_event: is the event new, and the mark after it.                    *)
IsNew(mark, e) == mark = Unseen \/ e > mark

Higher(mark, e) == IF IsNew(mark, e) THEN e ELSE mark

(* The device has answered every priming chunk, and believes in the new    *)
(* subscription alone (keep_subs is false); the last answer is on its way. *)
(* Its attributes are collected; its event log only moves the mark.        *)
PrimingRead(n) ==
  /\ Polled(n, "subscribing")
  /\ device[n].up
  /\ LET d == device[n] IN
     /\ lastEvent' = [lastEvent EXCEPT ![n] = IF d.next = 0 THEN @
                                              ELSE Higher(@, d.next - 1)]
     /\ \E s \in SubId :
          /\ primed' = [primed EXCEPT ![n] = [version |-> d.version, sub |-> s]]
          /\ device' = [device EXCEPT ![n] =
               [d EXCEPT !.sub = s, !.sentVersion = d.version, !.start = d.next,
                         !.sentEvents = d.next, !.report = NoReport]]
  /\ task' = [task EXCEPT ![n] = "accepted"]
  /\ UNCHANGED <<threadVars, owned, cancelled, subs, liveness, pending, outVars,
                 faults>>

(* Established: the maps, the two events, the guard, all without an await. *)
Established(n) ==
  /\ Polled(n, "accepted")
  /\ subs' = [subs EXCEPT ![n] = primed[n].sub]
  /\ liveness' = liveness \cup {n}
  /\ link' = [link EXCEPT ![n] = "Connected"]
  /\ view' = [view EXCEPT ![n] = primed[n].version]
  /\ owned' = [owned EXCEPT ![n] = primed[n].sub]
  /\ primed' = [primed EXCEPT ![n] = NoReport]
  /\ task' = [task EXCEPT ![n] = "watching"]
  /\ UNCHANGED <<threadVars, cancelled, lastEvent, pending, forwarded, repeated,
                 torn, envVars>>

(* Something that would have worked did not: the bound on bad luck.        *)
Fault == faults < MaxFaults /\ faults' = faults + 1

(* No route, no answer in time, or an error status.                        *)
EstablishFails(n) ==
  /\ Polled(n, "subscribing") \/ Polled(n, "accepted")
  /\ (~device[n].up /\ UNCHANGED faults) \/ Fault
  /\ link' = [link EXCEPT ![n] = "Reconnecting"]
  /\ primed' = [primed EXCEPT ![n] = NoReport]
  /\ task' = [task EXCEPT ![n] = "backoff"]
  /\ UNCHANGED <<threadVars, owned, cancelled, ctxVars, view, forwarded,
                 repeated, torn, device>>

BackoffElapses(n) ==
  /\ Polled(n, "backoff")
  /\ task' = [task EXCEPT ![n] = "spawned"]
  /\ UNCHANGED <<threadVars, owned, primed, cancelled, ctxVars, outVars, envVars>>

(* The device will not report on this subscription.                        *)
Silent(n) == ~device[n].up \/ device[n].sub # owned[n]

(* Mutant: the loss is announced while the subscription is still owned.    *)
WatchKeepsGuard(n) ==
  /\ Polled(n, "watching")
  /\ (Silent(n) /\ UNCHANGED faults) \/ Fault
  /\ link' = [link EXCEPT ![n] = "Reconnecting"]
  /\ task' = [task EXCEPT ![n] = "spawned"]
  /\ UNCHANGED <<threadVars, owned, primed, cancelled, ctxVars, view, forwarded,
                 repeated, torn, device>>

(* Mutant: a device that is reachable never counts as silent.              *)
WatchTrustsReachable(n) ==
  /\ Polled(n, "watching")
  /\ ~device[n].up /\ UNCHANGED faults
  /\ Release([node |-> n, sub |-> owned[n]])
  /\ owned' = [owned EXCEPT ![n] = None]
  /\ link' = [link EXCEPT ![n] = "Reconnecting"]
  /\ task' = [task EXCEPT ![n] = "spawned"]
  /\ UNCHANGED <<threadVars, primed, cancelled, lastEvent, pending, view,
                 forwarded, repeated, torn, device>>

(* watch_liveness returns, of a silent device or of one whose reports were *)
(* late; the guard goes before the loss is announced.                      *)
WatchExpires(n) ==
  /\ Polled(n, "watching")
  /\ (Silent(n) /\ UNCHANGED faults) \/ Fault
  /\ Release([node |-> n, sub |-> owned[n]])
  /\ owned' = [owned EXCEPT ![n] = None]
  /\ link' = [link EXCEPT ![n] = "Reconnecting"]
  /\ task' = [task EXCEPT ![n] = "spawned"]
  /\ UNCHANGED <<threadVars, primed, cancelled, lastEvent, pending, view,
                 forwarded, repeated, torn, device>>

-----------------------------------------------------------------------------
(* ReportSink::handle_report: one message of a device's report.            *)

(* The answer InvalidSubscription makes the device give up.                *)
Refused(d) == [d EXCEPT !.sub = None, !.report = NoReport]

Accepted(d) ==
  IF d.report.part < d.report.parts
  THEN [d EXCEPT !.report.part = @ + 1]
  ELSE [d EXCEPT !.report = NoReport, !.sentEvents = d.report.to,
                 !.sentVersion = IF d.report.version = Unseen THEN @
                                 ELSE d.report.version]

Arrives(n) ==
  serving /\ cancelled = {} /\ device[n].up /\ device[n].report # NoReport

DisownReport(n) ==
  /\ Arrives(n)
  /\ subs[n] # device[n].sub
  /\ device' = [device EXCEPT ![n] = Refused(@)]
  /\ UNCHANGED <<threadVars, taskVars, ctxVars, outVars, faults>>

(* absorb_message: the parts so far, released by the last.                 *)
Absorbed(n) == Append(pending[n], device[n].report.part)

Released(n) == device[n].report.part = device[n].report.parts

(* The events of a report come with its last message.                      *)
NewEvents(n) ==
  LET r == device[n].report
  IN {e \in r.from..(r.to - 1) : Released(n) /\ IsNew(lastEvent[n], e)}

HandleReport(n) ==
  /\ Arrives(n)
  /\ subs[n] = device[n].sub
  /\ LET d == device[n]
         r == d.report
         news == {<<n, d.epoch, e>> : e \in NewEvents(n)}
     IN /\ liveness' = liveness \cup {n}
        /\ pending' = [pending EXCEPT ![n] = IF Released(n) THEN <<>> ELSE Absorbed(n)]
        /\ view' = IF Released(n) /\ r.version # Unseen
                   THEN [view EXCEPT ![n] = r.version] ELSE view
        /\ torn' = IF Released(n) /\ Absorbed(n) # [i \in 1..r.parts |-> i]
                   THEN torn \cup {n} ELSE torn
        /\ lastEvent' = [lastEvent EXCEPT ![n] = IF NewEvents(n) = {} THEN @
                                                 ELSE Higher(@, r.to - 1)]
        /\ forwarded' = forwarded \cup news
        /\ repeated' = repeated \cup (news \cap forwarded)
        /\ device' = [device EXCEPT ![n] = Accepted(d)]
  /\ UNCHANGED <<threadVars, taskVars, subs, link, faults>>

-----------------------------------------------------------------------------
(* The devices.                                                            *)

Become(n, d) ==
  /\ device' = [device EXCEPT ![n] = d]
  /\ UNCHANGED <<threadVars, taskVars, ctxVars, outVars>>

DeviceChanges(n) ==
  LET d == device[n] IN
  \/ /\ d.version < MaxVersion
     /\ Become(n, [d EXCEPT !.version = @ + 1]) /\ UNCHANGED faults
  \/ /\ d.next < MaxEvents
     /\ Become(n, [d EXCEPT !.next = @ + 1]) /\ UNCHANGED faults

(* What is new since the last report, the events possibly from the start   *)
(* of the device's log again; a heartbeat when nothing is.  The heartbeat  *)
(* interval is longer than an answer takes.                                *)
DeviceReports(n) ==
  LET d == device[n]
      changed == d.version # d.sentVersion
  IN /\ d.up /\ d.sub # None /\ d.report = NoReport
     /\ changed \/ d.next # d.sentEvents \/ task[n] # "accepted"
     /\ \E k \in IF changed THEN {1, 2} ELSE {1}, lo \in {0, d.sentEvents} :
          Become(n, [d EXCEPT !.report =
            [parts |-> k, part |-> 1, version |-> IF changed THEN d.version ELSE Unseen,
             from |-> lo, to |-> d.next]])
     /\ UNCHANGED faults

(* A report that cannot be delivered ends the device's subscription.       *)
DeviceGivesUp(n) ==
  LET d == device[n] IN
  /\ d.sub # None
  /\ (~d.up /\ UNCHANGED faults) \/ Fault
  /\ Become(n, Refused(d))

(* A reboot ends the subscription; the event counter may not survive it.   *)
DeviceReboots(n) ==
  LET d == Refused(device[n]) IN
  /\ d.reboots < MaxReboots
  /\ \/ Become(n, [d EXCEPT !.reboots = @ + 1])
     \/ Become(n, [d EXCEPT !.reboots = @ + 1, !.epoch = @ + 1, !.next = 0])
  /\ UNCHANGED faults

DeviceVanishes(n) ==
  /\ device[n].up
  /\ Fault
  /\ Become(n, [device[n] EXCEPT !.up = FALSE])

DeviceReturns(n) ==
  /\ ~device[n].up
  /\ Become(n, [device[n] EXCEPT !.up = TRUE])
  /\ UNCHANGED faults

-----------------------------------------------------------------------------
Thread == StartSupervisor \/ StopSupervisor \/ Shutdown

Supervisor(n) ==
  \/ EstablishBegins(n)
  \/ PrimingRead(n)
  \/ Established(n)
  \/ EstablishFails(n)
  \/ BackoffElapses(n)
  \/ WatchExpires(n)

Sink(n) == HandleReport(n) \/ DisownReport(n)

Environment(n) ==
  \/ DeviceChanges(n)
  \/ DeviceReports(n)
  \/ DeviceGivesUp(n)
  \/ DeviceReboots(n)
  \/ DeviceVanishes(n)
  \/ DeviceReturns(n)

Next ==
  \/ \E n \in Node, op \in {"start", "stop", "shutdown"} : Ask(op, n)
  \/ Thread
  \/ \E g \in cancelled : DropCancelled(g)
  \/ \E n \in Node : Supervisor(n) \/ Sink(n) \/ Environment(n)

Spec == Init /\ [][Next]_vars

(* The executor polls what is ready, and time passes: timers end.  A       *)
(* report in progress is delivered or fails.                               *)
Fairness ==
  /\ WF_vars(Thread)
  /\ WF_vars(\E g \in cancelled : DropCancelled(g))
  /\ \A n \in Node :
       /\ WF_vars(EstablishBegins(n)) /\ WF_vars(BackoffElapses(n))
       /\ WF_vars(PrimingRead(n) \/ EstablishFails(n))
       /\ WF_vars(Established(n) \/ EstablishFails(n))
       /\ WF_vars(Silent(n) /\ WatchExpires(n))
       /\ WF_vars(Sink(n))

FairSpec == Spec /\ Fairness

-----------------------------------------------------------------------------
(* No subscription outlives its supervisor: an entry of ctx.subs is owned  *)
(* by the guard of the running task or of a cancelled one that the         *)
(* executor is about to drop; and the watchdog's map has the same keys,    *)
(* through replaced and cancelled supervisors and late reports.            *)
SubscriptionIsOwned ==
  \A n \in Node :
    /\ subs[n] # None =>
         owned[n] = subs[n] \/ [node |-> n, sub |-> subs[n]] \in cancelled
    /\ n \in liveness <=> subs[n] # None

(* Reports are forwarded only for a node last announced as Connected: the  *)
(* subscription is released before the loss is announced, and recorded     *)
(* when the connection is.                                                 *)
SubscribedIsAnnounced == \A n \in Node : subs[n] # None => link[n] = "Connected"

(* Both ends agree on the subscription and the device has told all.        *)
Settled(n) ==
  LET d == device[n]
  IN /\ subs[n] # None /\ subs[n] = d.sub
     /\ d.report = NoReport
     /\ d.version = d.sentVersion /\ d.next = d.sentEvents

(* Every event a device raised since the priming of a live subscription    *)
(* is forwarded once: also after a reboot that restarted its numbering,    *)
(* and although devices replay their log and the high-water mark is        *)
(* forgotten at every establishment.                                       *)
EventsForwardedOnce ==
  /\ repeated = {}
  /\ \A n \in Node : Settled(n) =>
       \A e \in device[n].start..(device[n].next - 1) :
         <<n, device[n].epoch, e>> \in forwarded

(* A settled subscription leaves the controller with the device's current  *)
(* attributes, changes during the priming included; and what it forwards   *)
(* as one change is one complete report: parts of a report that was cut    *)
(* short never join a later one.                                           *)
ViewIsCurrent ==
  /\ \A n \in Node : Settled(n) => view[n] = device[n].version
  /\ torn = {}

(* A node that keeps its supervisor and stays reachable ends up subscribed *)
(* on both sides for good, whatever the device forgot or the controller    *)
(* refused on the way.                                                     *)
Supervised(n) == task[n] # "none" /\ device[n].up /\ serving

Resubscribes ==
  \A n \in Node :
    <>[](Supervised(n) /\ requests = <<>>)
      => <>[](subs[n] # None /\ subs[n] = device[n].sub)

=============================================================================
