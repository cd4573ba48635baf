--------------------------- MODULE Commissioning ----------------------------
(***************************************************************************)
(* Discovery and commissioning on the stack thread                         *)
(* (crates/stack/src/ops/discovery.rs and ops/commission.rs): sweeps and   *)
(* commissionings run as concurrent tasks and share the one browse slot of *)
(* rs-matter's transport; commissionings run against the timers of their   *)
(* two phases and the fail-safe of the device.                             *)
(*                                                                         *)
(* Time passes in ticks of the executor's clock, Ms to a millisecond; the  *)
(* budgets of a browse are whole milliseconds.  A timer that has run out   *)
(* is seen, and a free slot is taken, before the next tick; of two timers  *)
(* that run out in the same tick either may be seen first.  The            *)
(* controller's alloc_lock keeps commissionings apart; all are of one      *)
(* device, so that each meets what the one before it left there.           *)
(***************************************************************************)
EXTENDS Naturals, FiniteSets

CONSTANTS
  Task,          \* detached tasks, one operation at a time
  Instance,      \* commissionable instances that advertise themselves
  MaxSweep,      \* MAX_SWEEP
  Ms,            \* ticks in a millisecond
  Margin,        \* SLOT_MARGIN_MS
  SweepBudget,   \* timeout_ms of a discover, in ms
  BrowseBudget,  \* BROWSE_TIMEOUT, in ms
  PhaseBudget,   \* COMMISSION_TIMEOUT_SECS, in ticks
  FailSafe,      \* how long the device is armed, in ticks
  MaxOps         \* bound: operations started

ASSUME BudgetsAssumption ==
  /\ MaxSweep \in Nat \ {0} /\ Ms \in Nat \ {0} /\ Margin \in Nat \ {0}
  /\ SweepBudget \in Nat /\ BrowseBudget \in Nat \ {0}
  /\ PhaseBudget \in Nat \ {0} /\ FailSafe \in Nat \ {0}
  /\ MaxOps \in Nat

ASSUME InstanceAssumption == IsFiniteSet(Instance)

Nobody  == "nobody"
Earlier == "earlier"   \* an attempt that its task has given up

ASSUME NobodyAssumption == Task \cap {Nobody, Earlier} = {}

Errors  == {"unreachable", "timeout", "busy", "sdk"}
(* "contended" is the Timeout of browse_one, "late" that of the phase 2.   *)
Results == {"none", "ok", "invalid", "contended", "late"} \cup Errors

VARIABLES
  op,        \* what each task does: a sweep or a commissioning
  at,        \* where it is
  result,    \* how its last operation or its last browse ended
  outer,     \* the ticks left of the timer around its browse or its phase
  inner,     \* what is left of the browse's own timeout, once it has the slot
  deadline,  \* what is left of its sweep
  found,     \* the instances of its sweep, which are the exclude list
  slot,      \* who has the browse slot
  armed,     \* for whom the device's fail-safe is armed
  failsafe,  \* what is left of it
  joined,    \* whose commissioning the device has completed
  \* for the bound and the properties: operations started; the budget of the
  \* last browse, in ms, and how long another task had the slot meanwhile
  ops, budget, waited

browseVars == <<inner, deadline, found, slot, budget, waited>>
deviceVars == <<armed, failsafe, joined>>

vars == <<op, at, result, outer, browseVars, deviceVars, ops>>

Browsing(t) == at[t] \in {"slot", "browse"}

TypeOK ==
  /\ op \in [Task -> {"none", "Browse", "Commission"}]
  /\ at \in [Task -> {"idle", "sweep", "slot", "browse", "pase", "case", "label"}]
  /\ result \in [Task -> Results]
  /\ outer \in [Task -> Nat] /\ inner \in [Task -> Nat]
  /\ deadline \in [Task -> Nat] /\ budget \in [Task -> Nat]
  /\ waited \in [Task -> Nat]
  /\ found \in [Task -> SUBSET Instance]
  /\ slot \in Task \cup {Nobody}
  /\ armed \in Task \cup {Nobody, Earlier} /\ joined \in Task \cup {Nobody}
  /\ failsafe \in Nat /\ (armed = Nobody <=> failsafe = 0)
  /\ ops \in 0..MaxOps
  /\ \A t \in Task : at[t] = "browse" <=> slot = t

Init ==
  /\ op = [t \in Task |-> "none"]
  /\ at = [t \in Task |-> "idle"]
  /\ result = [t \in Task |-> "none"]
  /\ outer = [t \in Task |-> 0] /\ inner = [t \in Task |-> 0]
  /\ deadline = [t \in Task |-> 0] /\ budget = [t \in Task |-> 0]
  /\ waited = [t \in Task |-> 0]
  /\ found = [t \in Task |-> {}]
  /\ slot = Nobody
  /\ armed = Nobody /\ failsafe = 0 /\ joined = Nobody
  /\ ops = 0

-----------------------------------------------------------------------------
Monus(a, b) == IF a > b THEN a - b ELSE 0

Ticks(ms) == Ms * ms

(* A number of ticks in whole milliseconds, at least 1.                    *)
BudgetMs(left) == LET ms == left \div Ms IN IF ms > 1 THEN ms ELSE 1

(* Mutant: the browse may take as long as the timer around it.             *)
InnerBudgetWhole(ms) == ms

InnerBudget(ms) ==
  LET short == Monus(ms, Margin) IN IF short > ms \div 2 THEN short ELSE ms \div 2

Enter(t, p, r) ==
  /\ at' = [at EXCEPT ![t] = p]
  /\ result' = [result EXCEPT ![t] = r]

Finish(t, r) == Enter(t, "idle", r)

(* browse_one, with what is left, in ticks: the timer starts at once, for  *)
(* that time in whole milliseconds; the browse waits for the slot.         *)
BrowseOne(t, left) ==
  /\ Enter(t, "slot", "none")
  /\ outer' = [outer EXCEPT ![t] = Ticks(BudgetMs(left))]
  /\ budget' = [budget EXCEPT ![t] = BudgetMs(left)]
  /\ waited' = [waited EXCEPT ![t] = 0]

-----------------------------------------------------------------------------
(* browse: a sweep.                                                        *)

Begin(t, kind) ==
  /\ at[t] = "idle"
  /\ ops < MaxOps
  /\ ops' = ops + 1
  /\ op' = [op EXCEPT ![t] = kind]
  /\ found' = [found EXCEPT ![t] = {}]

Browse(t) ==
  /\ Begin(t, "Browse")
  /\ deadline' = [deadline EXCEPT ![t] = Ticks(SweepBudget)]
  /\ Enter(t, "sweep", "none")
  /\ UNCHANGED <<outer, inner, slot, budget, waited, deviceVars>>

IsFull(t) == Cardinality(found[t]) >= MaxSweep

(* Mutant: every browse of a sweep gets the whole time again.              *)
SweepRestarts(t) ==
  /\ at[t] = "sweep"
  /\ IF IsFull(t) \/ deadline[t] = 0
       THEN Finish(t, "ok") /\ UNCHANGED <<outer, budget, waited>>
       ELSE BrowseOne(t, Ticks(SweepBudget))
  /\ UNCHANGED <<op, inner, deadline, found, slot, deviceVars, ops>>

(* The head of the loop: enough found, the time used up, or another browse *)
(* with what is left of it.                                                *)
Sweep(t) ==
  /\ at[t] = "sweep"
  /\ IF IsFull(t) \/ deadline[t] = 0
       THEN Finish(t, "ok") /\ UNCHANGED <<outer, budget, waited>>
       ELSE BrowseOne(t, deadline[t])
  /\ UNCHANGED <<op, inner, deadline, found, slot, deviceVars, ops>>

-----------------------------------------------------------------------------
(* The rendezvous slot of the transport (rs-matter), and browse_one.       *)

TakeSlot(t) ==
  /\ at[t] = "slot" /\ slot = Nobody
  /\ slot' = t
  /\ at' = [at EXCEPT ![t] = "browse"]
  /\ inner' = [inner EXCEPT ![t] = Ticks(InnerBudget(budget[t]))]
  /\ UNCHANGED <<op, result, outer, deadline, found, budget, waited, deviceVars, ops>>

Release(t) == slot' = IF slot = t THEN Nobody ELSE slot

(* The next phase of a commissioning starts, with a timer of its own.      *)
StartPhase(t, p) ==
  /\ Enter(t, p, "none")
  /\ outer' = [outer EXCEPT ![t] = PhaseBudget]

(* The signer of the new NOC is made from the identity, which may fail.    *)
NocGenerator(t) == StartPhase(t, "pase") \/ (Finish(t, "sdk") /\ UNCHANGED outer)

(* An instance that is not excluded answers.                               *)
BrowseFound(t) ==
  /\ at[t] = "browse"
  /\ \E i \in Instance \ found[t] :
       \/ /\ op[t] = "Browse"
          /\ found' = [found EXCEPT ![t] = @ \cup {i}]
          /\ Enter(t, "sweep", "none")
          /\ UNCHANGED outer
       \/ /\ op[t] = "Commission"
          /\ NocGenerator(t)
          /\ UNCHANGED found
  /\ Release(t)
  /\ UNCHANGED <<op, inner, deadline, budget, waited, deviceVars, ops>>

(* A browse that fails ends a sweep, which answers with what it has, and   *)
(* fails a commissioning.                                                  *)
BrowseEnds(t, r) ==
  /\ Finish(t, r)
  /\ Release(t)
  /\ UNCHANGED <<op, outer, inner, deadline, found, budget, waited, deviceVars, ops>>

(* The browse's own timeout is the NotFound that map_err takes for an      *)
(* unreachable node; it may fail otherwise at any time.                    *)
BrowseNotFound(t) == at[t] = "browse" /\ inner[t] = 0 /\ BrowseEnds(t, "unreachable")

BrowseFails(t) == at[t] = "browse" /\ BrowseEnds(t, "sdk")

BrowseTimesOut(t) == Browsing(t) /\ outer[t] = 0 /\ BrowseEnds(t, "contended")

-----------------------------------------------------------------------------
(* commission.                                                             *)

unchangedByPhases == <<op, inner, deadline, found, slot, budget, waited, ops>>

(* A code or an address that does not parse is the caller's mistake.       *)
ParseFails(t) == Finish(t, "invalid") /\ UNCHANGED <<outer, budget, waited>>

(* resolve_target: an address to knock at, or a browse for one.            *)
ResolveTarget(t) ==
  \/ ParseFails(t)
  \/ NocGenerator(t) /\ UNCHANGED <<budget, waited>>
  \/ BrowseOne(t, Ticks(BrowseBudget))

(* do_commission holds alloc_lock until its commissioning has ended.       *)
AllocLock == \A u \in Task : op[u] = "Commission" => at[u] = "idle"

Commission(t) ==
  /\ AllocLock
  /\ Begin(t, "Commission")
  /\ ResolveTarget(t)
  /\ armed' = IF armed = Nobody THEN Nobody ELSE Earlier
  /\ UNCHANGED <<inner, deadline, slot, failsafe, joined>>

(* The device, in phase 1: ArmFailSafe, or Busy while it is armed for an   *)
(* earlier attempt.  A device that has joined opens no PASE session.       *)
DeviceArms(t) ==
  /\ at[t] = "pase"
  /\ armed = Nobody /\ joined = Nobody
  /\ armed' = t /\ failsafe' = FailSafe
  /\ UNCHANGED <<at, result, outer, joined, unchangedByPhases>>

DeviceBusy(t) ==
  /\ at[t] = "pase"
  /\ armed = Earlier
  /\ Finish(t, "busy")
  /\ UNCHANGED <<outer, deviceVars, unchangedByPhases>>

(* The NOC is added over PASE: phase 2 starts with a timer of its own,     *)
(* while the fail-safe goes on from where it is.                           *)
Phase1Done(t) ==
  /\ at[t] = "pase" /\ armed = t
  /\ StartPhase(t, "case")
  /\ UNCHANGED <<deviceVars, unchangedByPhases>>

(* The device gets CommissioningComplete while it is armed, and stays on   *)
(* the fabric from then on.                                                *)
DeviceCompletes(t) ==
  /\ at[t] = "case" /\ armed = t
  /\ joined' = t
  /\ armed' = Nobody /\ failsafe' = 0
  /\ UNCHANGED <<at, result, outer, unchangedByPhases>>

(* Mutant: phase 2 is taken for done without an answer to it.              *)
Phase2Assumed(t) ==
  /\ at[t] = "case"
  /\ Enter(t, "label", "none")
  /\ UNCHANGED <<outer, deviceVars, unchangedByPhases>>

Phase2Done(t) ==
  /\ at[t] = "case" /\ joined = t
  /\ Enter(t, "label", "none")
  /\ UNCHANGED <<outer, deviceVars, unchangedByPhases>>

(* A phase ends with an error: lost messages, a refusal, a rolled back     *)
(* device.                                                                 *)
PhaseFails(t) ==
  /\ at[t] \in {"pase", "case"}
  /\ \E e \in Errors : Finish(t, e)
  /\ UNCHANGED <<outer, deviceVars, unchangedByPhases>>

(* Mutant: only the first phase has a timer.                               *)
Phase2Unbounded(t) ==
  /\ at[t] = "pase" /\ outer[t] = 0
  /\ Finish(t, "timeout")
  /\ UNCHANGED <<outer, deviceVars, unchangedByPhases>>

PhaseTimesOut(t) ==
  /\ at[t] \in {"pase", "case"} /\ outer[t] = 0
  /\ Finish(t, IF at[t] = "case" THEN "late" ELSE "timeout")
  /\ UNCHANGED <<outer, deviceVars, unchangedByPhases>>

(* The fabric is named on the node, whatever comes of it.                  *)
PushLabel(t) ==
  /\ at[t] = "label"
  /\ Finish(t, "ok")
  /\ UNCHANGED <<outer, deviceVars, unchangedByPhases>>

-----------------------------------------------------------------------------
TaskStep(t) ==
  \/ Sweep(t) \/ TakeSlot(t) \/ BrowseNotFound(t) \/ BrowseTimesOut(t)
  \/ PhaseTimesOut(t) \/ PushLabel(t)

NetworkStep(t) ==
  \/ BrowseFound(t) \/ BrowseFails(t)
  \/ DeviceArms(t) \/ DeviceBusy(t) \/ Phase1Done(t) \/ DeviceCompletes(t)
  \/ Phase2Done(t) \/ PhaseFails(t)

Timed(t) == Browsing(t) \/ at[t] \in {"pase", "case"}

(* Whether t has something to do before time goes on.                      *)
Due(t) ==
  \/ at[t] \in {"sweep", "label"}
  \/ Timed(t) /\ outer[t] = 0
  \/ at[t] = "browse" /\ inner[t] = 0
  \/ at[t] = "slot" /\ slot = Nobody

Down(timer, who) == [t \in Task |-> IF who[t] THEN Monus(timer[t], 1) ELSE timer[t]]

(* A fail-safe that runs out rolls the device back.                        *)
Tick ==
  /\ \A t \in Task : ~Due(t)
  /\ failsafe > 0 \/ \E t \in Task : Timed(t)
  /\ outer' = Down(outer, [t \in Task |-> Timed(t)])
  /\ inner' = Down(inner, [t \in Task |-> at[t] = "browse"])
  /\ deadline' = Down(deadline, [t \in Task |-> Browsing(t)])
  /\ waited' = [t \in Task |-> waited[t] + (IF at[t] = "slot" THEN 1 ELSE 0)]
  /\ failsafe' = Monus(failsafe, 1)
  /\ armed' = IF failsafe <= 1 THEN Nobody ELSE armed
  /\ UNCHANGED <<op, at, result, found, slot, budget, joined, ops>>

Next ==
  \/ \E t \in Task : Browse(t) \/ Commission(t) \/ TaskStep(t) \/ NetworkStep(t)
  \/ Tick

(* The executor runs every task that is due, and time passes.  Nothing is  *)
(* expected of the network.                                                *)
Fairness == (\A t \in Task : WF_vars(TaskStep(t))) /\ WF_vars(Tick)

Spec == Init /\ [][Next]_vars /\ Fairness

-----------------------------------------------------------------------------
(* A sweep overruns its deadline by less than a millisecond, however many  *)
(* browses it makes, and stays within the exclude list of rs-matter: only  *)
(* a last browse, for a remainder of less than that, is rounded up.        *)
SweepInBounds ==
  \A t \in Task :
    op[t] = "Browse" /\ Browsing(t) =>
      outer[t] < deadline[t] + Ms /\ Cardinality(found[t]) < MaxSweep

(* "Another discovery or commissioning was holding the browse slot" is     *)
(* said only when that is so, for at least the margin that the inner       *)
(* budget leaves; an empty network is reported as such.                    *)
ContentionIsReal ==
  \A t \in Task :
    result[t] = "contended" =>
      /\ waited[t] > 0
      /\ waited[t] + Ticks(InnerBudget(budget[t])) >= Ticks(budget[t])

(* A commissioning that reports success has joined the device itself: an   *)
(* earlier attempt that left it armed, or on the fabric, is never taken    *)
(* for this one's.                                                         *)
CommissionedMeansJoined ==
  \A t \in Task : op[t] = "Commission" /\ result[t] = "ok" => joined = t

(* The timer of phase 2 ends when the device has rolled back, as the       *)
(* message says.                                                           *)
LateMeansRolledBack == \A t \in Task : result[t] = "late" => t \notin {armed, joined}

(* Every sweep and every commissioning ends.                               *)
OperationsEnd == \A t \in Task : at[t] # "idle" ~> at[t] = "idle"

=============================================================================
