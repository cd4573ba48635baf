------------------------ MODULE CommissioningProofs -------------------------
(***************************************************************************)
(* Theorems about module Commissioning, for any tasks, instances and       *)
(* budgets: a sweep overruns its deadline by less than a millisecond and   *)
(* keeps to its exclude list, contention is reported only when it is real, *)
(* and success means that the device has joined.                           *)
(***************************************************************************)
EXTENDS Commissioning, FiniteSetTheorems, TLAPS

-----------------------------------------------------------------------------
(* Budgets.                                                                *)

(* inner_budget_ms gives a number of milliseconds.                         *)
LEMMA InnerBudgetType ==
  ASSUME NEW ms \in Nat
  PROVE  InnerBudget(ms) \in Nat
BY BudgetsAssumption DEF InnerBudget, Monus

(* It is strictly shorter than the timer around it, unless that is 0,      *)
(* which budget_ms never gives.                                            *)
LEMMA InnerIsShorter ==
  ASSUME NEW ms \in Nat \ {0}
  PROVE  InnerBudget(ms) < ms
BY BudgetsAssumption DEF InnerBudget, Monus

(* Milliseconds in ticks: a shorter time has fewer of them.                *)
LEMMA TicksType ==
  ASSUME NEW a \in Nat
  PROVE  Ticks(a) \in Nat
BY BudgetsAssumption DEF Ticks

LEMMA TicksGrow ==
  ASSUME NEW a \in Nat, NEW b \in Nat, a < b
  PROVE  Ticks(a) < Ticks(b)
<1>1. PICK d \in Nat : d > 0 /\ b = a + d
  <2>1. b - a \in Nat /\ b - a > 0 /\ b = a + (b - a)
    OBVIOUS
  <2> QED BY <2>1
<1>2. Ms * (a + d) = Ms * a + Ms * d
  BY BudgetsAssumption
<1>3. Ms * d > 0 /\ Ms * a \in Nat
  BY <1>1, BudgetsAssumption
<1> QED BY <1>1, <1>2, <1>3, BudgetsAssumption DEF Ticks

(* budget_ms gives a millisecond at least.                                 *)
LEMMA BudgetType ==
  ASSUME NEW left \in Nat
  PROVE  BudgetMs(left) \in Nat /\ BudgetMs(left) > 0
BY BudgetsAssumption DEF BudgetMs

(* It rounds down, but for a remainder of less than a millisecond, so that *)
(* the timer ends less than a millisecond late.                            *)
LEMMA BudgetBound ==
  ASSUME NEW left \in Nat, left > 0
  PROVE  Ticks(BudgetMs(left)) < left + Ms
<1>1. left = Ms * (left \div Ms) + (left % Ms)
  BY BudgetsAssumption
<1>2. left % Ms >= 0 /\ left \div Ms \in Nat
  BY BudgetsAssumption
<1>3. Ms * 1 = Ms
  BY BudgetsAssumption
<1> QED BY <1>1, <1>2, <1>3, BudgetsAssumption DEF BudgetMs, Ticks

(* A timer counts down to 0 and no further.                                *)
LEMMA MonusType ==
  ASSUME NEW a \in Nat, NEW b \in Nat
  PROVE  /\ Monus(a, b) \in Nat
         /\ a >= b => Monus(a, b) = a - b
BY DEF Monus

LEMMA DownType ==
  ASSUME NEW timer \in [Task -> Nat], NEW who
  PROVE  Down(timer, who) \in [Task -> Nat]
BY MonusType DEF Down

-----------------------------------------------------------------------------
(* Types.                                                                  *)

(* The first state is well typed.                                          *)
LEMMA InitType == Init => TypeOK
BY BudgetsAssumption, NobodyAssumption DEF Init, TypeOK, Results, Errors, Nobody

(* Every step keeps the types, among them that the slot belongs to the one *)
(* task that browses and that the fail-safe runs as long as it is armed.   *)
LEMMA TypeStep == TypeOK /\ [Next]_vars => TypeOK'
<1> SUFFICES ASSUME TypeOK, [Next]_vars PROVE TypeOK'
  OBVIOUS
<1> USE BudgetsAssumption, NobodyAssumption
      DEF TypeOK, Results, Errors, browseVars, deviceVars, unchangedByPhases,
          Enter, Finish, Browsing
<1>1. ASSUME NEW t \in Task, Browse(t) PROVE TypeOK'
  BY <1>1, TicksType DEF Browse, Begin
<1>2. ASSUME NEW t \in Task, Commission(t) PROVE TypeOK'
  <2>1. /\ op' \in [Task -> {"none", "Browse", "Commission"}]
        /\ found' \in [Task -> SUBSET Instance]
        /\ ops' \in 0..MaxOps
    BY <1>2 DEF Commission, Begin
  <2>2. /\ armed' \in Task \cup {Nobody, Earlier}
        /\ armed' = Nobody <=> failsafe' = 0
    BY <1>2 DEF Commission, Nobody, Earlier
  <2>a. BudgetMs(Ticks(BrowseBudget)) \in Nat
    BY TicksType, BudgetType
  <2>3. \E p \in {"idle", "slot", "pase"}, r \in Results : Enter(t, p, r)
    BY <1>2 DEF Commission, ResolveTarget, ParseFails, NocGenerator, StartPhase,
                BrowseOne
  <2>4. /\ outer' \in [Task -> Nat] /\ budget' \in [Task -> Nat]
        /\ waited' \in [Task -> Nat]
    BY <1>2, <2>a, TicksType DEF Commission, ResolveTarget, ParseFails, NocGenerator, StartPhase,
                BrowseOne
  <2>5. at[t] # "browse" /\ UNCHANGED <<inner, deadline, slot, failsafe, joined>>
    BY <1>2 DEF Commission, Begin
  <2>6. PICK p \in {"idle", "slot", "pase"}, r \in Results : Enter(t, p, r)
    BY <2>3
  <2>7. /\ at' \in [Task -> {"idle", "sweep", "slot", "browse", "pase", "case", "label"}]
        /\ result' \in [Task -> Results]
    BY <2>6
  <2>8. \A u \in Task : at'[u] = "browse" <=> slot' = u
    BY <2>5, <2>6
  <2> QED BY <2>1, <2>2, <2>4, <2>5, <2>7, <2>8
<1>3. ASSUME NEW t \in Task, Sweep(t) PROVE TypeOK'
  <2>1. CASE IsFull(t) \/ deadline[t] = 0
    BY <1>3, <2>1 DEF Sweep
  <2>2. CASE ~(IsFull(t) \/ deadline[t] = 0)
    <3>1. BudgetMs(deadline[t]) \in Nat /\ Ticks(BudgetMs(deadline[t])) \in Nat
      BY TicksType, BudgetType
    <3> QED BY <1>3, <2>2, <3>1 DEF Sweep, BrowseOne
  <2> QED BY <2>1, <2>2
<1>4. ASSUME NEW t \in Task, TakeSlot(t) PROVE TypeOK'
  BY <1>4, InnerBudgetType, TicksType DEF TakeSlot
<1>5. ASSUME NEW t \in Task, BrowseFound(t) PROVE TypeOK'
  BY <1>5 DEF BrowseFound, NocGenerator, StartPhase, Release
<1>6. ASSUME NEW t \in Task,
             BrowseNotFound(t) \/ BrowseFails(t) \/ BrowseTimesOut(t)
      PROVE  TypeOK'
  BY <1>6 DEF BrowseNotFound, BrowseFails, BrowseTimesOut, BrowseEnds, Release
<1>7. ASSUME NEW t \in Task, DeviceArms(t) PROVE TypeOK'
  BY <1>7 DEF DeviceArms
<1>8. ASSUME NEW t \in Task, DeviceCompletes(t) PROVE TypeOK'
  BY <1>8 DEF DeviceCompletes
<1>9. ASSUME NEW t \in Task,
             \/ DeviceBusy(t) \/ Phase1Done(t) \/ Phase2Done(t) \/ PhaseFails(t)
             \/ PhaseTimesOut(t) \/ PushLabel(t)
      PROVE  TypeOK'
  BY <1>9 DEF DeviceBusy, Phase1Done, StartPhase, Phase2Done, PhaseFails, PhaseTimesOut,
              PushLabel
<1>10. CASE Tick
  <2>1. outer' \in [Task -> Nat] /\ inner' \in [Task -> Nat] /\ deadline' \in [Task -> Nat]
    BY <1>10, DownType DEF Tick, Timed
  <2>2. waited' \in [Task -> Nat]
    BY <1>10 DEF Tick
  <2>3. failsafe' \in Nat /\ (armed' = Nobody <=> failsafe' = 0)
    BY <1>10 DEF Tick, Monus
  <2> QED BY <2>1, <2>2, <2>3, <1>10 DEF Tick
<1>11. CASE UNCHANGED vars
  BY <1>11 DEF vars
<1> QED
  BY <1>1, <1>2, <1>3, <1>4, <1>5, <1>6, <1>7, <1>8, <1>9, <1>10, <1>11
     DEF Next, TaskStep, NetworkStep

-----------------------------------------------------------------------------
(* A tick takes one from the timers of a task that browses, none of which  *)
(* has run out.                                                            *)
LEMMA TickRuns ==
  ASSUME TypeOK, Tick, NEW t \in Task, Browsing(t)
  PROVE  /\ outer[t] > 0 /\ outer'[t] = outer[t] - 1
         /\ at[t] = "browse" => inner[t] > 0 /\ inner'[t] = inner[t] - 1
<1>1. outer[t] > 0 /\ (at[t] = "browse" => inner[t] > 0)
  BY DEF Tick, Due, Timed, Browsing, TypeOK
<1>2. outer'[t] = Monus(outer[t], 1)
  BY DEF Tick, Timed, Down, TypeOK
<1>3. at[t] = "browse" => inner'[t] = Monus(inner[t], 1)
  BY DEF Tick, Down, TypeOK
<1> QED BY <1>1, <1>2, <1>3 DEF Monus, TypeOK

-----------------------------------------------------------------------------
(* The timers of a browse.  While a task waits for the slot, what it has   *)
(* waited and what is left make up its budget; once it has the slot, the   *)
(* outer timer is ahead of the inner one by the margin less the wait.      *)

TimersOf(t) ==
  /\ at[t] = "slot" =>
       /\ budget[t] > 0 /\ result[t] = "none"
       /\ waited[t] + outer[t] = Ticks(budget[t])
  /\ at[t] = "browse" =>
       /\ budget[t] > 0 /\ result[t] = "none"
       /\ outer[t] + waited[t] + Ticks(InnerBudget(budget[t]))
            = inner[t] + Ticks(budget[t])
  /\ result[t] = "contended" =>
       /\ waited[t] > 0
       /\ waited[t] + Ticks(InnerBudget(budget[t])) >= Ticks(budget[t])

TimersAgree == \A t \in Task : TimersOf(t)

(* Every step keeps the timers in step: the outer one runs out before the  *)
(* inner one only if the wait used the margin up.                          *)
LEMMA TimersStep == TypeOK /\ TimersAgree /\ [Next]_vars => TimersAgree'
<1> SUFFICES ASSUME TypeOK, TimersAgree, [Next]_vars PROVE TimersAgree'
  OBVIOUS
<1>a. \A ms \in Nat : Ticks(ms) \in Nat /\ Ticks(InnerBudget(ms)) \in Nat
  BY InnerBudgetType, TicksType
<1>b. \A ms \in Nat : ms > 0 => Ticks(InnerBudget(ms)) < Ticks(ms)
  BY InnerBudgetType, InnerIsShorter, TicksGrow
<1>c. \A left \in Nat : BudgetMs(left) \in Nat /\ BudgetMs(left) > 0
  BY BudgetType
<1> USE BudgetsAssumption, <1>a, <1>b, <1>c
      DEF TypeOK, TimersAgree, TimersOf, Errors, browseVars, deviceVars, unchangedByPhases,
          Enter, Finish, Browsing
<1>1. ASSUME NEW t \in Task, Browse(t) PROVE TimersAgree'
  BY <1>1 DEF Browse, Begin
<1>2. ASSUME NEW t \in Task, Commission(t) PROVE TimersAgree'
  BY <1>2 DEF Commission, Begin, ResolveTarget, ParseFails, NocGenerator, StartPhase,
              BrowseOne
<1>3. ASSUME NEW t \in Task, Sweep(t) PROVE TimersAgree'
  <2>1. CASE IsFull(t) \/ deadline[t] = 0
    BY <1>3, <2>1 DEF Sweep
  <2>2. CASE ~(IsFull(t) \/ deadline[t] = 0)
    BY <1>3, <2>2 DEF Sweep, BrowseOne
  <2> QED BY <2>1, <2>2
<1>4. ASSUME NEW t \in Task, TakeSlot(t) PROVE TimersAgree'
  BY <1>4 DEF TakeSlot
<1>5. ASSUME NEW t \in Task, BrowseFound(t) PROVE TimersAgree'
  BY <1>5 DEF BrowseFound, NocGenerator, StartPhase
<1>6. ASSUME NEW t \in Task, BrowseNotFound(t) \/ BrowseFails(t) PROVE TimersAgree'
  BY <1>6 DEF BrowseNotFound, BrowseFails, BrowseEnds
<1>7. ASSUME NEW t \in Task, BrowseTimesOut(t) PROVE TimersAgree'
  BY <1>7 DEF BrowseTimesOut, BrowseEnds
<1>8. ASSUME NEW t \in Task, DeviceArms(t) \/ DeviceCompletes(t) PROVE TimersAgree'
  BY <1>8 DEF DeviceArms, DeviceCompletes
<1>9. ASSUME NEW t \in Task,
             \/ DeviceBusy(t) \/ Phase1Done(t) \/ Phase2Done(t) \/ PhaseFails(t)
             \/ PhaseTimesOut(t) \/ PushLabel(t)
      PROVE  TimersAgree'
  BY <1>9 DEF DeviceBusy, Phase1Done, StartPhase, Phase2Done, PhaseFails, PhaseTimesOut,
              PushLabel
<1>10. CASE Tick
  <2> SUFFICES ASSUME NEW t \in Task PROVE TimersOf(t)'
    OBVIOUS
  <2>1. UNCHANGED <<at, result, budget>>
    BY <1>10 DEF Tick
  <2>2. CASE at[t] = "slot"
    <3>1. waited'[t] = waited[t] + 1
      BY <1>10, <2>2 DEF Tick
    <3>2. outer[t] > 0 /\ outer'[t] = outer[t] - 1
      BY <1>10, <2>2, TickRuns
    <3>3. Ticks(budget[t]) \in Nat /\ waited[t] + outer[t] = Ticks(budget[t])
      BY <2>2
    <3>4. waited'[t] + outer'[t] = Ticks(budget'[t])
      BY <2>1, <3>1, <3>2, <3>3
    <3> QED BY <2>1, <2>2, <3>4
  <2>3. CASE at[t] = "browse"
    <3>1. waited'[t] = waited[t]
      BY <1>10, <2>3 DEF Tick
    <3>2. /\ outer[t] > 0 /\ outer'[t] = outer[t] - 1
          /\ inner[t] > 0 /\ inner'[t] = inner[t] - 1
      BY <1>10, <2>3, TickRuns
    <3>3. /\ Ticks(budget[t]) \in Nat /\ Ticks(InnerBudget(budget[t])) \in Nat
          /\ outer[t] + waited[t] + Ticks(InnerBudget(budget[t]))
               = inner[t] + Ticks(budget[t])
      BY <2>3
    <3>4. outer'[t] + waited'[t] + Ticks(InnerBudget(budget'[t]))
            = inner'[t] + Ticks(budget'[t])
      BY <2>1, <3>1, <3>2, <3>3
    <3> QED BY <2>1, <2>3, <3>4
  <2>4. CASE ~Browsing(t)
    <3>1. waited'[t] = waited[t]
      BY <1>10, <2>4 DEF Tick
    <3> QED BY <2>1, <2>4, <3>1
  <2> QED BY <2>2, <2>3, <2>4
<1>11. CASE UNCHANGED vars
  BY <1>11 DEF vars
<1> QED
  BY <1>1, <1>2, <1>3, <1>4, <1>5, <1>6, <1>7, <1>8, <1>9, <1>10, <1>11
     DEF Next, TaskStep, NetworkStep

-----------------------------------------------------------------------------
(* The bounds of a sweep.                                                  *)

(* Every step keeps them: a browse gets what is left of the deadline in    *)
(* whole milliseconds, and both run down together.  A timer that goes on   *)
(* after the deadline is short of a millisecond already.                   *)
LEMMA SweepStep == TypeOK /\ SweepInBounds /\ [Next]_vars => SweepInBounds'
<1> SUFFICES ASSUME TypeOK, SweepInBounds, [Next]_vars PROVE SweepInBounds'
  OBVIOUS
<1>a. \A t \in Task : Cardinality(found[t]) \in Nat
  BY InstanceAssumption, FS_Subset, FS_CardinalityType DEF TypeOK
<1> USE BudgetsAssumption, <1>a
      DEF TypeOK, SweepInBounds, browseVars, deviceVars, unchangedByPhases,
          Enter, Finish, Browsing
<1>1. ASSUME NEW t \in Task, Browse(t) PROVE SweepInBounds'
  BY <1>1 DEF Browse, Begin
<1>2. ASSUME NEW t \in Task, Commission(t) PROVE SweepInBounds'
  BY <1>2 DEF Commission, Begin, ResolveTarget, ParseFails, NocGenerator, StartPhase,
              BrowseOne
<1>3. ASSUME NEW t \in Task, Sweep(t) PROVE SweepInBounds'
  BY <1>3, BudgetBound DEF Sweep, BrowseOne, IsFull
<1>4. ASSUME NEW t \in Task, TakeSlot(t) PROVE SweepInBounds'
  BY <1>4 DEF TakeSlot
<1>5. ASSUME NEW t \in Task, BrowseFound(t) PROVE SweepInBounds'
  BY <1>5 DEF BrowseFound, NocGenerator, StartPhase
<1>6. ASSUME NEW t \in Task,
             BrowseNotFound(t) \/ BrowseFails(t) \/ BrowseTimesOut(t)
      PROVE  SweepInBounds'
  BY <1>6 DEF BrowseNotFound, BrowseFails, BrowseTimesOut, BrowseEnds
<1>7. ASSUME NEW t \in Task, DeviceArms(t) \/ DeviceCompletes(t) PROVE SweepInBounds'
  BY <1>7 DEF DeviceArms, DeviceCompletes
<1>8. ASSUME NEW t \in Task,
             \/ DeviceBusy(t) \/ Phase1Done(t) \/ Phase2Done(t) \/ PhaseFails(t)
             \/ PhaseTimesOut(t) \/ PushLabel(t)
      PROVE  SweepInBounds'
  BY <1>8 DEF DeviceBusy, Phase1Done, StartPhase, Phase2Done, PhaseFails, PhaseTimesOut,
              PushLabel
<1>9. CASE Tick
  <2> SUFFICES ASSUME NEW t \in Task, op[t] = "Browse", Browsing(t)
               PROVE  outer'[t] < deadline'[t] + Ms /\ Cardinality(found[t]) < MaxSweep
    BY <1>9 DEF Tick
  <2>1. outer[t] < deadline[t] + Ms /\ Cardinality(found[t]) < MaxSweep
    BY <1>9 DEF Tick
  <2>2. outer[t] > 0 /\ outer'[t] = outer[t] - 1
    BY <1>9, TickRuns
  <2>3. deadline'[t] = Monus(deadline[t], 1)
    BY <1>9 DEF Tick, Down
  <2> QED BY <2>1, <2>2, <2>3 DEF Monus
<1>10. CASE UNCHANGED vars
  BY <1>10 DEF vars
<1> QED
  BY <1>1, <1>2, <1>3, <1>4, <1>5, <1>6, <1>7, <1>8, <1>9, <1>10
     DEF Next, TaskStep, NetworkStep

-----------------------------------------------------------------------------
(* Who has joined the device.  A device on the fabric is never armed       *)
(* again, so whoever has joined it stays the one that has.                 *)

JoinInv ==
  /\ armed # Nobody => joined = Nobody
  /\ \A t \in Task : at[t] = "sweep" => op[t] = "Browse"
  /\ \A t \in Task : at[t] = "label" => joined = t
  /\ CommissionedMeansJoined

(* Every step keeps this, a retry after an attempt that was given up too.  *)
LEMMA JoinStep == TypeOK /\ JoinInv /\ [Next]_vars => JoinInv'
<1> SUFFICES ASSUME TypeOK, JoinInv, [Next]_vars PROVE JoinInv'
  OBVIOUS
<1> USE NobodyAssumption
      DEF TypeOK, JoinInv, CommissionedMeansJoined, Errors, browseVars, deviceVars,
          unchangedByPhases, Enter, Finish, Browsing
<1>1. ASSUME NEW t \in Task, Browse(t) PROVE JoinInv'
  BY <1>1 DEF Browse, Begin
<1>2. ASSUME NEW t \in Task, Commission(t) PROVE JoinInv'
  BY <1>2 DEF Commission, Begin, ResolveTarget, ParseFails, NocGenerator, StartPhase,
              BrowseOne
<1>3. ASSUME NEW t \in Task, Sweep(t) PROVE JoinInv'
  BY <1>3 DEF Sweep, BrowseOne
<1>4. ASSUME NEW t \in Task, TakeSlot(t) PROVE JoinInv'
  BY <1>4 DEF TakeSlot
<1>5. ASSUME NEW t \in Task, BrowseFound(t) PROVE JoinInv'
  BY <1>5 DEF BrowseFound, NocGenerator, StartPhase
<1>6. ASSUME NEW t \in Task,
             BrowseNotFound(t) \/ BrowseFails(t) \/ BrowseTimesOut(t)
      PROVE  JoinInv'
  BY <1>6 DEF BrowseNotFound, BrowseFails, BrowseTimesOut, BrowseEnds
<1>7. ASSUME NEW t \in Task, DeviceArms(t) PROVE JoinInv'
  BY <1>7 DEF DeviceArms
<1>8. ASSUME NEW t \in Task, DeviceCompletes(t) PROVE JoinInv'
  BY <1>8 DEF DeviceCompletes
<1>9. ASSUME NEW t \in Task,
             \/ DeviceBusy(t) \/ Phase1Done(t) \/ Phase2Done(t) \/ PhaseFails(t)
             \/ PhaseTimesOut(t) \/ PushLabel(t)
      PROVE  JoinInv'
  BY <1>9 DEF DeviceBusy, Phase1Done, StartPhase, Phase2Done, PhaseFails, PhaseTimesOut,
              PushLabel
<1>10. CASE Tick
  BY <1>10 DEF Tick
<1>11. CASE UNCHANGED vars
  BY <1>11 DEF vars
<1> QED
  BY <1>1, <1>2, <1>3, <1>4, <1>5, <1>6, <1>7, <1>8, <1>9, <1>10, <1>11
     DEF Next, TaskStep, NetworkStep

-----------------------------------------------------------------------------
(* Every reachable state is well typed; in particular the browse slot has  *)
(* one holder, who browses.                                                *)
THEOREM TypeCorrect == Spec => []TypeOK
BY InitType, TypeStep, PTL DEF Spec

(* A sweep overruns its deadline by less than a millisecond, however many  *)
(* browses it makes and however long each of them waits for the slot, and  *)
(* keeps to the exclude list of rs-matter (browse, browse_one, budget_ms). *)
THEOREM SweepsKeepBounds == Spec => []SweepInBounds
<1>1. Init => SweepInBounds
  BY DEF Init, SweepInBounds, Browsing
<1> QED
  BY <1>1, SweepStep, TypeCorrect, PTL DEF Spec

(* For every budget and every margin, browse_one blames the slot only when *)
(* another task held it for the margin at least.                           *)
THEOREM ContentionIsTrue == Spec => []ContentionIsReal
<1>1. Init => TimersAgree
  BY DEF Init, TimersAgree, TimersOf
<1>2. TimersAgree => ContentionIsReal
  BY DEF TimersAgree, TimersOf, ContentionIsReal
<1> QED
  BY <1>1, <1>2, TimersStep, TypeCorrect, PTL DEF Spec

(* A commissioning that answers with success has joined the device itself, *)
(* whatever earlier attempts left behind (commission).                     *)
THEOREM SuccessIsJoined == Spec => []CommissionedMeansJoined
<1>1. Init => JoinInv
  BY NobodyAssumption DEF Init, JoinInv, CommissionedMeansJoined
<1>2. JoinInv => CommissionedMeansJoined
  BY DEF JoinInv
<1> QED
  BY <1>1, <1>2, JoinStep, TypeCorrect, PTL DEF Spec

=============================================================================
