---------------------------- MODULE BudgetProofs ----------------------------
(***************************************************************************)
(* Theorems about the budget, for every value of the constants, however    *)
(* its programs overlap, die and lose answers: which lifts of a claimed    *)
(* block can happen, and the state file as an implementation of            *)
(* WatchLedger.                                                            *)
(***************************************************************************)
EXTENDS BudgetProperties, TLAPS

-----------------------------------------------------------------------------
(* The decision keeps the shapes of the state and of the plan. *)

LEMMA FreshDayInState == ASSUME NEW d \in Day PROVE FreshDay(d) \in State
  BY BudgetConstants DEF FreshDay, State

LEMMA NoJobTyped == NoJob \in JobType
  BY BudgetConstants DEF NoJob, NoPlan, FreshDay, State, Plan, Day, Owner, JobType

LEMMA NextStateInState ==
  ASSUME NEW st \in State, NEW lim, NEW obs, obs.today \in Day,
         NextState(st, lim, obs).seconds_used <= MaxUsed
  PROVE  NextState(st, lim, obs) \in State
  <1> DEFINE day == Accounted(st, obs)
             base == IF st.date # obs.today THEN FreshDay(obs.today) ELSE st
  <1>1. base \in State
    BY FreshDayInState
  <1>2. day = [base EXCEPT !.seconds_used = @ + (IF obs.watching THEN 1 ELSE 0)]
    BY DEF Accounted
  <1>3. day.seconds_used \in Nat
    BY <1>1, <1>2, BudgetConstants DEF State
  <1>4. NextState(st, lim, obs) = [day EXCEPT !.blocked_by_budget = OverBudget(day, lim)]
    BY DEF NextState
  <1>5. NextState(st, lim, obs).seconds_used = day.seconds_used
    BY <1>1, <1>2, <1>4 DEF State
  <1>6. day.seconds_used \in 0..MaxUsed
    BY <1>3, <1>5, BudgetConstants
  <1>7. OverBudget(day, lim) \in BOOLEAN
    BY DEF OverBudget
  <1>8. QED
    BY <1>1, <1>2, <1>4, <1>6, <1>7 DEF State

LEMMA DecideActionsInPlan ==
  ASSUME NEW st \in State, NEW lim, NEW obs, obs.pinned \in SUBSET IP
  PROVE  DecideActions(st, lim, obs) \in Plan
  <1> DEFINE new     == NextState(st, lim, obs)
             want    == WantBlocked(new, lim, obs)
             release == WantRelease(st, lim, obs)
             clear   == release \/ (~want /\ obs.firewall # {})
             block   == want /\ ~FullyBlocked(obs)
             fire    == want /\ obs.pinned \notin {{}, obs.firewall}
  <1>1. want \in BOOLEAN
    BY DEF WantBlocked
  <1>2. release \in BOOLEAN
    BY DEF WantRelease, AnyBlocked
  <1>3. clear \in BOOLEAN /\ block \in BOOLEAN /\ fire \in BOOLEAN
    BY Zenon
  <1>4. ClaimedBy(new, obs) \in Owner
    BY DEF ClaimedBy, Owner
  <1>5. DecideActions(st, lim, obs) =
          [unblock |-> release, clear |-> clear, block |-> block,
           owner |-> ClaimedBy(new, obs), firewall |-> fire, ips |-> obs.pinned]
    BY DEF DecideActions
  <1> HIDE DEF release, clear, block, fire, new
  <1>6. QED
    BY <1>2, <1>3, <1>4, <1>5 DEF Plan

LEMMA StagesAreSteps ==
  ASSUME NEW plan \in Plan
  PROVE  {FirstStage(plan), AfterUnblock(plan), AfterClear(plan), AfterBlock(plan)}
           \subseteq Step
  BY DEF FirstStage, AfterUnblock, AfterClear, AfterBlock, Step
-----------------------------------------------------------------------------
(* Type correctness. *)

LEMMA InitTyped == Init => TypeOK
  <1> SUFFICES ASSUME Init PROVE TypeOK
    OBVIOUS
  <1>1. saved \in State /\ today \in Day /\ resetDay \in Day
    BY BudgetConstants, FreshDayInState DEF Init, Day
  <1>2. job \in [{"watcher", "cli"} -> JobType]
    BY NoJobTyped DEF Init
  <1>3. owners \in [Owner -> 0..MaxDay] /\ pc \in [Program -> Step]
    BY BudgetConstants DEF Init, Step
  <1>4. limit \in 0..MaxLimit /\ events \in 0..MaxEvents
    BY BudgetConstants DEF Init
  <1>5. QED
    BY <1>1, <1>2, <1>3, <1>4 DEF Init, TypeOK, JobType

LEMMA GotoTyped ==
  ASSUME pc \in [Program -> Step], NEW p \in Program, NEW step \in Step, Goto(p, step)
  PROVE  pc' \in [Program -> Step]
  BY DEF Goto

LEMMA EventTyped == TypeOK /\ Event => events' \in 0..MaxEvents
  BY BudgetConstants DEF TypeOK, Event

LEMMA BlockedStep ==
  ASSUME TypeOK, NEW p \in {"watcher", "cli", "toggle"}
  PROVE  Blocked(p) \in Step /\ Unblocked(p) \in Step
  <1>1. CASE p = "toggle"
    BY <1>1 DEF Blocked, Unblocked, Step
  <1>2. CASE p \in {"watcher", "cli"}
    <2>1. job[p].plan \in Plan
      BY <1>2 DEF TypeOK, JobType
    <2>2. QED
      BY <1>2, <2>1, StagesAreSteps DEF Blocked, Unblocked
  <1>3. QED
    BY <1>1, <1>2

\* A call to AdGuard moves the entry, the program and the budget of events only.
LEMMA SetBlockedTyped ==
  ASSUME TypeOK, NEW p \in Program, NEW on \in BOOLEAN, NEW next \in Step, NEW failed \in Step,
         SetBlocked(p, on, next, failed)
  PROVE  service' \in BOOLEAN /\ pc' \in [Program -> Step] /\ events' \in 0..MaxEvents
  <1>1. Goto(p, next) \/ Goto(p, failed)
    BY DEF SetBlocked
  <1>2. pc' \in [Program -> Step]
    BY <1>1, GotoTyped DEF TypeOK
  <1>3. service' \in BOOLEAN
    BY DEF SetBlocked, TypeOK
  <1>4. events' \in 0..MaxEvents
    BY EventTyped DEF SetBlocked, TypeOK
  <1>5. QED
    BY <1>2, <1>3, <1>4

LEMMA LiftTyped ==
  ASSUME TypeOK, NEW p \in Program, Lift(p)
  PROVE  TypeOK'
  <1>1. service' \in BOOLEAN /\ pc' \in [Program -> Step] /\ events' \in 0..MaxEvents
    <2>1. CASE p = "reset"
      BY <2>1, SetBlockedTyped DEF Lift, Step
    <2>2. CASE p # "reset"
      <3>1. p \in {"watcher", "cli", "toggle"}
        BY <2>2 DEF Program
      <3>2. QED
        BY <2>2, <3>1, BlockedStep, SetBlockedTyped DEF Lift, Step
    <2>3. QED
      BY <2>1, <2>2
  <1>2. overtaken' \subseteq Program \X Owner
    BY DEF Lift, TypeOK
  <1>3. QED
    BY <1>1, <1>2 DEF Lift, TypeOK

LEMMA BlockTyped ==
  ASSUME TypeOK, NEW p \in {"watcher", "cli", "toggle"}, Block(p)
  PROVE  TypeOK'
  <1>1. service' \in BOOLEAN /\ pc' \in [Program -> Step] /\ events' \in 0..MaxEvents
    BY BlockedStep, SetBlockedTyped DEF Block, Step, Program
  <1>2. QED
    BY <1>1 DEF Block, TypeOK

LEMMA ClaimTyped ==
  ASSUME TypeOK, NEW p \in {"watcher", "cli", "toggle"}, Claim(p)
  PROVE  TypeOK'
  <1> DEFINE owner == IF p = "toggle" THEN "manual" ELSE job[p].plan.owner
  <1>1. owner \in Owner
    BY DEF TypeOK, Plan, Owner, JobType
  <1> HIDE DEF owner
  <1>2. today \in 0..MaxDay
    BY BudgetConstants DEF Day, TypeOK
  <1>3. /\ owners' = [owners EXCEPT ![owner] = today]
        /\ overtaken' = overtaken \union {<<q, owner>> : q \in {r \in Program : pc[r] = "lift"}}
    BY DEF Claim, owner
  <1>4. owners' \in [Owner -> 0..MaxDay] /\ overtaken' \subseteq Program \X Owner
    BY <1>1, <1>2, <1>3 DEF TypeOK
  <1>5. pc' \in [Program -> Step]
    BY BlockedStep, GotoTyped DEF Claim, TypeOK, Program
  <1>6. QED
    BY <1>4, <1>5 DEF Claim, TypeOK

LEMMA CliLoadsState == TypeOK => LoadedByCli \in State
  BY FreshDayInState DEF TypeOK, LoadedByCli

LEMMA BeginCommandTyped ==
  ASSUME TypeOK, NEW st \in State, NEW plan \in Plan, BeginCommand(st, plan),
         limit' \in 0..MaxLimit
  PROVE  TypeOK'
  <1>1. pc' \in [Program -> Step]
    BY StagesAreSteps, GotoTyped DEF BeginCommand, TypeOK, Program
  <1>2. events' \in 0..MaxEvents
    BY EventTyped DEF BeginCommand
  <1>3. job' \in [{"watcher", "cli"} -> JobType]
    BY BudgetConstants DEF BeginCommand, TypeOK, JobType
  <1>4. QED
    BY <1>1, <1>2, <1>3 DEF BeginCommand, TypeOK

LEMMA NoPlanTyped == NoPlan \in Plan /\ UnblockPlan \in Plan
  BY DEF NoPlan, UnblockPlan, Plan, Owner

LEMMA BeginFreeingTyped ==
  ASSUME TypeOK, NEW st \in State, NEW lim, BeginFreeing(st, lim), limit' \in 0..MaxLimit
  PROVE  TypeOK'
  <1>1. [st EXCEPT !.blocked_by_budget = FALSE] \in State
    BY DEF State
  <1>2. QED
    BY <1>1, NoPlanTyped, BeginCommandTyped DEF BeginFreeing

LEMMA CliStartTyped == TypeOK /\ CliStart => TypeOK'
  <1> SUFFICES ASSUME TypeOK, CliStart PROVE TypeOK'
    OBVIOUS
  <1>0. LoadedByCli \in State
    BY CliLoadsState
  <1>1. ASSUME NEW value \in 0..MaxLimit, SetLimit(value) PROVE TypeOK'
    BY <1>0, <1>1, BeginFreeingTyped DEF SetLimit
  <1>2. ASSUME NEW value \in Grants, Grant(value) PROVE TypeOK'
    <2> DEFINE sum   == LoadedByCli.bonus_sec + value
               bonus == IF sum < 0 THEN 0 ELSE sum
    <2>1. sum \in Int
      BY <1>0, BudgetConstants DEF State
    <2>2. bonus \in 0..MaxBonus
      BY <1>2, <2>1, BudgetConstants DEF Grant
    <2>3. [LoadedByCli EXCEPT !.bonus_sec = bonus] \in State
      BY <1>0, <2>2 DEF State
    <2>4. limit' \in 0..MaxLimit
      BY <1>2 DEF Grant, TypeOK
    <2>5. QED
      BY <1>2, <2>3, <2>4, BeginFreeingTyped DEF Grant
  <1>3. CASE CtlBlock
    <2>1. [LoadedByCli EXCEPT !.manual_block = TRUE] \in State
      BY <1>0 DEF State
    <2>2. [NoPlan EXCEPT !.block = TRUE, !.firewall = TRUE] \in Plan
      BY NoPlanTyped DEF Plan
    <2>3. QED
      BY <1>3, <2>1, <2>2, BeginCommandTyped DEF CtlBlock, TypeOK
  <1>4. CASE CtlAllow
    <2>1. [LoadedByCli EXCEPT !.manual_block = FALSE, !.blocked_by_budget = FALSE] \in State
      BY <1>0 DEF State
    <2>2. QED
      BY <1>4, <2>1, NoPlanTyped, BeginCommandTyped DEF CtlAllow, TypeOK
  <1>5. CASE CtlReset
    <2>1. FreshDay(today) \in State
      BY FreshDayInState DEF TypeOK
    <2>2. QED
      BY <1>5, <2>1, NoPlanTyped, BeginCommandTyped DEF CtlReset, TypeOK
  <1>6. QED
    BY <1>1, <1>2, <1>3, <1>4, <1>5 DEF CliStart

LEMMA BudgetStepTyped ==
  ASSUME TypeOK, NEW p \in {"watcher", "cli"}, BudgetStep(p)
  PROVE  TypeOK'
  <1> USE BlockedStep DEF TypeOK, JobType
  <1>0. /\ job[p] \in JobType
        /\ p \in Program
    BY DEF Program, JobType
  <1>1. CASE Judge(p)
    BY <1>0, <1>1, GotoTyped DEF Judge, Claimed, Step
  <1>2. CASE Lift(p)
    BY <1>0, <1>2, LiftTyped
  <1>3. CASE Release(p)
    <2>1. owners' \in [Owner -> 0..MaxDay]
      BY <1>3, BudgetConstants DEF Release, Owner
    <2>2. QED
      BY <1>0, <1>3, <2>1, GotoTyped DEF Release
  <1>4. CASE Block(p)
    BY <1>4, BlockTyped
  <1>5. CASE Claim(p)
    BY <1>5, ClaimTyped
  <1>6. CASE ClearFirewall(p)
    <2>1. firewall' \in SUBSET IP /\ events' \in 0..MaxEvents
      BY <1>6, EventTyped DEF ClearFirewall
    <2>2. QED
      BY <1>0, <1>6, <2>1, GotoTyped, StagesAreSteps DEF ClearFirewall
  <1>7. CASE SetFirewall(p)
    <2>1. firewall' \in SUBSET IP /\ events' \in 0..MaxEvents
      BY <1>0, <1>7, EventTyped DEF SetFirewall, Plan
    <2>2. QED
      BY <1>0, <1>7, <2>1, GotoTyped DEF SetFirewall, Step
  <1>8. CASE Save(p)
    <2>1. job' \in [{"watcher", "cli"} -> JobType]
      BY <1>8, NoJobTyped DEF Save
    <2>2. saved' \in State
      BY <1>0, <1>8 DEF Save
    <2>3. QED
      BY <1>0, <1>8, <2>1, <2>2, GotoTyped DEF Save, Step
  <1>9. QED
    BY <1>1, <1>2, <1>3, <1>4, <1>5, <1>6, <1>7, <1>8 DEF BudgetStep

LEMMA WatcherTyped == TypeOK /\ (StartTick \/ WatcherStep) => TypeOK'
  <1> SUFFICES ASSUME TypeOK, StartTick \/ WatcherStep PROVE TypeOK'
    OBVIOUS
  <1> USE DEF TypeOK
  <1>1. CASE StartTick
    <2>1. job' \in [{"watcher", "cli"} -> JobType]
      BY <1>1, NoPlanTyped DEF StartTick, JobType
    <2>2. QED
      BY <1>1, <2>1, GotoTyped DEF StartTick, Program, Step
  <1>2. CASE Observe
    <2>1. PICK watching \in BOOLEAN :
            LET obs  == Observation(watching)
                st   == job["watcher"].st
                lim  == job["watcher"].limit
                new  == NextState(st, lim, obs)
                plan == DecideActions(st, lim, obs)
            IN /\ new.seconds_used <= MaxUsed
               /\ job' = [job EXCEPT !["watcher"] = [st |-> new, plan |-> plan, limit |-> 0]]
               /\ Goto("watcher", FirstStage(plan))
      BY <1>2 DEF Observe
    <2> DEFINE obs  == Observation(watching)
               st   == job["watcher"].st
               lim  == job["watcher"].limit
               new  == NextState(st, lim, obs)
               plan == DecideActions(st, lim, obs)
    <2>2. obs.today \in Day /\ obs.pinned \in SUBSET IP
      BY DEF Observation
    <2>3. st \in State
      BY DEF JobType
    <2> HIDE DEF obs, st, lim
    <2>4. new \in State
      BY <2>1, <2>2, <2>3, NextStateInState DEF obs, st, lim
    <2>5. plan \in Plan
      BY <2>2, <2>3, DecideActionsInPlan
    <2> HIDE DEF new, plan
    <2>6. job' \in [{"watcher", "cli"} -> JobType]
      BY <2>1, <2>4, <2>5, BudgetConstants DEF new, plan, obs, st, lim, JobType
    <2>7. pc' \in [Program -> Step]
      BY <2>1, <2>5, StagesAreSteps, GotoTyped DEF Program, new, plan, obs, st, lim
    <2>8. QED
      BY <1>2, <2>6, <2>7 DEF Observe
  <1>3. CASE BudgetStep("watcher")
    BY <1>3, BudgetStepTyped
  <1>4. QED
    BY <1>1, <1>2, <1>3 DEF WatcherStep

LEMMA ToggleTyped == TypeOK /\ (ToggleBlock \/ ToggleAllow \/ ToggleStep) => TypeOK'
  <1> SUFFICES ASSUME TypeOK, ToggleBlock \/ ToggleAllow \/ ToggleStep PROVE TypeOK'
    OBVIOUS
  <1> USE BlockedStep DEF TypeOK, Program
  <1>1. ASSUME NEW step \in Step, ToggleStart(step) PROVE TypeOK'
    <2>1. pc' \in [Program -> Step]
      BY <1>1, GotoTyped DEF ToggleStart, Step
    <2>2. events' \in 0..MaxEvents
      BY <1>1, EventTyped DEF ToggleStart
    <2>3. QED
      BY <1>1, <2>1, <2>2 DEF ToggleStart
  <1>2. CASE ToggleBlock \/ ToggleAllow
    BY <1>1, <1>2 DEF ToggleBlock, ToggleAllow, Step
  <1>3. CASE ToggleQuery
    BY <1>3, GotoTyped DEF ToggleQuery, Step
  <1>4. CASE Lift("toggle")
    BY <1>4, LiftTyped
  <1>5. CASE Release("toggle")
    <2>1. owners' \in [Owner -> 0..MaxDay]
      BY <1>5, BudgetConstants DEF Release, Owner
    <2>2. QED
      BY <1>5, <2>1, GotoTyped DEF Release
  <1>6. CASE Block("toggle")
    BY <1>6, BlockTyped
  <1>7. CASE Claim("toggle")
    BY <1>7, ClaimTyped
  <1>8. QED
    BY <1>2, <1>3, <1>4, <1>5, <1>6, <1>7 DEF ToggleStep

LEMMA ResetTyped == TypeOK /\ (ResetStart \/ ResetStep) => TypeOK'
  <1> SUFFICES ASSUME TypeOK, ResetStart \/ ResetStep PROVE TypeOK'
    OBVIOUS
  <1> USE DEF TypeOK, Program, Step
  <1>1. CASE ResetStart
    BY <1>1, GotoTyped, EventTyped DEF ResetStart, Answer
  <1>2. CASE ResetJudge
    <2>1. owners' \in [Owner -> 0..MaxDay]
      BY <1>2, BudgetConstants DEF ResetJudge, Owner
    <2>2. pc' \in [Program -> Step]
      BY <1>2 DEF ResetJudge, Goto
    <2>3. QED
      BY <1>2, <2>1, <2>2 DEF ResetJudge
  <1>3. CASE Lift("reset")
    BY <1>3, LiftTyped
  <1>4. CASE ResetForget
    <2>1. owners' \in [Owner -> 0..MaxDay]
      BY <1>4, BudgetConstants DEF ResetForget
    <2>2. QED
      BY <1>4, <2>1, GotoTyped DEF ResetForget
  <1>5. QED
    BY <1>1, <1>2, <1>3, <1>4 DEF ResetStep

LEMMA EnvironmentTyped == TypeOK /\ Environment => TypeOK'
  <1> SUFFICES ASSUME TypeOK, Environment PROVE TypeOK'
    OBVIOUS
  <1> USE EventTyped, BudgetConstants DEF TypeOK
  <1>1. CASE Midnight
    BY <1>1 DEF Midnight, Day
  <1>2. CASE Drift
    BY <1>2 DEF Drift
  <1>3. CASE Outage \/ Recover
    BY <1>3 DEF Outage, Recover
  <1>4. CASE Repin
    BY <1>4 DEF Repin
  <1>7. CASE StateDamaged
    BY <1>7, FreshDayInState DEF StateDamaged
  <1>8. CASE MarkerDamaged
    <2>1. owners' \in [Owner -> 0..MaxDay]
      BY <1>8 DEF MarkerDamaged
    <2>2. QED
      BY <1>8, <2>1 DEF MarkerDamaged
  <1>5. ASSUME NEW p \in Program, Crash(p) PROVE TypeOK'
    <2>1. job' \in [{"watcher", "cli"} -> JobType]
      BY <1>5, NoJobTyped DEF Crash
    <2>2. overtaken' \subseteq Program \X Owner
      BY <1>5 DEF Crash
    <2>3. QED
      BY <1>5, <2>1, <2>2, GotoTyped DEF Crash, Step
  <1>6. QED
    BY <1>1, <1>2, <1>3, <1>4, <1>5, <1>7, <1>8 DEF Environment

\* Every variable keeps its type, overlapping programs and crashes included.
THEOREM TypeCorrect == Spec => []TypeOK
  <1>1. Init => TypeOK
    BY InitTyped
  <1>2. TypeOK /\ [Next]_vars => TypeOK'
    <2> SUFFICES ASSUME TypeOK, [Next]_vars PROVE TypeOK'
      OBVIOUS
    <2>1. CASE CliStep
      BY <2>1, BudgetStepTyped DEF CliStep
    <2>2. CASE UNCHANGED vars
      BY <2>2 DEF vars, TypeOK
    <2>3. QED
      BY <2>1, <2>2, WatcherTyped, CliStartTyped, ToggleTyped, ResetTyped,
         EnvironmentTyped DEF Next
  <1>3. QED
    BY <1>1, <1>2, PTL DEF Spec
-----------------------------------------------------------------------------
(* Which lifts of a claimed block can happen. *)

LEMMA StageRanges ==
  ASSUME NEW plan
  PROVE  /\ AfterBlock(plan) \in {"firewall", "save"}
         /\ AfterClear(plan) \in {"block", "firewall", "save"}
         /\ AfterUnblock(plan) \in {"clear", "block", "firewall", "save"}
         /\ FirstStage(plan) \in {"judge", "clear", "block", "firewall", "save"}
  BY DEF AfterBlock, AfterClear, AfterUnblock, FirstStage

\* A step after which every program about to lift was about to before, with the
\* claims that had overtaken it, and no claim that could hold it back is new.
Calm ==
  /\ \A p \in Program \ {"toggle"} :
       pc'[p] = "lift"
         => pc[p] = "lift" /\ \A o \in Owner : <<p, o>> \in overtaken => <<p, o>> \in overtaken'
  /\ owners'["manual"] # 0 => owners["manual"] # 0
  /\ pc'["reset"] = "lift" /\ owners'["budget"] = resetDay' => owners["budget"] = resetDay

LEMMA CalmKeepsJustified ==
  ASSUME LiftJustified, Calm
  PROVE  LiftJustified'
  BY DEF LiftJustified, Calm, Program, Owner

\* A program that goes to a step other than "lift", the claims being left alone.
LEMMA GotoIsCalm ==
  ASSUME TypeOK, NEW p \in Program, NEW step, Goto(p, step), step # "lift" \/ p = "toggle",
         overtaken' = overtaken, owners' = owners, resetDay' = resetDay
  PROVE  Calm
  BY DEF Calm, Goto, TypeOK

LEMMA SetBlockedGoes ==
  ASSUME NEW p, NEW on, NEW next, NEW failed, SetBlocked(p, on, next, failed)
  PROVE  Goto(p, next) \/ Goto(p, failed)
  BY DEF SetBlocked

LEMMA BudgetStepJustified ==
  ASSUME TypeOK, LiftJustified, NEW p \in {"watcher", "cli"}, BudgetStep(p)
  PROVE  LiftJustified'
  <1>0. p \in Program /\ Unblocked(p) # "lift" /\ Blocked(p) # "lift"
    BY StageRanges DEF Program, Unblocked, Blocked
  <1>1. CASE Judge(p)
    BY <1>0, <1>1 DEF Judge, Claimed, Goto, LiftJustified, TypeOK, Program
  <1>2. CASE Lift(p)
    <2>1. Goto(p, "release") \/ Goto(p, Unblocked(p))
      BY <1>2, SetBlockedGoes DEF Lift
    <2>2. Calm
      BY <1>0, <1>2, <2>1 DEF Calm, Lift, Goto, TypeOK
    <2>3. QED
      BY <2>2, CalmKeepsJustified
  <1>3. CASE Release(p)
    <2>1. Goto(p, Unblocked(p)) /\ owners' = [owners EXCEPT !["budget"] = 0]
      BY <1>3 DEF Release
    <2>2. Calm
      BY <1>0, <1>3, <2>1, BudgetConstants DEF Calm, Release, Goto, TypeOK, Owner, Day
    <2>3. QED
      BY <2>2, CalmKeepsJustified
  <1>4. CASE Block(p)
    <2>1. \E step \in {"claim", Blocked(p)} : Goto(p, step)
      BY <1>4, SetBlockedGoes DEF Block
    <2>2. QED
      BY <1>0, <1>4, <2>1, GotoIsCalm, CalmKeepsJustified DEF Block
  <1>5. CASE Claim(p)
    <2> DEFINE owner == job[p].plan.owner
    <2>1. /\ owners' = [owners EXCEPT ![owner] = today]
          /\ overtaken' = overtaken \union {<<q, owner>> : q \in {r \in Program : pc[r] = "lift"}}
          /\ Goto(p, Blocked(p)) /\ resetDay' = resetDay
      BY <1>5 DEF Claim
    <2> HIDE DEF owner
    <2>2. \A q \in Program : pc'[q] = "lift" => pc[q] = "lift"
      BY <1>0, <2>1 DEF Goto, TypeOK
    <2>3. \A q \in Program : pc[q] = "lift" => <<q, owner>> \in overtaken'
      BY <2>1
    <2>4. \A o \in Owner : o # owner => owners'[o] = owners[o]
      BY <2>1 DEF TypeOK
    <2>5. overtaken \subseteq overtaken'
      BY <2>1
    <2>6. QED
      BY <2>1, <2>2, <2>3, <2>4, <2>5 DEF LiftJustified, Program, Owner
  <1>6. CASE ClearFirewall(p)
    BY <1>0, <1>6, StageRanges, GotoIsCalm, CalmKeepsJustified DEF ClearFirewall
  <1>7. CASE SetFirewall(p)
    BY <1>0, <1>7, GotoIsCalm, CalmKeepsJustified DEF SetFirewall
  <1>8. CASE Save(p)
    BY <1>0, <1>8, GotoIsCalm, CalmKeepsJustified DEF Save
  <1>9. QED
    BY <1>1, <1>2, <1>3, <1>4, <1>5, <1>6, <1>7, <1>8 DEF BudgetStep

LEMMA StartJustified ==
  ASSUME TypeOK, LiftJustified, StartTick \/ Observe \/ CliStart
  PROVE  LiftJustified'
  <1> USE GotoIsCalm, CalmKeepsJustified DEF Program
  <1>1. CASE StartTick
    BY <1>1 DEF StartTick
  <1>2. CASE Observe
    <2>1. \E plan : Goto("watcher", FirstStage(plan))
      BY <1>2 DEF Observe
    <2>2. QED
      BY <1>2, <2>1, StageRanges DEF Observe
  <1>3. CASE CliStart
    <2>1. \E st, plan : BeginCommand(st, plan)
      BY <1>3 DEF CliStart, SetLimit, Grant, BeginFreeing, CtlBlock, CtlAllow, CtlReset
    <2>2. QED
      BY <2>1, StageRanges DEF BeginCommand
  <1>4. QED
    BY <1>1, <1>2, <1>3

LEMMA ToggleJustified ==
  ASSUME TypeOK, LiftJustified, ToggleBlock \/ ToggleAllow \/ ToggleStep
  PROVE  LiftJustified'
  <1> USE GotoIsCalm, CalmKeepsJustified DEF Program
  <1>1. CASE ToggleBlock \/ ToggleAllow
    <2>1. \E step : ToggleStart(step)
      BY <1>1 DEF ToggleBlock, ToggleAllow
    <2>2. QED
      BY <2>1 DEF ToggleStart
  <1>2. CASE ToggleQuery
    BY <1>2 DEF ToggleQuery
  <1>3. CASE Lift("toggle")
    <2>1. \E step : Goto("toggle", step)
      BY <1>3, SetBlockedGoes DEF Lift
    <2>2. Calm
      BY <1>3, <2>1 DEF Calm, Lift, Goto, TypeOK
    <2>3. QED
      BY <2>2
  <1>4. CASE Release("toggle")
    <2>1. Calm
      BY <1>4 DEF Calm, Release, Goto, TypeOK, Owner, Unblocked
    <2>2. QED
      BY <2>1
  <1>5. CASE Block("toggle")
    <2>1. \E step : Goto("toggle", step)
      BY <1>5, SetBlockedGoes DEF Block
    <2>2. QED
      BY <1>5, <2>1 DEF Block
  <1>6. CASE Claim("toggle")
    <2>1. \A q \in Program \ {"toggle"} : pc'[q] = pc[q]
      BY <1>6 DEF Claim, Goto, TypeOK
    <2>2. /\ owners' = [owners EXCEPT !["manual"] = today] /\ resetDay' = resetDay
          /\ overtaken' = overtaken
               \union {<<q, "manual">> : q \in {r \in Program : pc[r] = "lift"}}
      BY <1>6 DEF Claim
    <2>3. \A q \in Program : pc[q] = "lift" => <<q, "manual">> \in overtaken'
      BY <2>2
    <2>4. owners'["budget"] = owners["budget"] /\ overtaken \subseteq overtaken'
      BY <2>2 DEF TypeOK, Owner
    <2>5. QED
      BY <2>1, <2>2, <2>3, <2>4 DEF LiftJustified
  <1>7. QED
    BY <1>1, <1>2, <1>3, <1>4, <1>5, <1>6 DEF ToggleStep

LEMMA ResetJustified ==
  ASSUME TypeOK, LiftJustified, ResetStart \/ ResetStep
  PROVE  LiftJustified'
  <1> USE DEF Program
  <1>1. CASE ResetStart
    <2>1. Calm
      BY <1>1 DEF Calm, ResetStart, Answer, Goto, TypeOK
    <2>2. QED
      BY <2>1, CalmKeepsJustified
  <1>2. CASE ResetJudge
    <2>1. CASE owners["manual"] # 0
      <3>1. Calm
        BY <1>2, <2>1, BudgetConstants DEF Calm, ResetJudge, Claimed, Goto, TypeOK, Owner, Day
      <3>2. QED
        BY <3>1, CalmKeepsJustified
    <2>2. CASE owners["manual"] = 0
      BY <1>2, <2>2 DEF ResetJudge, Claimed, LiftJustified, Goto, TypeOK
    <2>3. QED
      BY <2>1, <2>2
  <1>3. CASE Lift("reset")
    <2>1. Goto("reset", "forget") \/ Goto("reset", "idle")
      BY <1>3, SetBlockedGoes DEF Lift
    <2>2. Calm
      BY <1>3, <2>1 DEF Calm, Lift, Goto, TypeOK
    <2>3. QED
      BY <2>2, CalmKeepsJustified
  <1>4. CASE ResetForget
    <2>1. Calm
      BY <1>4 DEF Calm, ResetForget, Goto, TypeOK, Owner
    <2>2. QED
      BY <2>1, CalmKeepsJustified
  <1>5. QED
    BY <1>1, <1>2, <1>3, <1>4 DEF ResetStep

LEMMA EnvironmentJustified ==
  ASSUME TypeOK, LiftJustified, Environment
  PROVE  LiftJustified'
  <1>1. ASSUME NEW p \in Program, Crash(p) PROVE Calm
    BY <1>1 DEF Calm, Crash, Goto, TypeOK
  <1>2. CASE Midnight \/ Drift \/ Outage \/ Recover \/ Repin
    BY <1>2 DEF Midnight, Drift, Outage, Recover, Repin, LiftJustified
  <1>3. CASE StateDamaged
    BY <1>3 DEF StateDamaged, LiftJustified
  <1>4. CASE MarkerDamaged
    <2>1. owners'["manual"] = 0 /\ owners'["budget"] = 0 /\ resetDay \in Nat \ {0}
      BY <1>4, BudgetConstants DEF MarkerDamaged, Owner, TypeOK, Day
    <2>2. pc' = pc /\ overtaken' = overtaken /\ resetDay' = resetDay
      BY <1>4 DEF MarkerDamaged
    <2>3. QED
      BY <2>1, <2>2 DEF LiftJustified
  <1>5. QED
    BY <1>1, <1>2, <1>3, <1>4, CalmKeepsJustified DEF Environment

LEMMA JustifiedAlways == Spec => []LiftJustified
  <1>1. Init => LiftJustified
    BY DEF Init, LiftJustified, Program
  <1>2. TypeOK /\ LiftJustified /\ [Next]_vars => LiftJustified'
    <2> SUFFICES ASSUME TypeOK, LiftJustified, [Next]_vars PROVE LiftJustified'
      OBVIOUS
    <2>1. CASE UNCHANGED vars
      BY <2>1 DEF vars, LiftJustified
    <2>2. CASE CliStep \/ WatcherStep
      BY <2>2, BudgetStepJustified, StartJustified DEF CliStep, WatcherStep
    <2>3. QED
      BY <2>1, <2>2, StartJustified, ToggleJustified, ResetJustified,
         EnvironmentJustified DEF Next
  <1>3. QED
    BY <1>1, <1>2, TypeCorrect, PTL DEF Spec

\* No step of the watcher, of the command line or of the nightly reset opens the
\* entry while the parental hold claims it, unless the claim was made after that
\* program had looked for one: whatever overlaps, dies, or loses an answer.
THEOREM HoldNeverLifted == Spec => OnlyToggleOpensHold
  <1>1. LiftJustified => [ \A p \in Program \ {"toggle"} :
          (pc[p] = "lift" /\ pc'[p] # "lift" /\ service /\ ~service' /\ owners["manual"] # 0)
            => <<p, "manual">> \in overtaken ]_vars
    BY DEF LiftJustified
  <1>2. QED
    BY <1>1, JustifiedAlways, PTL DEF OnlyToggleOpensHold

\* The nightly reset lifts a block the budget claimed on the very day the reset runs
\* only if the claim came after the reset had looked.
THEOREM TodaysClaimSpared == Spec => ResetSparesToday
  <1>1. LiftJustified =>
          [ (/\ pc["reset"] = "lift" /\ pc'["reset"] # "lift" /\ service /\ ~service'
             /\ owners["budget"] = resetDay)
              => <<"reset", "budget">> \in overtaken ]_vars
    BY DEF LiftJustified
  <1>2. QED
    BY <1>1, JustifiedAlways, PTL DEF ResetSparesToday
-----------------------------------------------------------------------------
(* The state file is a ledger. *)

LEMMA WriterFacts == Writers = {"watcher", "cli"} /\ Writers \subseteq Program
  BY DEF Writers, Program

\* The program is between two steps of one run, or at rest, and its copy is as it was.
Keeps(w) == (pc'[w] = "idle" <=> pc[w] = "idle") /\ job'[w] = job[w]

\* What one step does to the copy of w and to the file.
Moves(w) ==
  \/ /\ pc[w] = "idle" /\ pc'[w] # "idle"
     /\ job'[w].st = saved /\ saved' = saved
  \/ /\ pc[w] = "idle" /\ pc'[w] # "idle" /\ saved' = saved
     /\ Ledger!Entry(Account(saved), Account(job'[w].st)) /\ job'[w].st.date = today
  \/ /\ pc[w] # "idle" /\ pc'[w] # "idle" /\ saved' = saved
     /\ Ledger!Entry(Account(job[w].st), Account(job'[w].st)) /\ job'[w].st.date = today
  \/ pc[w] # "idle" /\ pc'[w] = "idle" /\ saved' = job[w].st
  \/ pc'[w] = "idle" /\ saved' = saved

\* What one step does to the copies and to the file.
LedgerMove ==
  /\ today' \in Nat /\ today <= today'
  /\ \/ saved' = saved /\ \A w \in Writers : Keeps(w)
     \/ \E w \in Writers : Moves(w) /\ \A v \in Writers \ {w} : Keeps(v)
     \/ /\ saved' = FreshDay(today) /\ saved.date <= today
        /\ \A w \in Writers : Keeps(w)

LEMMA DatesStay ==
  ASSUME TypeOK, DatesArePast, LedgerMove
  PROVE  DatesArePast'
  <1>1. /\ today \in Nat /\ saved.date \in Nat /\ today' \in Nat /\ today <= today'
        /\ \A w \in Writers : job[w].st.date \in Nat
    BY DEF TypeOK, LedgerMove, Day, State, Writers, JobType
  <1>2. CASE saved' = saved /\ \A w \in Writers : Keeps(w)
    BY <1>1, <1>2 DEF DatesArePast, Keeps, Writers
  <1>3. ASSUME NEW w \in Writers, Moves(w), \A v \in Writers \ {w} : Keeps(v)
        PROVE  DatesArePast'
    <2>1. saved'.date <= today'
      BY <1>1, <1>3 DEF DatesArePast, Moves, Writers
    <2>2. pc'[w] # "idle" => job'[w].st.date <= today'
      BY <1>1, <1>3 DEF DatesArePast, Moves, Writers
    <2>3. \A v \in Writers \ {w} : pc'[v] # "idle" => job'[v].st.date <= today'
      BY <1>1, <1>3 DEF DatesArePast, Keeps, Writers
    <2>4. QED
      BY <1>3, <2>1, <2>2, <2>3 DEF DatesArePast, Writers
  <1>4. CASE saved' = FreshDay(today) /\ \A w \in Writers : Keeps(w)
    BY <1>1, <1>4 DEF DatesArePast, Keeps, Writers, FreshDay
  <1>5. QED
    BY <1>2, <1>3, <1>4 DEF LedgerMove

\* The draft of a writer after the step.
DraftAfter(w) == IF pc'[w] = "idle" THEN {} ELSE {Account(job'[w].st)}

LEMMA LedgerStep ==
  ASSUME TypeOK, LedgerMove
  PROVE  [Ledger!Next]_(Ledger!ledger)
  <1>6. today \in Nat /\ saved.date \in Nat
    BY DEF TypeOK, State, Day
  <1>5. Drafts = [v \in Writers |-> DraftOf(v)] /\ Drafts' = [v \in Writers |-> DraftAfter(v)]
    BY DEF Drafts, DraftOf, DraftAfter
  <1>1. \A v \in Writers : Keeps(v) => DraftAfter(v) = DraftOf(v)
    BY DEF Keeps, DraftOf, DraftAfter
  <1>2. CASE saved' = saved /\ \A v \in Writers : Keeps(v)
    <2>1. Drafts' = Drafts
      BY <1>5, <1>1, <1>2
    <2>2. Account(saved)' = Account(saved)
      BY <1>2
    <2>3. QED
      BY <2>1, <2>2 DEF Ledger!ledger
  <1>3. ASSUME NEW w \in Writers, Moves(w), \A v \in Writers \ {w} : Keeps(v)
        PROVE  Ledger!Next
    <2>1. Drafts' = [Drafts EXCEPT ![w] = DraftAfter(w)]
      BY <1>5, <1>1, <1>3
    <2>2. Ledger!Draft(w, DraftAfter(w))
      BY <2>1 DEF Ledger!Draft
    <2>3. Ledger!Next <=> \/ \E v \in Writers : \/ Ledger!Open(v) \/ Ledger!Command(v)
                            \/ Ledger!Enter(v) \/ Ledger!Save(v) \/ Ledger!GiveUp(v)
                   \/ Ledger!Lose
      BY DEF Ledger!Next
    <2>4. Drafts[w] = DraftOf(w) /\ Drafts'[w] = DraftAfter(w)
      BY <1>5, <1>3
    <2>5. CASE /\ pc[w] = "idle" /\ pc'[w] # "idle"
               /\ job'[w].st = saved /\ saved' = saved
      <3>1. DraftOf(w) = {} /\ DraftAfter(w) = {Account(saved)} /\ Account(saved)' = Account(saved)
        BY <2>5 DEF DraftOf, DraftAfter
      <3>2. Ledger!Open(w)
        BY <2>2, <2>4, <3>1 DEF Ledger!Open
      <3>3. QED
        BY <2>3, <3>2
    <2>6. CASE /\ pc[w] = "idle" /\ pc'[w] # "idle" /\ saved' = saved
               /\ Ledger!Entry(Account(saved), Account(job'[w].st))
      <3>1. /\ DraftOf(w) = {} /\ DraftAfter(w) = {Account(job'[w].st)}
            /\ Account(saved)' = Account(saved)
        BY <2>6 DEF DraftOf, DraftAfter
      <3>2. Ledger!Command(w)
        BY <2>2, <2>4, <2>6, <3>1 DEF Ledger!Command
      <3>3. QED
        BY <2>3, <3>2
    <2>7. CASE /\ pc[w] # "idle" /\ pc'[w] # "idle" /\ saved' = saved
               /\ Ledger!Entry(Account(job[w].st), Account(job'[w].st))
      <3>1. /\ DraftOf(w) = {Account(job[w].st)} /\ DraftAfter(w) = {Account(job'[w].st)}
            /\ Account(saved)' = Account(saved)
        BY <2>7 DEF DraftOf, DraftAfter
      <3>2. Ledger!Enter(w)
        BY <2>2, <2>4, <2>7, <3>1 DEF Ledger!Enter
      <3>3. QED
        BY <2>3, <3>2
    <2>8. CASE pc[w] # "idle" /\ pc'[w] = "idle" /\ saved' = job[w].st
      <3>1. /\ DraftOf(w) = {Account(job[w].st)} /\ DraftAfter(w) = {}
            /\ Account(saved)' = Account(job[w].st)
        BY <2>8 DEF DraftOf, DraftAfter, Account
      <3>2. Ledger!Save(w)
        BY <2>2, <2>4, <3>1 DEF Ledger!Save
      <3>3. QED
        BY <2>3, <3>2
    <2>9. CASE pc'[w] = "idle" /\ saved' = saved
      <3>1. DraftAfter(w) = {} /\ Account(saved)' = Account(saved)
        BY <2>9 DEF DraftOf, DraftAfter
      <3>2. Ledger!GiveUp(w)
        BY <2>2, <3>1 DEF Ledger!GiveUp
      <3>3. QED
        BY <2>3, <3>2
    <2>10. QED
      BY <1>3, <2>5, <2>6, <2>7, <2>8, <2>9 DEF Moves
  <1>4. CASE /\ saved' = FreshDay(today) /\ saved.date <= today
             /\ \A v \in Writers : Keeps(v)
    <2>1. Drafts' = Drafts
      BY <1>5, <1>1, <1>4
    <2>2. /\ Account(saved).day = saved.date
          /\ Account(saved)' = [day |-> today, used |-> 0, bonus |-> 0]
      BY <1>4 DEF Account, FreshDay
    <2>3. Ledger!Lose
      BY <1>4, <1>6, <2>1, <2>2 DEF Ledger!Lose
    <2>4. QED
      BY <2>3 DEF Ledger!Next
  <1>7. QED
    BY <1>2, <1>3, <1>4 DEF LedgerMove

LEMMA DecisionIsAnEntry ==
  ASSUME NEW st \in State, NEW lim, NEW obs, obs.today \in Day, st.date <= obs.today
  PROVE  /\ Ledger!Entry(Account(st), Account(NextState(st, lim, obs)))
         /\ NextState(st, lim, obs).date = obs.today
  <1> DEFINE base == IF st.date # obs.today THEN FreshDay(obs.today) ELSE st
             day == Accounted(st, obs)
             credit == IF obs.watching THEN 1 ELSE 0
             new == NextState(st, lim, obs)
  <1>1. base \in State /\ base.date = obs.today
    BY FreshDayInState DEF FreshDay
  <1>2. /\ base.seconds_used = IF st.date = obs.today THEN st.seconds_used ELSE 0
        /\ base.bonus_sec = IF st.date = obs.today THEN st.bonus_sec ELSE 0
    BY DEF FreshDay
  <1>3. day = [base EXCEPT !.seconds_used = @ + credit]
    BY DEF Accounted
  <1> HIDE DEF base, credit
  <1>4. /\ day.date = base.date
        /\ day.seconds_used = base.seconds_used + credit
        /\ day.bonus_sec = base.bonus_sec
    BY <1>1, <1>3 DEF State
  <1>5. new = [day EXCEPT !.blocked_by_budget = OverBudget(day, lim)]
    BY DEF NextState
  <1>6. DOMAIN day = {"date", "seconds_used", "bonus_sec", "blocked_by_budget",
                      "manual_block"}
    BY <1>1, <1>3 DEF State
  <1> HIDE DEF day, new
  <1>7. /\ new.date = day.date
        /\ new.seconds_used = day.seconds_used
        /\ new.bonus_sec = day.bonus_sec
    BY <1>5, <1>6
  <1>8. credit \in {0, 1}
    BY DEF credit
  <1>9. /\ new.date = obs.today
        /\ new.seconds_used = (IF st.date = obs.today THEN st.seconds_used ELSE 0) + credit
        /\ new.bonus_sec = IF st.date = obs.today THEN st.bonus_sec ELSE 0
    BY <1>1, <1>2, <1>4, <1>7
  <1>10. st.seconds_used \in Nat /\ st.date \in Nat /\ obs.today \in Nat
    BY BudgetConstants DEF State, Day
  <1>11. Ledger!Entry(Account(st), Account(new))
    <2>1. /\ Account(st).day = st.date /\ Account(st).used = st.seconds_used
          /\ Account(st).bonus = st.bonus_sec
          /\ Account(new).day = new.date /\ Account(new).used = new.seconds_used
          /\ Account(new).bonus = new.bonus_sec
      BY DEF Account
    <2>2. Ledger!Sample(Account(st), Account(new))
      BY <1>8, <1>9, <1>10, <2>1 DEF Ledger!Sample, Ledger!Carried
    <2>3. QED
      BY <1>9, <2>1, <2>2 DEF Ledger!Entry
  <1>12. QED
    BY <1>9, <1>11 DEF new

LEMMA CommandIsAnEntry ==
  ASSUME TypeOK, saved.date <= today, CliStart
  PROVE  /\ pc["cli"] = "idle"
         /\ UNCHANGED <<saved, today>>
         /\ \E st, plan : /\ job' = [job EXCEPT !["cli"] = [st |-> st, plan |-> plan, limit |-> 0]]
                          /\ Goto("cli", FirstStage(plan))
                          /\ Ledger!Entry(Account(saved), Account(st)) /\ st.date = today
  <1> DEFINE Allowed(st) == Ledger!Entry(Account(saved), Account(st)) /\ st.date = today
             Same(st) == /\ st.date = today /\ st.bonus_sec \in Nat
                         /\ st.seconds_used = LoadedByCli.seconds_used
  <1>1. /\ LoadedByCli \in State /\ LoadedByCli.date = today
        /\ LoadedByCli.seconds_used = IF saved.date = today THEN saved.seconds_used ELSE 0
    BY CliLoadsState DEF LoadedByCli, FreshDay
  <1>2. \A st : Same(st) => Allowed(st)
    BY <1>1 DEF Ledger!Entry, Ledger!Adjust, Ledger!Carried, Account, TypeOK, State
  <1>3. Allowed(FreshDay(today))
    BY DEF Ledger!Entry, Ledger!Zero, Account, FreshDay, TypeOK
  <1>4. \E st, plan : BeginCommand(st, plan) /\ Allowed(st)
    <2> HIDE DEF Allowed, Same
    <2>0. \A st, lim : BeginFreeing(st, lim)
            => \/ \E plan : BeginCommand([st EXCEPT !.blocked_by_budget = FALSE], plan)
               \/ \E plan : BeginCommand(st, plan)
      BY DEF BeginFreeing
    <2>1. CASE \E value \in 0..MaxLimit : SetLimit(value)
      <3>1. Same(LoadedByCli) /\ Same([LoadedByCli EXCEPT !.blocked_by_budget = FALSE])
        BY <1>1 DEF State, Same
      <3>2. QED
        BY <1>2, <2>0, <2>1, <3>1 DEF SetLimit
    <2>2. CASE \E value \in Grants : Grant(value)
      <3>1. PICK bonus \in Nat : BeginFreeing([LoadedByCli EXCEPT !.bonus_sec = bonus], limit)
        <4>1. PICK value \in Grants : Grant(value)
          BY <2>2
        <4>2. LoadedByCli.bonus_sec + value \in Int
          BY <1>1, BudgetConstants DEF State
        <4>3. QED
          BY <4>1, <4>2 DEF Grant
      <3> DEFINE st == [LoadedByCli EXCEPT !.bonus_sec = bonus]
      <3>2. Same(st) /\ Same([st EXCEPT !.blocked_by_budget = FALSE])
        BY <1>1 DEF State, Same
      <3>3. QED
        BY <1>2, <2>0, <3>1, <3>2
    <2>3. CASE CtlBlock
      <3>1. Same([LoadedByCli EXCEPT !.manual_block = TRUE])
        BY <1>1 DEF State, Same
      <3>2. QED
        BY <1>2, <2>3, <3>1 DEF CtlBlock
    <2>4. CASE CtlAllow
      <3>1. Same([LoadedByCli EXCEPT !.manual_block = FALSE, !.blocked_by_budget = FALSE])
        BY <1>1 DEF State, Same
      <3>2. QED
        BY <1>2, <2>4, <3>1 DEF CtlAllow
    <2>5. CASE CtlReset
      BY <1>3, <2>5 DEF CtlReset
    <2>6. QED
      BY <2>1, <2>2, <2>3, <2>4, <2>5 DEF CliStart
  <1>5. PICK st, plan : BeginCommand(st, plan) /\ Allowed(st)
    BY <1>4
  <1>6. QED
    BY <1>5 DEF BeginCommand, MayStart

\* Steps of a run that are neither its first nor its last leave the copy alone.
LEMMA KeepsAreMoves ==
  ASSUME TypeOK, saved' = saved, today' = today, \A w \in Writers : Keeps(w)
  PROVE  LedgerMove
  BY DEF LedgerMove, TypeOK, Day

LEMMA BudgetStepMoves ==
  ASSUME TypeOK, NEW p \in Writers, BudgetStep(p)
  PROVE  LedgerMove
  <1>0. /\ p \in Program /\ Unblocked(p) # "idle" /\ Blocked(p) # "idle"
        /\ today \in Nat
    BY StageRanges, WriterFacts DEF Writers, Unblocked, Blocked, TypeOK, Day
  <1>1. ASSUME NEW step, Goto(p, step), step # "idle", pc[p] # "idle",
               job' = job, saved' = saved, today' = today
        PROVE  LedgerMove
    <2>1. \A w \in Writers : Keeps(w)
      BY <1>0, <1>1, WriterFacts DEF Keeps, Goto, TypeOK
    <2>2. QED
      BY <1>1, <2>1, KeepsAreMoves
  <1>2. CASE Judge(p)
    BY <1>1, <1>2 DEF Judge
  <1>3. CASE Lift(p)
    <2>1. \E step \in {"release", Unblocked(p)} : Goto(p, step)
      <3>1. p # "reset"
        BY DEF Writers
      <3>2. QED
        BY <1>3, <3>1, SetBlockedGoes DEF Lift
    <2>2. QED
      BY <1>0, <1>1, <1>3, <2>1 DEF Lift
  <1>4. CASE Release(p)
    BY <1>0, <1>1, <1>4 DEF Release
  <1>5. CASE Block(p)
    <2>1. \E step \in {"claim", Blocked(p)} : Goto(p, step)
      BY <1>5, SetBlockedGoes DEF Block
    <2>2. QED
      BY <1>0, <1>1, <1>5, <2>1 DEF Block
  <1>6. CASE Claim(p)
    BY <1>0, <1>1, <1>6 DEF Claim
  <1>7. CASE ClearFirewall(p)
    BY <1>1, <1>7, StageRanges DEF ClearFirewall
  <1>8. CASE SetFirewall(p)
    BY <1>1, <1>8 DEF SetFirewall
  <1>9. CASE Save(p)
    <2>1. pc[p] # "idle" /\ pc'[p] = "idle" /\ saved' = job[p].st /\ today' = today
      BY <1>0, <1>9 DEF Save, Goto, TypeOK
    <2>2. \A v \in Writers \ {p} : Keeps(v)
      BY <1>0, <1>9, WriterFacts DEF Save, Goto, TypeOK, Keeps
    <2>3. QED
      BY <1>0, <2>1, <2>2 DEF LedgerMove, Moves
  <1>10. QED
    BY <1>2, <1>3, <1>4, <1>5, <1>6, <1>7, <1>8, <1>9 DEF BudgetStep

LEMMA WatcherMoves ==
  ASSUME TypeOK, DatesArePast, StartTick \/ Observe
  PROVE  LedgerMove
  <1>0. "watcher" \in Program /\ "watcher" \in Writers /\ today \in Nat
    BY DEF Program, Writers, TypeOK, Day
  <1>1. CASE StartTick
    <2>1. /\ pc["watcher"] = "idle" /\ pc'["watcher"] # "idle"
          /\ job'["watcher"].st = saved /\ saved' = saved /\ today' = today
      BY <1>0, <1>1 DEF StartTick, MayStart, Goto, TypeOK
    <2>2. \A v \in Writers \ {"watcher"} : Keeps(v)
      BY <1>1, WriterFacts DEF StartTick, Goto, TypeOK, Keeps
    <2>3. QED
      BY <1>0, <2>1, <2>2 DEF LedgerMove, Moves
  <1>2. CASE Observe
    <2>1. PICK watching \in BOOLEAN :
            LET obs  == Observation(watching)
                st   == job["watcher"].st
                lim  == job["watcher"].limit
                plan == DecideActions(st, lim, obs)
            IN /\ job' = [job EXCEPT !["watcher"] =
                            [st |-> NextState(st, lim, obs), plan |-> plan, limit |-> 0]]
               /\ Goto("watcher", FirstStage(plan))
      BY <1>2 DEF Observe
    <2> DEFINE obs  == Observation(watching)
               st   == job["watcher"].st
               lim  == job["watcher"].limit
               plan == DecideActions(st, lim, obs)
    <2>2. /\ st \in State /\ obs.today = today
          /\ pc["watcher"] = "observe" /\ saved' = saved /\ today' = today
      BY <1>2 DEF Observe, Observation, TypeOK, JobType
    <2>3. st.date <= obs.today /\ obs.today \in Day
      BY <2>2 DEF DatesArePast, Writers, TypeOK
    <2> HIDE DEF obs, st, lim, plan
    <2>4. /\ Ledger!Entry(Account(st), Account(NextState(st, lim, obs)))
          /\ NextState(st, lim, obs).date = today
      BY <2>2, <2>3, DecisionIsAnEntry
    <2>5. job'["watcher"].st = NextState(st, lim, obs)
      BY <2>1 DEF TypeOK, obs, st, lim, plan
    <2>6. pc'["watcher"] # "idle"
      BY <1>0, <2>1, StageRanges DEF Goto, TypeOK, obs, st, lim, plan
    <2>7. \A v \in Writers \ {"watcher"} : Keeps(v)
      BY <2>1, WriterFacts DEF Goto, TypeOK, Keeps
    <2>8. Moves("watcher")
      BY <2>2, <2>4, <2>5, <2>6 DEF Moves, st
    <2>9. QED
      BY <1>0, <2>2, <2>7, <2>8 DEF LedgerMove
  <1>3. QED
    BY <1>1, <1>2

LEMMA CommandMoves ==
  ASSUME TypeOK, DatesArePast, CliStart
  PROVE  LedgerMove
  <1>0. "cli" \in Program /\ "cli" \in Writers /\ today \in Nat
    BY DEF Program, Writers, TypeOK, Day
  <1>1. /\ pc["cli"] = "idle" /\ UNCHANGED <<saved, today>>
    BY CommandIsAnEntry DEF DatesArePast
  <1>2. PICK st, plan : /\ job' = [job EXCEPT !["cli"] = [st |-> st, plan |-> plan, limit |-> 0]]
                        /\ Goto("cli", FirstStage(plan))
                        /\ Ledger!Entry(Account(saved), Account(st)) /\ st.date = today
    BY CommandIsAnEntry DEF DatesArePast
  <1>3. job'["cli"].st = st
    BY <1>2 DEF TypeOK
  <1>4. pc'["cli"] # "idle"
    BY <1>0, <1>2, StageRanges DEF Goto, TypeOK
  <1>5. \A v \in Writers \ {"cli"} : Keeps(v)
    BY <1>2, WriterFacts DEF Goto, TypeOK, Keeps
  <1>6. Moves("cli")
    BY <1>1, <1>2, <1>3, <1>4 DEF Moves
  <1>7. QED
    BY <1>0, <1>1, <1>5, <1>6 DEF LedgerMove

\* The toggle and the nightly reset have no copy.
LEMMA OthersMove ==
  ASSUME TypeOK, NEW p \in {"toggle", "reset"}, NEW step, Goto(p, step),
         job' = job, saved' = saved, today' = today
  PROVE  LedgerMove
  <1>1. \A w \in Writers : Keeps(w)
    BY DEF Writers, Keeps, Goto, TypeOK, Program
  <1>2. QED
    BY <1>1, KeepsAreMoves

LEMMA ToggleAndResetMove ==
  ASSUME TypeOK, \/ ToggleBlock \/ ToggleAllow \/ ToggleStep
                 \/ ResetStart \/ ResetStep
  PROVE  LedgerMove
  <1> USE OthersMove
  <1>1. CASE ToggleBlock \/ ToggleAllow
    <2>1. \E step : ToggleStart(step)
      BY <1>1 DEF ToggleBlock, ToggleAllow
    <2>2. QED
      BY <2>1 DEF ToggleStart
  <1>2. CASE ToggleQuery
    BY <1>2 DEF ToggleQuery
  <1>3. ASSUME NEW p \in {"toggle", "reset"}, Lift(p) PROVE LedgerMove
    <2>1. \E step : Goto(p, step)
      BY <1>3, SetBlockedGoes DEF Lift
    <2>2. QED
      BY <1>3, <2>1 DEF Lift
  <1>4. CASE Release("toggle")
    BY <1>4 DEF Release
  <1>5. CASE Block("toggle")
    <2>1. \E step : Goto("toggle", step)
      BY <1>5, SetBlockedGoes DEF Block
    <2>2. QED
      BY <1>5, <2>1 DEF Block
  <1>6. CASE Claim("toggle")
    BY <1>6 DEF Claim
  <1>7. CASE ResetStart
    BY <1>7 DEF ResetStart
  <1>8. CASE ResetJudge
    <2>1. \E step : Goto("reset", step)
      BY <1>8 DEF ResetJudge
    <2>2. QED
      BY <1>8, <2>1 DEF ResetJudge
  <1>9. CASE ResetForget
    BY <1>9 DEF ResetForget
  <1>10. QED
    BY <1>1, <1>2, <1>3, <1>4, <1>5, <1>6, <1>7, <1>8, <1>9 DEF ToggleStep, ResetStep

LEMMA EnvironmentMoves ==
  ASSUME TypeOK, DatesArePast, Environment
  PROVE  LedgerMove
  <1>0. today \in Nat
    BY DEF TypeOK, Day
  <1>1. CASE Midnight
    <2>1. saved' = saved /\ today' = today + 1 /\ \A w \in Writers : Keeps(w)
      BY <1>1 DEF Midnight, Keeps
    <2>2. QED
      BY <1>0, <2>1 DEF LedgerMove
  <1>2. CASE Drift \/ Outage \/ Recover \/ Repin
    <2>1. saved' = saved /\ today' = today /\ \A w \in Writers : Keeps(w)
      BY <1>2 DEF Drift, Outage, Recover, Repin, Keeps
    <2>2. QED
      BY <2>1, KeepsAreMoves
  <1>3. ASSUME NEW p \in Program, Crash(p) PROVE LedgerMove
    <2>1. saved' = saved /\ today' = today
      BY <1>3 DEF Crash
    <2>2. \A v \in Writers \ {p} : Keeps(v)
      BY <1>3, WriterFacts DEF Crash, Goto, TypeOK, Keeps
    <2>3. CASE p \in Writers
      <3>1. pc'[p] = "idle"
        BY <1>3 DEF Crash, Goto, TypeOK
      <3>2. QED
        BY <1>0, <2>1, <2>2, <2>3, <3>1 DEF LedgerMove, Moves
    <2>4. CASE p \notin Writers
      BY <2>1, <2>2, <2>4, KeepsAreMoves
    <2>5. QED
      BY <2>3, <2>4
  <1>4. CASE StateDamaged
    <2>1. saved' = FreshDay(today) /\ today' = today /\ \A w \in Writers : Keeps(w)
      BY <1>4 DEF StateDamaged, Keeps
    <2>2. QED
      BY <1>0, <2>1 DEF LedgerMove, DatesArePast
  <1>5. CASE MarkerDamaged
    <2>1. saved' = saved /\ today' = today /\ \A w \in Writers : Keeps(w)
      BY <1>5 DEF MarkerDamaged, Keeps
    <2>2. QED
      BY <2>1, KeepsAreMoves
  <1>6. QED
    BY <1>1, <1>2, <1>3, <1>4, <1>5 DEF Environment

LEMMA StepMoves ==
  ASSUME TypeOK, DatesArePast, [Next]_vars
  PROVE  LedgerMove
  <1>1. CASE UNCHANGED vars
    <2>1. saved' = saved /\ today' = today /\ \A w \in Writers : Keeps(w)
      BY <1>1 DEF vars, Keeps
    <2>2. QED
      BY <2>1, KeepsAreMoves
  <1>2. CASE CliStep \/ WatcherStep
    BY <1>2, BudgetStepMoves, WatcherMoves DEF CliStep, WatcherStep, Writers
  <1>3. QED
    BY <1>1, <1>2, WatcherMoves, CommandMoves, ToggleAndResetMove, EnvironmentMoves DEF Next

LEMMA DatesAlways == Spec => []DatesArePast
  <1>1. Init => DatesArePast
    BY DEF Init, DatesArePast, FreshDay, Writers, Program
  <1>2. TypeOK /\ DatesArePast /\ [Next]_vars => DatesArePast'
    BY StepMoves, DatesStay
  <1>3. QED
    BY <1>1, <1>2, TypeCorrect, PTL DEF Spec

\* The state file implements WatchLedger, with the working copies of the watcher and
\* of the command line as its drafts: through commands, days, outages and deaths, and
\* however the two overlap, each save replaces the file by the file as its writer
\* found it with that writer's one entry.
THEOREM StateFileIsALedger == Spec => LedgerKept
  <1>1. Init => Ledger!Init
    BY DEF Init, FreshDay, Ledger!Init, Account, Drafts, DraftOf, Writers, Program
  <1>2. TypeOK /\ DatesArePast /\ [Next]_vars => [Ledger!Next]_(Ledger!ledger)
    BY StepMoves, LedgerStep
  <1>3. QED
    BY <1>1, <1>2, TypeCorrect, DatesAlways, PTL DEF Spec, LedgerKept, Ledger!Spec
=============================================================================
