------------------------- MODULE BudgetEnforcement --------------------------
(***************************************************************************)
(* The YouTube watch-time budget: four programs that share one flat        *)
(* AdGuard "blocked service" entry, a marker file that records who claims  *)
(* the entry and since when, the watcher's state file, and the endpoint    *)
(* firewall rule.                                                          *)
(*                                                                         *)
(*   watcher : safehouse_ytbudget/tick.py, one tick per sample             *)
(*   cli     : safehouse_ytbudget/cli.py, the parent's commands            *)
(*   toggle  : safehouse_setup/toggle.py, the persistent parental hold     *)
(*   reset   : adguard_daily_reset.py, the nightly failsafe                *)
(*                                                                         *)
(* Each call to AdGuard, each look at the marker, each update of it and    *)
(* each file save is a step of its own.  Nothing in the code keeps the     *)
(* programs from overlapping; Interleaved and Mishaps are there to show    *)
(* what goes wrong even without it.                                        *)
(***************************************************************************)
EXTENDS Naturals, Integers, BudgetDecide

CONSTANTS
  IP,            \* addresses that can be pinned
  MaxDay,        \* midnights stop at this day
  MaxLimit,      \* set-limit chooses from 0..MaxLimit
  Grants,        \* values `grant` is called with (negative ones take bonus back)
  MaxBonus,      \* bound on the bonus reached through grants
  MaxUsed,       \* bound on the samples credited in a day
  MaxEvents,     \* bound on commands, outages, drifts and mishaps together
  Interleaved,   \* may programs overlap?
  Mishaps,       \* may a program die between two steps, or a call fail half done?
  DriftTo        \* what the AdGuard dashboard may set the entry to

ASSUME BudgetConstants ==
  /\ MaxDay \in Nat \ {0}
  /\ MaxLimit \in Nat /\ MaxBonus \in Nat /\ MaxUsed \in Nat /\ MaxEvents \in Nat
  /\ Grants \subseteq Int
  /\ Interleaved \in BOOLEAN /\ Mishaps \in BOOLEAN /\ DriftTo \subseteq BOOLEAN

Program == {"watcher", "cli", "toggle", "reset"}
Owner == {"budget", "manual"}
Day == 1..MaxDay

VARIABLES
  today,       \* the local calendar date
  limit,       \* config.json's limit_min
  saved,       \* youtube-budget.json
  service,     \* is youtube in AdGuard's blocked_services?
  reachable,   \* does AdGuard answer?
  owners,      \* adguard-block-state.json: owner -> date, 0 when absent
  pins,        \* the pinned addresses
  firewall,    \* the addresses of the firewall rule
  pc,          \* each program's next step, "idle" when it is not running
  job,         \* the watcher's and the cli's working copy of the state, and plan
  resetDay,    \* the date the nightly reset read when it started
  overtaken,   \* history: <<p, o>> when o was claimed after p looked and before its lift
  events       \* how much of MaxEvents is spent

vars == <<today, limit, saved, service, reachable, owners, pins, firewall,
          pc, job, resetDay, overtaken, events>>

State == [date : Day, seconds_used : 0..MaxUsed, bonus_sec : 0..MaxBonus,
          blocked_by_budget : BOOLEAN, manual_block : BOOLEAN]
Plan == [unblock : BOOLEAN, clear : BOOLEAN, block : BOOLEAN, owner : Owner,
         firewall : BOOLEAN, ips : SUBSET IP]
Step == {"idle", "observe", "judge", "query", "lift", "release", "clear",
         "block", "claim", "firewall", "save", "forget"}

NoPlan == [unblock |-> FALSE, clear |-> FALSE, block |-> FALSE,
           owner |-> "budget", firewall |-> FALSE, ips |-> {}]
NoJob == [st |-> FreshDay(1), plan |-> NoPlan, limit |-> 0]

Init ==
  /\ today = 1
  /\ limit = MaxLimit
  /\ saved = FreshDay(1)
  /\ service = FALSE
  /\ reachable = TRUE
  /\ owners = [o \in Owner |-> 0]
  /\ pins \in SUBSET IP
  /\ firewall = {}
  /\ pc = [p \in Program |-> "idle"]
  /\ job = [p \in {"watcher", "cli"} |-> NoJob]
  /\ resetDay = 1
  /\ overtaken = {}
  /\ events = 0
-----------------------------------------------------------------------------
(* Control: where a program goes next. *)

MayStart(p) ==
  /\ pc[p] = "idle"
  /\ Interleaved \/ \A q \in Program : pc[q] = "idle"

Event == events < MaxEvents /\ events' = events + 1

Goto(p, step) == pc' = [pc EXCEPT ![p] = step]

\* Is the owner among read_block_owners?
Claimed(owner) == owners[owner] # 0

\* What AdGuardClient.is_blocked says: nothing when AdGuard does not answer.
Answer == IF reachable THEN {service} ELSE {}

\* The stages of a plan: unblock, clear the firewall, block, set the firewall,
\* save.  Each operator names the first stage still to do after another one.
AfterBlock(plan) == IF plan.firewall THEN "firewall" ELSE "save"
AfterClear(plan) == IF plan.block THEN "block" ELSE AfterBlock(plan)
AfterUnblock(plan) == IF plan.clear THEN "clear" ELSE AfterClear(plan)
FirstStage(plan) == IF plan.unblock THEN "judge" ELSE AfterUnblock(plan)

\* The same for a program that has finished with its block or unblock call:
\* the toggle has nothing left to do.
Unblocked(p) == IF p = "toggle" THEN "idle" ELSE AfterUnblock(job[p].plan)
Blocked(p) == IF p = "toggle" THEN "idle" ELSE AfterBlock(job[p].plan)
-----------------------------------------------------------------------------
(* The watcher: Ticker.run. *)

\* load_config and statemod.load, before anything is observed.
StartTick ==
  /\ MayStart("watcher")
  /\ job' = [job EXCEPT !["watcher"] = [st |-> saved, plan |-> NoPlan, limit |-> limit]]
  /\ Goto("watcher", "observe")
  /\ UNCHANGED <<today, limit, saved, service, reachable, owners, pins, firewall,
                 resetDay, overtaken, events>>

Observation(watching) ==
  [today |-> today, watching |-> watching,
   persistent |-> Claimed("manual"),
   resolver |-> Answer,
   pinned |-> pins, firewall |-> firewall]

\* _observe and decide: everything after this works on the observation.
Observe ==
  /\ pc["watcher"] = "observe"
  /\ \E watching \in BOOLEAN :
       LET obs  == Observation(watching)
           st   == job["watcher"].st
           lim  == job["watcher"].limit
           new  == NextState(st, lim, obs)
           plan == DecideActions(st, lim, obs)
       IN /\ new.seconds_used <= MaxUsed
          /\ job' = [job EXCEPT !["watcher"] = [st |-> new, plan |-> plan, limit |-> 0]]
          /\ Goto("watcher", FirstStage(plan))
  /\ UNCHANGED <<today, limit, saved, service, reachable, owners, pins, firewall,
                 resetDay, overtaken, events>>
-----------------------------------------------------------------------------
(* The parent's command line: cli.run. *)

\* A state file of an earlier day counts for nothing.
LoadedByCli == IF saved.date # today THEN FreshDay(today) ELSE saved

UnblockPlan == [NoPlan EXCEPT !.unblock = TRUE, !.clear = TRUE]

\* Begin a command that will save st after carrying out plan.
BeginCommand(st, plan) ==
  /\ MayStart("cli") /\ Event
  /\ job' = [job EXCEPT !["cli"] = [st |-> st, plan |-> plan, limit |-> 0]]
  /\ Goto("cli", FirstStage(plan))
  /\ UNCHANGED <<today, saved, service, reachable, owners, pins, firewall, resetDay,
                 overtaken>>

\* _free_budget_if_possible, shared by set-limit and grant.
BeginFreeing(st, lim) ==
  IF st.blocked_by_budget /\ ~OverBudget(st, lim)
  THEN BeginCommand([st EXCEPT !.blocked_by_budget = FALSE], UnblockPlan)
  ELSE BeginCommand(st, NoPlan)

SetLimit(value) == limit' = value /\ BeginFreeing(LoadedByCli, value)

\* Mutant of Grant: taking bonus back may leave less than nothing.
GrantUnclamped(value) ==
  /\ LoadedByCli.bonus_sec + value <= MaxBonus
  /\ BeginFreeing([LoadedByCli EXCEPT !.bonus_sec = @ + value], limit)
  /\ UNCHANGED limit

Grant(value) ==
  LET sum   == LoadedByCli.bonus_sec + value
      bonus == IF sum < 0 THEN 0 ELSE sum
  IN /\ bonus <= MaxBonus
     /\ BeginFreeing([LoadedByCli EXCEPT !.bonus_sec = bonus], limit)
     /\ UNCHANGED limit

CtlBlock ==
  /\ BeginCommand([LoadedByCli EXCEPT !.manual_block = TRUE],
                  [NoPlan EXCEPT !.block = TRUE, !.firewall = TRUE])
  /\ UNCHANGED limit

CtlAllow ==
  /\ BeginCommand([LoadedByCli EXCEPT !.manual_block = FALSE,
                                      !.blocked_by_budget = FALSE], UnblockPlan)
  /\ UNCHANGED limit

CtlReset == BeginCommand(FreshDay(today), UnblockPlan) /\ UNCHANGED limit

CliStart ==
  \/ \E value \in 0..MaxLimit : SetLimit(value)
  \/ \E value \in Grants : Grant(value)
  \/ CtlBlock
  \/ CtlAllow
  \/ CtlReset
-----------------------------------------------------------------------------
(* The persistent hold: toggle.block_resolver and toggle.allow_resolver.     *)
(* Both give up at once when AdGuard does not answer.                        *)

ToggleStart(step) ==
  /\ MayStart("toggle") /\ Event
  /\ Goto("toggle", IF reachable THEN step ELSE "idle")
  /\ UNCHANGED <<today, limit, saved, service, reachable, owners, pins, firewall, job,
                 resetDay, overtaken>>

ToggleBlock == ToggleStart("block")

\* The budget's own claim is looked up before the block is touched.
ToggleAllow == ToggleStart(IF Claimed("budget") THEN "query" ELSE "lift")

\* "BUDGET_OWNED": the entry stays for the budget, only the hold is released.
ToggleQuery ==
  /\ pc["toggle"] = "query"
  /\ Goto("toggle", IF TRUE \in Answer THEN "release" ELSE "lift")
  /\ UNCHANGED <<today, limit, saved, service, reachable, owners, pins, firewall, job,
                 resetDay, overtaken, events>>
-----------------------------------------------------------------------------
(* The nightly failsafe: adguard_daily_reset.main, at 00:05 and at boot. *)

ResetStart ==
  /\ MayStart("reset") /\ Event
  /\ resetDay' = today
  /\ Goto("reset", CASE Answer = {} -> "idle"
                     [] TRUE \in Answer -> "judge"
                     [] FALSE \in Answer -> "forget")
  /\ UNCHANGED <<today, limit, saved, service, reachable, owners, pins, firewall, job,
                 overtaken>>

\* Mutant of ResetJudge: the date of the budget claim is not compared.
ResetJudgeDateBlind ==
  /\ pc["reset"] = "judge"
  /\ Goto("reset", IF Claimed("manual") THEN "idle" ELSE "lift")
  /\ UNCHANGED <<today, limit, saved, service, reachable, owners, pins, firewall, job,
                 resetDay, overtaken, events>>

\* Whose block is it, and of which day?  A hold keeps the block, and only a
\* stale budget claim beside it is dropped.
ResetJudge ==
  /\ pc["reset"] = "judge"
  /\ IF Claimed("manual")
     THEN /\ owners' = [owners EXCEPT !["budget"] = IF @ = resetDay THEN @ ELSE 0]
          /\ Goto("reset", "idle")
     ELSE /\ Goto("reset", IF owners["budget"] = resetDay THEN "idle" ELSE "lift")
          /\ UNCHANGED owners
  /\ UNCHANGED <<today, limit, saved, service, reachable, pins, firewall, job,
                 resetDay, overtaken, events>>

\* write_block_date(None): every claim is dropped.
ResetForget ==
  /\ pc["reset"] = "forget"
  /\ owners' = [o \in Owner |-> 0]
  /\ Goto("reset", "idle")
  /\ UNCHANGED <<today, limit, saved, service, reachable, pins, firewall, job,
                 resetDay, overtaken, events>>
-----------------------------------------------------------------------------
(* The steps the programs share. *)

\* Mutant of Judge: unblock_hosts does not look for a hold.
JudgeHoldBlind(p) ==
  /\ pc[p] = "judge"
  /\ Goto(p, "lift")
  /\ UNCHANGED <<today, limit, saved, service, reachable, owners, pins, firewall, job,
                 resetDay, overtaken, events>>

\* WindowsPlatform.unblock_hosts("auto"): a hold keeps the entry.
Judge(p) ==
  /\ pc[p] = "judge"
  /\ Goto(p, IF Claimed("manual") THEN "release" ELSE "lift")
  /\ UNCHANGED <<today, limit, saved, service, reachable, owners, pins, firewall, job,
                 resetDay, overtaken, events>>

\* AdGuardClient.set_blocked: done and answered, not done, or done although the
\* answer is lost, which the program takes for a failure.
SetBlocked(p, on, next, failed) ==
  \/ reachable /\ service' = on /\ Goto(p, next) /\ UNCHANGED events
  \/ ~reachable /\ Goto(p, failed) /\ UNCHANGED <<service, events>>
  \/ Mishaps /\ Event /\ reachable /\ service' = on /\ Goto(p, failed)

\* When the lifting failed, no claim changes.
Lift(p) ==
  /\ pc[p] = "lift"
  /\ IF p = "reset" THEN SetBlocked(p, FALSE, "forget", "idle")
                    ELSE SetBlocked(p, FALSE, "release", Unblocked(p))
  /\ overtaken' = {c \in overtaken : c[1] # p}
  /\ UNCHANGED <<today, limit, saved, reachable, owners, pins, firewall, job, resetDay>>

\* remove_block_owner: the toggle drops the hold, everyone else the budget.
Release(p) ==
  /\ pc[p] = "release"
  /\ owners' = [owners EXCEPT ![IF p = "toggle" THEN "manual" ELSE "budget"] = 0]
  /\ Goto(p, Unblocked(p))
  /\ UNCHANGED <<today, limit, saved, service, reachable, pins, firewall, job,
                 resetDay, overtaken, events>>

\* WindowsPlatform.block_hosts: a claim only for BLOCKED or ALREADY.
Block(p) ==
  /\ pc[p] = "block"
  /\ SetBlocked(p, TRUE, "claim", Blocked(p))
  /\ UNCHANGED <<today, limit, saved, reachable, owners, pins, firewall, job, resetDay,
                 overtaken>>

\* add_block_owner, dated with the day on which the marker is written.
Claim(p) ==
  /\ pc[p] = "claim"
  /\ LET owner == IF p = "toggle" THEN "manual" ELSE job[p].plan.owner
     IN /\ owners' = [owners EXCEPT ![owner] = today]
        /\ overtaken' = overtaken \union {<<q, owner>> : q \in {r \in Program : pc[r] = "lift"}}
  /\ Goto(p, Blocked(p))
  /\ UNCHANGED <<today, limit, saved, service, reachable, pins, firewall, job,
                 resetDay, events>>

ClearFirewall(p) ==
  /\ pc[p] = "clear"
  /\ \/ firewall' = {} /\ UNCHANGED events
     \/ Mishaps /\ Event /\ UNCHANGED firewall
  /\ Goto(p, AfterClear(job[p].plan))
  /\ UNCHANGED <<today, limit, saved, service, reachable, owners, pins, job, resetDay,
                 overtaken>>

\* The watcher sets what it observed, the command line what is pinned now.  The old
\* rule is deleted first; netsh may refuse the new one, and the deletion too.
SetFirewall(p) ==
  /\ pc[p] = "firewall"
  /\ \/ /\ firewall' = IF p = "watcher" THEN job[p].plan.ips ELSE pins
        /\ UNCHANGED events
     \/ Mishaps /\ Event /\ firewall' \in {firewall, {}}
  /\ Goto(p, "save")
  /\ UNCHANGED <<today, limit, saved, service, reachable, owners, pins, job, resetDay,
                 overtaken>>

\* statemod.save: the working copy replaces the file, whatever it holds now.
Save(p) ==
  /\ pc[p] = "save"
  /\ saved' = job[p].st
  /\ job' = [job EXCEPT ![p] = NoJob]
  /\ Goto(p, "idle")
  /\ UNCHANGED <<today, limit, service, reachable, owners, pins, firewall, resetDay,
                 overtaken, events>>

BudgetStep(p) ==
  \/ Judge(p) \/ Lift(p) \/ Release(p) \/ Block(p) \/ Claim(p)
  \/ ClearFirewall(p) \/ SetFirewall(p) \/ Save(p)

WatcherStep == Observe \/ BudgetStep("watcher")
CliStep == BudgetStep("cli")
ToggleStep ==
  ToggleQuery \/ Lift("toggle") \/ Release("toggle") \/ Block("toggle") \/ Claim("toggle")
ResetStep == ResetJudge \/ Lift("reset") \/ ResetForget
-----------------------------------------------------------------------------
(* The environment. *)

Midnight ==
  /\ today < MaxDay
  /\ today' = today + 1
  /\ UNCHANGED <<limit, saved, service, reachable, owners, pins, firewall, pc, job,
                 resetDay, overtaken, events>>

\* The entry is edited in AdGuard's dashboard, or lost with a resolver restart.
Drift ==
  /\ Event
  /\ service' \in DriftTo \ {service}
  /\ UNCHANGED <<today, limit, saved, reachable, owners, pins, firewall, pc, job,
                 resetDay, overtaken>>

Outage ==
  /\ reachable /\ Event
  /\ reachable' = FALSE
  /\ UNCHANGED <<today, limit, saved, service, owners, pins, firewall, pc, job,
                 resetDay, overtaken>>

Recover ==
  /\ ~reachable
  /\ reachable' = TRUE
  /\ UNCHANGED <<today, limit, saved, service, owners, pins, firewall, pc, job,
                 resetDay, overtaken, events>>

\* Names resolve to other addresses (module Metering has the detail).
Repin ==
  /\ Event
  /\ pins' \in (SUBSET IP) \ {pins}
  /\ UNCHANGED <<today, limit, saved, service, reachable, owners, firewall, pc, job,
                 resetDay, overtaken>>

\* A state file that is damaged reads as a fresh day (here: of the day on which it is
\* damaged), and a marker that is damaged as one in which nobody claims the entry.
StateDamaged ==
  /\ Mishaps /\ Event
  /\ saved' = FreshDay(today)
  /\ UNCHANGED <<today, limit, service, reachable, owners, pins, firewall, pc, job,
                 resetDay, overtaken>>

MarkerDamaged ==
  /\ Mishaps /\ Event
  /\ owners' = [o \in Owner |-> 0]
  /\ UNCHANGED <<today, limit, saved, service, reachable, pins, firewall, pc, job,
                 resetDay, overtaken>>

\* A kill, a power cut, or an exception that ends the tick or the command.
Crash(p) ==
  /\ Mishaps /\ Event
  /\ pc[p] # "idle"
  /\ job' = [q \in DOMAIN job |-> IF q = p THEN NoJob ELSE job[q]]
  /\ Goto(p, "idle")
  /\ overtaken' = {c \in overtaken : c[1] # p}
  /\ UNCHANGED <<today, limit, saved, service, reachable, owners, pins, firewall,
                 resetDay>>

Environment ==
  \/ Midnight \/ Drift \/ Outage \/ Recover \/ Repin \/ StateDamaged \/ MarkerDamaged
  \/ \E p \in Program : Crash(p)

Next ==
  \/ StartTick \/ WatcherStep
  \/ CliStart \/ CliStep
  \/ ToggleBlock \/ ToggleAllow \/ ToggleStep
  \/ ResetStart \/ ResetStep
  \/ Environment

Spec == Init /\ [][Next]_vars

\* The watcher's loop never stops (watcher.main catches every exception and
\* the task restarts a killed one), a program that runs gets on with its next
\* step, and the resolver watchdog brings AdGuard back.
Fairness ==
  /\ WF_vars(StartTick) /\ WF_vars(WatcherStep)
  /\ WF_vars(CliStep) /\ WF_vars(ToggleStep) /\ WF_vars(ResetStep)
  /\ WF_vars(Recover)

FairSpec == Spec /\ Fairness
=============================================================================
