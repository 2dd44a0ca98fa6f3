-------------------------- MODULE BudgetProperties --------------------------
(***************************************************************************)
(* What makes the watch-time budget correct.  See README.md for the run    *)
(* that checks each property and for the findings among them.              *)
(***************************************************************************)
EXTENDS BudgetEnforcement

Quiet == \A p \in Program : pc[p] = "idle"

\* Today's allowance, as the state file has it, is used up.
Exhausted == saved.date = today /\ OverBudget(saved, limit)

\* The three reasons the design knows for a block.
Wanted ==
  \/ Exhausted
  \/ saved.date = today /\ saved.manual_block
  \/ owners["manual"] # 0
-----------------------------------------------------------------------------
JobType == [st : State, plan : Plan, limit : 0..MaxLimit]

(* Every value a variable can take. *)
TypeOK ==
  /\ today \in Day
  /\ limit \in 0..MaxLimit
  /\ saved \in State
  /\ service \in BOOLEAN
  /\ reachable \in BOOLEAN
  /\ owners \in [Owner -> 0..MaxDay]
  /\ pins \in SUBSET IP
  /\ firewall \in SUBSET IP
  /\ pc \in [Program -> Step]
  /\ job \in [{"watcher", "cli"} -> JobType]
  /\ resetDay \in Day
  /\ overtaken \subseteq Program \X Owner
  /\ events \in 0..MaxEvents

\* Reconcile, never latch (decide.py, rule 1): once the commands, drifts,
\* outages and crashes of a day are over, the AdGuard entry, and with pins to
\* block the firewall, end up and stay exactly as the reasons want them,
\* whatever the programs had done to each other before.
Settles ==
  <>[](/\ service <=> Wanted
       /\ Wanted => pins = {} \/ firewall = pins
       /\ ~Wanted => firewall = {})

\* A persistent hold whose entry was opened, by a drift, an outage or another
\* program, is closed again by the watcher or given up by the parent.
HoldIsRestored == (owners["manual"] # 0) ~> (service \/ owners["manual"] = 0)

\* "A block applied here is left alone by the watcher" (toggle.py): no step of
\* the watcher, of the command line or of the nightly reset opens the entry while
\* the parental hold claims it, unless the claim was made after that program had
\* looked for one.
OnlyToggleOpensHold ==
  [][ \A p \in Program \ {"toggle"} :
        (pc[p] = "lift" /\ pc'[p] # "lift" /\ service /\ ~service' /\ owners["manual"] # 0)
          => <<p, "manual">> \in overtaken ]_vars

\* The nightly reset opens an entry that the budget claimed on the day it runs only
\* if the claim came after it had looked, whichever programs run beside it.
ResetSparesToday ==
  [][ (/\ pc["reset"] = "lift" /\ pc'["reset"] # "lift" /\ service /\ ~service'
       /\ owners["budget"] = resetDay)
        => <<"reset", "budget">> \in overtaken ]_vars

\* The state file keeps the promises of a ledger of the child's days, with the
\* working copies of the watcher and of the command line as its drafts.
Account(st) == [day |-> st.date, used |-> st.seconds_used, bonus |-> st.bonus_sec]
Writers == {"watcher", "cli"}
DraftOf(w) == IF pc[w] = "idle" THEN {} ELSE {Account(job[w].st)}
Drafts == [w \in Writers |-> DraftOf(w)]
Ledger == INSTANCE WatchLedger WITH
  Writer <- Writers, account <- Account(saved), drafts <- Drafts
LedgerKept == Ledger!Spec
-----------------------------------------------------------------------------
(* What the code says of itself and does not do. *)

\* toggle.py, allow_resolver: "The budget still requires the shared service
\* entry, so do not create even a one-sample access window."
AllowOpensNoWindow ==
  [][ (pc["toggle"] = "lift" /\ pc'["toggle"] # "lift" /\ service /\ ~service')
        => ~(saved.date = today /\ saved.blocked_by_budget) ]_vars

\* adguard_daily_reset.py: "only `toggle --allow` should undo" a hold.
HoldEndsOnlyByAllow ==
  [][ (owners["manual"] # 0 /\ owners'["manual"] = 0)
        => pc["toggle"] = "release" ]_vars

\* decide.py, rule 2: "`ctl block` must survive a tick".
CtlBlockSurvives ==
  [][ (saved.manual_block /\ ~saved'.manual_block)
        => pc["cli"] = "save" \/ saved'.date # saved.date ]_vars

\* adguard_daily_reset.py: "The block records the local date it was applied".  A
\* block whose answer was lost, or whose program died before it could, records none.
BlockHasOwner == Quiet /\ service => \E o \in Owner : owners[o] # 0
-----------------------------------------------------------------------------
(* Inductive strengthenings. *)

\* What a program found before it lifts the block is still true when it does, or a
\* claim has overtaken it.
LiftJustified ==
  /\ \A p \in Program \ {"toggle"} :
       pc[p] = "lift" /\ owners["manual"] # 0 => <<p, "manual">> \in overtaken
  /\ pc["reset"] = "lift" /\ owners["budget"] = resetDay
       => <<"reset", "budget">> \in overtaken

\* No writer is ahead of the calendar.
DatesArePast ==
  /\ saved.date <= today
  /\ \A w \in Writers : pc[w] # "idle" => job[w].st.date <= today
=============================================================================
