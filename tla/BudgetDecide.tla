---------------------------- MODULE BudgetDecide ----------------------------
(***************************************************************************)
(* The pure decision of one watcher tick (safehouse_ytbudget/decide.py):   *)
(* from the loaded state, the limit and one observation, the next state    *)
(* and the actions that realise it.  Time is counted in samples: a tick    *)
(* credits one unit, a limit or a bonus is a number of units, and a date   *)
(* is a positive number.                                                   *)
(*                                                                         *)
(* An observation is a record                                              *)
(*   today, watching, persistent : the date, the meter's verdict, whether  *)
(*                                 the parental toggle claims the block    *)
(*   resolver : the answer of AdGuard Home, a set: {} when it is           *)
(*              unreachable (the code's None), else {TRUE} or {FALSE}      *)
(*   pinned, firewall : the pinned addresses and the firewalled ones       *)
(***************************************************************************)
EXTENDS Naturals

\* State(date=today): a day on which nothing has happened.
FreshDay(today) ==
  [date |-> today, seconds_used |-> 0, bonus_sec |-> 0,
   blocked_by_budget |-> FALSE, manual_block |-> FALSE]

OverBudget(st, limit) == st.seconds_used >= limit + st.bonus_sec

\* Mutant of Accounted: the reset forgets the used time of the old day.
AccountedKeepingUsed(st, obs) ==
  [st EXCEPT !.date = obs.today,
             !.seconds_used = @ + (IF obs.watching THEN 1 ELSE 0)]

\* Step 1 and 2 of decide(): the date-driven reset, then the credit.
Accounted(st, obs) ==
  LET day == IF st.date # obs.today THEN FreshDay(obs.today) ELSE st
  IN [day EXCEPT !.seconds_used = @ + (IF obs.watching THEN 1 ELSE 0)]

\* Mutant of WantBlocked: the parental toggle is left out of the reasons.
WantBlockedByBudgetOnly(day, limit, obs) ==
  OverBudget(day, limit) \/ day.manual_block

WantBlocked(day, limit, obs) ==
  OverBudget(day, limit) \/ day.manual_block \/ obs.persistent

\* WindowsPlatform.hosts_blocked(): "the resolver says blocked".  Both layers
\* read AdGuard Home; an unanswering resolver leaves only a FALSE hosts layer.
Layers(obs) == {TRUE \in obs.resolver} \union obs.resolver
FullyBlocked(obs) == FALSE \notin Layers(obs)
AnyBlocked(obs) == TRUE \in Layers(obs)

\* The state after the tick.  blocked_by_budget is over_budget on both
\* branches: a tick that wants no block is not over budget.
NextState(st, limit, obs) ==
  LET day == Accounted(st, obs)
  IN [day EXCEPT !.blocked_by_budget = OverBudget(day, limit)]

\* Releasing the auto block: the under-budget branch, and the morning after
\* when only the parental toggle still wants the block.
WantRelease(st, limit, obs) ==
  LET day == Accounted(st, obs)
  IN \/ ~WantBlocked(day, limit, obs) /\ AnyBlocked(obs)
     \/ /\ st.date # obs.today
        /\ obs.persistent
        /\ ~OverBudget(day, limit)
        /\ ~day.manual_block

\* The owner Ticker._apply gives a BlockHosts.
ClaimedBy(new, obs) ==
  IF ~(new.blocked_by_budget \/ new.manual_block) /\ obs.persistent
  THEN "manual" ELSE "budget"

\* Mutant of DecideActions: enforcement latches, it acts only on the transition
\* into the block and not on a difference it observes (decide.py, rule 1).
DecideActionsLatched(st, limit, obs) ==
  LET new     == NextState(st, limit, obs)
      want    == WantBlocked(new, limit, obs)
      release == WantRelease(st, limit, obs)
  IN [unblock  |-> release,
      clear    |-> release \/ (~want /\ obs.firewall # {}),
      block    |-> want /\ ~st.blocked_by_budget,
      owner    |-> ClaimedBy(new, obs),
      firewall |-> want /\ obs.pinned \notin {{}, obs.firewall},
      ips      |-> obs.pinned]

\* The actions of one decision, in the order the caller applies them: release
\* the auto block, clear the firewall, block, set the firewall.
DecideActions(st, limit, obs) ==
  LET new     == NextState(st, limit, obs)
      want    == WantBlocked(new, limit, obs)
      release == WantRelease(st, limit, obs)
  IN [unblock  |-> release,
      clear    |-> release \/ (~want /\ obs.firewall # {}),
      block    |-> want /\ ~FullyBlocked(obs),
      owner    |-> ClaimedBy(new, obs),
      firewall |-> want /\ obs.pinned \notin {{}, obs.firewall},
      ips      |-> obs.pinned]
=============================================================================
