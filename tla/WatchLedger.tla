---------------------------- MODULE WatchLedger -----------------------------
(***************************************************************************)
(* What the state file promises about a child's days, whoever writes it    *)
(* and however the writers overlap.  A writer works on a draft: it copies  *)
(* the account, makes one entry, and replaces the account by its draft or  *)
(* gives it up.  In the draft days only advance, a new day starts from     *)
(* nothing, the used time grows by one sample at a time, a bonus moves     *)
(* without touching it, and only an explicit reset returns both to zero.   *)
(* The account itself can only be lost, and then starts anew.              *)
(***************************************************************************)
EXTENDS Naturals

CONSTANT Writer

VARIABLES
  account,  \* [day, used, bonus]
  drafts    \* writer -> {} or the set of its one draft

ledger == <<account, drafts>>

Init ==
  /\ account = [day |-> 1, used |-> 0, bonus |-> 0]
  /\ drafts = [w \in Writer |-> {}]

\* An amount of the account as the day of the next entry finds it: untouched, or new.
Carried(old, new, amount) == IF new.day = old.day THEN amount ELSE 0

\* One sample of the day, watched or not.
Sample(old, new) ==
  /\ new.used \in {Carried(old, new, old.used), Carried(old, new, old.used) + 1}
  /\ new.bonus = Carried(old, new, old.bonus)

\* A parent gives time, or takes given time back.
Adjust(old, new) ==
  /\ new.used = Carried(old, new, old.used)
  /\ new.bonus \in Nat

Zero(new) == new.used = 0 /\ new.bonus = 0

Entry(old, new) ==
  /\ new.day >= old.day
  /\ Sample(old, new) \/ Adjust(old, new) \/ Zero(new)

Draft(w, draft) == drafts' = [drafts EXCEPT ![w] = draft]

Open(w) == drafts[w] = {} /\ Draft(w, {account}) /\ UNCHANGED account

\* A command copies the account and makes its entry at once.
Command(w) ==
  /\ drafts[w] = {}
  /\ \E new \in drafts'[w] : Entry(account, new) /\ Draft(w, {new})
  /\ UNCHANGED account

Enter(w) ==
  /\ \E old \in drafts[w], new \in drafts'[w] : Entry(old, new) /\ Draft(w, {new})
  /\ UNCHANGED account

Save(w) == account' \in drafts[w] /\ Draft(w, {})

GiveUp(w) == Draft(w, {}) /\ UNCHANGED account

\* The account is lost, and starts anew.
Lose ==
  /\ account' = [day |-> account'.day, used |-> 0, bonus |-> 0]
  /\ account'.day >= account.day
  /\ UNCHANGED drafts

Next ==
  \/ \E w \in Writer : Open(w) \/ Command(w) \/ Enter(w) \/ Save(w) \/ GiveUp(w)
  \/ Lose

Spec == Init /\ [][Next]_ledger
=============================================================================
