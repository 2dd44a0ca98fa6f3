---------------------------- MODULE SingleFlight ----------------------------
(***************************************************************************)
(* What the router promises about looking the guest up, however many       *)
(* workers ask at once: one look-up at a time, none within the cooldown of *)
(* the last, an address that only a look-up's end makes known, and an      *)
(* answer that is announced until the next look-up begins.                 *)
(***************************************************************************)
CONSTANTS Address, None

VARIABLES
  known,     \* the address the router gives out
  looking,   \* is anybody looking the guest up?
  cooling,   \* is it too soon to look again?
  answered   \* may a waiter go on?

look == <<known, looking, cooling, answered>>

Init == known = None /\ ~looking /\ ~cooling /\ ~answered

Begin ==
  /\ ~looking /\ ~cooling
  /\ looking' = TRUE /\ cooling' = TRUE /\ answered' = FALSE
  /\ UNCHANGED known

End ==
  /\ looking
  /\ known' \in Address \union {None}
  /\ looking' = FALSE /\ cooling' = TRUE /\ answered' = TRUE

Forget == known' = None /\ UNCHANGED <<looking, cooling, answered>>

\* The cooldown may be over before the look-up is.
CoolDown == cooling' = FALSE /\ UNCHANGED <<known, looking, answered>>

\* The process dies, and its threads with it.
Restart == known' = None /\ looking' = FALSE /\ cooling' = FALSE /\ answered' = FALSE

Next == Begin \/ End \/ Forget \/ CoolDown \/ Restart

Spec == Init /\ [][Next]_look
=============================================================================
