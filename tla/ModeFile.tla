------------------------------ MODULE ModeFile ------------------------------
(***************************************************************************)
(* What youtube-schedule.json promises, whoever writes it: every act of    *)
(* the parent is whole.  A mode replaces all there was; a hold is put on   *)
(* the schedule that is in force, changes nothing else of it and ends      *)
(* where that schedule says.                                               *)
(***************************************************************************)
EXTENDS Naturals

CONSTANTS
  Schedules,    \* the sets of windows a parent may save
  Until(_, _)   \* when a hold on some windows ends, by the minute it was placed

VARIABLES now, file

NoHold == [state |-> "none", until |-> 0, at |-> 0]
Unset == [mode |-> "none", windows |-> {}, hold |-> NoHold]

Init == now = 0 /\ file = Unset

SetMode ==
  \E mode \in {"blocked", "allowed", "schedule"}, windows \in Schedules \union {{}} :
    /\ mode = "schedule" \/ windows = {}
    /\ file' = [mode |-> mode, windows |-> windows, hold |-> NoHold]

\* A hold is known from the moment it was asked for.
SetHold ==
  /\ file.mode = "schedule"
  /\ \E state \in {"ALLOWED", "BLOCKED"}, at \in 0..now :
       file' = [file EXCEPT !.hold =
                  [state |-> state, until |-> Until(file.windows, at), at |-> at]]

ClearHold ==
  /\ file.mode = "schedule"
  /\ file' = [file EXCEPT !.hold = NoHold]

Break == file' = [Unset EXCEPT !.mode = "broken"]

Next ==
  \/ now' = now /\ (SetMode \/ SetHold \/ ClearHold \/ Break)
  \/ now' = now + 1 /\ file' = file

Spec == Init /\ [][Next]_<<now, file>>
=============================================================================
