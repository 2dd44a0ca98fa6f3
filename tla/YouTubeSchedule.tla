--------------------------- MODULE YouTubeSchedule ---------------------------
(***************************************************************************)
(* The panel's YouTube lane: the modes and windows a parent saves, the     *)
(* manual hold on top of a schedule, and the reconciler thread that keeps  *)
(* AdGuard's user rules in the state the schedule calls for.  Requests and *)
(* reconciler take one lock around their read and write of the rules; the  *)
(* rules themselves, and the file, can also be edited by hand.             *)
(***************************************************************************)
EXTENDS Naturals, FiniteSets, FiniteSetsExt

CONSTANTS
  Parent,      \* request threads of the panel
  Tick,        \* the reconciler thread
  Own,         \* the panel's own rules (YOUTUBE_RULES)
  Foreign,     \* every other line of the list
  Schedules,   \* the sets of windows a parent may save
  DayLength,   \* MINUTES_PER_DAY
  Days,        \* days in a week
  MaxTime,     \* bound on the clock
  MaxEvents    \* bound on requests, edits and failures

Nobody == "nobody"   \* the lock is free
WeekLength == DayLength * Days
Window == [days : SUBSET (0..Days - 1), start : 0..DayLength - 1, end : 0..DayLength - 1]

ASSUME ScheduleConstants ==
  /\ IsFiniteSet(Parent) /\ Tick \notin Parent /\ Nobody \notin Parent \union {Tick}
  /\ Own # {} /\ Own \cap Foreign = {}
  /\ Schedules \subseteq SUBSET Window
  /\ DayLength \in Nat \ {0} /\ Days \in Nat \ {0}
  /\ MaxTime \in Nat /\ MaxEvents \in Nat

Actor == Parent \union {Tick}
State == {"ALLOWED", "BLOCKED"}
Mode == {"blocked", "allowed", "schedule"}
NoHold == [state |-> "none", until |-> 0, at |-> 0]

VARIABLES
  now,        \* the clock, in minutes
  file,       \* youtube-schedule.json: [mode, windows, hold]
  rules,      \* AdGuard's user rules: [own, foreign]
  lock,       \* who holds _yt_lock
  job,        \* what each thread is doing
  typed,      \* lines typed by hand while no write was under way
  disturbed,  \* did anything but the last manual act decide on the own rules?
  events

vars == <<now, file, rules, lock, job, typed, disturbed, events>>

Event == events < MaxEvents /\ events' = events + 1

NoSave == [mode |-> "none", windows |-> {}, hold |-> NoHold]
Doing(pc, at, want, save, first) ==
  [pc |-> pc, at |-> at, want |-> want, save |-> save, first |-> first, seen |-> {}]
Resting == Doing("idle", 0, "ALLOWED", NoSave, FALSE)

Init ==
  /\ now = 0 /\ events = 0
  /\ file = NoSave
  /\ rules \in [own : {{}, Own}, foreign : {{}}]
  /\ lock = Nobody
  /\ job = [a \in Actor |-> Resting]
  /\ typed = {} /\ disturbed = FALSE
-----------------------------------------------------------------------------
(* The clock arithmetic of a schedule *)

\* No times: the whole day.  An end before its start crosses midnight.
Span(w) == IF w.start = w.end THEN DayLength ELSE (w.end + DayLength - w.start) % DayLength

WindowMinutes(w) ==
  {(d * DayLength + w.start + k) % WeekLength : d \in w.days, k \in 0..Span(w) - 1}

AllowedMinutes(windows) == UNION {WindowMinutes(w) : w \in windows}

Open(windows, t) == t % WeekLength \in AllowedMinutes(windows)

DesiredState(f, t) ==
  IF f.mode = "allowed" \/ (f.mode = "schedule" /\ Open(f.windows, t))
    THEN "ALLOWED" ELSE "BLOCKED"

NextChanges(windows, t) == {m \in t + 1..t + WeekLength : Open(windows, m) # Open(windows, t)}

Midnight(t) == (t \div DayLength + 1) * DayLength

\* Mutant of HoldUntil: the hold lasts until the day changes.
HoldUntilMidnight(windows, t) == Midnight(t)

HoldUntil(windows, t) == Min(NextChanges(windows, t) \union {Midnight(t)})

Held(f) == f.mode = "schedule" /\ now < f.hold.until

Scheduled == file.mode = "schedule" /\ ~Held(file)

YouTubeState ==
  IF rules.own = {} THEN "ALLOWED" ELSE IF rules.own = Own THEN "BLOCKED" ELSE "PARTIAL"

\* What the last manual act put in force, if it still is.
Promise ==
  CASE file.mode = "allowed" -> "ALLOWED"
    [] file.mode = "blocked" -> "BLOCKED"
    [] Held(file) -> file.hold.state
    [] OTHER -> "none"
-----------------------------------------------------------------------------
(* A request arrives: its time is taken before it waits for the lock *)

Wait(p, want, save, first) ==
  /\ p \in Parent /\ job[p].pc = "idle" /\ Event
  /\ job' = [job EXCEPT ![p] = Doing("waiting", now, want, save, first)]
  /\ UNCHANGED <<now, file, rules, lock, typed, disturbed>>

\* A manual mode is applied first and saved only if that worked; a schedule is saved
\* first.  Saving any mode clears the hold.  (A manual mode saves windows nobody reads.)
SetSchedule(p, mode, windows) ==
  LET f == [mode |-> mode, windows |-> windows, hold |-> NoHold]
  IN /\ mode = "schedule" \/ windows = {}
     /\ Wait(p, DesiredState(f, now), f, mode = "schedule")

\* A hold needs a schedule to hold; what it saves is known once the file is read.
SetOverride(p, state) ==
  Wait(p, state, [mode |-> "hold", windows |-> {}, hold |-> NoHold], FALSE)

ClearOverride(p) ==
  Wait(p, "ALLOWED", [mode |-> "clear", windows |-> {}, hold |-> NoHold], TRUE)

SetBlocked(p, state) == Wait(p, state, NoSave, FALSE)

\* The work of a request once the file is read: a hold becomes the file it will save,
\* a clear becomes what the schedule wants.
Resolved(j) ==
  CASE j.save.mode = "hold" ->
         [j EXCEPT !.save = [file EXCEPT !.hold =
           [state |-> j.want, until |-> HoldUntil(file.windows, j.at), at |-> j.at]]]
    [] j.save.mode = "clear" ->
         [j EXCEPT !.save = [file EXCEPT !.hold = NoHold], !.want = DesiredState(file, j.at)]
    [] OTHER -> j

Refused(j) == j.save.mode \in {"hold", "clear"} /\ file.mode # "schedule"

\* Mutant of Available: nobody waits for the lock.
AvailableAlways == TRUE

Available == lock = Nobody

Acquire(a) ==
  /\ job[a].pc = "waiting" /\ Available
  /\ IF Refused(job[a])
       THEN job' = [job EXCEPT ![a] = Resting] /\ UNCHANGED <<file, lock>>
       ELSE LET j == Resolved(job[a])
            IN /\ lock' = a
               /\ job' = [job EXCEPT ![a] =
                    Doing("get", 0, j.want, IF j.first THEN NoSave ELSE j.save, FALSE)]
               /\ file' = IF j.first THEN j.save ELSE file
  /\ UNCHANGED <<now, rules, typed, disturbed, events>>

Release(a) ==
  /\ lock' = IF lock = a THEN Nobody ELSE lock
  /\ job' = [job EXCEPT ![a] = Resting]
-----------------------------------------------------------------------------
(* set_youtube_blocked: read the live list, write it back with or without ours *)

OwnWanted(a) == IF job[a].want = "BLOCKED" THEN Own ELSE {}
Saving(a) == job[a].save # NoSave

GetFails(a) ==
  /\ job[a].pc = "get" /\ Event
  /\ Release(a)
  /\ UNCHANGED <<now, file, rules, typed, disturbed>>

\* A list that is already right is not written.
Get(a) ==
  /\ job[a].pc = "get"
  /\ IF rules.own # OwnWanted(a)
       THEN /\ job' = [job EXCEPT ![a].pc = "put", ![a].seen = rules.foreign]
            /\ UNCHANGED <<lock, disturbed>>
       ELSE IF Saving(a)
              THEN /\ job' = [job EXCEPT ![a].pc = "saving"]
                   /\ disturbed' = FALSE /\ UNCHANGED lock
              ELSE Release(a) /\ UNCHANGED disturbed
  /\ UNCHANGED <<now, file, rules, typed, events>>

\* Mutant of Written: the list is built from the rules the panel knows.
WrittenFixed(a) == [own |-> OwnWanted(a), foreign |-> {}]

Written(a) == [own |-> OwnWanted(a), foreign |-> job[a].seen]

Put(a) ==
  /\ job[a].pc = "put"
  /\ rules' = Written(a)
  /\ IF Saving(a)
       THEN job' = [job EXCEPT ![a].pc = "saving"] /\ disturbed' = FALSE /\ UNCHANGED lock
       ELSE Release(a) /\ disturbed' = (disturbed \/ Promise # "none")
  /\ UNCHANGED <<now, file, typed, events>>

\* AdGuard refuses, or its answer is lost after it obeyed: nothing is saved.
PutFails(a, obeyed) ==
  /\ job[a].pc = "put" /\ Event
  /\ rules' = IF obeyed THEN Written(a) ELSE rules
  /\ disturbed' = (disturbed \/ obeyed)
  /\ Release(a)
  /\ UNCHANGED <<now, file, typed>>

\* The changes are merged into what the file holds by then: a hold does not mend a file
\* that was broken meanwhile.
Merged(a) ==
  CASE job[a].save.hold = NoHold -> job[a].save
    [] job[a].save.hold # NoHold /\ file.mode # "broken" -> [file EXCEPT !.hold = job[a].save.hold]
    [] OTHER -> file

Save(a) ==
  /\ job[a].pc = "saving"
  /\ file' = Merged(a)
  /\ Release(a)
  /\ UNCHANGED <<now, rules, typed, disturbed, events>>

SaveFails(a) ==
  /\ job[a].pc = "saving" /\ Event
  /\ Release(a)
  /\ disturbed' = TRUE
  /\ UNCHANGED <<now, file, rules, typed>>
-----------------------------------------------------------------------------
(* The reconciler's tick *)

\* Manual modes and holds are not its to enforce, nor a file it cannot read.
TickRead ==
  /\ job[Tick].pc = "idle"
  /\ job' = [job EXCEPT ![Tick] =
       IF Scheduled THEN Doing("look", 0, DesiredState(file, now), NoSave, FALSE) ELSE @]
  /\ UNCHANGED <<now, file, rules, lock, typed, disturbed, events>>

\* Mutant of InPlace: a partial block counts as a block.
InPlacePartly == (YouTubeState = "ALLOWED") = (job[Tick].want = "ALLOWED")

InPlace == YouTubeState = job[Tick].want

TickLook ==
  /\ job[Tick].pc = "look"
  /\ job' = [job EXCEPT ![Tick] = IF InPlace THEN Resting ELSE [@ EXCEPT !.pc = "waiting"]]
  /\ UNCHANGED <<now, file, rules, lock, typed, disturbed, events>>

TickUnanswered ==
  /\ job[Tick].pc = "look" /\ Event
  /\ job' = [job EXCEPT ![Tick] = Resting]
  /\ UNCHANGED <<now, file, rules, lock, typed, disturbed>>
-----------------------------------------------------------------------------
(* The world *)

Pass ==
  /\ now < MaxTime
  /\ now' = now + 1
  /\ UNCHANGED <<file, rules, lock, job, typed, disturbed, events>>

Writing == \E a \in Actor : job[a].pc = "put"

\* AdGuard's own page: a line comes or goes.
EditOwn(r) ==
  /\ Event
  /\ rules' = [rules EXCEPT !.own = IF r \in @ THEN @ \ {r} ELSE @ \union {r}]
  /\ disturbed' = TRUE
  /\ UNCHANGED <<now, file, lock, job, typed>>

EditForeign(r) ==
  /\ Event
  /\ rules' = [rules EXCEPT !.foreign = IF r \in @ THEN @ \ {r} ELSE @ \union {r}]
  /\ typed' = IF r \in rules.foreign \/ Writing THEN typed \ {r} ELSE typed \union {r}
  /\ UNCHANGED <<now, file, lock, job, disturbed>>

\* apply-filters.py re-adds the repository's standing rules.
ApplyFilters ==
  /\ Event
  /\ rules' = [rules EXCEPT !.own = Own]
  /\ disturbed' = TRUE
  /\ UNCHANGED <<now, file, lock, job, typed>>

\* A hand edit that no longer validates.
BreakFile ==
  /\ file.mode # "broken" /\ Event
  /\ file' = [NoSave EXCEPT !.mode = "broken"]
  /\ UNCHANGED <<now, rules, lock, job, typed, disturbed>>

\* The panel process dies and is started again.
Crash ==
  /\ Event
  /\ job' = [a \in Actor |-> Resting] /\ lock' = Nobody
  /\ disturbed' = (disturbed \/ \E a \in Actor : job[a].pc = "saving")
  /\ UNCHANGED <<now, file, rules, typed>>
-----------------------------------------------------------------------------
Request(p) ==
  \/ \E mode \in Mode, windows \in Schedules \union {{}} : SetSchedule(p, mode, windows)
  \/ \E state \in State : SetOverride(p, state) \/ SetBlocked(p, state)
  \/ ClearOverride(p)

Work(a) == Acquire(a) \/ Get(a) \/ Put(a) \/ Save(a)

Failure(a) ==
  \/ GetFails(a) \/ SaveFails(a)
  \/ \E obeyed \in BOOLEAN : PutFails(a, obeyed)

Reconcile == TickRead \/ TickLook

World ==
  \/ Pass \/ ApplyFilters \/ BreakFile \/ Crash \/ TickUnanswered
  \/ \E r \in Own : EditOwn(r)
  \/ \E r \in Foreign : EditForeign(r)

Next ==
  \/ \E p \in Parent : Request(p)
  \/ \E a \in Actor : Work(a) \/ Failure(a)
  \/ Reconcile \/ World

Spec == Init /\ [][Next]_vars

\* Some thread that can go on does, and the reconciler's loop never ends.  Which thread
\* gets the lock is left open.
FairSpec == Spec /\ WF_vars(\E a \in Actor : Work(a)) /\ WF_vars(Reconcile)
-----------------------------------------------------------------------------
(* Properties *)

Hold == [state : State \union {"none"}, until : Nat, at : Nat]
File == [mode : Mode \union {"none", "broken", "hold", "clear"}, windows : Schedules \union {{}},
         hold : Hold]

Job == [pc : {"idle", "look", "waiting", "get", "put", "saving"}, at : Nat, want : State,
        save : File, first : BOOLEAN, seen : SUBSET Foreign]

TypeOK ==
  /\ now \in 0..MaxTime /\ events \in 0..MaxEvents
  /\ file \in File /\ file.mode \notin {"hold", "clear"}
  /\ rules \in [own : SUBSET Own, foreign : SUBSET Foreign]
  /\ lock \in Actor \union {Nobody}
  /\ job \in [Actor -> Job]
  /\ typed \subseteq Foreign /\ disturbed \in BOOLEAN

\* The panel never says a mode or a hold is in force that it did not put in force:
\* through refused and lost writes and other requests, the rules are in the state of
\* the last manual act unless somebody else wrote them.
ManualStands ==
  lock = Nobody /\ Promise # "none" /\ ~disturbed => YouTubeState = Promise

\* Every act on youtube-schedule.json is whole, although a request reads the file, waits
\* for AdGuard and writes the file in steps of their own: a hold never lands on a mode or
\* on windows that were saved meanwhile.
Acts == INSTANCE ModeFile WITH Until <- HoldUntil
ActsAreWhole == Acts!Spec

\* A hold ends with the window or the day it was placed in.
HoldEndsAtBoundary ==
  Held(file) => /\ now \div DayLength = file.hold.at \div DayLength
                /\ \A m \in file.hold.at..now :
                     DesiredState(file, m) = DesiredState(file, file.hold.at)

\* Whatever is typed by hand while no write is under way survives every write.
HandTypedSurvives == typed \subseteq rules.foreign

\* A schedule is enforced in the end, through refusals, crashes, races and edits.
ScheduleSettles == <>[]Scheduled => <>[](YouTubeState = DesiredState(file, now))

\* The manual modes are absolute: the reconciler never corrects them.
ManualModesAreAbsolute ==
  [][file.mode \in {"allowed", "blocked"} => ~Put(Tick)]_vars
=============================================================================
