------------------------------ MODULE KillLane ------------------------------
(***************************************************************************)
(* The three process-kill lanes: roblox_guard, browser_guard and           *)
(* playgames_guard.  A scheduled task starts a run every minute; a run     *)
(* looks, pauses, looks again, ends what is still up and saves its state.  *)
(* The parent's controls write the same state file at any moment.          *)
(*                                                                         *)
(* A behaviour is about one lane, chosen at the start.  A state file holds *)
(* the fields of its own lane; the others keep their initial value.        *)
(***************************************************************************)
EXTENDS Naturals, Integers, FiniteSets

CONSTANTS
  Image,        \* the programs of the lane
  Limits,       \* what limit_min may be set to, in minutes
  DefaultLimit, \* DEFAULT_LIMIT_MIN
  Grants,       \* what a bonus may be, in minutes
  Leaves,       \* how long the lane may be suspended, in minutes
  Gap,          \* MAX_GAP_SEC, in minutes
  StormKills,   \* STORM_KILLS
  StormWindow,  \* STORM_WINDOW_SEC, in minutes
  DayLength,    \* minutes in a day
  Nap,          \* how long the machine may be suspended, in minutes
  MaxTime,      \* bound on the clock
  MaxEvents     \* bound on launches, exits, controls and failures

ASSUME KillLaneConstants ==
  /\ IsFiniteSet(Image)
  /\ Limits \subseteq Nat /\ DefaultLimit \in Limits /\ Grants \subseteq Nat /\ Leaves \subseteq Nat
  /\ Gap \in Nat \ {0} /\ StormKills \in Nat \ {0} /\ StormWindow \in Nat
  /\ DayLength \in Nat \ {0} /\ Nap \in Nat \ {0}
  /\ MaxTime \in Nat /\ MaxEvents \in Nat

Never == -1
Lane == {"roblox", "browser", "playgames"}

VARIABLES
  lane,
  now,        \* the clock, in minutes
  due,        \* has the scheduler's trigger fired?
  file,       \* the lane's state file
  config,     \* the lane's configuration file
  running,    \* the lane's programs that are up
  run,        \* the run in progress: its pc, what it loaded, what it will save
  session,    \* minutes the program has been up without a break today
  allowance,  \* the most that was allowed at any moment of that session
  slack,      \* minutes of that session that runs which went wrong may have cost
  reported,   \* was the present storm reported?
  events

vars == <<lane, now, due, file, config, running, run, session, allowance, slack,
          reported, events>>

Event == events < MaxEvents /\ events' = events + 1
Today == now \div DayLength

\* roblox-budget.state.json: date, used, last, bonus; the other two lanes'
\* state: unlock (unlock_until_ts) and the times of recent kills per image.
NoKills == [i \in Image |-> {}]
NewFile(day) ==
  [date |-> day, used |-> 0, last |-> Never, bonus |-> 0, unlock |-> 0, kills |-> NoKills]
File == [date : 0..MaxTime, used : Nat, last : 0..MaxTime \union {Never}, bonus : Nat,
         unlock : Nat, kills : [Image -> SUBSET (0..MaxTime)]]

Idle == [pc |-> "idle", loaded |-> NewFile(0), next |-> NewFile(0)]

Init ==
  /\ lane \in Lane
  /\ now = 0 /\ due = TRUE /\ file = NewFile(0)
  /\ config \in [limit : Limits, enabled : {TRUE}]
  /\ running = {} /\ run = Idle
  /\ session = 0 /\ allowance = config.limit /\ slack = 0
  /\ reported = FALSE /\ events = 0
-----------------------------------------------------------------------------
(* The Roblox lane: what is spent decides *)

\* Mutant of Rolled: the rollover keeps the last sighting.
RolledKeepingLast(f) == IF f.date = Today THEN f ELSE [NewFile(Today) EXCEPT !.last = f.last]

Rolled(f) == IF f.date = Today THEN f ELSE NewFile(Today)

Charged(f) ==
  IF f.last = Never THEN 0
  ELSE IF now - f.last < Gap THEN now - f.last ELSE Gap

\* One observation: the first sighting charges nothing, and the next one after a look
\* that saw nothing is a first.
Advanced(f, seen) ==
  LET g == Rolled(f)
  IN IF seen = {} THEN [g EXCEPT !.last = Never]
     ELSE [g EXCEPT !.used = @ + Charged(g), !.last = now]

\* Mutant of Spent: the last minute is free.
SpentLate(f) == f.used > config.limit + f.bonus

Spent(f) == f.used >= config.limit + f.bonus

OverBudget(f, seen) == seen # {} /\ Spent(f)

\* tasklist's exit code is not looked at: one that fails or times out shows nothing.
Looks == {running, {}}

\* A run that went wrong, for which the session is given two minutes.
Wrong == slack' = slack + 2 /\ Event

\* What a look that failed costs.
Looked(seen) == IF seen = running THEN UNCHANGED <<slack, events>> ELSE Wrong

RobloxRun(seen) ==
  LET next == Advanced(file, seen)
  IN /\ lane = "roblox" /\ run.pc = "idle" /\ due
     /\ due' = FALSE /\ Looked(seen)
     /\ IF OverBudget(next, seen)
          THEN run' = [pc |-> "pausing", loaded |-> file, next |-> next] /\ UNCHANGED file
          ELSE file' = next /\ UNCHANGED run
     /\ UNCHANGED <<lane, now, config, running, session, reported>>
-----------------------------------------------------------------------------
(* The browser and Play Games lanes: being up is enough *)

Suppressed(f) == ~config.enabled \/ now < f.unlock

Recent(f) == [f EXCEPT !.kills = [i \in Image |-> {t \in @[i] : now - t <= StormWindow}]]

Storming(f) == \E i \in Image : Cardinality(f.kills[i]) >= StormKills

\* One tick of the tally per image and run; ticks of the same minute count as one.
Tallied(f, seen) ==
  [f EXCEPT !.kills = [i \in Image |-> IF i \in seen THEN @[i] \union {now} ELSE @[i]]]

\* Mutant of Offending: what was ended lately is left alone.
OffendingOnce(f, seen) == ~Suppressed(f) /\ seen # {} /\ \A i \in seen : f.kills[i] = {}

Offending(f, seen) == ~Suppressed(f) /\ seen # {}

AppRun(seen) ==
  /\ lane # "roblox" /\ run.pc = "idle" /\ due
  /\ due' = FALSE /\ Looked(seen)
  /\ run' = IF Offending(file, seen) THEN [pc |-> "pausing", loaded |-> file, next |-> file]
            ELSE run
  /\ UNCHANGED <<lane, now, file, config, running, session, reported>>
-----------------------------------------------------------------------------
(* The pause is over: look again, end what is still up, then save *)

Paused == run.pc \in {"pausing", "waking"}

\* What the second look does not show, or taskkill fails for, goes on.
Ended(seen, failed) ==
  /\ running' = (running \ seen) \union failed
  /\ IF running' = {} THEN UNCHANGED <<slack, events>> ELSE Wrong

RobloxKill(seen, failed) ==
  /\ lane = "roblox" /\ Paused
  /\ Ended(seen, failed)
  /\ run' = [run EXCEPT !.pc = "saving"]
  /\ UNCHANGED <<lane, now, due, file, config, session, reported>>

\* Mutant of StormBefore: kills that are long past still count.
StormBeforeStale == Storming(run.loaded)

StormBefore == Storming(Recent(run.loaded))

\* What decide makes of the state: old kills leave the tally, those of this run join it.
Decided(f, seen) == Tallied(Recent(f), seen)

\* The decision rests on what was loaded before the pause and on the clock after
\* it; a storm is reported when the tally crosses the threshold.
AppKill(seen, failed) ==
  /\ lane # "roblox" /\ Paused
  /\ Ended(seen, failed)
  /\ run' = [run EXCEPT !.pc = "saving", !.next = Decided(run.loaded, seen)]
  /\ reported' = IF ~StormBefore THEN Storming(Decided(run.loaded, seen)) ELSE reported
  /\ UNCHANGED <<lane, now, due, file, config, session>>

\* Only a changed state is written.
Save ==
  /\ run.pc = "saving"
  /\ file' = IF run.next # run.loaded THEN run.next ELSE file
  /\ run' = Idle
  /\ UNCHANGED <<lane, now, due, config, running, session, slack, reported, events>>

\* The scheduler's time limit or a log-off ends a run in the middle.
RunCut ==
  /\ run.pc # "idle" /\ Wrong
  /\ run' = Idle
  /\ UNCHANGED <<lane, now, due, file, config, running, session, reported>>

\* A state file that is damaged, or cannot be read, reads as a fresh one: what the session
\* was charged today is forgotten, and so are a bonus, an unlock and the tally.
Damaged ==
  /\ file' = NewFile(Today) /\ Event
  /\ slack' = slack + 2 + (IF file.date = Today THEN file.used ELSE 0)
  /\ UNCHANGED <<lane, now, due, config, running, run, session, reported>>
-----------------------------------------------------------------------------
(* The parent's controls: each reads and writes the file in one go; and what *)
(* a hand on the configuration may do                                        *)

SetLimit(limit) ==
  /\ lane = "roblox" /\ Event
  /\ config' = [config EXCEPT !.limit = limit]
  /\ UNCHANGED <<lane, now, due, file, running, run, session, slack, reported>>

SetBonus(bonus) ==
  /\ lane = "roblox" /\ Event
  /\ file' = [Rolled(file) EXCEPT !.bonus = bonus]
  /\ UNCHANGED <<lane, now, due, config, running, run, session, slack, reported>>

SetEnabled(enabled) ==
  /\ lane # "roblox" /\ enabled # config.enabled /\ Event
  /\ config' = [config EXCEPT !.enabled = enabled]
  /\ UNCHANGED <<lane, now, due, file, running, run, session, slack, reported>>

\* What a configuration says that is damaged, or holds no number where one belongs: the lane is
\* on, and the limit the default one.
Strict == [limit |-> DefaultLimit, enabled |-> TRUE]

ConfigDamaged ==
  /\ config' = Strict /\ Event
  /\ UNCHANGED <<lane, now, due, file, running, run, session, slack, reported>>

\* Zero cancels.
Unlock(minutes) ==
  LET until == IF minutes = 0 THEN 0 ELSE now + minutes
  IN /\ lane # "roblox" /\ Event
     /\ file' = [file EXCEPT !.unlock = until]
     /\ UNCHANGED <<lane, now, due, config, running, run, session, slack, reported>>
-----------------------------------------------------------------------------
(* The machine and the child *)

Unwatched == <<lane, due, file, config, run>>

Launch(image) ==
  /\ image \notin running /\ Event
  /\ running' = running \union {image}
  /\ session' = IF running = {} THEN 0 ELSE session
  /\ slack' = IF running = {} THEN 0 ELSE slack
  /\ UNCHANGED <<now, reported, Unwatched>>

Quit(image) ==
  /\ image \in running /\ Event
  /\ running' = running \ {image}
  /\ UNCHANGED <<now, session, slack, reported, Unwatched>>

Midnight == (now + 1) % DayLength = 0

\* A respawn fight is over when the tally, of the run that goes on or in the file, no
\* longer shows it.
Calmed(time) ==
  LET tally == (CASE run.pc = "idle" -> file [] Paused -> run.loaded [] OTHER -> run.next).kills
  IN \A i \in Image : Cardinality({t \in tally[i] : time - t <= StormWindow}) < StormKills

\* A minute goes by and the trigger fires.  Every trigger starts a run before the
\* next minute, unless a run is in progress: then it is ignored, and the pause is
\* over before another minute is.
Pass ==
  /\ now < MaxTime /\ ~due /\ run.pc \in {"idle", "pausing"}
  /\ now' = now + 1
  /\ due' = (run.pc = "idle")
  /\ run' = [run EXCEPT !.pc = IF @ = "idle" THEN @ ELSE "waking"]
  /\ session' = IF running = {} \/ Midnight THEN 0 ELSE session + 1
  /\ slack' = IF running = {} \/ Midnight THEN 0 ELSE slack
  /\ reported' = (reported /\ ~Calmed(now + 1))
  /\ UNCHANGED <<lane, file, config, running, events>>

\* Both triggers of the task repeat every minute.
Trigger ==
  /\ run.pc = "idle" /\ ~due
  /\ due' = TRUE
  /\ UNCHANGED <<lane, now, file, config, running, run, session, slack, reported,
                 events>>

\* The machine is suspended; nothing runs, the clock goes on.
Sleep ==
  /\ now + Nap <= MaxTime /\ Event
  /\ now' = now + Nap
  /\ session' = IF (now + Nap) \div DayLength = Today THEN session ELSE 0
  /\ slack' = IF (now + Nap) \div DayLength = Today THEN slack ELSE 0
  /\ reported' = (reported /\ ~Calmed(now + Nap))
  /\ UNCHANGED <<running, Unwatched>>
-----------------------------------------------------------------------------
GuardStep ==
  \/ Save \/ \E seen \in Looks : RobloxRun(seen) \/ AppRun(seen)
  \/ \E seen \in Looks : \E failed \in SUBSET seen : RobloxKill(seen, failed) \/ AppKill(seen, failed)

Control ==
  \/ \E limit \in Limits : SetLimit(limit)
  \/ \E bonus \in Grants : SetBonus(bonus)
  \/ \E enabled \in BOOLEAN : SetEnabled(enabled)
  \/ \E minutes \in Leaves : Unlock(minutes)
  \/ ConfigDamaged

World ==
  \/ \E image \in Image : Launch(image) \/ Quit(image)
  \/ Pass \/ Trigger \/ Sleep \/ RunCut \/ Damaged

Allowed == config.limit + (IF file.date = Today THEN file.bonus ELSE 0)

\* The allowance follows every step.
Witnessed(step) ==
  /\ step
  /\ allowance' = IF session' = 0 \/ Allowed' > allowance THEN Allowed' ELSE allowance

Next == Witnessed(GuardStep \/ Control \/ World)

Spec == Init /\ [][Next]_vars

\* The scheduler fires, and a run that was started goes on.
FairSpec == Spec /\ WF_vars(Witnessed(GuardStep)) /\ WF_vars(Witnessed(Trigger))
-----------------------------------------------------------------------------
(* Properties *)

TypeOK ==
  /\ lane \in Lane /\ now \in 0..MaxTime /\ due \in BOOLEAN
  /\ file \in File
  /\ config \in [limit : Limits, enabled : BOOLEAN]
  /\ running \subseteq Image
  /\ run \in [pc : {"idle", "pausing", "waking", "saving"}, loaded : File, next : File]
  /\ session \in Nat /\ allowance \in Nat /\ slack \in Nat
  /\ reported \in BOOLEAN /\ events \in 0..MaxEvents

\* A game that is played without a break ends within two minutes of the most that
\* was allowed while it ran: one until its first sighting, one for the pause.  A run
\* that is cut, that looks and sees nothing or cannot end the game costs two minutes
\* more; a state file that gets damaged costs two and the minutes it had counted.
SessionBounded ==
  lane = "roblox" => session <= allowance + 2 + slack

\* No minute is charged to a day it does not belong to, through rollovers, naps,
\* cut runs and controls in the middle of a run.
ChargeIsToday == file.date = Today => file.used <= now % DayLength

\* A respawn fight that the tally shows has been reported.
StormIsReported == Storming(Recent(file)) => reported

\* What stays forbidden is ended for good once nobody starts it any more: the
\* verdict is recomputed by every run, so a failed or cut run is made up for.
Forbidden == IF lane = "roblox" THEN file.date = Today /\ Spent(file) ELSE ~Suppressed(file)
ForbiddenEnds == <>[]Forbidden => <>[](running = {})
=============================================================================
