----------------------- MODULE YouTubeScheduleProofs -----------------------
(***************************************************************************)
(* Proofs about YouTubeSchedule, for any number of request threads, rules, *)
(* schedules, and any length of day and week: types, manual acts stand,    *)
(* holds end at their boundary, hand-typed lines survive, and the file is  *)
(* an implementation of ModeFile.                                          *)
(***************************************************************************)
EXTENDS YouTubeSchedule, TLAPS, FiniteSetTheorems

Critical == {"get", "put", "saving"}

\* The lock excludes: whoever reads, writes or saves holds it.
Exclusive == \A a \in Actor : job[a].pc \in Critical => lock = a

\* What a waiting request asks for, and what it will save once it has the lock.
Sane(j) ==
  /\ j.save.mode = "allowed" => j.want = "ALLOWED"
  /\ j.save.mode = "blocked" => j.want = "BLOCKED"
  /\ j.pc \in {"look", "waiting"} => /\ j.save.hold = NoHold /\ j.at <= now
                                     /\ j.first <=> j.save.mode \in {"schedule", "clear"}
  /\ j.pc \in Critical => /\ j.save.mode \notin {"hold", "clear"}
                          /\ j.save.hold # NoHold => j.save.hold.state = j.want

\* A hold ends where its windows say, seen from when it was placed.
Bounded(f) ==
  f.hold # NoHold => f.hold.at <= now /\ f.hold.until = HoldUntil(f.windows, f.hold.at)

Posted == \A a \in Actor : Sane(job[a]) /\ (job[a].pc \in Critical => Bounded(job[a].save))

\* The manual act in force stands, except while its successor is being saved; that one
\* has already been applied.
Standing ==
  (\A a \in Actor : job[a].pc # "saving") /\ Promise # "none" /\ ~disturbed
    => YouTubeState = Promise
Applied == \A a \in Actor : job[a].pc = "saving" /\ ~disturbed => YouTubeState = job[a].want

\* A hand-typed line is in the list, and in every copy that will be written back.
Kept == typed \subseteq rules.foreign /\ \A a \in Actor : job[a].pc = "put" => typed \subseteq job[a].seen

Inv == /\ TypeOK /\ Exclusive /\ Posted /\ Bounded(file)
       /\ Standing /\ Applied /\ Kept

\* What a thread will save is a mode a parent may post or a hold, and the hold still fits
\* the file: nobody has saved a mode or windows since the file was read.
Fits(save) == file.mode = "broken" \/ (file.mode = "schedule" /\ file.windows = save.windows)
WholeOne(j) ==
  /\ j.save.mode # "schedule" => j.save.windows = {}
  /\ j.save.mode # "broken" /\ (j.pc = "saving" => j.save.mode # "none")
  /\ j.pc \in Critical =>
       IF j.save.hold = NoHold
         THEN j.save.mode \in {"none", "allowed", "blocked"}
         ELSE j.save.mode = "schedule" /\ Fits(j.save)
Whole == \A a \in Actor : WholeOne(job[a])
-----------------------------------------------------------------------------
\* A set of naturals that is not empty has a least member, and Min is it.
LEMMA NatMin ==
  ASSUME NEW S, S \subseteq Nat, S # {}
  PROVE  Min(S) \in S /\ \A y \in S : Min(S) <= y
<1> DEFINE T == {0..s : s \in S}
<1>1. T \subseteq FiniteSubsetsOf(Nat) /\ T # {}
  <2>1. ASSUME NEW s \in S PROVE 0..s \in SUBSET Nat /\ IsFiniteSet(0..s)
    BY FS_Interval
  <2>2. QED BY <2>1 DEF FiniteSubsetsOf
<1>2. PICK s \in S : \A y \in T : ~ (<<y, 0..s>> \in StrictSubsetOrdering(Nat))
  <2> HIDE DEF T
  <2>1. PICK x \in T : \A y \in T : ~ (<<y, x>> \in StrictSubsetOrdering(Nat))
    BY <1>1, FS_StrictSubsetOrderingWellFounded, WFMin
  <2>2. QED BY <2>1 DEF T
<1>3. ASSUME NEW y \in S PROVE s <= y
  <2>1. ~ (0..y \subseteq 0..s /\ 0..y # 0..s)
    <3>1. <<0..y, 0..s>> \notin StrictSubsetOrdering(Nat)
      BY <1>2, <1>3
    <3>2. 0..y \in SUBSET Nat /\ 0..s \in SUBSET Nat
      OBVIOUS
    <3> HIDE DEF T
    <3> DEFINE A == 0..y  B == 0..s
    <3> HIDE DEF A, B
    <3>3. <<A, B>> \notin StrictSubsetOrdering(Nat) /\ A \in SUBSET Nat /\ B \in SUBSET Nat
      BY <3>1, <3>2 DEF A, B
    <3>4. ~ (A \subseteq B /\ A # B)
      BY <3>3, Zenon DEF StrictSubsetOrdering
    <3>5. QED BY <3>4 DEF A, B
  <2>2. SUFFICES ASSUME y < s PROVE FALSE
    OBVIOUS
  <2>3. s \in 0..s /\ s \notin 0..y
    BY <2>2
  <2>4. QED BY <2>1, <2>2, <2>3
<1>4. \E z \in S : \A y \in S : z =< y
  BY <1>3
<1>5. QED BY <1>4 DEF Min

LEMMA WeekIsNat == /\ WeekLength \in Nat /\ DayLength <= WeekLength
                   /\ DayLength \in Nat \ {0} /\ Days \in Nat \ {0}
  BY ScheduleConstants DEF ScheduleConstants, WeekLength

\* The end of the day is after now and within a day.
LEMMA MidnightAhead ==
  ASSUME NEW t \in Nat
  PROVE  /\ Midnight(t) \in Nat /\ t < Midnight(t) /\ Midnight(t) <= t + DayLength
         /\ \A u \in Nat : t <= u /\ u < Midnight(t) => u \div DayLength = t \div DayLength
  BY WeekIsNat DEF Midnight

\* A hold ends at midnight or at an edge of the windows, whichever is first.
LEMMA HoldUntilIsFirst ==
  ASSUME NEW t \in Nat, NEW windows
  PROVE  /\ HoldUntil(windows, t) \in Nat
         /\ HoldUntil(windows, t) <= Midnight(t)
         /\ \A m \in NextChanges(windows, t) : HoldUntil(windows, t) <= m
<1> DEFINE S == NextChanges(windows, t) \union {Midnight(t)}
<1>1. S \subseteq Nat /\ S # {}
  BY MidnightAhead, WeekIsNat DEF NextChanges
<1>2. Min(S) \in S /\ \A y \in S : Min(S) <= y
  BY <1>1, NatMin
<1>3. HoldUntil(windows, t) = Min(S)
  BY DEF HoldUntil
<1> HIDE DEF S
<1>4. Midnight(t) \in S /\ NextChanges(windows, t) \subseteq S
  BY DEF S
<1>5. QED BY <1>1, <1>2, <1>3, <1>4
-----------------------------------------------------------------------------
(* Types *)

\* A thread at rest, an empty file and no hold are well-typed.
LEMMA RestTypes == Resting \in Job /\ NoSave \in File /\ NoHold \in Hold
  BY DEF Resting, Doing, Job, State, NoSave, File, NoHold, Hold

LEMMA DoingTypes ==
  ASSUME NEW pc \in {"idle", "look", "waiting", "get", "put", "saving"}, NEW at \in Nat,
         NEW want \in State, NEW save \in File, NEW first \in BOOLEAN
  PROVE  LET r == Doing(pc, at, want, save, first)
         IN /\ r \in Job /\ r.pc = pc /\ r.at = at /\ r.want = want /\ r.save = save
            /\ r.first = first
  BY DEF Doing, Job

LEMMA DesiredIsState == \A f, t : DesiredState(f, t) \in State
  BY DEF DesiredState, State

\* What a request resolves to once it has the lock.
LEMMA ResolvedTypes ==
  ASSUME TypeOK, NEW a \in Actor, Sane(job[a]), job[a].pc = "waiting", ~ Refused(job[a])
  PROVE  LET j == Resolved(job[a])
         IN /\ j.want \in State /\ j.first = job[a].first
            /\ j.save \in File /\ j.save.mode \notin {"hold", "clear"}
            /\ j.first => j.save.mode = "schedule" /\ j.save.hold = NoHold
            /\ j.save.mode = "allowed" => j.want = "ALLOWED"
            /\ j.save.mode = "blocked" => j.want = "BLOCKED"
            /\ Bounded(j.save)
            /\ j.save.hold # NoHold => j.save.hold.state = j.want
<1>1. job[a] \in Job /\ file \in File
  BY DEF TypeOK
<1>2. CASE job[a].save.mode = "hold"
  <2> DEFINE h == [state |-> job[a].want, until |-> HoldUntil(file.windows, job[a].at),
                   at |-> job[a].at]
  <2>1. h \in Hold /\ h.at <= now /\ h.until = HoldUntil(file.windows, h.at)
    BY <1>1, HoldUntilIsFirst DEF Hold, Job, Sane
  <2>2. Resolved(job[a]) = [job[a] EXCEPT !.save = [file EXCEPT !.hold = h]]
    BY <1>2 DEF Resolved
  <2>3. file.mode = "schedule" /\ ~ job[a].first
    BY <1>1, <1>2 DEF Refused, Sane, Job
  <2> HIDE DEF h
  <2>4. [file EXCEPT !.hold = h] \in File
    BY <1>1, <2>1 DEF File
  <2>5. h.state = job[a].want
    BY DEF h
  <2>6. QED BY <1>1, <2>1, <2>2, <2>3, <2>4, <2>5 DEF Job, File, Bounded
<1>3. CASE job[a].save.mode = "clear"
  <2>1. Resolved(job[a]) = [job[a] EXCEPT !.save = [file EXCEPT !.hold = NoHold],
                                          !.want = DesiredState(file, job[a].at)]
    BY <1>3 DEF Resolved
  <2>2. file.mode = "schedule"
    BY <1>3 DEF Refused
  <2>3. [file EXCEPT !.hold = NoHold] \in File
    BY <1>1, RestTypes DEF File
  <2>4. QED BY <1>1, <2>1, <2>2, <2>3, DesiredIsState DEF Job, File, Bounded
<1>4. CASE job[a].save.mode \notin {"hold", "clear"}
  <2>1. Resolved(job[a]) = job[a]
    BY <1>4 DEF Resolved
  <2>2. QED BY <1>1, <1>4, <2>1 DEF Job, Sane, Bounded
<1>5. QED BY <1>2, <1>3, <1>4
-----------------------------------------------------------------------------
(* Steps of one thread: one lemma per action, saying that it keeps Inv *)

\* One thread goes on: it holds the lock if it reads, writes or saves, and gave away
\* nobody else's.
LEMMA OneThread ==
  ASSUME Inv, NEW a \in Actor, NEW r \in Job, job' = [job EXCEPT ![a] = r], now' = now,
         r.pc \in Critical => lock' = a /\ Bounded(r.save),
         lock' \in {lock, a} \/ lock = a,
         lock' = a => lock \in {a, Nobody},
         Sane(r)
  PROVE  /\ job' \in [Actor -> Job] /\ job'[a] = r
         /\ \A b \in Actor : b # a => job'[b] = job[b]
         /\ Exclusive' /\ Posted'
<1>1. /\ job' \in [Actor -> Job] /\ job'[a] = r
      /\ \A b \in Actor : b # a => job'[b] = job[b]
  BY DEF Inv, TypeOK
<1>2. Exclusive'
  <2>1. Nobody \notin Actor
    BY ScheduleConstants DEF ScheduleConstants, Actor
  <2>2. QED BY <1>1, <2>1 DEF Inv, Exclusive
<1>3. ASSUME NEW b \in Actor
      PROVE  Sane(job[b])' /\ (job[b].pc \in Critical => Bounded(job[b].save))'
  <2>1. CASE b = a
    BY <1>1, <2>1 DEF Sane, Bounded
  <2>2. CASE b # a
    BY <1>1, <2>2 DEF Inv, Posted, Sane, Bounded
  <2>3. QED BY <2>1, <2>2
<1>4. QED BY <1>1, <1>2, <1>3 DEF Posted

\* At rest nothing is asked of a thread.
LEMMA AtRest == Sane(Resting) /\ Resting.pc = "idle" /\ Resting.pc \notin Critical
  BY DEF Sane, Resting, Doing, Critical, NoSave, NoHold

\* The only thread that saves is the one with the lock.
LEMMA OneSaves ==
  ASSUME Inv, NEW a \in Actor, job[a].pc \in Critical
  PROVE  lock = a /\ \A b \in Actor : b # a => job[b].pc \notin Critical
  BY DEF Inv, Exclusive

LEMMA WaitKeeps ==
  ASSUME Inv, NEW p \in Parent, NEW want \in State, NEW save \in File, NEW first \in BOOLEAN,
         Wait(p, want, save, first), save.hold = NoHold,
         first <=> save.mode \in {"schedule", "clear"},
         save.mode = "allowed" => want = "ALLOWED", save.mode = "blocked" => want = "BLOCKED"
  PROVE  Inv'
<1> DEFINE r == Doing("waiting", now, want, save, first)
<1>1. r \in Job /\ r.pc = "waiting" /\ r.at = now /\ r.want = want /\ r.save = save
      /\ r.first = first
  <2>1. now \in Nat
    BY ScheduleConstants DEF ScheduleConstants, Inv, TypeOK
  <2>2. QED BY <2>1, DoingTypes
<1>2. job' = [job EXCEPT ![p] = r] /\ UNCHANGED <<now, file, rules, lock, typed, disturbed>>
      /\ p \in Actor /\ job[p].pc = "idle"
  BY DEF Wait, Actor
<1> HIDE DEF r
<1>3. r.pc \notin Critical /\ Sane(r)
  BY <1>1 DEF Critical, Sane, Inv, TypeOK
<1>4. /\ job' \in [Actor -> Job] /\ job'[p] = r
      /\ \A b \in Actor : b # p => job'[b] = job[b]
      /\ Exclusive' /\ Posted'
  BY <1>1, <1>2, <1>3, OneThread
<1>5. TypeOK'
  BY <1>2, <1>4, ScheduleConstants DEF Inv, TypeOK, Wait, Event, ScheduleConstants
<1>6. Promise' = Promise /\ YouTubeState' = YouTubeState
  BY <1>2 DEF Promise, Held, YouTubeState
<1>7. \A b \in Actor : (job'[b].pc = "saving" => job[b].pc = "saving" /\ job'[b] = job[b])
                         /\ (job[b].pc = "saving" => job'[b].pc = "saving")
                         /\ (job'[b].pc = "put" => job'[b] = job[b])
  BY <1>1, <1>2, <1>4
<1>8. Standing' /\ Applied'
  BY <1>2, <1>6, <1>7 DEF Inv, Standing, Applied
<1>9. Kept' /\ Bounded(file)'
  BY <1>2, <1>7 DEF Inv, Kept, Bounded
<1>10. QED BY <1>4, <1>5, <1>8, <1>9 DEF Inv

\* Whoever stops lets the lock go.
LEMMA Released ==
  ASSUME Inv, NEW a \in Actor, Release(a), now' = now
  PROVE  /\ job' \in [Actor -> Job] /\ job'[a] = Resting
         /\ \A b \in Actor : b # a => job'[b] = job[b]
         /\ \A b \in Actor : job'[b].pc \in Critical => b # a
         /\ Exclusive' /\ Posted' /\ lock' \in Actor \union {Nobody}
<1>1. lock' \in {lock, a} \/ lock = a
  BY DEF Release
<1>2. lock' = a => lock \in {a, Nobody}
  BY DEF Release
<1>3. /\ job' \in [Actor -> Job] /\ job'[a] = Resting
      /\ \A b \in Actor : b # a => job'[b] = job[b]
      /\ Exclusive' /\ Posted'
  BY <1>1, <1>2, RestTypes, AtRest, OneThread DEF Release
<1>4. QED BY <1>3, AtRest DEF Release, Inv, TypeOK

\* Who takes the lock has work that was resolved; a schedule or a cleared hold is saved
\* before the rules are touched.
LEMMA AcquireKeeps ==
  ASSUME Inv, NEW a \in Actor, Acquire(a)
  PROVE  Inv'
<1>1. UNCHANGED <<now, rules, typed, disturbed, events>> /\ job[a].pc = "waiting" /\ lock = Nobody
  BY DEF Acquire, Available
<1>2. \A b \in Actor : job[b].pc \notin Critical
  <2>1. Nobody \notin Actor
    BY ScheduleConstants DEF ScheduleConstants, Actor
  <2>2. QED BY <1>1, <2>1 DEF Inv, Exclusive
<1>3. ASSUME NEW r \in Job, job' = [job EXCEPT ![a] = r], r.pc \in {"idle", "get"}, Sane(r),
             r.pc = "get" => Bounded(r.save) /\ lock' = a, r.pc = "idle" => lock' = lock,
             file' \in File, Bounded(file)', file' = file \/ (file'.mode = "schedule" /\ file'.hold = NoHold)
      PROVE  Inv'
  <2>1. /\ job' \in [Actor -> Job] /\ job'[a] = r
        /\ \A b \in Actor : b # a => job'[b] = job[b]
        /\ Exclusive' /\ Posted'
    BY <1>1, <1>3, OneThread DEF Critical
  <2>2. TypeOK'
    BY <1>1, <1>3, <2>1 DEF Inv, TypeOK
  <2>3. \A b \in Actor : job[b].pc \notin {"put", "saving"} /\ job'[b].pc \notin {"put", "saving"}
    BY <1>2, <1>3, <2>1 DEF Critical
  <2>4. Promise' \in {Promise, "none"} /\ YouTubeState' = YouTubeState
    <3>1. CASE file' = file
      BY <1>1, <3>1 DEF Promise, Held, YouTubeState
    <3>2. CASE file'.mode = "schedule" /\ file'.hold = NoHold
      <4>1. ~ Held(file)'
        BY <1>1, <3>2 DEF Held, NoHold, Inv, TypeOK
      <4>2. QED BY <1>1, <3>2, <4>1 DEF Promise, YouTubeState
    <3>3. QED BY <1>3, <3>1, <3>2
  <2>5. Standing' /\ Applied' /\ Kept'
    BY <1>1, <2>3, <2>4 DEF Inv, Standing, Applied, Kept
  <2>6. QED BY <1>3, <2>1, <2>2, <2>5 DEF Inv
<1>4. CASE Refused(job[a])
  <2>1. job' = [job EXCEPT ![a] = Resting] /\ UNCHANGED <<file, lock>>
    BY <1>4 DEF Acquire
  <2>2. Bounded(file)'
    BY <1>1, <2>1 DEF Inv, Bounded
  <2>3. file' \in File
    BY <2>1 DEF Inv, TypeOK
  <2>4. QED BY <1>3, <2>1, <2>2, <2>3, RestTypes, AtRest
<1>5. CASE ~ Refused(job[a])
  <2> DEFINE j == Resolved(job[a])
             save == IF j.first THEN NoSave ELSE j.save
             r == Doing("get", 0, j.want, save, FALSE)
  <2>1. /\ lock' = a /\ job' = [job EXCEPT ![a] = r]
        /\ file' = IF j.first THEN j.save ELSE file
    BY <1>5 DEF Acquire
  <2>2. /\ j.want \in State /\ j.first = job[a].first
        /\ j.save \in File /\ j.save.mode \notin {"hold", "clear"}
        /\ j.first => j.save.mode = "schedule" /\ j.save.hold = NoHold
        /\ j.save.mode = "allowed" => j.want = "ALLOWED"
        /\ j.save.mode = "blocked" => j.want = "BLOCKED"
        /\ Bounded(j.save)
        /\ j.save.hold # NoHold => j.save.hold.state = j.want
    BY <1>1, <1>5, ResolvedTypes DEF Inv, Posted
  <2> HIDE DEF j
  <2>3. /\ save \in File /\ save.mode \notin {"hold", "clear"} /\ Bounded(save)
        /\ save.mode = "allowed" => j.want = "ALLOWED"
        /\ save.mode = "blocked" => j.want = "BLOCKED"
        /\ save.hold # NoHold => save.hold.state = j.want
    BY <2>2, RestTypes DEF NoSave, Bounded
  <2> HIDE DEF save
  <2>4. r \in Job /\ r.pc = "get" /\ r.want = j.want /\ r.save = save
    BY <2>2, <2>3 DEF Doing, Job
  <2> HIDE DEF r
  <2>5. Sane(r)
    BY <2>3, <2>4 DEF Sane, Critical
  <2>6. /\ file' \in File
        /\ file' = file \/ (file'.mode = "schedule" /\ file'.hold = NoHold)
    BY <2>1, <2>2 DEF Inv, TypeOK
  <2>7. Bounded(file)'
    BY <1>1, <2>6 DEF Inv, Bounded
  <2>8. QED BY <1>3, <2>1, <2>3, <2>4, <2>5, <2>6, <2>7
<1>6. QED BY <1>4, <1>5

\* A thread that goes from critical work to saving.
LEMMA ToSaving ==
  ASSUME Inv, NEW a \in Actor, job[a].pc \in {"get", "put"},
         job' = [job EXCEPT ![a] = [@ EXCEPT !.pc = "saving"]],
         UNCHANGED <<now, file, lock, events>>, rules' \in [own : SUBSET Own, foreign : SUBSET Foreign],
         rules'.own = OwnWanted(a), disturbed' = FALSE, typed' = typed, typed \subseteq rules'.foreign
  PROVE  Inv'
<1> DEFINE r == [job[a] EXCEPT !.pc = "saving"]
<1>1. r \in Job /\ r.pc = "saving" /\ r.save = job[a].save /\ r.want = job[a].want
      /\ job[a].pc \in Critical /\ r.pc \in Critical
  BY DEF Inv, TypeOK, Job, Critical
<1>2. lock = a /\ \A b \in Actor : b # a => job[b].pc \notin Critical
  BY <1>1, OneSaves
<1>3. Sane(job[a]) /\ Bounded(job[a].save)
  BY <1>1 DEF Inv, Posted
<1>4. job' = [job EXCEPT ![a] = r]
  OBVIOUS
<1> HIDE DEF r
<1>5. Sane(r) /\ Bounded(r.save)
  BY <1>1, <1>3 DEF Sane, Bounded
<1>6. /\ job' \in [Actor -> Job] /\ job'[a] = r
      /\ \A b \in Actor : b # a => job'[b] = job[b]
      /\ Exclusive' /\ Posted'
  BY <1>1, <1>2, <1>4, <1>5, OneThread
<1>7. TypeOK'
  BY <1>6 DEF Inv, TypeOK
<1>8. YouTubeState' = job'[a].want
  <2>1. rules'.own = IF job'[a].want = "BLOCKED" THEN Own ELSE {}
    BY <1>1, <1>6 DEF OwnWanted
  <2>2. job'[a].want \in State
    BY <1>1, <1>6 DEF Job
  <2>3. QED BY <2>1, <2>2, ScheduleConstants DEF YouTubeState, State, ScheduleConstants
<1>9. Standing' /\ Applied' /\ Kept' /\ Bounded(file)'
  BY <1>1, <1>2, <1>6, <1>8 DEF Inv, Standing, Applied, Kept, Critical, Bounded
<1>10. QED BY <1>6, <1>7, <1>9 DEF Inv

\* A thread that stops, with the rules as they were or somebody else's word on them.
LEMMA ToRest ==
  ASSUME Inv, NEW a \in Actor, Release(a), UNCHANGED <<now, file>>, typed' = typed,
         events' \in 0..MaxEvents, rules' \in [own : SUBSET Own, foreign : SUBSET Foreign],
         disturbed' \in BOOLEAN, typed \subseteq rules'.foreign,
         \/ rules' = rules /\ disturbed' = disturbed /\ job[a].pc # "saving"
         \/ disturbed' = TRUE
         \/ Promise = "none" /\ job[a].pc = "put"
  PROVE  Inv'
<1>1. /\ job' \in [Actor -> Job] /\ job'[a] = Resting
      /\ \A b \in Actor : b # a => job'[b] = job[b]
      /\ \A b \in Actor : job'[b].pc \in Critical => b # a
      /\ Exclusive' /\ Posted' /\ lock' \in Actor \union {Nobody}
  BY Released
<1>2. TypeOK'
  BY <1>1 DEF Inv, TypeOK
<1>3. Promise' = Promise
  BY DEF Promise, Held
<1>4. Kept' /\ Bounded(file)'
  BY <1>1 DEF Inv, Kept, Bounded, Critical
<1>5. Standing' /\ Applied'
  <2>1. CASE disturbed' = TRUE
    BY <2>1 DEF Standing, Applied
  <2>2. CASE rules' = rules /\ disturbed' = disturbed /\ job[a].pc # "saving"
    <3>1. YouTubeState' = YouTubeState
      BY <2>2 DEF YouTubeState
    <3>2. QED BY <1>1, <1>3, <2>2, <3>1 DEF Inv, Standing, Applied, Critical
  <2>3. CASE Promise = "none" /\ job[a].pc = "put"
    <3>1. \A b \in Actor : job'[b].pc # "saving"
      BY <1>1, <2>3, OneSaves DEF Critical
    <3>2. QED BY <1>3, <2>3, <3>1 DEF Standing, Applied
  <2>4. QED BY <2>1, <2>2, <2>3
<1>6. QED BY <1>1, <1>2, <1>4, <1>5 DEF Inv

LEMMA GetKeeps ==
  ASSUME Inv, NEW a \in Actor, Get(a)
  PROVE  Inv'
<1>1. job[a].pc = "get" /\ UNCHANGED <<now, file, rules, typed, events>>
  BY DEF Get
<1>2. CASE rules.own # OwnWanted(a)
  <2> DEFINE r == [job[a] EXCEPT !.pc = "put", !.seen = rules.foreign]
  <2>1. job' = [job EXCEPT ![a] = r] /\ UNCHANGED <<lock, disturbed>>
    BY <1>2 DEF Get
  <2>2. r \in Job /\ r.pc = "put" /\ r.save = job[a].save /\ r.want = job[a].want
        /\ r.seen = rules.foreign /\ job[a].pc \in Critical /\ r.pc \in Critical
    BY <1>1 DEF Inv, TypeOK, Job, Critical
  <2>3. lock = a /\ \A b \in Actor : b # a => job[b].pc \notin Critical
    BY <2>2, OneSaves
  <2> HIDE DEF r
  <2>4. Sane(r) /\ Bounded(r.save)
    BY <2>2 DEF Inv, Posted, Sane, Bounded
  <2>5. /\ job' \in [Actor -> Job] /\ job'[a] = r
        /\ \A b \in Actor : b # a => job'[b] = job[b]
        /\ Exclusive' /\ Posted'
    BY <1>1, <2>1, <2>2, <2>3, <2>4, OneThread
  <2>6. TypeOK'
    BY <1>1, <2>1, <2>5 DEF Inv, TypeOK
  <2>7. Promise' = Promise /\ YouTubeState' = YouTubeState
    BY <1>1 DEF Promise, Held, YouTubeState
  <2>8. \A b \in Actor : job[b].pc # "saving" /\ job'[b].pc # "saving"
    BY <1>1, <2>2, <2>3, <2>5 DEF Critical
  <2>9. Standing' /\ Applied' /\ Kept' /\ Bounded(file)'
    BY <1>1, <2>1, <2>2, <2>3, <2>5, <2>7, <2>8
       DEF Inv, Standing, Applied, Kept, Bounded, Critical
  <2>10. QED BY <2>5, <2>6, <2>9 DEF Inv
<1>3. CASE rules.own = OwnWanted(a) /\ Saving(a)
  <2>1. job' = [job EXCEPT ![a] = [@ EXCEPT !.pc = "saving"]] /\ disturbed' = FALSE
        /\ UNCHANGED lock
    BY <1>3 DEF Get
  <2>2. rules' \in [own : SUBSET Own, foreign : SUBSET Foreign] /\ rules'.own = OwnWanted(a)
        /\ typed \subseteq rules'.foreign
    BY <1>1, <1>3 DEF Inv, TypeOK, Kept
  <2>3. QED BY <1>1, <2>1, <2>2, ToSaving
<1>4. CASE rules.own = OwnWanted(a) /\ ~ Saving(a)
  <2>1. Release(a) /\ UNCHANGED disturbed
    BY <1>4 DEF Get
  <2>2. events' \in 0..MaxEvents /\ rules' \in [own : SUBSET Own, foreign : SUBSET Foreign]
        /\ disturbed' \in BOOLEAN /\ typed \subseteq rules'.foreign
    BY <1>1, <2>1 DEF Inv, TypeOK, Kept
  <2>3. QED BY <1>1, <2>1, <2>2, ToRest
<1>5. QED BY <1>2, <1>3, <1>4

LEMMA WrittenKeepsTyped ==
  ASSUME Inv, NEW a \in Actor, job[a].pc = "put"
  PROVE  /\ Written(a) \in [own : SUBSET Own, foreign : SUBSET Foreign]
         /\ Written(a).own = OwnWanted(a) /\ typed \subseteq Written(a).foreign
  BY DEF Inv, TypeOK, Kept, Written, OwnWanted, Job

LEMMA PutKeeps ==
  ASSUME Inv, NEW a \in Actor, Put(a)
  PROVE  Inv'
<1>1. job[a].pc = "put" /\ rules' = Written(a) /\ UNCHANGED <<now, file, typed, events>>
  BY DEF Put
<1>2. CASE Saving(a)
  <2>1. job' = [job EXCEPT ![a] = [@ EXCEPT !.pc = "saving"]] /\ disturbed' = FALSE
        /\ UNCHANGED lock
    BY <1>2 DEF Put
  <2>2. QED BY <1>1, <2>1, WrittenKeepsTyped, ToSaving
<1>3. CASE ~ Saving(a)
  <2>1. Release(a) /\ disturbed' = (disturbed \/ Promise # "none")
    BY <1>3 DEF Put
  <2>2. events' \in 0..MaxEvents /\ disturbed' \in BOOLEAN
    BY <1>1, <2>1 DEF Inv, TypeOK
  <2>3. disturbed' = TRUE \/ Promise = "none"
    BY <2>1
  <2>4. QED BY <1>1, <2>1, <2>2, <2>3, WrittenKeepsTyped, ToRest
<1>4. QED BY <1>2, <1>3

LEMMA FailureKeeps ==
  ASSUME Inv, NEW a \in Actor, Failure(a)
  PROVE  Inv'
<1>1. events' \in 0..MaxEvents
  BY ScheduleConstants DEF Failure, GetFails, SaveFails, PutFails, Event, Inv, TypeOK,
     ScheduleConstants
<1>2. rules \in [own : SUBSET Own, foreign : SUBSET Foreign] /\ typed \subseteq rules.foreign
      /\ disturbed \in BOOLEAN
  BY DEF Inv, TypeOK, Kept
<1>3. CASE GetFails(a)
  BY <1>1, <1>2, <1>3, ToRest DEF GetFails
<1>4. CASE SaveFails(a)
  BY <1>1, <1>2, <1>4, ToRest DEF SaveFails
<1>5. ASSUME NEW obeyed \in BOOLEAN, PutFails(a, obeyed)
      PROVE  Inv'
  <2>1. /\ job[a].pc = "put" /\ Release(a) /\ UNCHANGED <<now, file, typed>>
        /\ rules' = IF obeyed THEN Written(a) ELSE rules
        /\ disturbed' = (disturbed \/ obeyed)
    BY <1>5 DEF PutFails
  <2>2. CASE obeyed
    BY <1>1, <2>1, <2>2, WrittenKeepsTyped, ToRest
  <2>3. CASE ~ obeyed
    <3>1. rules' = rules /\ disturbed' = disturbed
      BY <1>2, <2>1, <2>3
    <3>2. QED BY <1>1, <1>2, <2>1, <3>1, ToRest
  <2>4. QED BY <2>2, <2>3
<1>6. QED BY <1>3, <1>4, <1>5 DEF Failure

\* What is merged into the file is what the request meant to save.
LEMMA MergedIsSaved ==
  ASSUME Inv, Whole, NEW a \in Actor, job[a].pc = "saving"
  PROVE  Merged(a) = IF file.mode = "broken" /\ job[a].save.hold # NoHold THEN file ELSE job[a].save
<1>1. job[a].save \in File /\ file \in File /\ WholeOne(job[a])
  BY DEF Inv, TypeOK, Job, Whole
<1>2. CASE job[a].save.hold = NoHold \/ file.mode = "broken"
  BY <1>2 DEF Merged
<1>3. CASE job[a].save.hold # NoHold /\ file.mode # "broken"
  <2>1. Merged(a) = [file EXCEPT !.hold = job[a].save.hold]
    BY <1>3 DEF Merged
  <2>2. file.mode = job[a].save.mode /\ file.windows = job[a].save.windows
    BY <1>1, <1>3 DEF WholeOne, Fits, Critical
  <2>3. QED BY <1>1, <1>3, <2>1, <2>2 DEF File
<1>4. QED BY <1>2, <1>3

\* The file gets the hold or mode that was applied a step before.
LEMMA SaveKeeps ==
  ASSUME Inv, Whole, NEW a \in Actor, Save(a)
  PROVE  Inv'
<1>1. /\ job[a].pc = "saving" /\ Release(a) /\ UNCHANGED <<now, rules, typed, disturbed, events>>
      /\ file' = file \/ file' = job[a].save
      /\ file' = file => file.mode = "broken" \/ file = job[a].save
  BY MergedIsSaved DEF Save
<1>2. /\ job' \in [Actor -> Job] /\ job'[a] = Resting
      /\ \A b \in Actor : b # a => job'[b] = job[b]
      /\ \A b \in Actor : job'[b].pc \in Critical => b # a
      /\ Exclusive' /\ Posted' /\ lock' \in Actor \union {Nobody}
  BY <1>1, Released
<1>3. job[a] \in Job /\ job[a].pc \in Critical /\ Sane(job[a]) /\ Bounded(job[a].save)
  BY <1>1 DEF Inv, TypeOK, Posted, Critical
<1>4. TypeOK'
  BY <1>1, <1>2, <1>3 DEF Inv, TypeOK, Job, Sane
<1>5. Bounded(file)'
  BY <1>1, <1>3 DEF Inv, Bounded
<1>6. \A b \in Actor : job'[b].pc \notin {"put", "saving"}
  BY <1>2, <1>3, OneSaves, AtRest DEF Critical
<1>7. ~ disturbed => YouTubeState' = job[a].want
  BY <1>1 DEF Inv, Applied, YouTubeState
<1>8. Promise' \in {"none", job[a].want}
  <2>1. CASE file' = job[a].save
    <3>1. Held(file)' => file'.hold # NoHold
      BY <1>1 DEF Held, NoHold, Inv, TypeOK
    <3>2. QED BY <1>3, <2>1, <3>1 DEF Promise, Sane
  <2>2. CASE file' = file /\ file.mode = "broken"
    BY <2>2 DEF Promise, Held
  <2>3. QED BY <1>1, <2>1, <2>2
<1>9. Standing' /\ Applied' /\ Kept'
  BY <1>1, <1>6, <1>7, <1>8 DEF Inv, Standing, Applied, Kept
<1>10. QED BY <1>2, <1>4, <1>5, <1>9 DEF Inv
-----------------------------------------------------------------------------
(* Steps of the reconciler and of the world, likewise *)

\* The reconciler moves outside the lock, as it does when it reads and looks.
LEMMA TickIsFree ==
  ASSUME Inv, NEW r \in Job, job[Tick].pc \notin Critical, job' = [job EXCEPT ![Tick] = r],
         r.pc \notin Critical, Sane(r), UNCHANGED <<now, file, rules, lock, typed, disturbed>>,
         events' \in 0..MaxEvents
  PROVE  Inv'
<1>1. Tick \in Actor
  BY DEF Actor
<1>2. /\ job' \in [Actor -> Job] /\ job'[Tick] = r
      /\ \A b \in Actor : b # Tick => job'[b] = job[b]
      /\ Exclusive' /\ Posted'
  <2>1. /\ job' \in [Actor -> Job] /\ job'[Tick] = r
        /\ \A b \in Actor : b # Tick => job'[b] = job[b]
    BY <1>1 DEF Inv, TypeOK
  <2>2. Exclusive'
    BY <2>1 DEF Inv, Exclusive
  <2>3. Posted'
    BY <2>1 DEF Inv, Posted, Sane, Bounded
  <2>4. QED BY <2>1, <2>2, <2>3
<1>3. TypeOK'
  BY <1>2 DEF Inv, TypeOK
<1>4. Promise' = Promise /\ YouTubeState' = YouTubeState
  BY DEF Promise, Held, YouTubeState
<1>5. \A b \in Actor : /\ job'[b].pc \in Critical => job'[b] = job[b]
                      /\ job[b].pc \in Critical => job'[b] = job[b]
  BY <1>2
<1>6. Standing' /\ Applied' /\ Kept' /\ Bounded(file)'
  BY <1>4, <1>5 DEF Inv, Standing, Applied, Kept, Bounded, Critical
<1>7. QED BY <1>2, <1>3, <1>6 DEF Inv

LEMMA TickKeeps ==
  ASSUME Inv, Reconcile \/ TickUnanswered
  PROVE  Inv'
<1> DEFINE r == Doing("look", 0, DesiredState(file, now), NoSave, FALSE)
<1>1. r \in Job /\ r.pc = "look" /\ r.save = NoSave /\ r.at = 0 /\ r.first = FALSE
  BY DesiredIsState, RestTypes DEF Doing, Job
<1> HIDE DEF r
<1>2. Sane(r)
  BY <1>1, ScheduleConstants
     DEF Sane, NoSave, NoHold, Critical, Inv, TypeOK, ScheduleConstants
<1>3. job[Tick] \in Job /\ Sane(job[Tick]) /\ events \in 0..MaxEvents
  BY DEF Inv, TypeOK, Actor, Posted
<1>4. CASE TickRead
  <2>1. job[Tick].pc = "idle" /\ UNCHANGED <<now, file, rules, lock, typed, disturbed, events>>
        /\ job' = [job EXCEPT ![Tick] = IF Scheduled THEN r ELSE @]
    BY <1>4 DEF TickRead, r
  <2>2. CASE Scheduled
    BY <1>1, <1>2, <1>3, <2>1, <2>2, TickIsFree DEF Critical
  <2>3. CASE ~ Scheduled
    <3>1. job' = [job EXCEPT ![Tick] = job[Tick]]
      BY <2>1, <2>3
    <3>2. QED BY <1>3, <2>1, <3>1, TickIsFree DEF Critical
  <2>4. QED BY <2>2, <2>3
<1>5. CASE TickLook
  <2> DEFINE w == [job[Tick] EXCEPT !.pc = "waiting"]
  <2>1. job[Tick].pc = "look" /\ UNCHANGED <<now, file, rules, lock, typed, disturbed, events>>
        /\ (job' = [job EXCEPT ![Tick] = Resting] \/ job' = [job EXCEPT ![Tick] = w])
    BY <1>5 DEF TickLook
  <2>2. w \in Job /\ w.pc = "waiting" /\ w.save = job[Tick].save /\ w.want = job[Tick].want
        /\ w.at = job[Tick].at /\ w.first = job[Tick].first
    BY <1>3 DEF Job
  <2> HIDE DEF w
  <2>3. Sane(w)
    BY <1>3, <2>1, <2>2 DEF Sane, Critical
  <2>4. CASE job' = [job EXCEPT ![Tick] = Resting]
    BY <1>3, <2>1, <2>4, RestTypes, AtRest, TickIsFree DEF Critical
  <2>5. CASE job' = [job EXCEPT ![Tick] = w]
    BY <1>3, <2>1, <2>2, <2>3, <2>5, TickIsFree DEF Critical
  <2>6. QED BY <2>1, <2>4, <2>5
<1>6. CASE TickUnanswered
  <2>1. events' \in 0..MaxEvents
    BY <1>3, <1>6, ScheduleConstants DEF TickUnanswered, Event, ScheduleConstants
  <2>2. QED BY <1>6, <2>1, RestTypes, AtRest, TickIsFree DEF TickUnanswered, Critical
<1>7. QED BY <1>4, <1>5, <1>6 DEF Reconcile

\* Time only ends holds.
LEMMA PassKeeps ==
  ASSUME Inv, Pass
  PROVE  Inv'
<1>1. now \in Nat /\ now' = now + 1 /\ now' \in 0..MaxTime
      /\ UNCHANGED <<file, rules, lock, job, typed, disturbed, events>>
  BY ScheduleConstants DEF Pass, Inv, TypeOK, ScheduleConstants
<1>2. TypeOK' /\ Exclusive' /\ Kept'
  BY <1>1 DEF Inv, TypeOK, Exclusive, Kept
<1>3. \A f \in File : Bounded(f) => Bounded(f)'
  BY <1>1 DEF Bounded, File, Hold
<1>4. Posted' /\ Bounded(file)'
  <2>1. file \in File /\ file' = file /\ Bounded(file)
    BY <1>1 DEF Inv, TypeOK
  <2>2. ASSUME NEW a \in Actor
        PROVE  Sane(job[a])' /\ (job[a].pc \in Critical => Bounded(job[a].save))'
    <3>1. job[a] \in Job /\ job'[a] = job[a]
          /\ Sane(job[a]) /\ (job[a].pc \in Critical => Bounded(job[a].save))
      BY <1>1 DEF Inv, TypeOK, Posted
    <3>2. QED BY <1>1, <3>1 DEF Sane, Bounded, Job, File, Hold
  <2>3. QED BY <2>1, <2>2, <1>1 DEF Posted, Bounded, File, Hold
<1>5. Promise' \in {Promise, "none"} /\ YouTubeState' = YouTubeState
  <2>1. file.hold.until \in Nat
    BY DEF Inv, TypeOK, File, Hold
  <2>2. QED BY <1>1, <2>1 DEF Promise, Held, YouTubeState
<1>6. Standing' /\ Applied'
  BY <1>1, <1>5 DEF Inv, Standing, Applied
<1>7. QED BY <1>2, <1>4, <1>6 DEF Inv

\* Edits of the list: by hand, and by the repository's own script.
LEMMA EditKeeps ==
  ASSUME Inv, (\E r \in Own : EditOwn(r)) \/ ApplyFilters \/ (\E r \in Foreign : EditForeign(r))
  PROVE  Inv'
<1>1. UNCHANGED <<now, file, lock, job>> /\ events' \in 0..MaxEvents
  BY ScheduleConstants
     DEF EditOwn, ApplyFilters, EditForeign, Event, Inv, TypeOK, ScheduleConstants
<1>2. Exclusive' /\ Posted' /\ Bounded(file)' /\ Promise' = Promise
  BY <1>1 DEF Inv, Exclusive, Posted, Sane, Bounded, Promise, Held
<1>3. CASE (\E r \in Own : EditOwn(r)) \/ ApplyFilters
  <2>1. disturbed' = TRUE /\ typed' = typed /\ rules'.foreign = rules.foreign
        /\ rules' \in [own : SUBSET Own, foreign : SUBSET Foreign]
    BY <1>3 DEF EditOwn, ApplyFilters, Inv, TypeOK
  <2>2. QED BY <1>1, <1>2, <2>1 DEF Inv, TypeOK, Standing, Applied, Kept
<1>4. CASE \E r \in Foreign : EditForeign(r)
  <2>1. PICK r \in Foreign : EditForeign(r)
    BY <1>4
  <2>2. /\ disturbed' = disturbed /\ rules'.own = rules.own
        /\ rules'.foreign = IF r \in rules.foreign THEN rules.foreign \ {r}
                            ELSE rules.foreign \union {r}
        /\ typed' = IF r \in rules.foreign \/ Writing THEN typed \ {r} ELSE typed \union {r}
        /\ rules' \in [own : SUBSET Own, foreign : SUBSET Foreign]
    BY <2>1 DEF EditForeign, Inv, TypeOK
  <2>3. typed' \subseteq Foreign /\ typed' \subseteq rules'.foreign
    BY <2>2 DEF Inv, TypeOK, Kept
  <2>4. Kept'
    BY <1>1, <2>2, <2>3 DEF Inv, Kept, Writing
  <2>5. YouTubeState' = YouTubeState
    BY <2>2 DEF YouTubeState
  <2>6. QED BY <1>1, <1>2, <2>2, <2>3, <2>4, <2>5 DEF Inv, TypeOK, Standing, Applied
<1>5. QED BY <1>3, <1>4

LEMMA BreakKeeps ==
  ASSUME Inv, BreakFile
  PROVE  Inv'
<1>1. UNCHANGED <<now, rules, lock, job, typed, disturbed>> /\ events' \in 0..MaxEvents
      /\ file' = [NoSave EXCEPT !.mode = "broken"]
  BY ScheduleConstants DEF BreakFile, Event, Inv, TypeOK, ScheduleConstants
<1>2. file' \in File /\ file'.mode = "broken" /\ file'.hold = NoHold
  BY <1>1, RestTypes DEF NoSave, File
<1>3. Promise' = "none" /\ Bounded(file)' /\ YouTubeState' = YouTubeState
  BY <1>1, <1>2 DEF Promise, Held, Bounded, YouTubeState
<1>4. QED
  BY <1>1, <1>2, <1>3
     DEF Inv, TypeOK, Exclusive, Posted, Sane, Bounded, Standing, Applied, Kept

LEMMA CrashKeeps ==
  ASSUME Inv, Crash
  PROVE  Inv'
<1>1. UNCHANGED <<now, file, rules, typed>> /\ events' \in 0..MaxEvents
      /\ disturbed' = (disturbed \/ \E a \in Actor : job[a].pc = "saving")
      /\ job' = [a \in Actor |-> Resting] /\ lock' = Nobody
  BY ScheduleConstants DEF Crash, Event, Inv, TypeOK, ScheduleConstants
<1>2. \A a \in Actor : job'[a] = Resting
  BY <1>1
<1>3. disturbed' \in BOOLEAN
  BY <1>1 DEF Inv, TypeOK
<1>4. TypeOK'
  BY <1>1, <1>3, RestTypes DEF Inv, TypeOK
<1>5. Exclusive' /\ Posted' /\ Applied' /\ Kept' /\ Bounded(file)'
  BY <1>1, <1>2, AtRest DEF Inv, Exclusive, Posted, Applied, Kept, Bounded, Sane, Critical
<1>6. Standing'
  <2>1. Promise' = Promise /\ YouTubeState' = YouTubeState
    BY <1>1 DEF Promise, Held, YouTubeState
  <2>2. ~ disturbed' => ~ disturbed /\ \A a \in Actor : job[a].pc # "saving"
    BY <1>1
  <2>3. QED BY <2>1, <2>2 DEF Inv, Standing
<1>7. QED BY <1>4, <1>5, <1>6 DEF Inv

LEMMA RequestKeeps ==
  ASSUME Inv, NEW p \in Parent, Request(p)
  PROVE  Inv'
<1>1. ASSUME NEW mode \in Mode, NEW windows \in Schedules \union {{}},
             SetSchedule(p, mode, windows)
      PROVE  Inv'
  <2> DEFINE f == [mode |-> mode, windows |-> windows, hold |-> NoHold]
  <2>1. Wait(p, DesiredState(f, now), f, mode = "schedule")
    BY <1>1 DEF SetSchedule
  <2>2. f \in File /\ f.mode = mode /\ f.hold = NoHold
    BY RestTypes DEF File
  <2>3. /\ mode = "allowed" => DesiredState(f, now) = "ALLOWED"
        /\ mode = "blocked" => DesiredState(f, now) = "BLOCKED"
    BY DEF DesiredState
  <2> HIDE DEF f
  <2>4. (mode = "schedule") \in BOOLEAN
        /\ (mode = "schedule" <=> f.mode \in {"schedule", "clear"})
    BY <2>2 DEF Mode
  <2>5. DesiredState(f, now) \in State
    BY DesiredIsState
  <2>6. QED BY <2>1, <2>2, <2>3, <2>4, <2>5, WaitKeeps
<1>2. ASSUME NEW state \in State, SetOverride(p, state) \/ SetBlocked(p, state)
      PROVE  Inv'
  <2> DEFINE h == [mode |-> "hold", windows |-> {}, hold |-> NoHold]
  <2>1. h \in File /\ h.mode = "hold" /\ h.hold = NoHold
    BY RestTypes DEF File
  <2>2. NoSave \in File /\ NoSave.mode = "none" /\ NoSave.hold = NoHold
    BY RestTypes DEF NoSave
  <2>3. Wait(p, state, h, FALSE) \/ Wait(p, state, NoSave, FALSE)
    BY <1>2 DEF SetOverride, SetBlocked
  <2> HIDE DEF h
  <2>4. QED BY <2>1, <2>2, <2>3, WaitKeeps
<1>3. ASSUME ClearOverride(p) PROVE Inv'
  <2> DEFINE c == [mode |-> "clear", windows |-> {}, hold |-> NoHold]
  <2>1. c \in File /\ c.mode = "clear" /\ c.hold = NoHold
    BY RestTypes DEF File
  <2>2. Wait(p, "ALLOWED", c, TRUE) /\ "ALLOWED" \in State
    BY <1>3 DEF ClearOverride, State
  <2> HIDE DEF c
  <2>3. QED BY <2>1, <2>2, WaitKeeps
<1>4. QED BY <1>1, <1>2, <1>3 DEF Request
-----------------------------------------------------------------------------
(* Acts on the file are whole *)

ModeStep == [Acts!Next]_<<now, file>>

\* One thread goes on and leaves the file alone.
LEMMA WholeMoves ==
  ASSUME Inv, Whole, NEW a \in Actor, NEW r \in Job, job' = [job EXCEPT ![a] = r],
         file' = file, now' = now, WholeOne(r)
  PROVE  Whole' /\ ModeStep
<1>1. \A b \in Actor : job'[b] = IF b = a THEN r ELSE job[b]
  BY DEF Inv, TypeOK
<1>2. QED BY <1>1 DEF Whole, WholeOne, Fits, ModeStep

LEMMA WholeAtRest == WholeOne(Resting)
  BY AtRest DEF WholeOne, Resting, Doing, NoSave

LEMMA WholeRelease ==
  ASSUME Inv, Whole, NEW a \in Actor, Release(a), file' = file, now' = now
  PROVE  Whole' /\ ModeStep
  BY RestTypes, WholeAtRest, WholeMoves DEF Release

LEMMA WholeWait ==
  ASSUME Inv, Whole, NEW p \in Parent, NEW want \in State, NEW save \in File,
         NEW first \in BOOLEAN, Wait(p, want, save, first),
         save.mode # "schedule" => save.windows = {}, save.mode # "broken"
  PROVE  Whole' /\ ModeStep
<1> DEFINE r == Doing("waiting", now, want, save, first)
<1>1. r \in Job /\ r.pc = "waiting" /\ r.save = save
  <2>1. now \in Nat
    BY ScheduleConstants DEF ScheduleConstants, Inv, TypeOK
  <2>2. QED BY <2>1, DoingTypes
<1>2. job' = [job EXCEPT ![p] = r] /\ UNCHANGED <<now, file>> /\ p \in Actor
  BY DEF Wait, Actor
<1> HIDE DEF r
<1>3. WholeOne(r)
  BY <1>1 DEF WholeOne, Critical
<1>4. QED BY <1>1, <1>2, <1>3, WholeMoves

LEMMA WholeRequest ==
  ASSUME Inv, Whole, NEW p \in Parent, Request(p)
  PROVE  Whole' /\ ModeStep
<1>1. ASSUME NEW mode \in Mode, NEW windows \in Schedules \union {{}},
             SetSchedule(p, mode, windows)
      PROVE  Whole' /\ ModeStep
  <2> DEFINE f == [mode |-> mode, windows |-> windows, hold |-> NoHold]
  <2>1. Wait(p, DesiredState(f, now), f, mode = "schedule") /\ (mode = "schedule" \/ windows = {})
    BY <1>1 DEF SetSchedule
  <2>2. f \in File /\ f.mode = mode /\ f.windows = windows /\ mode # "broken"
    BY RestTypes DEF File, Mode
  <2> HIDE DEF f
  <2>3. DesiredState(f, now) \in State /\ (mode = "schedule") \in BOOLEAN
    BY DesiredIsState
  <2>4. QED BY <2>1, <2>2, <2>3, WholeWait
<1>2. ASSUME NEW want \in State, NEW first \in BOOLEAN,
             NEW save \in {NoSave, [mode |-> "hold", windows |-> {}, hold |-> NoHold],
                           [mode |-> "clear", windows |-> {}, hold |-> NoHold]},
             Wait(p, want, save, first)
      PROVE  Whole' /\ ModeStep
  <2>1. save \in File /\ save.windows = {} /\ save.mode # "broken"
    BY RestTypes DEF File, NoSave
  <2>2. QED BY <1>2, <2>1, WholeWait
<1>3. "ALLOWED" \in State
  BY DEF State
<1>4. QED BY <1>1, <1>2, <1>3 DEF Request, SetOverride, SetBlocked, ClearOverride

\* A request that saves first does so when it takes the lock: a mode, or the end of a hold.
\* Any other takes along a file that fits the one it has just read.
LEMMA WholeAcquire ==
  ASSUME Inv, Whole, NEW a \in Actor, Acquire(a)
  PROVE  Whole' /\ ModeStep
<1>1. /\ job[a].pc = "waiting" /\ lock = Nobody /\ now' = now
      /\ job[a] \in Job /\ Sane(job[a]) /\ WholeOne(job[a]) /\ file \in File
  BY DEF Acquire, Available, Inv, TypeOK, Posted, Whole
<1>2. \A b \in Actor : job[b].pc \notin Critical
  <2>1. Nobody \notin Actor
    BY ScheduleConstants DEF ScheduleConstants, Actor
  <2>2. QED BY <1>1, <2>1 DEF Inv, Exclusive
<1>3. CASE Refused(job[a])
  <2>1. job' = [job EXCEPT ![a] = Resting] /\ UNCHANGED file
    BY <1>3 DEF Acquire
  <2>2. QED BY <1>1, <2>1, RestTypes, WholeAtRest, WholeMoves
<1>4. CASE ~ Refused(job[a])
  <2> DEFINE j == Resolved(job[a])
             save == IF j.first THEN NoSave ELSE j.save
             r == Doing("get", 0, j.want, save, FALSE)
  <2>1. /\ job' = [job EXCEPT ![a] = r]
        /\ file' = IF j.first THEN j.save ELSE file
    BY <1>4 DEF Acquire
  <2>2. j.want \in State /\ j.first = job[a].first /\ j.save \in File
    BY <1>1, <1>4, ResolvedTypes DEF Inv
  <2>3. r \in Job /\ r.pc = "get" /\ r.save = save
    BY <2>2, RestTypes DEF Doing, Job
  <2>4. /\ job[a].save.mode = "hold" =>
             /\ ~ j.first /\ file.mode = "schedule"
             /\ j.save = [file EXCEPT !.hold =
                            [state |-> job[a].want, until |-> HoldUntil(file.windows, job[a].at),
                             at |-> job[a].at]]
        /\ job[a].save.mode = "clear" =>
             j.first /\ file.mode = "schedule" /\ j.save = [file EXCEPT !.hold = NoHold]
        /\ job[a].save.mode \notin {"hold", "clear"} =>
             j.save = job[a].save /\ (j.first <=> j.save.mode = "schedule")
    BY <1>1, <1>4 DEF Resolved, Refused, Sane, Job
  <2>5. /\ job[a].save.hold = NoHold /\ job[a].want \in State
        /\ job[a].save.mode \in Mode \union {"none", "hold", "clear"}
    BY <1>1 DEF Sane, WholeOne, Job, File
  <2>6. job'[a] = r /\ \A b \in Actor : b # a => job'[b] = job[b]
    BY <2>1 DEF Inv, TypeOK
  <2> HIDE DEF j
  <2>7. CASE j.first
    <3>1. save = NoSave /\ file' = j.save
      BY <2>1, <2>7
    <3> HIDE DEF save, r
    <3>2. WholeOne(job[a])'
      <4>1. job'[a].pc = "get" /\ job'[a].save = NoSave
        BY <2>3, <2>6, <3>1
      <4>2. QED BY <4>1 DEF WholeOne, NoSave
    <3>3. \A b \in Actor : WholeOne(job[b])'
      BY <1>2, <2>6, <3>2 DEF Whole, WholeOne
    <3>4. Acts!Next
      <4>1. CASE job[a].save.mode = "clear"
        BY <1>1, <2>4, <3>1, <4>1 DEF Acts!Next, Acts!ClearHold, Acts!NoHold, NoHold
      <4>2. CASE job[a].save.mode \notin {"hold", "clear"}
        <5>1. j.save.mode = "schedule" /\ j.save.hold = NoHold /\ j.save \in File
          BY <2>2, <2>4, <2>5, <2>7, <4>2
        <5>2. j.save = [mode |-> "schedule", windows |-> j.save.windows, hold |-> NoHold]
              /\ j.save.windows \in Schedules \union {{}}
          BY <5>1 DEF File
        <5>3. QED BY <1>1, <3>1, <5>2 DEF Acts!Next, Acts!SetMode, Acts!NoHold, NoHold
      <4>3. QED BY <2>4, <2>7, <4>1, <4>2
    <3>5. QED BY <3>3, <3>4 DEF Whole, ModeStep
  <2>8. CASE ~ j.first
    <3>1. save = j.save /\ file' = file
      BY <2>1, <2>8
    <3> HIDE DEF save, r
    <3>2. WholeOne(r)
      <4>1. CASE job[a].save.mode = "hold"
        <5> DEFINE h == [state |-> job[a].want, until |-> HoldUntil(file.windows, job[a].at),
                         at |-> job[a].at]
        <5>1. h.state \in State
          BY <2>5
        <5>2. h # NoHold
          BY <5>1 DEF NoHold, State
        <5>3. j.save = [file EXCEPT !.hold = h] /\ file.mode = "schedule"
          BY <2>4, <4>1
        <5> HIDE DEF h
        <5>4. j.save.mode = "schedule" /\ j.save.windows = file.windows /\ j.save.hold = h
          BY <1>1, <5>3 DEF File
        <5>5. QED BY <2>3, <3>1, <5>2, <5>3, <5>4 DEF WholeOne, Fits
      <4>2. CASE job[a].save.mode # "hold"
        <5>1. j.save = job[a].save /\ j.save.mode \in {"none", "allowed", "blocked"}
          BY <2>4, <2>5, <2>8, <4>2 DEF Mode
        <5>2. QED BY <1>1, <2>3, <2>5, <3>1, <5>1 DEF WholeOne
      <4>3. QED BY <4>1, <4>2
    <3>3. QED BY <1>1, <2>1, <2>3, <3>1, <3>2, WholeMoves
  <2>9. QED BY <2>7, <2>8
<1>5. QED BY <1>3, <1>4

LEMMA WholeToSaving ==
  ASSUME Inv, Whole, NEW a \in Actor, job[a].pc \in {"get", "put"}, Saving(a),
         job' = [job EXCEPT ![a].pc = "saving"], UNCHANGED <<now, file>>
  PROVE  Whole' /\ ModeStep
<1> DEFINE r == [job[a] EXCEPT !.pc = "saving"]
<1>1. job[a] \in Job /\ WholeOne(job[a]) /\ job[a].save # NoSave
  BY DEF Inv, TypeOK, Whole, Saving
<1>2. r \in Job /\ r.pc = "saving" /\ r.save = job[a].save /\ job' = [job EXCEPT ![a] = r]
  BY <1>1 DEF Job
<1> HIDE DEF r
<1>3. job[a].save.mode # "none"
  <2> SUFFICES ASSUME job[a].save.mode = "none" PROVE FALSE
    OBVIOUS
  <2>1. job[a].save.windows = {} /\ job[a].save.hold = NoHold /\ job[a].save \in File
    BY <1>1 DEF WholeOne, Critical, Job
  <2>2. job[a].save = NoSave
    BY <2>1 DEF File, NoSave
  <2>3. QED BY <1>1, <2>2
<1>4. WholeOne(r)
  BY <1>1, <1>2, <1>3 DEF WholeOne, Critical
<1>5. QED BY <1>2, <1>4, WholeMoves

LEMMA WholeGet ==
  ASSUME Inv, Whole, NEW a \in Actor, Get(a)
  PROVE  Whole' /\ ModeStep
<1>1. job[a].pc = "get" /\ UNCHANGED <<now, file>> /\ job[a] \in Job /\ WholeOne(job[a])
  BY DEF Get, Inv, TypeOK, Whole
<1>2. CASE rules.own # OwnWanted(a)
  <2> DEFINE r == [job[a] EXCEPT !.pc = "put", !.seen = rules.foreign]
  <2>1. job' = [job EXCEPT ![a] = r]
    BY <1>2 DEF Get
  <2>2. r \in Job /\ r.pc = "put" /\ r.save = job[a].save
    BY <1>1 DEF Job, Inv, TypeOK
  <2> HIDE DEF r
  <2>3. WholeOne(r)
    BY <1>1, <2>2 DEF WholeOne, Critical
  <2>4. QED BY <1>1, <2>1, <2>2, <2>3, WholeMoves
<1>3. CASE rules.own = OwnWanted(a) /\ Saving(a)
  <2>1. job' = [job EXCEPT ![a].pc = "saving"]
    BY <1>3 DEF Get
  <2>2. QED BY <1>1, <1>3, <2>1, WholeToSaving
<1>4. CASE rules.own = OwnWanted(a) /\ ~ Saving(a)
  BY <1>1, <1>4, WholeRelease DEF Get
<1>5. QED BY <1>2, <1>3, <1>4

LEMMA WholePut ==
  ASSUME Inv, Whole, NEW a \in Actor, Put(a)
  PROVE  Whole' /\ ModeStep
<1>1. job[a].pc = "put" /\ UNCHANGED <<now, file>>
  BY DEF Put
<1>2. CASE Saving(a)
  <2>1. job' = [job EXCEPT ![a].pc = "saving"]
    BY <1>2 DEF Put
  <2>2. QED BY <1>1, <1>2, <2>1, WholeToSaving
<1>3. CASE ~ Saving(a)
  BY <1>1, <1>3, WholeRelease DEF Put
<1>4. QED BY <1>2, <1>3

\* A mode, or a hold on the schedule that was read when the request took the lock.
LEMMA WholeSave ==
  ASSUME Inv, Whole, NEW a \in Actor, Save(a)
  PROVE  Whole' /\ ModeStep
<1>1. /\ job[a].pc = "saving" /\ Release(a) /\ now' = now
      /\ file' = IF file.mode = "broken" /\ job[a].save.hold # NoHold THEN file ELSE job[a].save
  BY MergedIsSaved DEF Save
<1>2. /\ job[a] \in Job /\ Sane(job[a]) /\ WholeOne(job[a]) /\ Bounded(job[a].save)
      /\ file \in File /\ job[a].save \in File
  BY <1>1 DEF Inv, TypeOK, Posted, Whole, Critical, Job
<1>3. \A b \in Actor : b # a => job[b].pc \notin Critical
  BY <1>1, OneSaves DEF Critical
<1>4. Whole'
  <2>1. job'[a] = Resting /\ \A b \in Actor : b # a => job'[b] = job[b]
    BY <1>1, Released
  <2>2. WholeOne(Resting)'
    BY AtRest DEF WholeOne, Resting, Doing, NoSave
  <2>3. QED BY <1>3, <2>1, <2>2 DEF Whole, WholeOne
<1>5. CASE file.mode = "broken" /\ job[a].save.hold # NoHold
  BY <1>1, <1>4, <1>5 DEF ModeStep
<1>6. CASE job[a].save.hold = NoHold
  <2>1. job[a].save.mode \in {"allowed", "blocked"} /\ job[a].save.windows = {}
    BY <1>1, <1>2, <1>6 DEF WholeOne, Critical
  <2>2. job[a].save = [mode |-> job[a].save.mode, windows |-> {}, hold |-> NoHold]
    BY <1>2, <1>6, <2>1 DEF File
  <2>3. Acts!SetMode
    BY <1>1, <1>6, <2>1, <2>2 DEF Acts!SetMode, Acts!NoHold, NoHold
  <2>4. QED BY <1>1, <1>4, <2>3 DEF ModeStep, Acts!Next
<1>7. CASE job[a].save.hold # NoHold /\ file.mode # "broken"
  <2> DEFINE h == job[a].save.hold
  <2>1. /\ job[a].save.mode = "schedule" /\ file.mode = "schedule"
        /\ file.windows = job[a].save.windows
        /\ h.state = job[a].want /\ h.at <= now /\ h.until = HoldUntil(file.windows, h.at)
    BY <1>1, <1>2, <1>7 DEF WholeOne, Fits, Critical, Sane, Bounded
  <2>2. h \in Hold /\ job[a].want \in State
    BY <1>2 DEF File, Job
  <2>3. /\ h = [state |-> h.state, until |-> HoldUntil(file.windows, h.at), at |-> h.at]
        /\ h.state \in {"ALLOWED", "BLOCKED"} /\ h.at \in 0..now
    BY <2>1, <2>2, ScheduleConstants DEF Hold, State, Inv, TypeOK, ScheduleConstants
  <2>4. file' = [file EXCEPT !.hold = h]
    BY <1>1, <1>2, <1>7, <2>1 DEF File
  <2> HIDE DEF h
  <2>5. Acts!SetHold
    BY <2>1, <2>3, <2>4 DEF Acts!SetHold
  <2>6. QED BY <1>1, <1>4, <2>5 DEF ModeStep, Acts!Next
<1>8. QED BY <1>5, <1>6, <1>7

LEMMA WholeFailure ==
  ASSUME Inv, Whole, NEW a \in Actor, Failure(a)
  PROVE  Whole' /\ ModeStep
<1>1. Release(a) /\ UNCHANGED <<now, file>>
  BY DEF Failure, GetFails, SaveFails, PutFails
<1>2. QED BY <1>1, WholeRelease

LEMMA WholeTick ==
  ASSUME Inv, Whole, Reconcile \/ TickUnanswered
  PROVE  Whole' /\ ModeStep
<1>1. /\ Tick \in Actor /\ job[Tick] \in Job /\ WholeOne(job[Tick])
      /\ UNCHANGED <<now, file>> /\ job[Tick].pc \in {"idle", "look"}
  BY DEF Reconcile, TickRead, TickLook, TickUnanswered, Actor, Inv, TypeOK, Whole
<1> DEFINE r == Doing("look", 0, DesiredState(file, now), NoSave, FALSE)
           w == [job[Tick] EXCEPT !.pc = "waiting"]
<1>2. PICK new \in {r, w, Resting, job[Tick]} : job' = [job EXCEPT ![Tick] = new]
  BY DEF Reconcile, TickRead, TickLook, TickUnanswered
<1>3. r \in Job /\ WholeOne(r)
  <2>1. r \in Job /\ r.pc = "look" /\ r.save = NoSave
    BY DesiredIsState, RestTypes DEF Doing, Job
  <2> HIDE DEF r
  <2>2. QED BY <2>1 DEF WholeOne, NoSave, Critical
<1>4. w \in Job /\ WholeOne(w)
  <2>1. w \in Job /\ w.pc = "waiting" /\ w.save = job[Tick].save
    BY <1>1 DEF Job
  <2> HIDE DEF w
  <2>2. QED BY <1>1, <2>1 DEF WholeOne, Critical
<1> HIDE DEF r, w
<1>5. new \in Job /\ WholeOne(new)
  BY <1>1, <1>2, <1>3, <1>4, RestTypes, WholeAtRest
<1>6. QED BY <1>1, <1>2, <1>5, WholeMoves

LEMMA WholeWorld ==
  ASSUME Inv, Whole, World, ~ TickUnanswered
  PROVE  Whole' /\ ModeStep
<1>1. CASE Pass
  BY <1>1 DEF Pass, Whole, WholeOne, Fits, ModeStep, Acts!Next
<1>2. CASE BreakFile
  <2>1. UNCHANGED <<now, job>> /\ file' = [NoSave EXCEPT !.mode = "broken"]
    BY <1>2 DEF BreakFile
  <2>2. Acts!Break /\ file'.mode = "broken"
    BY <2>1 DEF Acts!Break, Acts!Unset, Acts!NoHold, NoSave, NoHold
  <2>3. QED BY <2>1, <2>2 DEF Whole, WholeOne, Fits, ModeStep, Acts!Next
<1>3. CASE Crash
  <2>1. UNCHANGED <<now, file>> /\ \A a \in Actor : job'[a] = Resting
    BY <1>3 DEF Crash
  <2>2. WholeOne(Resting)'
    BY AtRest DEF WholeOne, Resting, Doing, NoSave
  <2>3. QED BY <2>1, <2>2 DEF Whole, WholeOne, ModeStep
<1>4. CASE ApplyFilters \/ (\E r \in Own : EditOwn(r)) \/ (\E r \in Foreign : EditForeign(r))
  <2>1. UNCHANGED <<now, file, job>>
    BY <1>4 DEF ApplyFilters, EditOwn, EditForeign
  <2>2. QED BY <2>1 DEF Whole, WholeOne, Fits, ModeStep
<1>5. QED BY <1>1, <1>2, <1>3, <1>4 DEF World

LEMMA StepWhole == Inv /\ Whole /\ [Next]_vars => Whole' /\ ModeStep
<1> SUFFICES ASSUME Inv, Whole, [Next]_vars PROVE Whole' /\ ModeStep
  OBVIOUS
<1>1. ASSUME NEW p \in Parent, Request(p) PROVE Whole' /\ ModeStep
  BY <1>1, WholeRequest
<1>2. ASSUME NEW a \in Actor, Work(a) \/ Failure(a) PROVE Whole' /\ ModeStep
  BY <1>2, WholeAcquire, WholeGet, WholePut, WholeSave, WholeFailure DEF Work
<1>3. ASSUME Reconcile \/ World PROVE Whole' /\ ModeStep
  BY <1>3, WholeTick, WholeWorld
<1>4. ASSUME UNCHANGED vars PROVE Whole' /\ ModeStep
  BY <1>4 DEF vars, Whole, WholeOne, Fits, ModeStep
<1>5. QED BY <1>1, <1>2, <1>3, <1>4 DEF Next
-----------------------------------------------------------------------------
(* Theorems *)

LEMMA InitInv == Init => Inv
<1> SUFFICES ASSUME Init PROVE Inv
  OBVIOUS
<1>1. 0 \in 0..MaxTime /\ 0 \in 0..MaxEvents
  BY ScheduleConstants DEF ScheduleConstants
<1>2. \A a \in Actor : job[a] = Resting
  BY DEF Init
<1>3. job \in [Actor -> Job]
  BY RestTypes DEF Init
<1>4. TypeOK
  BY <1>1, <1>3, RestTypes DEF Init, TypeOK, NoSave
<1>5. Promise = "none"
  BY DEF Init, NoSave, Promise, Held
<1>6. QED
  BY <1>2, <1>4, <1>5, AtRest
     DEF Init, Inv, NoSave, Exclusive, Posted, Bounded, Standing, Applied, Kept

LEMMA StepInv == Inv /\ Whole /\ [Next]_vars => Inv'
<1> SUFFICES ASSUME Inv, Whole, [Next]_vars PROVE Inv'
  OBVIOUS
<1>1. ASSUME NEW p \in Parent, Request(p) PROVE Inv'
  BY <1>1, RequestKeeps
<1>2. ASSUME NEW a \in Actor, Work(a) PROVE Inv'
  BY <1>2, AcquireKeeps, GetKeeps, PutKeeps, SaveKeeps DEF Work
<1>3. ASSUME NEW a \in Actor, Failure(a) PROVE Inv'
  BY <1>3, FailureKeeps
<1>4. ASSUME Reconcile \/ TickUnanswered PROVE Inv'
  BY <1>4, TickKeeps
<1>5. ASSUME World, ~ TickUnanswered PROVE Inv'
  BY <1>5, PassKeeps, EditKeeps, BreakKeeps, CrashKeeps DEF World
<1>6. ASSUME UNCHANGED vars PROVE Inv'
  BY <1>6 DEF vars, Inv, TypeOK, Exclusive, Posted, Sane, Bounded, Standing, Applied, Kept,
              Promise, Held, YouTubeState
<1>7. QED BY <1>1, <1>2, <1>3, <1>4, <1>5, <1>6 DEF Next

\* The invariant holds in every behaviour: the lock of app.py excludes, what a request
\* will save is sound, and the hold, the promise and the typed lines are as stated above.
THEOREM ScheduleInvariant == Spec => [](Inv /\ Whole)
<1>1. Init => Inv /\ Whole
  <2>1. Init => Whole
    BY WholeAtRest DEF Init, Whole
  <2>2. QED BY <2>1, InitInv
<1>2. (Inv /\ Whole) /\ [Next]_vars => (Inv /\ Whole)'
  BY StepInv, StepWhole
<1>3. QED BY <1>1, <1>2, PTL DEF Spec

\* Every variable keeps its type, for any number of request threads and any schedules.
THEOREM ScheduleTypes == Spec => []TypeOK
<1>1. Inv => TypeOK
  BY DEF Inv
<1>2. QED BY <1>1, ScheduleInvariant, PTL

\* The rules are in the state the panel says the last manual act put in force, unless
\* somebody else wrote them (set_youtube_schedule, set_youtube_override).
THEOREM ManualActsStand == Spec => []ManualStands
<1>1. Inv => ManualStands
  <2> SUFFICES ASSUME Inv, lock = Nobody PROVE ManualStands
    BY DEF ManualStands
  <2>1. Nobody \notin Actor
    BY ScheduleConstants DEF ScheduleConstants, Actor
  <2>2. \A a \in Actor : job[a].pc # "saving"
    BY <2>1 DEF Inv, Exclusive, Critical
  <2>3. QED BY <2>2 DEF Inv, Standing, ManualStands
<1>2. QED BY <1>1, ScheduleInvariant, PTL

\* A hold never outlives the window or the day it was placed in (hold_until).
THEOREM HoldsEndAtBoundary == Spec => []HoldEndsAtBoundary
<1>1. Inv => HoldEndsAtBoundary
  <2> SUFFICES ASSUME Inv, Held(file)
               PROVE  /\ now \div DayLength = file.hold.at \div DayLength
                      /\ \A m \in file.hold.at..now :
                           DesiredState(file, m) = DesiredState(file, file.hold.at)
    BY DEF HoldEndsAtBoundary
  <2> DEFINE at == file.hold.at
  <2>1. now \in Nat /\ at \in Nat /\ now < file.hold.until /\ file.hold.until \in Nat
    BY ScheduleConstants DEF ScheduleConstants, Inv, TypeOK, File, Hold, Held
  <2>2. at <= now /\ file.hold.until = HoldUntil(file.windows, at)
    <3>1. file.hold # NoHold
      BY <2>1 DEF NoHold
    <3>2. QED BY <3>1 DEF Inv, Bounded
  <2> HIDE DEF at
  <2>3. now < Midnight(at)
    BY <2>1, <2>2, HoldUntilIsFirst, MidnightAhead
  <2>4. now \div DayLength = at \div DayLength
    BY <2>1, <2>2, <2>3, MidnightAhead
  <2>5. ASSUME NEW m \in at..now
        PROVE  DesiredState(file, m) = DesiredState(file, at)
    <3>1. CASE m = at
      BY <3>1
    <3>2. CASE m # at
      <4>1. m \in at + 1..at + WeekLength
        <5>1. Midnight(at) \in Nat /\ Midnight(at) <= at + DayLength
          BY <2>1, MidnightAhead
        <5>2. m \in Nat /\ at < m /\ m <= now
          BY <2>1, <3>2
        <5>3. QED BY <2>1, <2>3, <5>1, <5>2, WeekIsNat
      <4>2. m \notin NextChanges(file.windows, at)
        BY <2>1, <2>2, HoldUntilIsFirst
      <4>3. Open(file.windows, m) = Open(file.windows, at)
        BY <4>1, <4>2 DEF NextChanges
      <4>4. QED BY <4>3 DEF DesiredState
    <3>3. QED BY <3>1, <3>2
  <2>6. QED BY <2>4, <2>5 DEF at
<1>2. QED BY <1>1, ScheduleInvariant, PTL

\* A line typed by hand while no write is under way survives every write of the panel
\* (set_youtube_blocked writes back the list it read).
THEOREM TypedLinesSurvive == Spec => []HandTypedSurvives
<1>1. Inv => HandTypedSurvives
  BY DEF Inv, Kept, HandTypedSurvives
<1>2. QED BY <1>1, ScheduleInvariant, PTL

\* youtube-schedule.json implements ModeFile: each act on it is whole, though the request
\* that makes it reads the file, waits for AdGuard and saves in steps of their own, and
\* other requests, failures, hand edits and crashes come in between (Collector.apply).
THEOREM FileActsAreWhole == Spec => ActsAreWhole
<1>1. Init => Acts!Init
  BY DEF Init, Acts!Init, Acts!Unset, Acts!NoHold, NoSave, NoHold
<1>2. Inv /\ Whole /\ [Next]_vars => [Acts!Next]_<<now, file>>
  BY StepWhole DEF ModeStep
<1>3. QED BY <1>1, <1>2, ScheduleInvariant, PTL DEF Spec, ActsAreWhole, Acts!Spec
=============================================================================
