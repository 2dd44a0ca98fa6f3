--------------------------- MODULE KillLaneProofs ---------------------------
(***************************************************************************)
(* Proofs about KillLane, for every set of programs, limits, windows and   *)
(* bounds: its types, that no minute is charged to another day, that a     *)
(* storm is reported, and that a session over its budget is bounded.       *)
(***************************************************************************)
EXTENDS KillLane, FiniteSetTheorems, TLAPS

\* A file's ledger at a time: what is charged fits between the day's first minute
\* and the last sighting, which is not in the future.
Sound(f, time) ==
  /\ f.last # Never => f.date * DayLength + f.used <= f.last /\ f.last <= time
  /\ f.last = Never => f.date * DayLength + f.used <= time

\* The strengthening: what a run holds in memory is sound too.
Ledger == Sound(file, now) /\ Sound(run.loaded, now) /\ Sound(run.next, now)
Inv == TypeOK /\ Ledger

\* What the actions of this lane leave to Witnessed.
Typed ==
  /\ lane \in Lane /\ now \in 0..MaxTime /\ due \in BOOLEAN
  /\ file \in File
  /\ config \in [limit : Limits, enabled : BOOLEAN]
  /\ running \subseteq Image
  /\ run \in [pc : {"idle", "pausing", "waking", "saving"}, loaded : File, next : File]
  /\ session \in Nat /\ slack \in Nat
  /\ reported \in BOOLEAN /\ events \in 0..MaxEvents
-----------------------------------------------------------------------------
LEMMA DivMod ==
  ASSUME NEW n \in Nat, NEW d \in Nat \ {0}
  PROVE  /\ n \div d \in Nat /\ n % d \in Nat
         /\ (n \div d) * d + (n % d) = n
         /\ (n \div d) * d <= n /\ n \div d <= n
<1>1. n \div d \in Nat /\ n % d \in Nat /\ (n \div d) * d + (n % d) = n
  BY SMT
<1>2. \A q \in Nat : q <= q * d
  BY SMT
<1> QED BY <1>1, <1>2

\* Time only makes a sound file older.
LEMMA SoundLater ==
  ASSUME NEW f \in File, NEW s \in Nat, NEW t \in Nat, s <= t, Sound(f, s)
  PROVE  Sound(f, t)
<1> DEFINE spent == f.date * DayLength + f.used
<1>1. ASSUME f.last = Never PROVE spent <= s
  BY <1>1 DEF Sound
<1>2. ASSUME f.last # Never PROVE spent <= f.last /\ f.last <= s
  BY <1>2 DEF Sound
<1>3. spent \in Int /\ f.last \in Int
  BY KillLaneConstants, SMT DEF File, Never, KillLaneConstants
<1> HIDE DEF spent
<1>4. (f.last # Never => spent <= f.last /\ f.last <= t) /\ (f.last = Never => spent <= t)
  BY <1>1, <1>2, <1>3
<1> QED BY <1>4 DEF Sound, spent

LEMMA NewFileSound ==
  ASSUME NEW day \in 0..MaxTime, NEW t \in Nat, day * DayLength <= t
  PROVE  NewFile(day) \in File /\ Sound(NewFile(day), t)
<1>2. NoKills \in [Image -> SUBSET (0..MaxTime)]
  BY DEF NoKills
<1>3. NewFile(day) \in File
  BY <1>2 DEF NewFile, File, Never
<1>4. Sound(NewFile(day), t)
  BY KillLaneConstants DEF NewFile, Sound, Never, KillLaneConstants
<1> QED BY <1>3, <1>4

LEMMA TodaySound ==
  ASSUME now \in 0..MaxTime
  PROVE  Today \in 0..MaxTime /\ Today * DayLength <= now
BY KillLaneConstants, DivMod DEF KillLaneConstants, Today

LEMMA RolledSound ==
  ASSUME NEW f \in File, now \in 0..MaxTime, Sound(f, now)
  PROVE  Rolled(f) \in File /\ Sound(Rolled(f), now)
<1>1. now \in Nat
  BY KillLaneConstants DEF KillLaneConstants
<1> QED BY <1>1, TodaySound, NewFileSound DEF Rolled

LEMMA AdvancedSound ==
  ASSUME NEW f \in File, NEW seen, now \in 0..MaxTime, Sound(f, now)
  PROVE  Advanced(f, seen) \in File /\ Sound(Advanced(f, seen), now)
<1> DEFINE g == Rolled(f)
<1>1. g \in File /\ Sound(g, now)
  BY RolledSound
<1>2. now \in Nat /\ DayLength \in Nat /\ Gap \in Nat /\ MaxTime \in Nat
  BY KillLaneConstants DEF KillLaneConstants
<1>3. Charged(g) \in Nat /\ (g.last # Never => g.last + Charged(g) <= now)
      /\ (g.last = Never => Charged(g) = 0)
  BY <1>1, <1>2 DEF Charged, Sound, File, Never
<1> HIDE DEF g
<1>4. Advanced(f, seen) = IF seen = {} THEN [g EXCEPT !.last = Never]
                    ELSE [g EXCEPT !.used = g.used + Charged(g), !.last = now]
  BY DEF Advanced, g
<1>5. g.date * DayLength \in Nat /\ g.used \in Nat
  BY <1>1, <1>2 DEF File
<1>6. CASE seen = {}
  <2>1. Advanced(f, seen) \in File
    BY <1>1, <1>4, <1>6 DEF File
  <2>2. Advanced(f, seen).last = Never /\ Advanced(f, seen).date = g.date /\ Advanced(f, seen).used = g.used
    BY <1>1, <1>4, <1>6 DEF File
  <2>3. g.date * DayLength + g.used <= now
    BY <1>1, <1>2, <1>5 DEF Sound, File, Never
  <2> QED BY <2>1, <2>2, <2>3 DEF Sound
<1>7. CASE seen # {}
  <2>1. Advanced(f, seen) \in File
    <3>1. \A u \in Nat, t \in 0..MaxTime : [g EXCEPT !.used = u, !.last = t] \in File
      BY <1>1 DEF File
    <3>2. g.used + Charged(g) \in Nat
      BY <1>3, <1>5
    <3> QED BY <1>4, <1>7, <3>1, <3>2
  <2>2. /\ Advanced(f, seen).last = now /\ Advanced(f, seen).date = g.date
        /\ Advanced(f, seen).used = g.used + Charged(g)
    BY <1>1, <1>4, <1>7 DEF File
  <2>3. g.date * DayLength + (g.used + Charged(g)) <= now
    <3>1. g.last # Never => g.date * DayLength + g.used <= g.last
      BY <1>1 DEF Sound
    <3>2. g.last = Never => g.date * DayLength + g.used <= now
      BY <1>1 DEF Sound
    <3>3. g.last \in Int
      BY <1>1, <1>2 DEF File, Never
    <3> QED BY <1>2, <1>3, <1>5, <3>1, <3>2, <3>3
  <2> QED BY <1>2, <2>1, <2>2, <2>3 DEF Sound, Never
<1> QED BY <1>6, <1>7

LEMMA TalliedSound ==
  ASSUME NEW f \in File, NEW seen, now \in 0..MaxTime, Sound(f, now)
  PROVE  Tallied(Recent(f), seen) \in File /\ Sound(Tallied(Recent(f), seen), now)
<1>1. \A h : \A k \in [Image -> SUBSET (0..MaxTime)] :
        h \in File /\ Sound(h, now)
        => [h EXCEPT !.kills = k] \in File /\ Sound([h EXCEPT !.kills = k], now)
  BY DEF File, Sound
<1>2. Recent(f) \in File /\ Sound(Recent(f), now)
  <2>1. [i \in Image |-> {t \in f.kills[i] : now - t <= StormWindow}]
          \in [Image -> SUBSET (0..MaxTime)]
    BY DEF File
  <2> QED BY <1>1, <2>1 DEF Recent
<1>3. [i \in Image |-> IF i \in seen THEN Recent(f).kills[i] \union {now}
                       ELSE Recent(f).kills[i]] \in [Image -> SUBSET (0..MaxTime)]
  BY <1>2 DEF File
<1> QED BY <1>1, <1>2, <1>3 DEF Tallied
-----------------------------------------------------------------------------
LEMMA InitInv == Init => Inv
<1> SUFFICES ASSUME Init PROVE Inv
  OBVIOUS
<1>1. 0 \in 0..MaxTime /\ 0 \in Nat /\ 0 \in 0..MaxEvents /\ Limits \subseteq Nat
  BY KillLaneConstants DEF KillLaneConstants
<1>2. 0 * DayLength <= 0
  BY KillLaneConstants DEF KillLaneConstants
<1>3. NewFile(0) \in File /\ Sound(NewFile(0), 0)
  BY <1>1, <1>2, NewFileSound
<1>4. run \in [pc : {"idle", "pausing", "waking", "saving"}, loaded : File, next : File]
      /\ Sound(run.loaded, now) /\ Sound(run.next, now)
  BY <1>3 DEF Init, Idle
<1>5. TypeOK
  BY <1>1, <1>3, <1>4 DEF Init, TypeOK
<1> QED BY <1>3, <1>4, <1>5 DEF Init, Inv, Ledger

LEMMA InvIdle ==
  ASSUME Inv
  PROVE  Idle \in [pc : {"idle", "pausing", "waking", "saving"}, loaded : File, next : File]
         /\ Sound(Idle.loaded, now) /\ Sound(Idle.next, now)
<1>1. 0 \in 0..MaxTime /\ now \in Nat /\ 0 * DayLength <= now
  BY KillLaneConstants DEF KillLaneConstants, Inv, TypeOK
<1> QED BY <1>1, NewFileSound DEF Idle

\* The guard's own steps.
LEMMA GuardInv ==
  ASSUME Inv, GuardStep
  PROVE  Typed' /\ Ledger'
<1> USE DEF Typed, Ledger, Sound
<1>0. TypeOK /\ Ledger /\ now \in Nat
  BY KillLaneConstants DEF KillLaneConstants, Inv, TypeOK
<1> HIDE DEF Sound
<1>1. ASSUME NEW seen \in Looks, RobloxRun(seen) PROVE Typed' /\ Ledger'
  <2>1. Advanced(file, seen) \in File /\ Sound(Advanced(file, seen), now)
    BY <1>0, AdvancedSound DEF TypeOK
  <2>0. slack' \in Nat /\ events' \in 0..MaxEvents
    BY <1>0, <1>1, KillLaneConstants DEF RobloxRun, Looked, Wrong, Event, TypeOK, KillLaneConstants
  <2>2. CASE OverBudget(Advanced(file, seen), seen)
    <3>1. /\ run' = [pc |-> "pausing", loaded |-> file, next |-> Advanced(file, seen)]
          /\ file' = file /\ now' = now
      BY <1>1, <2>2 DEF RobloxRun
    <3> HIDE DEF Ledger
    <3>2. Typed'
      BY <1>0, <1>1, <2>0, <2>1, <3>1 DEF RobloxRun, TypeOK
    <3>3. Ledger'
      BY <1>0, <2>1, <3>1 DEF Ledger
    <3> QED BY <3>2, <3>3
  <2>3. CASE ~OverBudget(Advanced(file, seen), seen)
    <3>1. file' = Advanced(file, seen) /\ run' = run /\ now' = now
      BY <1>1, <2>3 DEF RobloxRun
    <3> QED BY <1>0, <1>1, <2>0, <2>1, <3>1 DEF RobloxRun, TypeOK
  <2> QED BY <2>2, <2>3
<1>2. ASSUME NEW seen \in Looks, AppRun(seen) PROVE Typed' /\ Ledger'
  <2>1. slack' \in Nat /\ events' \in 0..MaxEvents
    BY <1>0, <1>2, KillLaneConstants DEF AppRun, Looked, Wrong, Event, TypeOK, KillLaneConstants
  <2>. QED BY <1>0, <1>2, <2>1 DEF AppRun, TypeOK
<1>3. ASSUME Save PROVE Typed' /\ Ledger'
  BY <1>0, <1>3, InvIdle DEF Save, TypeOK, Inv
<1>4. ASSUME NEW seen \in Looks, NEW failed \in SUBSET seen, RobloxKill(seen, failed)
      PROVE  Typed' /\ Ledger'
  <2>1. slack' \in Nat /\ events' \in 0..MaxEvents /\ running' \subseteq Image
    BY <1>0, <1>4, KillLaneConstants
    DEF RobloxKill, Ended, Looks, Wrong, Event, TypeOK, KillLaneConstants
  <2>. QED BY <1>0, <1>4, <2>1 DEF RobloxKill, TypeOK
<1>5. ASSUME NEW seen \in Looks, NEW failed \in SUBSET seen, AppKill(seen, failed)
      PROVE  Typed' /\ Ledger'
  <2>1. /\ Tallied(Recent(run.loaded), seen) \in File
        /\ Sound(Tallied(Recent(run.loaded), seen), now)
    BY <1>0, TalliedSound DEF TypeOK
  <2>2. reported' \in BOOLEAN
    BY <1>0, <1>5 DEF AppKill, Storming, TypeOK
  <2>3. /\ run' = [run EXCEPT !.pc = "saving", !.next = Tallied(Recent(run.loaded), seen)]
        /\ file' = file /\ now' = now
    BY <1>5 DEF AppKill, Decided
  <2>4. Typed'
    <3>1. run' \in [pc : {"idle", "pausing", "waking", "saving"}, loaded : File, next : File]
      BY <1>0, <2>1, <2>3 DEF TypeOK
    <3>2. slack' \in Nat /\ events' \in 0..MaxEvents /\ running' \subseteq Image
      BY <1>0, <1>5, KillLaneConstants
      DEF AppKill, Ended, Looks, Wrong, Event, TypeOK, KillLaneConstants
    <3> QED BY <1>0, <1>5, <2>2, <3>1, <3>2 DEF AppKill, TypeOK
  <2>5. run'.loaded = run.loaded /\ run'.next = Tallied(Recent(run.loaded), seen)
    BY <1>0, <2>3 DEF TypeOK
  <2> QED BY <1>0, <2>1, <2>3, <2>4, <2>5
<1> QED BY <1>1, <1>2, <1>3, <1>4, <1>5, GuardStep DEF GuardStep

\* The parent's controls.
LEMMA ControlInv ==
  ASSUME Inv, Control
  PROVE  Typed' /\ Ledger'
<1>0. TypeOK /\ Ledger /\ now \in Nat /\ Today \in Nat /\ MaxEvents \in Nat
      /\ Limits \subseteq Nat /\ Grants \subseteq Nat /\ Leaves \subseteq Nat
  BY KillLaneConstants, TodaySound DEF KillLaneConstants, Inv, TypeOK
<1>1. \A b \in Nat : /\ [Rolled(file) EXCEPT !.bonus = b] \in File
                     /\ Sound([Rolled(file) EXCEPT !.bonus = b], now)
  <2>1. Rolled(file) \in File /\ Sound(Rolled(file), now)
    BY <1>0, RolledSound DEF TypeOK, Ledger
  <2> QED BY <2>1 DEF File, Sound
<1>2. \A u \in Nat : /\ [file EXCEPT !.unlock = u] \in File
                     /\ Sound([file EXCEPT !.unlock = u], now)
  BY <1>0 DEF File, Sound, TypeOK, Ledger
<1>3. ASSUME NEW limit \in Limits, SetLimit(limit) PROVE Typed' /\ Ledger'
  BY <1>0, <1>3 DEF SetLimit, Event, TypeOK, Typed, Ledger
<1>4. ASSUME NEW bonus \in Grants, SetBonus(bonus) PROVE Typed' /\ Ledger'
  <2>1. bonus \in Nat
    BY <1>0
  <2> QED BY <1>0, <1>1, <1>4, <2>1 DEF SetBonus, Event, TypeOK, Typed, Ledger
<1>5. ASSUME NEW enabled \in BOOLEAN, SetEnabled(enabled) PROVE Typed' /\ Ledger'
  BY <1>0, <1>5 DEF SetEnabled, Event, TypeOK, Typed, Ledger
<1>6. ASSUME NEW minutes \in Leaves, Unlock(minutes) PROVE Typed' /\ Ledger'
  <2> DEFINE until == IF minutes = 0 THEN 0 ELSE now + minutes
  <2>1. until \in Nat
    BY <1>0
  <2>2. file' = [file EXCEPT !.unlock = until]
    BY <1>6 DEF Unlock
  <2> HIDE DEF until
  <2> QED BY <1>0, <1>2, <1>6, <2>1, <2>2 DEF Unlock, Event, TypeOK, Typed, Ledger
<1>7. ASSUME ConfigDamaged PROVE Typed' /\ Ledger'
  <2>1. DefaultLimit \in Limits
    BY KillLaneConstants DEF KillLaneConstants
  <2> QED BY <1>0, <1>7, <2>1 DEF ConfigDamaged, Strict, Event, TypeOK, Typed, Ledger
<1> QED BY <1>3, <1>4, <1>5, <1>6, <1>7, Control DEF Control

\* The machine and the child.
LEMMA WorldInv ==
  ASSUME Inv, World
  PROVE  Typed' /\ Ledger'
<1>0. TypeOK /\ Ledger /\ now \in Nat /\ MaxEvents \in Nat /\ MaxTime \in Nat /\ Nap \in Nat
  BY KillLaneConstants DEF KillLaneConstants, Inv, TypeOK
<1>1. ASSUME now' \in Nat, now <= now', file' = file, run'.loaded = run.loaded,
             run'.next = run.next
      PROVE  Ledger'
  BY <1>0, <1>1, SoundLater DEF Ledger, TypeOK
<1>2. ASSUME NEW image \in Image, Launch(image) PROVE Typed' /\ Ledger'
  BY <1>0, <1>2 DEF Launch, Unwatched, Event, TypeOK, Typed, Ledger
<1>3. ASSUME NEW image \in Image, Quit(image) PROVE Typed' /\ Ledger'
  BY <1>0, <1>3 DEF Quit, Unwatched, Event, TypeOK, Typed, Ledger
<1>4. ASSUME Pass PROVE Typed' /\ Ledger'
  <2>1. reported' \in BOOLEAN
    BY <1>0, <1>4 DEF Pass, TypeOK
  <2>2. run' \in [pc : {"idle", "pausing", "waking", "saving"}, loaded : File, next : File]
        /\ run'.loaded = run.loaded /\ run'.next = run.next
    BY <1>0, <1>4 DEF Pass, TypeOK
  <2>3. Typed'
    BY <1>0, <1>4, <2>1, <2>2 DEF Pass, TypeOK, Typed
  <2>4. Ledger'
    BY <1>0, <1>1, <1>4, <2>2 DEF Pass
  <2> QED BY <2>3, <2>4
<1>5. ASSUME Trigger PROVE Typed' /\ Ledger'
  BY <1>0, <1>5 DEF Trigger, TypeOK, Typed, Ledger
<1>6. ASSUME Sleep PROVE Typed' /\ Ledger'
  <2>1. reported' \in BOOLEAN
    BY <1>0, <1>6 DEF Sleep, TypeOK
  <2>2. Typed'
    BY <1>0, <1>6, <2>1 DEF Sleep, Unwatched, Event, TypeOK, Typed
  <2>3. Ledger'
    BY <1>0, <1>1, <1>6 DEF Sleep, Unwatched
  <2> QED BY <2>2, <2>3
<1>7. ASSUME RunCut PROVE Typed' /\ Ledger'
  BY <1>0, <1>7, InvIdle DEF RunCut, Wrong, Event, TypeOK, Typed, Ledger
<1>8. ASSUME Damaged PROVE Typed' /\ Ledger'
  <2>1. NewFile(Today) \in File /\ Sound(NewFile(Today), now)
    BY <1>0, TodaySound, NewFileSound DEF TypeOK
  <2>2. (IF file.date = Today THEN file.used ELSE 0) \in Nat
    BY <1>0 DEF TypeOK, File
  <2>3. slack' \in Nat
    BY <1>0, <1>8, <2>2 DEF Damaged, TypeOK
  <2>. QED BY <1>0, <1>8, <2>1, <2>3 DEF Damaged, Event, TypeOK, Typed, Ledger
<1> QED BY <1>2, <1>3, <1>4, <1>5, <1>6, <1>7, <1>8, World DEF World

LEMMA NextInv == Inv /\ [Next]_vars => Inv'
<1> SUFFICES ASSUME Inv, [Next]_vars PROVE Inv'
  OBVIOUS
<1>1. CASE Next
  <2>1. Typed' /\ Ledger'
    BY <1>1, GuardInv, ControlInv, WorldInv DEF Next, Witnessed
  <2>2. Allowed' \in Nat
    <3>1. Limits \subseteq Nat
      BY KillLaneConstants DEF KillLaneConstants
    <3>2. config'.limit \in Nat /\ file'.bonus \in Nat
      BY <2>1, <3>1 DEF Typed, File
    <3> QED BY <3>2 DEF Allowed
  <2>3. allowance' \in Nat
    BY <1>1, <2>2 DEF Next, Witnessed, Inv, TypeOK
  <2>4. TypeOK'
    BY <2>1, <2>3 DEF Typed, TypeOK
  <2> QED BY <2>1, <2>4 DEF Inv
<1>2. CASE UNCHANGED vars
  BY <1>2 DEF vars, Inv, TypeOK, Ledger, Sound
<1> QED BY <1>1, <1>2

THEOREM InvAlways == Spec => []Inv
BY InitInv, NextInv, PTL DEF Spec

\* Every variable keeps its type, for every lane.
THEOREM KillLaneTypes == Spec => []TypeOK
<1>1. Inv => TypeOK
  BY DEF Inv
<1> QED BY <1>1, InvAlways, PTL

\* No minute is charged to a day it does not belong to, whatever the length of the
\* day, the naps and the controls in the middle of a run.
THEOREM MinutesAreOfToday == Spec => []ChargeIsToday
<1>1. Inv => ChargeIsToday
  <2> SUFFICES ASSUME Inv, file.date = Today PROVE file.used <= now % DayLength
    BY DEF ChargeIsToday
  <2>1. /\ now \in Nat /\ DayLength \in Nat \ {0} /\ file.used \in Nat
        /\ file.last \in Int /\ Sound(file, now)
    BY KillLaneConstants DEF KillLaneConstants, Inv, Ledger, TypeOK, File, Never
  <2>2. /\ Today \in Nat /\ now % DayLength \in Nat
        /\ Today * DayLength + (now % DayLength) = now
    BY <2>1, DivMod DEF Today
  <2>3. Today * DayLength \in Nat
    BY <2>1, <2>2
  <2>4. Today * DayLength + file.used <= now
    BY <2>1, <2>3, file.date = Today DEF Sound
  <2> QED BY <2>1, <2>2, <2>3, <2>4
<1> QED BY <1>1, InvAlways, PTL
-----------------------------------------------------------------------------
(* Storms are reported *)

\* The kills of one image that count at a time, and whether some image storms.
Within(kills, i, time) == {t \in kills[i] : time - t <= StormWindow}
Storms(kills, time) == \E i \in Image : Cardinality(Within(kills, i, time)) >= StormKills

\* A run that pauses holds the tally of the file, and the tally about to be saved loses
\* nothing of it that still counts.
Fought ==
  /\ lane = "roblox" =>
       file.kills = NoKills /\ run.loaded.kills = NoKills /\ run.next.kills = NoKills
  /\ lane # "roblox" /\ run.pc # "idle" => file.kills \in {run.loaded.kills, NoKills}
  /\ lane # "roblox" /\ Paused => (Storms(run.loaded.kills, now) => reported)
  /\ run.pc = "saving" =>
       /\ Storms(run.next.kills, now) => reported
       /\ \A i \in Image : Within(file.kills, i, now) \subseteq run.next.kills[i]
  /\ Storms(file.kills, now) => reported

Tally == [Image -> SUBSET (0..MaxTime)]

LEMMA StormTypes ==
  ASSUME Inv
  PROVE  /\ now \in Int /\ StormWindow \in Nat /\ StormKills \in Nat \ {0} /\ MaxTime \in Nat
         /\ file.kills \in Tally /\ run.loaded.kills \in Tally /\ run.next.kills \in Tally
         /\ run.loaded \in File /\ run.next \in File /\ file \in File
BY KillLaneConstants DEF KillLaneConstants, Inv, TypeOK, File, Tally

LEMMA NoStorm ==
  ASSUME NEW time
  PROVE  ~Storms(NoKills, time) /\ \A i \in Image : Within(NoKills, i, time) = {}
<1>1. \A i \in Image : Within(NoKills, i, time) = {}
  BY DEF Within, NoKills
<1>2. Cardinality({}) = 0
  BY FS_EmptySet
<1> QED BY <1>1, <1>2, KillLaneConstants DEF Storms, KillLaneConstants

LEMMA CountsAreFinite ==
  ASSUME NEW k \in Tally, NEW i \in Image, NEW t
  PROVE  IsFiniteSet(Within(k, i, t)) /\ Cardinality(Within(k, i, t)) \in Nat
<1>1. IsFiniteSet(0..MaxTime)
  BY KillLaneConstants, FS_Interval DEF KillLaneConstants
<1>2. Within(k, i, t) \in SUBSET (0..MaxTime)
  BY DEF Within, Tally
<1>3. IsFiniteSet(Within(k, i, t))
  BY <1>1, <1>2, FS_Subset
<1> QED BY <1>3, FS_CardinalityType

\* A tally that counts more at a time storms if the other does.
LEMMA StormsMore ==
  ASSUME NEW k \in Tally, NEW l \in Tally, NEW s, NEW t, StormKills \in Nat,
         \A i \in Image : Within(k, i, s) \subseteq Within(l, i, t),
         Storms(k, s)
  PROVE  Storms(l, t)
<1>1. PICK i \in Image : Cardinality(Within(k, i, s)) >= StormKills
  BY DEF Storms
<1>2. /\ Cardinality(Within(k, i, s)) \in Nat /\ Cardinality(Within(l, i, t)) \in Nat
      /\ IsFiniteSet(Within(l, i, t))
  BY CountsAreFinite
<1>3. Cardinality(Within(k, i, s)) <= Cardinality(Within(l, i, t))
  BY <1>2, FS_Subset
<1>4. Cardinality(Within(l, i, t)) >= StormKills
  BY <1>1, <1>2, <1>3
<1> QED BY <1>4 DEF Storms

\* What is recent counts.
LEMMA RecentStorms ==
  ASSUME NEW f \in File
  PROVE  /\ Recent(f).kills = [i \in Image |-> Within(f.kills, i, now)]
         /\ Storming(Recent(f)) <=> Storms(f.kills, now)
<1>1. Recent(f).kills = [i \in Image |-> Within(f.kills, i, now)]
  BY DEF Recent, File, Within
<1> QED BY <1>1 DEF Storming, Storms

\* Nothing but the time or other parts of the file and the run change.
LEMMA FoughtQuietly ==
  ASSUME Inv, Fought, lane' = lane, now' = now, reported' = reported,
         file'.kills = file.kills, run' = run
  PROVE  Fought'
BY DEF Fought, Storms, Within, Paused

\* What a run that goes on holds, or the file.
Held == CASE run.pc = "idle" -> file [] Paused -> run.loaded [] OTHER -> run.next

\* Time goes by: what still counted before is all that counts, unless a fight is over.
LEMMA FoughtLater ==
  ASSUME Inv, Fought, lane # "roblox", lane' = lane, file' = file, now' \in Int, now <= now',
         reported' = (reported /\ ~Calmed(now')),
         run'.loaded = run.loaded, run'.next = run.next,
         run'.pc = "saving" <=> run.pc = "saving", run'.pc = "idle" <=> run.pc = "idle"
  PROVE  Fought'
<1> USE StormTypes
<1>1. \A kills \in Tally : \A i \in Image : Within(kills, i, now') \subseteq Within(kills, i, now)
  BY DEF Within, Tally
<1>2. \A kills \in Tally : Storms(kills, now') => Storms(kills, now)
  BY <1>1, StormsMore
<1>3. Calmed(now') <=> ~Storms(Held.kills, now')
  <2> DEFINE kills == Held.kills
  <2>0. kills \in Tally
    BY DEF Held
  <2>1. \A i \in Image : Cardinality(Within(kills, i, now')) \in Nat
    BY <2>0, CountsAreFinite
  <2>2. Calmed(now') <=> \A i \in Image : Cardinality(Within(kills, i, now')) < StormKills
    BY DEF Calmed, Held, Within
  <2> HIDE DEF kills
  <2>3. Calmed(now') <=> ~Storms(kills, now')
    BY <2>1, <2>2 DEF Storms
  <2> QED BY <2>3 DEF kills
<1>4. CASE run.pc = "saving"
  <2>1. \A i \in Image : Within(file.kills, i, now') \subseteq Within(run.next.kills, i, now')
    BY <1>1, <1>4 DEF Fought, Within
  <2>2. Storms(file.kills, now') => Storms(run.next.kills, now')
    BY <2>1, StormsMore
  <2>3. \A i \in Image : Within(file.kills, i, now') \subseteq run.next.kills[i]
    BY <2>1 DEF Within
  <2>4. Storms(run.next.kills, now') => reported'
    BY <1>2, <1>3, <1>4 DEF Fought, Held, Paused
  <2> QED BY <1>4, <2>2, <2>3, <2>4 DEF Fought, Storms, Within, Paused
<1>5. CASE run.pc = "idle"
  <2>1. Storms(file.kills, now') => reported'
    BY <1>2, <1>3, <1>5 DEF Fought, Held, Paused
  <2>2. run'.pc = "idle" /\ ~Paused'
    BY <1>5 DEF Paused
  <2>3. Storms(file.kills, now)' => reported'
    BY <2>1 DEF Storms, Within
  <2> QED BY <2>2, <2>3 DEF Fought
<1>6. CASE run.pc \in {"pausing", "waking"}
  <2>1. Storms(run.loaded.kills, now') => reported'
    BY <1>2, <1>3, <1>6 DEF Fought, Held, Paused
  <2>2. Storms(file.kills, now') => reported'
    BY <1>6, <2>1, NoStorm DEF Fought
  <2>3. lane' # "roblox" /\ file'.kills \in {run'.loaded.kills, NoKills} /\ run'.pc # "saving"
    BY <1>6 DEF Fought
  <2>4. Storms(run.loaded.kills, now)' => reported'
    BY <2>1 DEF Storms, Within
  <2>5. Storms(file.kills, now)' => reported'
    BY <2>2 DEF Storms, Within
  <2> QED BY <2>3, <2>4, <2>5 DEF Fought
<1>7. run.pc \in {"idle", "pausing", "waking", "saving"}
  BY DEF Inv, TypeOK
<1> QED BY <1>4, <1>5, <1>6, <1>7

LEMMA FoughtInit == Init => Fought
<1> SUFFICES ASSUME Init PROVE Fought
  OBVIOUS
<1>1. /\ file.kills = NoKills /\ run.loaded.kills = NoKills /\ run.next.kills = NoKills
      /\ run.pc = "idle"
  BY DEF Init, Idle, NewFile
<1> QED BY <1>1, NoStorm DEF Fought, Paused

\* In the lane that kills nobody without a budget there is no tally at all.
LEMMA FoughtRoblox ==
  ASSUME Inv, Fought, lane = "roblox", Next
  PROVE  Fought'
<1> USE DEF Fought
<1>1. SUFFICES /\ lane' = "roblox" /\ file'.kills = NoKills
               /\ run'.loaded.kills = NoKills /\ run'.next.kills = NoKills
  BY NoStorm DEF Storms, Within
<1>2. /\ Idle.loaded.kills = NoKills /\ Idle.next.kills = NoKills
      /\ Rolled(file).kills = NoKills /\ Rolled(file) \in File
  BY RolledSound DEF Idle, NewFile, Rolled, Inv, TypeOK, Ledger
<1>3. \A seen : Advanced(file, seen).kills = NoKills
  BY <1>2 DEF Advanced, File
<1>4. file \in File /\ run \in [pc : {"idle", "pausing", "waking", "saving"}, loaded : File, next : File]
  BY DEF Inv, TypeOK
<1>5. \A bonus : [Rolled(file) EXCEPT !.bonus = bonus].kills = NoKills
  BY <1>2 DEF File
<1>6. ASSUME GuardStep PROVE lane' = "roblox" /\ file'.kills = NoKills
                            /\ run'.loaded.kills = NoKills /\ run'.next.kills = NoKills
  BY <1>2, <1>3, <1>4, <1>6 DEF GuardStep, RobloxRun, AppRun, Save, RobloxKill, AppKill
<1>7. ASSUME Control PROVE lane' = "roblox" /\ file'.kills = NoKills
                          /\ run'.loaded.kills = NoKills /\ run'.next.kills = NoKills
  BY <1>4, <1>5, <1>7 DEF Control, SetLimit, SetBonus, SetEnabled, Unlock, ConfigDamaged, Strict
<1>8. ASSUME World PROVE lane' = "roblox" /\ file'.kills = NoKills
                        /\ run'.loaded.kills = NoKills /\ run'.next.kills = NoKills
  BY <1>2, <1>4, <1>8 DEF World, Launch, Quit, Pass, Trigger, Sleep, RunCut, Damaged, Unwatched,
       NewFile
<1> QED BY <1>6, <1>7, <1>8 DEF Next, Witnessed

\* A run of the other lanes: what was loaded is what the file says, so the tally crosses
\* the threshold in the run that reports it.
LEMMA FoughtKill ==
  ASSUME Inv, Fought, NEW seen \in Looks, NEW failed, AppKill(seen, failed)
  PROVE  Fought'
<1> DEFINE tallied == Tallied(Recent(run.loaded), seen)
<1>1. /\ lane' = lane /\ lane # "roblox" /\ now' = now /\ file' = file
      /\ run' = [run EXCEPT !.pc = "saving", !.next = tallied]
      /\ reported' = IF ~StormBefore THEN Storming(tallied) ELSE reported
  BY DEF AppKill, Decided
<1>2. /\ file.kills \in {run.loaded.kills, NoKills}
      /\ Storms(run.loaded.kills, now) => reported
  BY <1>1 DEF AppKill, Paused, Fought
<1>3. StormBefore <=> Storms(run.loaded.kills, now)
  BY RecentStorms, StormTypes DEF StormBefore
<1>4. /\ run'.pc = "saving" /\ run'.loaded = run.loaded /\ run'.next = tallied
  BY <1>1 DEF Inv, TypeOK
<1>5. tallied.kills = [i \in Image |-> Within(run.loaded.kills, i, now) \union (IF i \in seen THEN {now} ELSE {})]
  <2>1. Recent(run.loaded) \in File
    BY StormTypes DEF Recent, File
  <2>2. Recent(run.loaded).kills = [i \in Image |-> Within(run.loaded.kills, i, now)]
    BY RecentStorms, StormTypes
  <2> QED BY <2>1, <2>2 DEF Tallied, File
<1>6. \A i \in Image : Within(tallied.kills, i, now) = tallied.kills[i]
  BY <1>5, StormTypes DEF Within, Tally
<1>7. Storms(tallied.kills, now) <=> Storming(tallied)
  BY <1>6 DEF Storms, Storming
<1> HIDE DEF tallied
<1>8. Storms(file.kills, now) => Storms(run.loaded.kills, now)
  BY <1>2, NoStorm
<1>9. Storms(tallied.kills, now) => reported'
  BY <1>1, <1>2, <1>3, <1>7
<1>10. Storms(file.kills, now) => reported'
  BY <1>1, <1>2, <1>3, <1>8
<1>11. \A i \in Image : Within(file.kills, i, now) \subseteq tallied.kills[i]
  BY <1>2, <1>5, NoStorm
<1> QED BY <1>1, <1>2, <1>4, <1>9, <1>10, <1>11 DEF Fought, Storms, Within, Paused

LEMMA FoughtApps ==
  ASSUME Inv, Fought, lane # "roblox", Next
  PROVE  Fought'
<1>1. CASE GuardStep
  <2>1. ASSUME NEW seen \in Looks, AppRun(seen) PROVE Fought'
    <3>1. CASE Offending(file, seen)
      BY <2>1, <3>1 DEF AppRun, Fought, Storms, Within, Paused
    <3>2. CASE ~Offending(file, seen)
      BY <2>1, <3>2, FoughtQuietly DEF AppRun
    <3> QED BY <3>1, <3>2
  <2>2. ASSUME Save PROVE Fought'
    BY <2>2 DEF Save, Fought, Storms, Within, Idle, Paused
  <2> QED BY <1>1, <2>1, <2>2, FoughtKill DEF GuardStep, RobloxRun, RobloxKill
<1>2. CASE Control
  <2>1. \A until : [file EXCEPT !.unlock = until].kills = file.kills
    BY StormTypes DEF File
  <2> QED BY <1>2, <2>1, FoughtQuietly DEF Control, SetLimit, SetBonus, SetEnabled, Unlock, ConfigDamaged, Strict
<1>3. CASE World
  <2>1. ASSUME NEW image \in Image, Launch(image) \/ Quit(image) PROVE Fought'
    BY <2>1, FoughtQuietly DEF Launch, Quit, Unwatched
  <2>2. ASSUME Pass PROVE Fought'
    <3>1. run \in [pc : {"idle", "pausing", "waking", "saving"}, loaded : File, next : File]
      BY DEF Inv, TypeOK
    <3>2. /\ run'.loaded = run.loaded /\ run'.next = run.next
          /\ run'.pc = "saving" <=> run.pc = "saving"
          /\ run'.pc = "idle" <=> run.pc = "idle"
      BY <2>2, <3>1 DEF Pass
    <3>3. now' \in Int /\ now <= now' /\ now' = now + 1
      BY <2>2, StormTypes DEF Pass
    <3> QED BY <2>2, <3>2, <3>3, FoughtLater DEF Pass
  <2>3. ASSUME Trigger PROVE Fought'
    BY <2>3, FoughtQuietly DEF Trigger
  <2>4. ASSUME Sleep PROVE Fought'
    <3>1. now' \in Int /\ now <= now' /\ now' = now + Nap
      BY <2>4, StormTypes, KillLaneConstants DEF Sleep, KillLaneConstants
    <3> QED BY <2>4, <3>1, FoughtLater DEF Sleep, Unwatched
  <2>5. ASSUME RunCut PROVE Fought'
    <3>1. Idle.pc = "idle" /\ run' = Idle /\ file' = file /\ now' = now /\ lane' = lane /\ reported' = reported
      BY <2>5 DEF RunCut, Idle
    <3> QED BY <3>1 DEF Fought, Storms, Within, Paused
  <2>6. ASSUME Damaged PROVE Fought'
    <3>1. /\ file'.kills = NoKills /\ run' = run /\ now' = now /\ lane' = lane /\ reported' = reported
      BY <2>6 DEF Damaged, NewFile
    <3>2. ~Storms(file.kills, now)' /\ \A i \in Image : Within(file.kills, i, now)' = {}
      BY <3>1, NoStorm DEF Storms, Within
    <3> QED BY <3>1, <3>2 DEF Fought, Storms, Within, Paused
  <2> QED BY <1>3, <2>1, <2>2, <2>3, <2>4, <2>5, <2>6 DEF World
<1> QED BY <1>1, <1>2, <1>3 DEF Next, Witnessed

\* A respawn fight that the tally shows was reported, for any threshold and window, any
\* naps, cut runs and controls.
THEOREM StormsAreReported == Spec => []StormIsReported
<1>1. Inv /\ Fought /\ [Next]_vars => Fought'
  <2>1. ASSUME Inv, Fought, UNCHANGED vars PROVE Fought'
    BY <2>1 DEF vars, Fought, Storms, Within, Paused
  <2> QED BY <2>1, FoughtRoblox, FoughtApps
<1>2. Inv /\ Fought => StormIsReported
  BY RecentStorms, StormTypes DEF Fought, StormIsReported
<1> QED BY <1>1, <1>2, FoughtInit, InvAlways, PTL DEF Spec
-----------------------------------------------------------------------------
(* Sessions are bounded *)

UsedToday(f) == IF f.date = Today THEN f.used ELSE 0
Seen(f) == IF f.date = Today /\ f.last # Never THEN 1 ELSE 0

\* A session is charged to a file but for the minute before its first sighting, two
\* minutes for each run that went wrong, and some minutes more.
Owes(f, extra) == session <= UsedToday(f) + Seen(f) + slack + extra

\* The minutes since the last run that looked.
Debt ==
  CASE run.pc = "waking" -> 2
    [] run.pc = "pausing" -> 1
    [] run.pc = "idle" /\ due -> 1
    [] OTHER -> 0

\* What is charged follows what is played, in the file and in what a run will save; and what
\* is played stays behind the allowance by the minutes since the last run.
Paid ==
  /\ session <= allowance + slack + Debt
  /\ Owes(file, Debt)
  /\ run.pc = "idle" /\ file.date = Today /\ file.last = now => Owes(file, 0)
  /\ run.pc # "idle" => Owes(run.next, IF run.pc = "waking" THEN 1 ELSE 0)

Bounded == lane = "roblox" => (running # {} => Paid) /\ SessionBounded

LEMMA SessionTypes ==
  ASSUME Inv
  PROVE  /\ now \in Nat /\ session \in Nat /\ slack \in Nat /\ allowance \in Nat /\ Debt \in 0..2
         /\ file \in File /\ run.next \in File
         /\ run \in [pc : {"idle", "pausing", "waking", "saving"}, loaded : File, next : File]
         /\ \A f \in File : UsedToday(f) \in Nat /\ Seen(f) \in 0..1
         /\ file.last \in Int /\ (file.last # Never => file.last <= now)
<1>1. file.last # Never => file.last <= now
  BY DEF Inv, Ledger, Sound
<1>2. MaxTime \in Nat
  BY KillLaneConstants DEF KillLaneConstants
<1>3. file \in File /\ file.last \in Int
  BY <1>2 DEF Inv, TypeOK, File, Never
<1> QED BY <1>1, <1>2, <1>3 DEF Inv, TypeOK, File, Debt, UsedToday, Seen

LEMMA SameDay ==
  ASSUME NEW n \in Nat, NEW d \in Nat \ {0}, (n + 1) % d # 0
  PROVE  (n + 1) \div d = n \div d
<1> DEFINE q == n \div d
           p == (n + 1) \div d
           r == n % d
           s == (n + 1) % d
<1>1. q \in Nat /\ r \in 0..(d - 1) /\ q * d + r = n
  BY SMT
<1>2. p \in Nat /\ s \in 1..(d - 1) /\ p * d + s = n + 1
  BY SMT
<1> HIDE DEF p, q, r, s
<1>3. \A a, b \in Nat : a < b => a * d + d <= b * d
  BY SMT
<1>4. ~(p < q) /\ ~(q < p)
  <2>1. p * d \in Nat /\ q * d \in Nat
    BY <1>1, <1>2
  <2> QED BY <1>1, <1>2, <1>3, <2>1
<1>5. p = q
  BY <1>1, <1>2, <1>4
<1> QED BY <1>5 DEF p, q

\* A session that has just begun owes nothing.
LEMMA PaidAfresh ==
  ASSUME Inv, session = 0
  PROVE  Paid /\ SessionBounded
BY SessionTypes DEF Paid, Owes, SessionBounded

LEMMA PaidIsBounded ==
  ASSUME Inv, Paid
  PROVE  SessionBounded
BY SessionTypes DEF Paid, SessionBounded

\* What an observation charges.
LEMMA ObservedPays ==
  ASSUME Inv, Paid, run.pc = "idle", due, running # {}
  PROVE  /\ Owes(Advanced(file, running), 0)
         /\ Advanced(file, running).date = Today /\ Advanced(file, running) \in File
         /\ UsedToday(Advanced(file, running)) = Advanced(file, running).used /\ Seen(Advanced(file, running)) = 1
<1> DEFINE g == Rolled(file)
           f == Advanced(file, running)
<1>1. g \in File /\ Sound(g, now) /\ f \in File /\ Gap \in Nat \ {0} /\ now \in Nat
  BY RolledSound, AdvancedSound, KillLaneConstants, SessionTypes
  DEF Inv, TypeOK, Ledger, KillLaneConstants
<1>2. /\ g.date = Today /\ UsedToday(file) = g.used
      /\ Seen(file) = IF g.last = Never THEN 0 ELSE 1
      /\ g.last # Never => file.date = Today /\ g.last = file.last
  BY DEF Rolled, NewFile, UsedToday, Seen
<1>3. f.date = g.date /\ f.used = g.used + Charged(g) /\ f.last = now
  BY <1>1 DEF Advanced, File
<1>4. UsedToday(f) = g.used + Charged(g) /\ Seen(f) = 1
  BY <1>1, <1>2, <1>3 DEF UsedToday, Seen, Never
<1>5. session <= g.used + Seen(file) + slack + 1
  BY <1>2, SessionTypes DEF Paid, Owes, Debt
<1>6. session <= g.used + Charged(g) + 1 + slack
  <2>1. CASE g.last = Never
    BY <1>1, <1>2, <1>5, <2>1, SessionTypes DEF Charged, File
  <2>2. CASE g.last # Never /\ g.last = now
    <3>1. session <= g.used + 1 + slack
      BY <1>1, <1>2, <2>2, SessionTypes DEF Paid, Owes, File
    <3>2. Charged(g) = 0
      BY <1>1, <2>2 DEF Charged, File
    <3> QED BY <1>1, <3>1, <3>2, SessionTypes DEF File
  <2>3. CASE g.last # Never /\ g.last # now
    <3>1. g.last \in Nat /\ g.last < now
      BY <1>1, <2>3 DEF Sound, File
    <3>2. Charged(g) \in Nat /\ Charged(g) >= 1
      BY <1>1, <2>3, <3>1 DEF Charged
    <3> QED BY <1>1, <1>2, <1>5, <2>3, <3>2, SessionTypes DEF File
  <2> QED BY <2>1, <2>2, <2>3
<1>7. Charged(g) \in Nat
  BY <1>1 DEF Charged, Sound, File, Never
<1>8. Owes(f, 0)
  BY <1>1, <1>4, <1>6, <1>7, SessionTypes DEF Owes, File
<1> QED BY <1>1, <1>2, <1>3, <1>4, <1>8

\* A run that goes wrong is paid for by the two minutes it costs.
LEMMA WrongRunPays ==
  ASSUME Inv, Inv', Paid, run.pc # "idle", slack' = slack + 2, session' = session, now' = now,
         allowance <= allowance', file' = file, Debt' = 0 \/ run'.pc = "idle",
         run'.pc = "idle" \/ (run'.pc = "saving" /\ run'.next = run.next /\ run.pc # "saving")
  PROVE  Paid'
<1> USE SessionTypes
<1>1. /\ UsedToday(file)' = UsedToday(file) /\ Seen(file)' = Seen(file)
  BY DEF UsedToday, Seen, Today
<1>2. /\ session <= allowance + slack + 2
      /\ session <= UsedToday(file) + Seen(file) + slack + 2
  BY DEF Paid, Owes
<1>3. Debt' \in 0..2 /\ allowance' \in Nat
  BY DEF Inv, TypeOK, Debt
<1>4. session' <= allowance' + slack' + Debt'
  BY <1>2, <1>3
<1>5. Owes(file, Debt)' /\ Owes(file, 0)'
  BY <1>1, <1>2, <1>3 DEF Owes
<1>6. CASE run'.pc = "idle"
  BY <1>4, <1>5, <1>6 DEF Paid
<1>7. CASE run'.pc # "idle"
  <2>1. UsedToday(run.next)' = UsedToday(run.next) /\ Seen(run.next)' = Seen(run.next)
    BY <1>7 DEF UsedToday, Seen, Today
  <2>2. session <= UsedToday(run.next) + Seen(run.next) + slack + 1
    BY <1>7 DEF Paid, Owes
  <2>3. session' <= UsedToday(run.next)' + Seen(run.next)' + slack' + 0
    BY <2>1, <2>2
  <2>4. Owes(run.next, IF run.pc = "waking" THEN 1 ELSE 0)'
    BY <1>7, <2>3 DEF Owes, UsedToday, Seen
  <2> QED BY <1>4, <1>5, <1>7, <2>4 DEF Paid
<1> QED BY <1>6, <1>7

\* The clock and the account stand still.
LEMMA PaidQuietly ==
  ASSUME Inv, Inv', Paid, slack' = slack, session' = session, now' = now,
         allowance <= allowance', run' = run, due' = due,
         UsedToday(file)' = UsedToday(file), Seen(file)' = Seen(file),
         file'.date = Today /\ file'.last = now => file.date = Today /\ file.last = now
  PROVE  Paid'
<1> USE SessionTypes
<1>1. Debt' = Debt /\ Today' = Today /\ allowance' \in Nat
  BY DEF Debt, Today, Inv, TypeOK
<1>2. UsedToday(run.next)' = UsedToday(run.next) /\ Seen(run.next)' = Seen(run.next)
  BY DEF UsedToday, Seen, Today
<1>3. session' <= allowance' + slack' + Debt'
  BY <1>1 DEF Paid
<1>4. Owes(file, Debt)'
  BY <1>1 DEF Paid, Owes
<1>5. (run.pc = "idle" /\ file.date = Today /\ file.last = now => Owes(file, 0))'
  BY <1>1 DEF Paid, Owes
<1>6. (run.pc # "idle" => Owes(run.next, IF run.pc = "waking" THEN 1 ELSE 0))'
  <2>1. ASSUME NEW e, Owes(run.next, e) PROVE Owes(run.next, e)'
    BY <1>2, <2>1 DEF Owes, UsedToday, Seen
  <2>2. \A e : Owes(run.next, e) => Owes(run.next, e)'
    BY <2>1
  <2> QED BY <2>2 DEF Paid
<1> QED BY <1>3, <1>4, <1>5, <1>6 DEF Paid

\* The allowance never falls below what it was in a session, nor below what is allowed now.
LEMMA AllowanceGrows ==
  ASSUME Inv, Inv', Next, session' # 0
  PROVE  allowance <= allowance' /\ Allowed' <= allowance'
<1>1. Allowed' \in Nat
  <2>1. config'.limit \in Nat /\ file'.bonus \in Nat
    BY KillLaneConstants DEF KillLaneConstants, Inv, TypeOK, File
  <2> QED BY <2>1 DEF Allowed
<1> QED BY <1>1, SessionTypes DEF Next, Witnessed

LEMMA ObservePays ==
  ASSUME Inv, Inv', Paid, RobloxRun(running), running # {}, allowance <= allowance', Allowed' <= allowance'
  PROVE  Paid'
<1> USE SessionTypes
<1> DEFINE f == Advanced(file, running)
<1>1. /\ run.pc = "idle" /\ due /\ due' = FALSE
      /\ now' = now /\ session' = session /\ slack' = slack /\ config' = config /\ running' = running
  BY DEF RobloxRun, Looked
<1>2. /\ Owes(f, 0) /\ f.date = Today /\ f \in File
      /\ UsedToday(f) = f.used /\ Seen(f) = 1
  BY <1>1, ObservedPays
<1>3. session <= f.used + 1 + slack /\ f.used \in Nat /\ allowance' \in Nat
  BY <1>2 DEF Owes, File, Inv, TypeOK
<1>4. Today' = Today
  BY <1>1 DEF Today
<1> HIDE DEF f
<1>5. CASE OverBudget(f, running)
  <2>1. run' = [pc |-> "pausing", loaded |-> file, next |-> f] /\ file' = file
    BY <1>5 DEF RobloxRun, f
  <2>2. Debt = 1 /\ Debt' = 1
    BY <1>1, <2>1 DEF Debt
  <2>3. session' <= allowance' + slack' + Debt'
    BY <1>1, <1>3, <2>2 DEF Paid
  <2>4. Owes(file, Debt)'
    BY <1>1, <1>4, <2>1, <2>2 DEF Paid, Owes, UsedToday, Seen
  <2>5. Owes(run.next, 0)'
    BY <1>1, <1>2, <1>4, <2>1 DEF Owes, UsedToday, Seen
  <2> QED BY <2>1, <2>3, <2>4, <2>5 DEF Paid
<1>6. CASE ~OverBudget(f, running)
  <2>0. config.limit \in Nat /\ f.bonus \in Nat
    BY <1>2, KillLaneConstants DEF KillLaneConstants, Inv, TypeOK, File
  <2>1. file' = f /\ run' = run
    BY <1>6 DEF RobloxRun, f
  <2>2. f.used < config.limit + f.bonus
    BY <1>3, <1>6, <2>0 DEF OverBudget, Spent
  <2>3. Allowed' = config.limit + f.bonus
    BY <1>1, <1>2, <1>4, <2>1 DEF Allowed
  <2>4. config.limit + f.bonus \in Nat
    BY <2>0
  <2>5. session' <= allowance' + slack' + 0
    BY <1>1, <1>3, <2>2, <2>3, <2>4
  <2>6. Owes(file, 0)'
    BY <1>1, <1>2, <1>4, <2>1 DEF Owes, UsedToday, Seen
  <2>7. Debt' = 0 /\ run'.pc = "idle"
    BY <1>1, <2>1 DEF Debt
  <2> QED BY <2>5, <2>6, <2>7 DEF Paid
<1> QED BY <1>5, <1>6

\* A run that saw nothing: the last sighting is forgotten, for two minutes of slack.
LEMMA BlindPays ==
  ASSUME Inv, Inv', Paid, RobloxRun({}), running # {}, allowance <= allowance'
  PROVE  Paid'
<1> USE SessionTypes
<1> DEFINE f == Advanced(file, {})
<1>1. /\ run.pc = "idle" /\ due /\ due' = FALSE /\ run' = run /\ file' = f
      /\ now' = now /\ session' = session /\ slack' = slack + 2
  BY DEF RobloxRun, Looked, Wrong, OverBudget
<1>2. Rolled(file) \in File /\ Rolled(file).date = Today /\ Rolled(file).used = UsedToday(file)
  BY RolledSound DEF Rolled, NewFile, UsedToday, Inv, TypeOK, Ledger
<1>3. /\ f = [Rolled(file) EXCEPT !.last = Never]
      /\ f.date = Today /\ f.used = UsedToday(file) /\ f.last = Never
  BY <1>2 DEF Advanced, File
<1> HIDE DEF f
<1>4. Today' = Today /\ Debt = 1 /\ Debt' = 0 /\ allowance' \in Nat
  BY <1>1 DEF Today, Debt, Inv, TypeOK
<1>5. UsedToday(file)' = UsedToday(file) /\ Seen(file)' = 0
  BY <1>1, <1>3, <1>4 DEF UsedToday, Seen
<1>6. session <= UsedToday(file) + Seen(file) + slack + 1 /\ session <= allowance + slack + 1
  BY <1>4 DEF Paid, Owes
<1>7. session' <= allowance' + slack' + Debt'
  BY <1>1, <1>4, <1>6
<1>8. Owes(file, 0)' /\ Owes(file, Debt)'
  BY <1>1, <1>4, <1>5, <1>6 DEF Owes
<1> QED BY <1>1, <1>7, <1>8 DEF Paid

\* A damaged file: what it had counted is added to the slack.
LEMMA DamagePays ==
  ASSUME Inv, Inv', Paid, Damaged, allowance <= allowance'
  PROVE  Paid'
<1> USE SessionTypes
<1>1. /\ file' = NewFile(Today) /\ run' = run /\ due' = due /\ now' = now /\ session' = session
      /\ slack' = slack + 2 + UsedToday(file)
  BY DEF Damaged, UsedToday
<1>2. Today' = Today /\ Debt' = Debt /\ allowance' \in Nat /\ slack' \in Nat
  BY <1>1 DEF Today, Debt, Inv, TypeOK
<1>3. UsedToday(file)' = 0 /\ Seen(file)' = 0 /\ file'.last = Never
  BY <1>1, <1>2 DEF UsedToday, Seen, NewFile
<1>4. session <= UsedToday(file) + Seen(file) + slack + Debt /\ session <= allowance + slack + Debt
  BY DEF Paid, Owes
<1>5. session' <= allowance' + slack' + Debt' /\ Owes(file, Debt)'
  BY <1>1, <1>2, <1>3, <1>4 DEF Owes
<1>6. file'.last # now'
  BY <1>1, <1>3 DEF Never
<1>7. (run.pc # "idle" => Owes(run.next, IF run.pc = "waking" THEN 1 ELSE 0))'
  <2>1. UsedToday(run.next)' = UsedToday(run.next) /\ Seen(run.next)' = Seen(run.next)
    BY <1>1, <1>2 DEF UsedToday, Seen
  <2>2. ASSUME NEW e \in {0, 1}, Owes(run.next, e) PROVE Owes(run.next, e)'
    BY <1>1, <2>1, <2>2 DEF Owes, UsedToday, Seen
  <2> QED BY <1>1, <2>2 DEF Paid
<1> QED BY <1>5, <1>6, <1>7 DEF Paid

\* A minute: the file's day goes on, and one more minute is owed.
LEMMA MinutePays ==
  ASSUME Inv, Inv', Paid, Pass, session' # 0, allowance <= allowance'
  PROVE  Paid'
<1> USE SessionTypes
<1>1. /\ ~due /\ now' = now + 1 /\ session' = session + 1 /\ slack' = slack /\ ~Midnight
      /\ file' = file /\ run.pc \in {"idle", "pausing"} /\ due' = (run.pc = "idle")
      /\ run'.next = run.next /\ run'.pc = IF run.pc = "idle" THEN "idle" ELSE "waking"
  BY DEF Pass
<1>2. Today' = Today
  BY <1>1, SameDay, KillLaneConstants DEF Midnight, Today, KillLaneConstants
<1>3. Debt' = Debt + 1
  <2>1. CASE run.pc = "idle"
    <3>1. Debt = 0 /\ Debt' = 1
      BY <1>1, <2>1 DEF Debt
    <3> QED BY <3>1
  <2>2. CASE run.pc = "pausing"
    <3>1. Debt = 1 /\ Debt' = 2
      BY <1>1, <2>2 DEF Debt
    <3> QED BY <3>1
  <2> QED BY <1>1, <2>1, <2>2
<1>4. /\ UsedToday(file)' = UsedToday(file) /\ Seen(file)' = Seen(file)
      /\ UsedToday(run.next)' = UsedToday(run.next) /\ Seen(run.next)' = Seen(run.next)
  BY <1>1, <1>2 DEF UsedToday, Seen
<1>5. session' <= allowance' + slack' + Debt'
  <2>1. allowance' \in Nat
    BY DEF Inv, TypeOK
  <2> QED BY <1>1, <1>3, <2>1 DEF Paid
<1>6. Owes(file, Debt)'
  BY <1>1, <1>3, <1>4 DEF Paid, Owes
<1>7. file'.last # now'
  BY <1>1 DEF Never
<1>8. CASE run.pc = "idle"
  BY <1>1, <1>5, <1>6, <1>7, <1>8 DEF Paid
<1>9. CASE run.pc = "pausing"
  <2>1. session <= UsedToday(run.next) + Seen(run.next) + slack
    BY <1>9 DEF Paid, Owes
  <2>2. session' <= UsedToday(run.next)' + Seen(run.next)' + slack' + 1
    BY <1>1, <1>4, <2>1
  <2>3. Owes(run.next, 1)'
    BY <2>2 DEF Owes, UsedToday, Seen
  <2> QED BY <1>1, <1>5, <1>6, <1>9, <2>3 DEF Paid
<1> QED BY <1>1, <1>8, <1>9

\* A night that does not end the day.
LEMMA NapPays ==
  ASSUME Inv, Inv', Paid, Sleep, session' # 0, allowance <= allowance'
  PROVE  Paid'
<1> USE SessionTypes
<1>1. /\ now' = now + Nap /\ (now + Nap) \div DayLength = Today
      /\ session' = session /\ slack' = slack
      /\ file' = file /\ run' = run /\ due' = due
  BY DEF Sleep, Unwatched
<1>2. Today' = Today /\ Debt' = Debt /\ allowance' \in Nat /\ now < now'
  BY <1>1, KillLaneConstants DEF Today, Debt, Inv, TypeOK, KillLaneConstants
<1>3. /\ UsedToday(file)' = UsedToday(file) /\ Seen(file)' = Seen(file)
      /\ UsedToday(run.next)' = UsedToday(run.next) /\ Seen(run.next)' = Seen(run.next)
  BY <1>1, <1>2 DEF UsedToday, Seen
<1>4. session' <= allowance' + slack' + Debt'
  BY <1>1, <1>2 DEF Paid
<1>5. Owes(file, Debt)'
  BY <1>1, <1>2, <1>3 DEF Paid, Owes
<1>6. file'.last # now'
  BY <1>1, <1>2 DEF Never
<1>7. \A e : Owes(run.next, e) => Owes(run.next, e)'
  BY <1>1, <1>3 DEF Owes
<1> QED BY <1>1, <1>4, <1>5, <1>6, <1>7 DEF Paid

\* Whatever is saved, the file before it or the run's copy, pays.
LEMMA SavePays ==
  ASSUME Inv, Inv', Paid, Save, allowance <= allowance'
  PROVE  Paid'
<1> USE SessionTypes
<1>1. /\ run.pc = "saving" /\ run' = Idle /\ now' = now /\ session' = session /\ slack' = slack
      /\ file' \in {file, run.next} /\ run'.pc = "idle"
  BY DEF Save, Idle
<1>2. Debt = 0 /\ Debt' \in Nat /\ Today' = Today /\ allowance' \in Nat
  BY <1>1 DEF Debt, Today, Inv, TypeOK
<1>3. Owes(file, 0) /\ Owes(run.next, 0)
  BY <1>1, <1>2 DEF Paid
<1>4. session' <= UsedToday(file)' + Seen(file)' + slack'
  BY <1>1, <1>2, <1>3 DEF Owes, UsedToday, Seen
<1>5. UsedToday(file)' \in Nat /\ Seen(file)' \in 0..1
  BY DEF UsedToday, Seen, Inv, TypeOK, File
<1>6. Owes(file, Debt)' /\ Owes(file, 0)'
  BY <1>1, <1>2, <1>4, <1>5 DEF Owes
<1>7. session' <= allowance' + slack' + Debt'
  BY <1>1, <1>2 DEF Paid
<1> QED BY <1>1, <1>6, <1>7 DEF Paid

\* In the next state somebody plays, and has played before.
LEMMA NextPays ==
  ASSUME Inv, Inv', Bounded, Next, lane = "roblox", running' # {}, session' # 0
  PROVE  Paid'
<1> USE SessionTypes
<1>0. allowance <= allowance' /\ Allowed' <= allowance'
  BY AllowanceGrows
<1>1. running # {} => Paid
  BY DEF Bounded
<1>2. CASE GuardStep
  <2>1. ASSUME NEW seen \in Looks, RobloxRun(seen) PROVE Paid'
    <3>1. running # {}
      BY <2>1 DEF RobloxRun
    <3>2. CASE seen = running
      BY <1>0, <1>1, <2>1, <3>1, <3>2, ObservePays
    <3>3. CASE seen = {}
      BY <1>0, <1>1, <2>1, <3>1, <3>3, BlindPays
    <3> QED BY <3>2, <3>3 DEF Looks
  <2>2. ASSUME Save PROVE Paid'
    BY <1>0, <1>1, <2>2, SavePays DEF Save
  <2>3. ASSUME NEW seen \in Looks, NEW failed \in SUBSET seen, RobloxKill(seen, failed) PROVE Paid'
    <3>1. /\ running # {} /\ slack' = slack + 2 /\ session' = session /\ now' = now /\ file' = file
          /\ run.pc \in {"pausing", "waking"} /\ run'.pc = "saving" /\ run'.next = run.next
      BY <2>3 DEF RobloxKill, Ended, Looks, Wrong, Paused
    <3>2. Debt' = 0
      BY <3>1 DEF Debt
    <3> QED BY <1>0, <1>1, <3>1, <3>2, WrongRunPays
  <2> QED BY <1>2, <2>1, <2>2, <2>3 DEF GuardStep, AppRun, AppKill
<1>3. CASE Control
  <2>1. ASSUME NEW limit \in Limits, SetLimit(limit) PROVE Paid'
    BY <1>0, <1>1, <2>1, PaidQuietly DEF SetLimit, UsedToday, Seen, Today
  <2>2. ASSUME NEW bonus \in Grants, SetBonus(bonus) PROVE Paid'
    <3>1. /\ file' = [Rolled(file) EXCEPT !.bonus = bonus] /\ now' = now /\ run' = run /\ due' = due
          /\ session' = session /\ slack' = slack /\ running' = running
      BY <2>2 DEF SetBonus
    <3>2. /\ file'.date = Today /\ Today' = Today
          /\ file'.used = UsedToday(file)
          /\ file'.last = IF file.date = Today THEN file.last ELSE Never
      BY <3>1 DEF Rolled, NewFile, UsedToday, File, Today
    <3>3. UsedToday(file)' = UsedToday(file) /\ Seen(file)' = Seen(file)
      BY <3>2 DEF UsedToday, Seen
    <3>4. file'.date = Today /\ file'.last = now => file.date = Today /\ file.last = now
      BY <3>2 DEF Never
    <3> QED BY <1>0, <1>1, <3>1, <3>3, <3>4, PaidQuietly
  <2>3. ASSUME ConfigDamaged PROVE Paid'
    BY <1>0, <1>1, <2>3, PaidQuietly DEF ConfigDamaged, Strict, UsedToday, Seen, Today
  <2> QED BY <1>3, <2>1, <2>2, <2>3 DEF Control, SetEnabled, Unlock
<1>4. CASE World
  <2>1. ASSUME NEW image \in Image, Launch(image) \/ Quit(image) PROVE Paid'
    <3>1. /\ running # {} /\ session' = session /\ slack' = slack
      BY <2>1 DEF Launch, Quit
    <3> QED BY <1>0, <1>1, <2>1, <3>1, PaidQuietly DEF Launch, Quit, Unwatched, UsedToday, Seen, Today
  <2>2. ASSUME Pass PROVE Paid'
    BY <1>0, <1>1, <2>2, MinutePays DEF Pass
  <2>3. ASSUME Trigger PROVE Paid'
    <3>1. /\ run.pc = "idle" /\ ~due /\ due' /\ running # {}
          /\ UNCHANGED <<now, file, run, session, slack>>
      BY <2>3 DEF Trigger
    <3>2. Debt = 0 /\ Debt' = 1 /\ allowance' \in Nat
      BY <3>1 DEF Debt, Inv, TypeOK
    <3>3. Owes(file, 0) /\ session <= allowance + slack
      BY <1>1, <3>1, <3>2 DEF Paid
    <3>4. \A e \in Nat : Owes(file, e)'
      BY <3>1, <3>3 DEF Owes, UsedToday, Seen, Today
    <3> QED BY <1>0, <3>1, <3>2, <3>3, <3>4 DEF Paid
  <2>4. ASSUME Sleep PROVE Paid'
    BY <1>0, <1>1, <2>4, NapPays DEF Sleep, Unwatched
  <2>5. ASSUME RunCut PROVE Paid'
    <3>1. Idle.pc = "idle"
      BY DEF Idle
    <3> QED BY <1>0, <1>1, <2>5, <3>1, WrongRunPays DEF RunCut, Wrong
  <2>6. ASSUME Damaged PROVE Paid'
    BY <1>0, <1>1, <2>6, DamagePays DEF Damaged
  <2> QED BY <1>4, <2>1, <2>2, <2>3, <2>4, <2>5, <2>6 DEF World
<1> QED BY <1>2, <1>3, <1>4 DEF Next, Witnessed

\* When nobody plays, the last session stays as it was.
LEMMA RestIsBounded ==
  ASSUME Inv, Inv', Bounded, Next, lane = "roblox", running' = {}, session' # 0
  PROVE  SessionBounded'
<1>1. session' = session /\ slack <= slack' /\ slack' \in Nat
  <2>1. slack' \in Nat /\ slack \in Nat /\ file.used \in Nat
    BY DEF Inv, TypeOK, File
  <2> QED BY <2>1 DEF Next, Witnessed, GuardStep, Control, World, RobloxRun, AppRun, Save, RobloxKill,
       AppKill, Ended, SetLimit, SetBonus, SetEnabled, Unlock, ConfigDamaged, Strict, Launch, Quit, Pass, Trigger, Sleep,
       RunCut, Damaged, Looked, Wrong, Unwatched
<1>2. session <= allowance + 2 + slack
  BY DEF Bounded, SessionBounded
<1>3. allowance <= allowance' /\ allowance' \in Nat
  BY AllowanceGrows DEF Inv, TypeOK
<1> QED BY <1>1, <1>2, <1>3, SessionTypes DEF SessionBounded

LEMMA BoundedNext == Inv /\ Inv' /\ Bounded /\ [Next]_vars => Bounded'
<1> SUFFICES ASSUME Inv, Inv', Bounded, [Next]_vars PROVE Bounded'
  OBVIOUS
<1>1. CASE UNCHANGED vars
  BY <1>1 DEF vars, Bounded, Paid, Owes, Debt, UsedToday, Seen, Today, SessionBounded
<1>2. CASE Next
  <2>1. lane' = lane
    BY <1>2 DEF Next, Witnessed, GuardStep, Control, World, RobloxRun, AppRun, Save, RobloxKill,
         AppKill, SetLimit, SetBonus, SetEnabled, Unlock, ConfigDamaged, Strict, Launch, Quit, Pass, Trigger, Sleep,
         RunCut, Damaged, Looked, Wrong, Unwatched
  <2>2. (session = 0)' => Paid' /\ SessionBounded'
    BY PaidAfresh, PTL
  <2>3. Paid' => SessionBounded'
    BY PaidIsBounded, PTL
  <2> QED BY <1>2, <2>1, <2>2, <2>3, NextPays, RestIsBounded DEF Bounded
<1> QED BY <1>1, <1>2

\* Play ends within two minutes of the most that was allowed, and two more for each run
\* that was cut, saw nothing or failed, and what a damaged file had counted: for any limits, bonuses, naps and lengths of the day.
THEOREM SessionsAreBounded == Spec => []SessionBounded
<1>1. Init => Bounded
  BY InitInv, PaidAfresh DEF Init, Bounded
<1>2. Inv /\ Bounded => SessionBounded
  BY DEF Bounded, SessionBounded
<1> QED BY <1>1, <1>2, BoundedNext, InvAlways, PTL DEF Spec
=============================================================================
