-------------------------- MODULE RobloxGamesProofs --------------------------
(***************************************************************************)
(* Proofs about RobloxGames, for any places, universes, lists and lengths  *)
(* of logs: types, and a ledger that misses no game.                       *)
(***************************************************************************)
EXTENDS RobloxGames, TLAPS, FiniteSetTheorems

\* A line that is not a leave names a place.
Written == {line \in Line : line.kind # "leave" => line.place \in Place}
Lines == log \in Seq(Written)

\* The tracker reads the newest log or an older one, and never beyond its end.
Ahead == /\ track.path <= logs
         /\ track.path = logs => track.offset <= Len(log)

\* A universe, once known, is that of the place.
TrueTo(presence) ==
  presence \in Presence /\ presence.universe # None
    => presence.universe = UniverseOf[presence.place]

\* While the guard waits, what it caught is what it tracks.
Holding == guard.pc = "pausing" => guard.caught = track.presence

\* What the ledger has, or a failure or SEEN_MAX cost it.
Known == ledger \union lost

\* Every game the log has named is known to the ledger, or the one the client is in.
GameOf(line) == [place |-> line.place, universe |-> UniverseOf[line.place]]
Covered ==
  track.path = logs =>
    \A i \in 1..track.offset :
      log[i].kind = "full" =>
        \/ UniverseOf[log[i].place] \in Known
        \/ track.presence = GameOf(log[i]) /\ ~ Left(i)

Inv == TypeOK /\ Lines /\ Ahead /\ TrueTo(track.presence) /\ Holding /\ Covered
-----------------------------------------------------------------------------
(* Naturals: what is false of some is false of a least one *)

LEMMA LeastMember ==
  ASSUME NEW S, S \subseteq Nat, S # {}
  PROVE  \E s \in S : \A y \in S : s <= y
<1> DEFINE T == {0..s : s \in S}
<1>1. T \subseteq FiniteSubsetsOf(Nat) /\ T # {}
  <2>1. ASSUME NEW s \in S PROVE 0..s \in SUBSET Nat /\ IsFiniteSet(0..s)
    BY FS_Interval
  <2>2. QED BY <2>1 DEF FiniteSubsetsOf
<1>2. PICK s \in S : \A y \in T : ~ (<<y, 0..s>> \in StrictSubsetOrdering(Nat))
  <2> HIDE DEF T
  <2>1. PICK x \in T : \A y \in T : ~ (<<y, x>> \in StrictSubsetOrdering(Nat))
    BY <1>1, FS_StrictSubsetOrderingWellFounded, WFMin
  <2>2. QED BY <2>1 DEF T
<1>3. ASSUME NEW y \in S PROVE s <= y
  <2>1. ~ (0..y \subseteq 0..s /\ 0..y # 0..s)
    <3>1. <<0..y, 0..s>> \notin StrictSubsetOrdering(Nat)
      BY <1>2, <1>3
    <3>2. 0..y \in SUBSET Nat /\ 0..s \in SUBSET Nat
      OBVIOUS
    <3> HIDE DEF T
    <3> DEFINE A == 0..y  B == 0..s
    <3> HIDE DEF A, B
    <3>3. <<A, B>> \notin StrictSubsetOrdering(Nat) /\ A \in SUBSET Nat /\ B \in SUBSET Nat
      BY <3>1, <3>2 DEF A, B
    <3>4. ~ (A \subseteq B /\ A # B)
      BY <3>3, Zenon DEF StrictSubsetOrdering
    <3>5. QED BY <3>4 DEF A, B
  <2>2. SUFFICES ASSUME y < s PROVE FALSE
    OBVIOUS
  <2>3. s \in 0..s /\ s \notin 0..y
    BY <2>2
  <2>4. QED BY <2>1, <2>2, <2>3
<1>4. QED BY <1>3

\* Induction, as a fact about sets.
LEMMA EveryNatural ==
  ASSUME NEW S, 0 \in S, \A n \in Nat : n \in S => n + 1 \in S
  PROVE  Nat \subseteq S
<1> DEFINE Failing == {n \in Nat : n \notin S}
<1>1. SUFFICES ASSUME Failing # {} PROVE FALSE
  OBVIOUS
<1>2. PICK n \in Failing : \A m \in Failing : n <= m
  <2> HIDE DEF Failing
  <2>1. Failing \subseteq Nat
    BY DEF Failing
  <2>2. QED BY <1>1, <2>1, LeastMember
<1>3. n # 0 /\ n - 1 \in Nat /\ n - 1 \notin Failing
  BY <1>2
<1>4. QED BY <1>2, <1>3
-----------------------------------------------------------------------------
(* The fold over the lines *)

Start(current) == [now |-> current, ended |-> {}]

\* The recursive definition of Seen has a solution for every number of lines.
Unfolds(f, n, lines, current) ==
  f = [i \in 0..n |-> IF i = 0 THEN Start(current) ELSE Fold(f[i - 1], lines[i])]

LEMMA FoldExists ==
  ASSUME NEW lines, NEW current, NEW n \in Nat
  PROVE  \E f : Unfolds(f, n, lines, current)
<1> DEFINE Good == {m \in Nat : \E f : Unfolds(f, m, lines, current)}
<1>1. 0 \in Good
  <2> DEFINE f == [i \in 0..0 |-> Start(current)]
  <2>1. Unfolds(f, 0, lines, current)
    BY DEF Unfolds
  <2>2. QED BY <2>1
<1>2. ASSUME NEW m \in Nat, m \in Good PROVE m + 1 \in Good
  <2>1. PICK f : Unfolds(f, m, lines, current)
    BY <1>2
  <2> DEFINE g == [i \in 0..m + 1 |-> IF i = m + 1 THEN Fold(f[m], lines[m + 1]) ELSE f[i]]
  <2>2. \A i \in 0..m + 1 : g[i] = IF i = 0 THEN Start(current) ELSE Fold(g[i - 1], lines[i])
    <3>1. \A i \in 0..m : f[i] = IF i = 0 THEN Start(current) ELSE Fold(f[i - 1], lines[i])
      BY <2>1, Zenon DEF Unfolds
    <3> TAKE i \in 0..m + 1
    <3>2. CASE i = m + 1
      <4>1. g[i] = Fold(f[m], lines[i]) /\ g[i - 1] = f[m] /\ i # 0
        BY <3>2
      <4>2. QED BY <4>1
    <3>3. CASE i # m + 1
      <4>1. g[i] = f[i] /\ i \in 0..m /\ (i # 0 => g[i - 1] = f[i - 1])
        BY <3>3
      <4> HIDE DEF g
      <4>2. QED BY <3>1, <4>1
    <3>4. QED BY <3>2, <3>3
  <2>3. Unfolds(g, m + 1, lines, current)
    <3>1. g = [i \in 0..m + 1 |-> g[i]]
      OBVIOUS
    <3> HIDE DEF g
    <3>2. QED BY <3>1, <2>2, Zenon DEF Unfolds
  <2>4. QED BY <2>3
<1> HIDE DEF Good
<1>3. Nat \subseteq Good
  BY <1>1, <1>2, EveryNatural
<1>4. QED BY <1>3 DEF Good

LEMMA SeenUnfolds ==
  ASSUME NEW lines, NEW current, Len(lines) \in Nat
  PROVE  /\ Seen(lines, current)[0] = Start(current)
         /\ \A k \in 1..Len(lines) :
              Seen(lines, current)[k] = Fold(Seen(lines, current)[k - 1], lines[k])
<1> DEFINE n == Len(lines)
           s == Seen(lines, current)
<1>1. s = CHOOSE f : Unfolds(f, n, lines, current)
  BY Zenon DEF Seen, Unfolds, Start
<1>2. Unfolds(s, n, lines, current)
  BY <1>1, FoldExists, Zenon
<1> HIDE DEF s
<1>3. \A i \in 0..n : s[i] = IF i = 0 THEN Start(current) ELSE Fold(s[i - 1], lines[i])
  BY <1>2, Zenon DEF Unfolds
<1>4. s[0] = Start(current) /\ \A k \in 1..n : s[k] = Fold(s[k - 1], lines[k])
  BY <1>3
<1>5. QED BY <1>4 DEF s
-----------------------------------------------------------------------------
(* One line *)

Folded == [now : Presence \union {Nowhere}, ended : SUBSET Presence]

\* The lines that take the client out of a place.
Gone(line, place) ==
  line.kind = "leave" \/ (line.kind = "place" /\ line.place # place)

LEMMA PresenceFields ==
  ASSUME NEW p \in Presence
  PROVE  /\ p # Nowhere /\ p.place \in Place /\ p.universe \in Universe \union {None}
         /\ p = [place |-> p.place, universe |-> p.universe]
  BY GamesConstants DEF Presence, Nowhere, GamesConstants

LEMMA GameIsPresence ==
  ASSUME NEW line \in Written, line.kind # "leave"
  PROVE  /\ GameOf(line) \in Presence /\ TrueTo(GameOf(line))
         /\ GameOf(line).place = line.place
         /\ GameOf(line).universe = UniverseOf[line.place]
         /\ UniverseOf[line.place] \in Universe
  BY GamesConstants DEF GameOf, Written, Presence, TrueTo, GamesConstants

LEMMA JoinedTypes ==
  ASSUME NEW line \in Written, line.kind # "leave"
  PROVE  /\ Joined(line) \in Presence /\ TrueTo(Joined(line))
         /\ line.kind = "full" => Joined(line) = GameOf(line)
  BY GamesConstants, GameIsPresence DEF Joined, GameOf, Written, Presence, TrueTo, GamesConstants

LEMMA MergedTypes ==
  ASSUME NEW line \in Written, line.kind # "leave",
         NEW p \in Presence, TrueTo(p), p.place = line.place
  PROVE  /\ Merged(p, line) \in Presence /\ TrueTo(Merged(p, line))
         /\ line.kind = "full" => Merged(p, line) = GameOf(line)
         /\ p.universe # None => Merged(p, line) = p
<1>1. UniverseOf[line.place] \in Universe
  BY GameIsPresence
<1>2. CASE line.kind = "full" /\ p.universe = None
  <2>1. Merged(p, line) = GameOf(line)
    BY <1>2, PresenceFields DEF Merged, GameOf
  <2>2. QED BY <1>2, <2>1, GameIsPresence
<1>3. CASE ~ (line.kind = "full" /\ p.universe = None)
  <2>1. Merged(p, line) = p
    BY <1>3 DEF Merged
  <2>2. ASSUME line.kind = "full" PROVE p = GameOf(line)
    BY <1>3, <2>2, PresenceFields DEF TrueTo, GameOf
  <2>3. QED BY <2>1, <2>2
<1>4. QED BY <1>2, <1>3

\* What one line does: it closes the game the client was in or leaves it as it is.
LEMMA FoldStep ==
  ASSUME NEW seen \in Folded, TrueTo(seen.now), NEW line \in Written
  PROVE  LET next == Fold(seen, line)
         IN /\ next \in Folded /\ TrueTo(next.now)
            /\ seen.ended \subseteq next.ended
            /\ line.kind = "full" => next.now = GameOf(line)
            /\ seen.now \in Presence /\ seen.now.universe # None =>
                 \/ seen.now \in next.ended
                 \/ next.now = seen.now /\ ~ Gone(line, seen.now.place)
<1>1. /\ seen.now \in Presence \union {Nowhere} /\ seen.ended \subseteq Presence
      /\ seen = [now |-> seen.now, ended |-> seen.ended]
      /\ Nowhere \notin Presence /\ Nowhere.place = None /\ None \notin Place
  BY PresenceFields, GamesConstants DEF Folded, Nowhere, GamesConstants
<1>2. /\ Closed(seen) \subseteq Presence /\ seen.ended \subseteq Closed(seen)
      /\ seen.now \in Presence => seen.now \in Closed(seen)
  BY <1>1 DEF Closed
<1>3. CASE line.kind = "leave"
  <2>1. Fold(seen, line) = [now |-> Nowhere, ended |-> Closed(seen)]
    BY <1>3 DEF Fold
  <2>2. TrueTo(Nowhere)
    BY <1>1 DEF TrueTo
  <2>3. QED BY <1>2, <1>3, <2>1, <2>2 DEF Folded
<1>4. CASE line.kind # "leave" /\ seen.now.place = line.place
  <2>1. seen.now \in Presence
    BY <1>1, <1>4 DEF Written
  <2>2. Fold(seen, line) = [now |-> Merged(seen.now, line), ended |-> seen.ended]
    BY <1>1, <1>4 DEF Fold
  <2>3. ~ Gone(line, seen.now.place)
    BY <1>4 DEF Gone
  <2>4. QED BY <1>1, <1>4, <2>1, <2>2, <2>3, MergedTypes DEF Folded
<1>5. CASE line.kind # "leave" /\ seen.now.place # line.place
  <2>1. Fold(seen, line) = [now |-> Joined(line), ended |-> Closed(seen)]
    BY <1>5 DEF Fold
  <2>2. QED BY <1>2, <1>5, <2>1, JoinedTypes DEF Folded
<1>6. QED BY <1>3, <1>4, <1>5
-----------------------------------------------------------------------------
(* All lines of a poll *)

LEMMA SeenTypes ==
  ASSUME NEW lines \in Seq(Written), NEW current \in Presence \union {Nowhere}, TrueTo(current)
  PROVE  \A k \in 0..Len(lines) :
           Seen(lines, current)[k] \in Folded /\ TrueTo(Seen(lines, current)[k].now)
<1> DEFINE s == Seen(lines, current)
           Good == {k \in Nat : k <= Len(lines) => s[k] \in Folded /\ TrueTo(s[k].now)}
<1>1. s[0] = Start(current) /\ \A k \in 1..Len(lines) : s[k] = Fold(s[k - 1], lines[k])
  BY SeenUnfolds
<1>2. 0 \in Good
  <2>1. Start(current) \in Folded /\ Start(current).now = current
    BY DEF Start, Folded
  <2> HIDE DEF s
  <2>2. QED BY <1>1, <2>1
<1> HIDE DEF s
<1>3. ASSUME NEW k \in Nat, k \in Good PROVE k + 1 \in Good
  <2>1. SUFFICES ASSUME k + 1 <= Len(lines)
                 PROVE  s[k + 1] \in Folded /\ TrueTo(s[k + 1].now)
    OBVIOUS
  <2>2. s[k] \in Folded /\ TrueTo(s[k].now) /\ k + 1 \in 1..Len(lines)
    BY <1>3, <2>1
  <2>3. s[k + 1] = Fold(s[k], lines[k + 1]) /\ lines[k + 1] \in Written
    BY <1>1, <2>2
  <2>4. QED BY <2>2, <2>3, FoldStep
<1> HIDE DEF Good
<1>4. Nat \subseteq Good
  BY <1>2, <1>3, EveryNatural
<1>5. QED BY <1>4 DEF Good, s

\* A game once seen is closed by a later line, or the client is still in it.
LEMMA GameCarried ==
  ASSUME NEW lines \in Seq(Written), NEW current \in Presence \union {Nowhere}, TrueTo(current),
         NEW m \in 0..Len(lines),
         Seen(lines, current)[m].now \in Presence,
         Seen(lines, current)[m].now.universe # None
  PROVE  LET game == Seen(lines, current)[m].now
         IN \A k \in m..Len(lines) :
              \/ game \in Seen(lines, current)[k].ended
              \/ /\ Seen(lines, current)[k].now = game
                 /\ \A j \in m + 1..k : ~ Gone(lines[j], game.place)
<1> DEFINE s == Seen(lines, current)
           game == s[m].now
           Held(k) == \/ game \in s[k].ended
                      \/ s[k].now = game /\ \A j \in m + 1..k : ~ Gone(lines[j], game.place)
           Good == {n \in Nat : m + n <= Len(lines) => Held(m + n)}
<1>1. /\ \A k \in 1..Len(lines) : s[k] = Fold(s[k - 1], lines[k])
      /\ \A k \in 0..Len(lines) : s[k] \in Folded /\ TrueTo(s[k].now)
  BY SeenUnfolds, SeenTypes
<1> HIDE DEF s
<1>2. 0 \in Good
  OBVIOUS
<1>3. ASSUME NEW n \in Nat, n \in Good PROVE n + 1 \in Good
  <2> DEFINE k == m + n
  <2>1. SUFFICES ASSUME k + 1 <= Len(lines) PROVE Held(k + 1)
    OBVIOUS
  <2>2. Held(k) /\ k + 1 \in 1..Len(lines) /\ k \in 0..Len(lines)
    BY <1>3, <2>1
  <2>3. /\ s[k + 1] = Fold(s[k], lines[k + 1]) /\ lines[k + 1] \in Written
        /\ s[k] \in Folded /\ TrueTo(s[k].now)
    BY <1>1, <2>2
  <2>4. s[k].ended \subseteq s[k + 1].ended
    BY <2>3, FoldStep
  <2>5. CASE game \in s[k].ended
    BY <2>4, <2>5
  <2>6. CASE s[k].now = game /\ \A j \in m + 1..k : ~ Gone(lines[j], game.place)
    <3>1. \/ game \in s[k + 1].ended
          \/ s[k + 1].now = game /\ ~ Gone(lines[k + 1], game.place)
      BY <2>3, <2>6, FoldStep DEF s
    <3>2. \A j \in m + 1..k + 1 : j \in m + 1..k \/ j = k + 1
      OBVIOUS
    <3>3. QED BY <2>6, <3>1, <3>2
  <2>7. QED BY <2>2, <2>5, <2>6
<1> HIDE DEF Good
<1>4. Nat \subseteq Good
  BY <1>2, <1>3, EveryNatural
<1>5. ASSUME NEW k \in m..Len(lines) PROVE Held(k)
  <2>1. k - m \in Good /\ m + (k - m) = k
    BY <1>4
  <2>2. QED BY <2>1 DEF Good
<1>6. QED BY <1>5 DEF s

\* What a poll sees: types; every game named is closed or the one the client is in; and
\* so is the game it was in.
LEMMA PollSees ==
  ASSUME NEW lines \in Seq(Written), NEW current \in Presence \union {Nowhere}, TrueTo(current)
  PROVE  LET seen == FoldPresence(lines, current)
         IN /\ seen \in Folded /\ TrueTo(seen.now)
            /\ \A i \in 1..Len(lines) : lines[i].kind = "full" =>
                 \/ GameOf(lines[i]) \in seen.ended
                 \/ /\ seen.now = GameOf(lines[i])
                    /\ \A j \in i + 1..Len(lines) : ~ Gone(lines[j], lines[i].place)
            /\ current # Nowhere /\ current.universe # None =>
                 \/ current \in seen.ended
                 \/ /\ seen.now = current
                    /\ \A j \in 1..Len(lines) : ~ Gone(lines[j], current.place)
<1> DEFINE s == Seen(lines, current)
           n == Len(lines)
<1>1. n \in Nat /\ FoldPresence(lines, current) = s[n]
  BY DEF FoldPresence
<1>2. s[0] = Start(current) /\ \A k \in 1..n : s[k] = Fold(s[k - 1], lines[k])
  BY SeenUnfolds
<1>3. \A k \in 0..n : s[k] \in Folded /\ TrueTo(s[k].now)
  BY SeenTypes
<1>4. ASSUME NEW m \in 0..n, s[m].now \in Presence, s[m].now.universe # None
      PROVE  \/ s[m].now \in s[n].ended
             \/ s[n].now = s[m].now /\ \A j \in m + 1..n : ~ Gone(lines[j], s[m].now.place)
  <2>1. n \in m..n
    BY <1>1, <1>4
  <2>2. QED BY <1>4, <2>1, GameCarried
<1> HIDE DEF s
<1>5. ASSUME NEW i \in 1..n, lines[i].kind = "full"
      PROVE  \/ GameOf(lines[i]) \in s[n].ended
             \/ /\ s[n].now = GameOf(lines[i])
                /\ \A j \in i + 1..n : ~ Gone(lines[j], lines[i].place)
  <2>1. /\ s[i - 1] \in Folded /\ TrueTo(s[i - 1].now) /\ lines[i] \in Written
        /\ s[i] = Fold(s[i - 1], lines[i])
    BY <1>2, <1>3, <1>5
  <2>2. s[i].now = GameOf(lines[i])
    <3>1. Fold(s[i - 1], lines[i]).now = GameOf(lines[i])
      <4> DEFINE seen == s[i - 1]  line == lines[i]
      <4>1. seen \in Folded /\ TrueTo(seen.now) /\ line \in Written /\ line.kind = "full"
        BY <1>5, <2>1
      <4> HIDE DEF seen, line
      <4>2. Fold(seen, line).now = GameOf(line)
        BY <4>1, FoldStep
      <4>3. QED BY <4>2 DEF seen, line
    <3>2. QED BY <2>1, <3>1
  <2>3. /\ GameOf(lines[i]) \in Presence /\ GameOf(lines[i]).universe # None
        /\ GameOf(lines[i]).place = lines[i].place
    BY <1>5, <2>1, GameIsPresence, GamesConstants DEF GamesConstants
  <2>4. i \in 0..n
    OBVIOUS
  <2>5. QED BY <1>4, <2>2, <2>3, <2>4
<1>6. ASSUME current # Nowhere, current.universe # None
      PROVE  \/ current \in s[n].ended
             \/ s[n].now = current /\ \A j \in 1..n : ~ Gone(lines[j], current.place)
  <2>1. s[0].now = current /\ current \in Presence /\ 0 \in 0..n
    BY <1>1, <1>2, <1>6 DEF Start
  <2>2. \/ s[0].now \in s[n].ended
        \/ s[n].now = s[0].now /\ \A j \in 0 + 1..n : ~ Gone(lines[j], s[0].now.place)
    BY <1>4, <1>6, <2>1
  <2>3. QED BY <2>1, <2>2
<1>7. n \in 0..n
  BY <1>1
<1>8. QED BY <1>1, <1>3, <1>5, <1>6, <1>7
-----------------------------------------------------------------------------
(* Types *)

LEMMA OffTypes == Off \in Policy
<1>1. (CHOOSE l \in Lists : TRUE) \in Lists
  BY GamesConstants DEF GamesConstants
<1>2. QED BY <1>1 DEF Off, Policy

LEMMA AwakeTypes ==
  Awake \in [pc : {"poll", "pausing"}, policy : Policy, lastGood : Policy,
             stale : BOOLEAN, caught : Presence \union {Nowhere}]
  BY OffTypes DEF Awake

LEMMA UntrackedTypes ==
  /\ Untracked \in [path : 0..MaxLogs, offset : 0..MaxLines, presence : Presence \union {Nowhere}]
  /\ Untracked.path = 0 /\ Untracked.offset = 0 /\ Untracked.presence = Nowhere
  BY GamesConstants DEF Untracked, GamesConstants

LEMMA NowhereTrue == TrueTo(Nowhere)
  BY GamesConstants DEF TrueTo, Presence, Nowhere, GamesConstants

LEMMA LoadedTypes == TypeOK => Loaded \in Policy
  BY DEF TypeOK, Loaded

\* What a poll leaves in the guard's memory.
LEMMA JudgedTypes ==
  ASSUME TypeOK, NEW policy \in Policy, NEW p \in Presence \union {Nowhere},
         NEW read \in BOOLEAN, Judged(policy, p, read)
  PROVE  /\ guard' \in [pc : {"poll", "pausing"}, policy : Policy, lastGood : Policy,
                        stale : BOOLEAN, caught : Presence \union {Nowhere}]
         /\ (guard'.pc = "pausing") <=> (guard'.caught # Nowhere)
         /\ guard'.pc = "pausing" => guard'.caught = p
<1> DEFINE pc == IF Kills(policy, p) THEN "pausing" ELSE "poll"
           caught == IF Kills(policy, p) THEN p ELSE Nowhere
           lastGood == IF Reading(read) /\ config.form = "good" THEN config.policy ELSE guard.lastGood
           stale == ~ Reading(read)
<1>1. guard' = [pc |-> pc, policy |-> policy, lastGood |-> lastGood, stale |-> stale, caught |-> caught]
  BY Zenon DEF Judged, TypeOK
<1>2. pc \in {"poll", "pausing"} /\ caught \in Presence \union {Nowhere} /\ lastGood \in Policy
  BY DEF TypeOK
<1>3. stale \in BOOLEAN
  OBVIOUS
<1>4. (pc = "pausing" <=> caught # Nowhere) /\ (pc = "pausing" => caught = p)
  BY DEF Kills
<1> HIDE DEF pc, caught, lastGood, stale
<1>5. QED BY <1>1, <1>2, <1>3, <1>4

\* Nothing the ledger had or a session brings is unaccounted for.
LEMMA LedgerGrows ==
  ASSUME TypeOK, NEW sessions, sessions \subseteq Presence \union {Nowhere}, Remember(sessions)
  PROVE  /\ ledger' \subseteq Place \union Universe /\ lost' \subseteq Place \union Universe
         /\ Known \subseteq Known'
         /\ \A p \in sessions \intersect Presence : p.universe # None => p.universe \in Known'
<1> DEFINE keys == Keys(sessions)
<1>1. keys \subseteq Place \union Universe
  <2>1. ASSUME NEW p \in sessions \ {Nowhere} PROVE Key(p) \in Place \union Universe
    BY PresenceFields DEF Key
  <2>. QED BY <2>1 DEF Keys
<1>2. ASSUME NEW p \in sessions \intersect Presence, p.universe # None
      PROVE  p.universe \in keys
  <2>1. p # Nowhere
    BY PresenceFields
  <2>2. Key(p) = p.universe
    BY <1>2 DEF Key
  <2>. QED BY <2>1, <2>2 DEF Keys
<1>3. /\ ledger' \in IF keys = {} THEN {ledger} ELSE Saved(keys) \union Spoiled(keys)
      /\ lost' = (lost \union ledger \union keys) \ ledger'
  BY Zenon DEF Remember
<1> HIDE DEF keys
<1>4. ledger' \subseteq ledger \union keys
  <2>1. ASSUME NEW kept \in Saved(keys) PROVE kept \subseteq ledger \union keys
    BY <2>1 DEF Saved
  <2>2. ASSUME NEW kept \in Spoiled(keys) PROVE kept \subseteq ledger \union keys
    BY <2>2 DEF Spoiled
  <2>. QED BY <1>3, <2>1, <2>2
<1>5. ledger \subseteq Place \union Universe /\ lost \subseteq Place \union Universe
  BY DEF TypeOK
<1>. QED BY <1>1, <1>2, <1>3, <1>4, <1>5 DEF Known
-----------------------------------------------------------------------------
(* Lines a poll reads *)

LEMMA RestOfLog ==
  ASSUME log \in Seq(Written), NEW off \in 0..Len(log)
  PROVE  LET lines == SubSeq(log, off + 1, Len(log))
         IN /\ lines \in Seq(Written) /\ Len(lines) = Len(log) - off
            /\ \A k \in 1..Len(lines) : lines[k] = log[off + k]
  OBVIOUS

LEMMA LeftIsGone ==
  \A i : Left(i) <=> \E j \in i + 1..track.offset : Gone(log[j], log[i].place)
  BY DEF Left, Gone

\* The lines that have been read stay as they are when others are added.
LEMMA CoveredStays ==
  ASSUME Inv, UNCHANGED <<track, logs, ledger, lost>>,
         \A i \in 1..Len(log) : log'[i] = log[i]
  PROVE  Covered'
<1>1. SUFFICES ASSUME track.path = logs, NEW i \in 1..track.offset, log'[i].kind = "full"
               PROVE  \/ UniverseOf[log'[i].place] \in Known
                      \/ track.presence = GameOf(log'[i]) /\ ~ Left(i)'
  BY DEF Covered, GameOf, Known
<1>2. track.offset \in 0..Len(log)
  BY <1>1 DEF Inv, Ahead, TypeOK
<1>3. log'[i] = log[i] /\ \A j \in i + 1..track.offset : log'[j] = log[j]
  BY <1>2
<1>4. ~ Left(i) => ~ Left(i)'
  BY <1>3 DEF Left
<1>5. QED BY <1>1, <1>3, <1>4 DEF Inv, Covered
-----------------------------------------------------------------------------
(* The steps of the guard *)

LEMMA UntrackedHolds ==
  ASSUME Inv, track' = Untracked, UNCHANGED <<log, logs>>
  PROVE  Lines' /\ Ahead' /\ TrueTo(track.presence)' /\ Covered'
<1>1. track'.path = 0 /\ track'.offset = 0 /\ track'.presence = Nowhere
  BY UntrackedTypes
<1>2. TrueTo(track.presence)'
  BY <1>1, NowhereTrue DEF TrueTo
<1>3. logs \in Nat /\ Len(log) \in Nat
  BY DEF Inv, TypeOK
<1>4. QED BY <1>1, <1>2, <1>3 DEF Inv, Lines, Ahead, Covered

LEMMA PollIdleKeeps ==
  ASSUME Inv, NEW read \in BOOLEAN, PollIdle(read)
  PROVE  Inv'
<1> DEFINE policy == IF Reading(read) THEN Loaded ELSE guard.policy
<1>1. policy \in Policy /\ Judged(policy, Nowhere, read)
  BY LoadedTypes DEF Inv, TypeOK, PollIdle
<1> HIDE DEF policy
<1>2. track' = Untracked /\ UNCHANGED <<machine, config, ledger, lost, botched, events>>
  BY DEF PollIdle
<1>3. /\ guard' \in [pc : {"poll", "pausing"}, policy : Policy, lastGood : Policy,
                     stale : BOOLEAN, caught : Presence \union {Nowhere}]
      /\ (guard'.pc = "pausing") <=> (guard'.caught # Nowhere)
      /\ guard'.pc = "pausing" => guard'.caught = Nowhere
  BY <1>1, JudgedTypes DEF Inv
<1>4. TypeOK'
  BY <1>2, <1>3, UntrackedTypes DEF Inv, TypeOK, machine
<1>5. Lines' /\ Ahead' /\ TrueTo(track.presence)' /\ Covered'
  BY <1>2, UntrackedHolds DEF machine
<1>6. Holding'
  BY <1>3 DEF Holding
<1>7. QED BY <1>4, <1>5, <1>6 DEF Inv

LEMMA RestartKeeps ==
  ASSUME Inv, Restart
  PROVE  Inv'
<1>1. /\ track' = Untracked /\ guard' = Awake /\ events < MaxEvents /\ events' = events + 1
      /\ UNCHANGED <<machine, config, ledger, lost, botched>>
  BY DEF Restart, Event
<1>2. guard'.pc = "poll" /\ guard'.caught = Nowhere
  BY <1>1 DEF Awake
<1>3. events' \in 0..MaxEvents
  BY <1>1, GamesConstants DEF Inv, TypeOK, GamesConstants
<1>4. TypeOK'
  BY <1>1, <1>2, <1>3, UntrackedTypes, AwakeTypes DEF Inv, TypeOK, machine
<1>5. Lines' /\ Ahead' /\ TrueTo(track.presence)' /\ Covered'
  BY <1>1, UntrackedHolds DEF machine
<1>6. Holding'
  BY <1>2 DEF Holding
<1>7. QED BY <1>4, <1>5, <1>6 DEF Inv

\* A poll reads the lines from the offset on: what was covered stays covered, and the
\* games that the new lines name are closed into the ledger or the one the client is in.
LEMMA PollCovers ==
  ASSUME Inv, NEW read \in BOOLEAN, Poll(read)
  PROVE  LET before == IF track.path = logs THEN track.presence ELSE Nowhere
             seen == FoldPresence(SubSeq(log, Offset + 1, Len(log)), before)
             outgoing == IF track.path = logs THEN {} ELSE {track.presence}
         IN /\ seen \in Folded /\ TrueTo(seen.now)
            /\ ledger' \subseteq Place \union Universe /\ lost' \subseteq Place \union Universe
            /\ track' = [path |-> logs, offset |-> Len(log), presence |-> seen.now]
            /\ Covered'
<1> DEFINE before == IF track.path = logs THEN track.presence ELSE Nowhere
           lines == SubSeq(log, Offset + 1, Len(log))
           seen == FoldPresence(lines, before)
           outgoing == IF track.path = logs THEN {} ELSE {track.presence}
           n == Len(log)
<1>1. /\ track' = [path |-> logs, offset |-> n, presence |-> seen.now]
      /\ Remember(seen.ended \union outgoing)
      /\ UNCHANGED <<log, logs>>
  BY DEF Poll, machine
<1>2. TypeOK /\ log \in Seq(Written) /\ n \in Nat
  BY DEF Inv, Lines
<1>3. Offset \in 0..n /\ (track.path = logs => Offset = track.offset)
                      /\ (track.path # logs => Offset = 0)
  BY <1>2 DEF Offset, Inv, Ahead, TypeOK
<1>4. before \in Presence \union {Nowhere} /\ TrueTo(before)
  BY <1>2, NowhereTrue DEF Inv, TypeOK
<1>5. /\ lines \in Seq(Written) /\ Len(lines) = n - Offset
      /\ \A k \in 1..Len(lines) : lines[k] = log[Offset + k]
  BY <1>2, <1>3, RestOfLog
<1> HIDE DEF lines, before
<1>6. /\ seen \in Folded /\ TrueTo(seen.now)
      /\ \A k \in 1..Len(lines) : lines[k].kind = "full" =>
           \/ GameOf(lines[k]) \in seen.ended
           \/ /\ seen.now = GameOf(lines[k])
              /\ \A j \in k + 1..Len(lines) : ~ Gone(lines[j], lines[k].place)
      /\ before # Nowhere /\ before.universe # None =>
           \/ before \in seen.ended
           \/ /\ seen.now = before
              /\ \A j \in 1..Len(lines) : ~ Gone(lines[j], before.place)
  BY <1>4, <1>5, PollSees
<1> HIDE DEF seen
<1>7. seen.ended \union outgoing \subseteq Presence \union {Nowhere}
  BY <1>2, <1>6 DEF Folded, TypeOK
<1>8. /\ ledger' \subseteq Place \union Universe /\ lost' \subseteq Place \union Universe
      /\ Known \subseteq Known'
      /\ \A p \in (seen.ended \union outgoing) \intersect Presence :
           p.universe # None => p.universe \in Known'
  BY <1>1, <1>2, <1>7, LedgerGrows
<1>9. ASSUME NEW line \in Written, line.kind = "full", GameOf(line) \in seen.ended
      PROVE  UniverseOf[line.place] \in Known'
  <2>1. /\ GameOf(line) \in Presence /\ GameOf(line).universe # None
        /\ GameOf(line).universe = UniverseOf[line.place]
    BY <1>9, GameIsPresence, GamesConstants DEF GamesConstants
  <2>2. QED BY <1>8, <1>9, <2>1
<1>10. ASSUME NEW i \in 1..n, log[i].kind = "full"
       PROVE  \/ UniverseOf[log[i].place] \in Known'
              \/ /\ seen.now = GameOf(log[i])
                 /\ \A j \in i + 1..n : ~ Gone(log[j], log[i].place)
  <2>1. log[i] \in Written
    BY <1>2
  <2>2. CASE i <= Offset
    <3>1. track.path = logs /\ i \in 1..track.offset /\ Offset = track.offset
      BY <1>2, <1>3, <2>2
    <3>2. \/ UniverseOf[log[i].place] \in Known
          \/ track.presence = GameOf(log[i]) /\ ~ Left(i)
      BY <1>10, <3>1 DEF Inv, Covered
    <3>3. CASE UniverseOf[log[i].place] \in Known
      BY <1>8, <3>3
    <3>4. CASE track.presence = GameOf(log[i]) /\ ~ Left(i)
      <4>1. before = GameOf(log[i]) /\ \A j \in i + 1..Offset : ~ Gone(log[j], log[i].place)
        BY <3>1, <3>4, LeftIsGone DEF before
      <4>2. /\ before # Nowhere /\ before.universe # None
            /\ before.place = log[i].place
        BY <1>10, <2>1, <4>1, GameIsPresence, PresenceFields, GamesConstants DEF GamesConstants
      <4>3. CASE before \in seen.ended
        BY <1>9, <1>10, <2>1, <4>1, <4>3
      <4>4. CASE seen.now = before /\ \A j \in 1..Len(lines) : ~ Gone(lines[j], before.place)
        <5>1. ASSUME NEW j \in i + 1..n PROVE ~ Gone(log[j], log[i].place)
          <6>1. CASE j <= Offset
            BY <1>3, <4>1, <5>1, <6>1
          <6>2. CASE j > Offset
            <7>1. j - Offset \in 1..Len(lines) /\ Offset + (j - Offset) = j
              BY <1>2, <1>3, <1>5, <5>1, <6>2
            <7>2. lines[j - Offset] = log[j]
              BY <1>5, <7>1
            <7>3. QED BY <4>2, <4>4, <7>1, <7>2
          <6>3. QED BY <1>3, <5>1, <6>1, <6>2
        <5>2. QED BY <4>1, <4>4, <5>1
      <4>5. QED BY <1>6, <4>2, <4>3, <4>4
    <3>5. QED BY <3>2, <3>3, <3>4
  <2>3. CASE i > Offset
    <3> DEFINE k == i - Offset
    <3>1. k \in 1..Len(lines) /\ lines[k] = log[i]
      <4>1. k \in 1..Len(lines) /\ Offset + k = i
        BY <1>2, <1>3, <1>5, <2>3
      <4>2. QED BY <1>5, <4>1
    <3>2. \/ GameOf(log[i]) \in seen.ended
          \/ /\ seen.now = GameOf(log[i])
             /\ \A j \in k + 1..Len(lines) : ~ Gone(lines[j], log[i].place)
      BY <1>6, <1>10, <3>1
    <3>3. ASSUME NEW j \in i + 1..n PROVE j - Offset \in k + 1..Len(lines) /\ lines[j - Offset] = log[j]
      <4>1. /\ j - Offset \in k + 1..Len(lines) /\ j - Offset \in 1..Len(lines)
            /\ Offset + (j - Offset) = j
        BY <1>2, <1>3, <1>5, <2>3, <3>3
      <4>2. QED BY <1>5, <4>1
    <3> HIDE DEF k
    <3>4. QED BY <1>9, <1>10, <2>1, <3>2, <3>3
  <2>4. QED BY <1>2, <1>3, <2>2, <2>3
<1>11. Covered'
  <2>1. /\ track'.path = logs /\ track'.offset = n /\ track'.presence = seen.now
        /\ log' = log /\ logs' = logs
    BY <1>1
  <2>2. SUFFICES ASSUME NEW i \in 1..n, log[i].kind = "full"
                 PROVE  \/ UniverseOf[log[i].place] \in Known'
                        \/ seen.now = GameOf(log[i]) /\ ~ Left(i)'
    BY <2>1 DEF Covered, GameOf
  <2>3. Left(i)' <=> \E j \in i + 1..n : Gone(log[j], log[i].place)
    BY <2>1 DEF Left, Gone
  <2>4. QED BY <1>10, <2>2, <2>3
<1>12. QED BY <1>1, <1>6, <1>8, <1>11 DEF seen, lines, before

LEMMA PollKeeps ==
  ASSUME Inv, NEW read \in BOOLEAN, Poll(read)
  PROVE  Inv'
<1> DEFINE policy == IF Reading(read) THEN Loaded ELSE guard.policy
           before == IF track.path = logs THEN track.presence ELSE Nowhere
           seen == FoldPresence(SubSeq(log, Offset + 1, Len(log)), before)
           outgoing == IF track.path = logs THEN {} ELSE {track.presence}
<1>1. policy \in Policy /\ Judged(policy, seen.now, read)
  BY LoadedTypes DEF Inv, TypeOK, Poll
<1>2. /\ seen \in Folded /\ TrueTo(seen.now)
      /\ ledger' \subseteq Place \union Universe /\ lost' \subseteq Place \union Universe
      /\ track' = [path |-> logs, offset |-> Len(log), presence |-> seen.now]
      /\ Covered'
  BY PollCovers
<1>3. UNCHANGED <<machine, config, botched>> /\ events' \in 0..MaxEvents
  <2>1. UNCHANGED <<machine, config, botched>> /\ (Event \/ UNCHANGED events)
    BY Zenon DEF Poll, Troubled
  <2>. QED BY <2>1, GamesConstants DEF Inv, TypeOK, Event, GamesConstants
<1> HIDE DEF policy, seen
<1>4. seen.now \in Presence \union {Nowhere}
  BY <1>2 DEF Folded
<1>5. /\ guard' \in [pc : {"poll", "pausing"}, policy : Policy, lastGood : Policy,
                     stale : BOOLEAN, caught : Presence \union {Nowhere}]
      /\ (guard'.pc = "pausing") <=> (guard'.caught # Nowhere)
      /\ guard'.pc = "pausing" => guard'.caught = seen.now
  BY <1>1, <1>4, JudgedTypes DEF Inv
<1>6. track' \in [path : 0..MaxLogs, offset : 0..MaxLines, presence : Presence \union {Nowhere}]
  <2>1. logs \in 0..MaxLogs /\ Len(log) \in 0..MaxLines
    BY GamesConstants DEF Inv, TypeOK, GamesConstants
  <2>2. QED BY <1>2, <1>4, <2>1
<1>7. TypeOK'
  BY <1>2, <1>3, <1>5, <1>6 DEF Inv, TypeOK, machine
<1>8. Lines' /\ Ahead' /\ TrueTo(track.presence)' /\ Holding'
  <2>1. track'.path = logs /\ track'.offset = Len(log) /\ track'.presence = seen.now
    BY <1>2
  <2>2. TrueTo(track.presence)'
    BY <1>2, <2>1 DEF TrueTo
  <2>3. QED BY <1>3, <1>5, <2>1, <2>2 DEF Inv, TypeOK, Lines, Ahead, Holding, machine
<1>9. QED BY <1>2, <1>7, <1>8 DEF Inv

LEMMA KillKeeps ==
  ASSUME Inv, NEW works \in BOOLEAN, Kill(works)
  PROVE  Inv'
<1> DEFINE caught == guard.caught
<1>1. /\ Remember({caught})
      /\ track' = [track EXCEPT !.presence = Nowhere]
      /\ guard' = [guard EXCEPT !.pc = "poll", !.caught = Nowhere]
      /\ UNCHANGED <<log, logs, live, config>>
  BY DEF Kill
<1>2. TypeOK /\ caught = track.presence /\ caught \in Presence /\ TrueTo(caught)
  BY DEF Inv, Holding, TypeOK, Kill
<1>3. /\ client' \in [up : BOOLEAN, place : Place \union {None}, due : Place \union {None}]
      /\ botched' \in BOOLEAN /\ events' \in 0..MaxEvents
  <2> DEFINE gone == [up |-> FALSE, place |-> None, due |-> None]
  <2>1. gone \in [up : BOOLEAN, place : Place \union {None}, due : Place \union {None}]
    OBVIOUS
  <2> HIDE DEF gone
  <2>2. client' = gone \/ client' = client
    BY Zenon DEF Kill, gone
  <2>3. botched' \in BOOLEAN /\ (Event \/ UNCHANGED events)
    BY Zenon DEF Kill, Troubled
  <2>4. events' \in 0..MaxEvents /\ botched' \in BOOLEAN
    <3>1. events \in 0..MaxEvents /\ botched \in BOOLEAN
      BY <1>2 DEF TypeOK
    <3>2. CASE Event
      <4>1. events < MaxEvents /\ events' = events + 1
        BY <3>2 DEF Event
      <4>2. QED BY <2>3, <3>1, <4>1, GamesConstants DEF GamesConstants
    <3>3. CASE UNCHANGED events
      BY <2>3, <3>1, <3>3
    <3>4. QED BY <2>3, <3>2, <3>3
  <2>5. QED BY <1>2, <2>1, <2>2, <2>4 DEF TypeOK
<1>4. /\ ledger' \subseteq Place \union Universe /\ lost' \subseteq Place \union Universe
      /\ Known \subseteq Known'
      /\ caught.universe # None => caught.universe \in Known'
  BY <1>1, <1>2, LedgerGrows
<1>5. /\ track' = [path |-> track.path, offset |-> track.offset, presence |-> Nowhere]
      /\ guard' = [pc |-> "poll", policy |-> guard.policy, lastGood |-> guard.lastGood,
                   stale |-> guard.stale, caught |-> Nowhere]
  BY <1>1, <1>2 DEF TypeOK
<1>6. TypeOK'
  BY <1>1, <1>2, <1>3, <1>4, <1>5 DEF TypeOK
<1>7. Covered'
  <2>1. SUFFICES ASSUME track.path = logs, NEW i \in 1..track.offset, log[i].kind = "full"
                 PROVE  UniverseOf[log[i].place] \in Known'
    BY <1>1, <1>5 DEF Covered, GameOf
  <2>2. CASE UniverseOf[log[i].place] \in Known
    BY <1>4, <2>2
  <2>3. CASE track.presence = GameOf(log[i])
    <3>1. log[i] \in Written
      BY <2>1 DEF Inv, Ahead, Lines, TypeOK
    <3>2. caught.universe = UniverseOf[log[i].place] /\ caught.universe # None
      BY <1>2, <2>1, <2>3, <3>1, GameIsPresence, GamesConstants DEF GamesConstants
    <3>3. QED BY <1>4, <3>2
  <2>4. QED BY <2>1, <2>2, <2>3 DEF Inv, Covered
<1>8. Lines' /\ Ahead' /\ TrueTo(track.presence)' /\ Holding'
  BY <1>1, <1>5, NowhereTrue DEF Inv, Lines, Ahead, Holding, TrueTo
<1>9. QED BY <1>6, <1>7, <1>8 DEF Inv
-----------------------------------------------------------------------------
(* The steps of the client, the child and the parent *)

LEMMA WritesKeep ==
  ASSUME Inv, NEW line \in Written, Writes(line), UNCHANGED World,
         client' \in [up : BOOLEAN, place : Place \union {None}, due : Place \union {None}],
         events' \in 0..MaxEvents
  PROVE  Inv'
<1>1. /\ log' = Append(log, line) /\ live' = TRUE /\ Len(log) < MaxLines
      /\ UNCHANGED <<logs, config, guard, track, ledger, lost, botched>>
  BY DEF Writes, World
<1>2. TypeOK /\ log \in Seq(Written) /\ Len(log) \in Nat /\ Written \subseteq Line
  BY DEF Inv, Lines, Written
<1>3. /\ log' \in Seq(Written) /\ log' \in Seq(Line) /\ Len(log') = Len(log) + 1
      /\ \A i \in 1..Len(log) : log'[i] = log[i]
  BY <1>1, <1>2
<1>4. TypeOK'
  <2>1. Len(log') <= MaxLines
    BY <1>1, <1>2, <1>3, GamesConstants DEF GamesConstants
  <2>2. QED BY <1>1, <1>2, <1>3, <2>1 DEF TypeOK
<1>5. Covered'
  BY <1>1, <1>3, CoveredStays
<1>6. Lines' /\ Ahead' /\ TrueTo(track.presence)' /\ Holding'
  <2>1. track \in [path : 0..MaxLogs, offset : 0..MaxLines, presence : Presence \union {Nowhere}]
    BY <1>2 DEF TypeOK
  <2>2. QED BY <1>1, <1>2, <1>3, <2>1, GamesConstants
            DEF Inv, Lines, Ahead, Holding, TrueTo, GamesConstants
<1>7. QED BY <1>4, <1>5, <1>6 DEF Inv

LEMMA LineTypes ==
  ASSUME NEW place \in Place
  PROVE  /\ [kind |-> "place", place |-> place] \in Written
         /\ [kind |-> "full", place |-> place] \in Written
         /\ [kind |-> "leave", place |-> None] \in Written
  BY DEF Written, Line

LEMMA LogStepKeeps ==
  ASSUME Inv, (\E place \in Place : Join(place)) \/ Report \/ Leave
  PROVE  Inv'
<1>1. TypeOK
  BY DEF Inv
<1>2. ASSUME Event PROVE events' \in 0..MaxEvents
  BY <1>1, <1>2, GamesConstants DEF TypeOK, Event, GamesConstants
<1>3. ASSUME NEW place \in Place, Join(place) PROVE Inv'
  <2>1. client' \in [up : BOOLEAN, place : Place \union {None}, due : Place \union {None}]
    BY <1>1, <1>3 DEF Join, TypeOK
  <2>2. QED BY <1>2, <1>3, <2>1, LineTypes, WritesKeep DEF Join
<1>4. ASSUME Report PROVE Inv'
  <2>1. client.due \in Place
    BY <1>1, <1>4 DEF Report, TypeOK
  <2>2. client' \in [up : BOOLEAN, place : Place \union {None}, due : Place \union {None}]
    BY <1>1, <1>4 DEF Report, TypeOK
  <2>3. events' \in 0..MaxEvents
    BY <1>1, <1>4 DEF Report, TypeOK
  <2>4. QED BY <1>4, <2>1, <2>2, <2>3, LineTypes, WritesKeep DEF Report
<1>5. ASSUME Leave PROVE Inv'
  <2>1. client.place \in Place
    BY <1>1, <1>5 DEF Leave, TypeOK
  <2>2. client' \in [up : BOOLEAN, place : Place \union {None}, due : Place \union {None}]
    BY <1>1, <1>5 DEF Leave, TypeOK
  <2>3. QED BY <1>2, <1>5, <2>1, <2>2, LineTypes, WritesKeep DEF Leave
<1>6. QED BY <1>3, <1>4, <1>5

\* A launch opens a log that nothing has been read of.
LEMMA LaunchKeeps ==
  ASSUME Inv, Launch
  PROVE  Inv'
<1>1. /\ logs' = logs + 1 /\ log' = <<>> /\ live' = TRUE /\ logs < MaxLogs
      /\ client' = [up |-> TRUE, place |-> None, due |-> None]
      /\ UNCHANGED <<config, guard, track, ledger, lost, botched>>
      /\ events < MaxEvents /\ events' = events + 1
  BY DEF Launch, World, Event
<1>2. TypeOK /\ track.path \in Nat /\ logs \in Nat /\ track.path <= logs
  BY DEF Inv, Ahead, TypeOK
<1>3. log' \in Seq(Written) /\ log' \in Seq(Line) /\ Len(log') = 0
  BY <1>1
<1>4. TypeOK'
  <2>1. logs' \in 0..MaxLogs /\ events' \in 0..MaxEvents /\ Len(log') <= MaxLines
    BY <1>1, <1>2, <1>3, GamesConstants DEF TypeOK, GamesConstants
  <2>2. QED BY <1>1, <1>2, <1>3, <2>1 DEF TypeOK
<1>5. track'.path # logs' /\ track'.path <= logs'
  BY <1>1, <1>2
<1>6. QED BY <1>1, <1>3, <1>4, <1>5 DEF Inv, Lines, Ahead, Covered, Holding, TrueTo

\* Steps that touch neither the log nor the guard.
LEMMA AsideKeeps ==
  ASSUME Inv, UNCHANGED <<log, logs, guard, track, ledger, lost>>,
         client' \in [up : BOOLEAN, place : Place \union {None}, due : Place \union {None}],
         live' \in BOOLEAN, botched' \in BOOLEAN, events' \in 0..MaxEvents,
         config' \in [form : {"good", "broken"}, policy : Policy]
  PROVE  Inv'
<1>1. TypeOK'
  BY DEF Inv, TypeOK
<1>2. Covered'
  BY CoveredStays
<1>3. QED BY <1>1, <1>2 DEF Inv, Lines, Ahead, Holding, TrueTo

LEMMA AsideStepKeeps ==
  ASSUME Inv,
         Close \/ GoSilent \/ Chatter \/ Break \/ (\E policy \in Policy : Write(policy))
               \/ UNCHANGED vars
  PROVE  Inv'
<1>1. TypeOK
  BY DEF Inv
<1>2. ASSUME Event PROVE events' \in 0..MaxEvents
  BY <1>1, <1>2, GamesConstants DEF TypeOK, Event, GamesConstants
<1>3. CASE Close
  BY <1>1, <1>2, <1>3, AsideKeeps DEF Close, World, TypeOK
<1>4. CASE GoSilent
  BY <1>1, <1>2, <1>4, AsideKeeps DEF GoSilent, World, TypeOK
<1>5. CASE Chatter
  BY <1>1, <1>5, AsideKeeps DEF Chatter, World, TypeOK
<1>6. CASE Break
  <2>1. config' \in [form : {"good", "broken"}, policy : Policy]
    BY <1>1, <1>6 DEF Break, TypeOK
  <2>2. QED BY <1>1, <1>2, <1>6, <2>1, AsideKeeps DEF Break, machine, TypeOK
<1>7. ASSUME NEW policy \in Policy, Write(policy) PROVE Inv'
  BY <1>1, <1>2, <1>7, AsideKeeps DEF Write, machine, TypeOK
<1>8. CASE UNCHANGED vars
  BY <1>1, <1>8, AsideKeeps DEF vars, TypeOK
<1>9. QED BY <1>3, <1>4, <1>5, <1>6, <1>7, <1>8
-----------------------------------------------------------------------------
(* Theorems *)

LEMMA InitInv == Init => Inv
<1>1. SUFFICES ASSUME Init PROVE Inv
  OBVIOUS
<1>2. track.path = 0 /\ track.offset = 0 /\ track.presence = Nowhere /\ log = <<>> /\ logs = 0
  BY <1>1, UntrackedTypes DEF Init
<1>3. guard.pc = "poll" /\ guard.caught = Nowhere
  BY <1>1 DEF Init, Awake
<1>4. TypeOK
  <2>1. /\ client \in [up : BOOLEAN, place : Place \union {None}, due : Place \union {None}]
        /\ config \in [form : {"good", "broken"}, policy : Policy]
        /\ live \in BOOLEAN /\ botched \in BOOLEAN /\ ledger = {} /\ lost = {}
    BY <1>1 DEF Init
  <2>2. /\ log \in Seq(Line) /\ Len(log) <= MaxLines /\ logs \in 0..MaxLogs
        /\ events \in 0..MaxEvents
    BY <1>1, <1>2, GamesConstants DEF Init, GamesConstants
  <2>3. guard = Awake /\ track = Untracked
    BY <1>1 DEF Init
  <2>4. QED BY <1>3, <2>1, <2>2, <2>3, UntrackedTypes, AwakeTypes DEF TypeOK
<1>5. Lines /\ Ahead /\ Holding /\ Covered /\ TrueTo(track.presence)
  BY <1>2, <1>3, NowhereTrue DEF Lines, Ahead, Holding, Covered
<1>6. QED BY <1>4, <1>5 DEF Inv

LEMMA NextInv == Inv /\ [Next]_vars => Inv'
<1>1. SUFFICES ASSUME Inv, [Next]_vars PROVE Inv'
  OBVIOUS
<1>2. CASE GuardStep
  BY <1>1, <1>2, PollIdleKeeps, PollKeeps, KillKeeps DEF GuardStep
<1>3. CASE Restart
  BY <1>1, <1>3, RestartKeeps
<1>4. CASE Launch
  BY <1>1, <1>4, LaunchKeeps
<1>5. CASE (\E place \in Place : Join(place)) \/ Report \/ Leave
  BY <1>1, <1>5, LogStepKeeps
<1>6. CASE Close \/ GoSilent \/ Chatter \/ Break \/ (\E policy \in Policy : Write(policy))
             \/ UNCHANGED vars
  BY <1>1, <1>6, AsideStepKeeps
<1>7. QED BY <1>1, <1>2, <1>3, <1>4, <1>5, <1>6 DEF Next, ClientStep

LEMMA InvAlways == Spec => []Inv
  BY InitInv, NextInv, PTL DEF Spec

\* The loop of roblox_games.py keeps its types, and it waits out a pause exactly while it
\* holds a game it caught (the variable caught of run).
THEOREM GamesTypes == Spec => []TypeOK
<1>1. Inv => TypeOK
  BY DEF Inv
<1>2. QED BY <1>1, InvAlways, PTL

LEMMA CoveredMissesNone == Inv => LedgerMissesNone
  BY DEF Inv, Covered, Known, LedgerMissesNone

\* However many joins, teleports and leaves fall into one poll, and however the guard is
\* restarted, idled or paused in between: every game the newest log says was played and
\* left is in roblox-games.seen.json once the line that ends it has been read, unless a
\* failed read or write of that file, or its limit on games, cost it.
THEOREM LedgerIsComplete == Spec => []LedgerMissesNone
  BY InvAlways, CoveredMissesNone, PTL
=============================================================================
