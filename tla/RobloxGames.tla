----------------------------- MODULE RobloxGames -----------------------------
(***************************************************************************)
(* roblox_games.py: which experiences may run.  The resident guard tails   *)
(* the newest client log, folds its lines onto the game the client is in,  *)
(* judges that game by the parent's list and ends the client.  A join      *)
(* writes two lines; only the second names the universe.                   *)
(***************************************************************************)
EXTENDS Naturals, Sequences, FiniteSets

CONSTANTS
  Universe,   \* experiences
  Place,      \* maps inside them
  UniverseOf, \* [Place -> Universe]
  Lists,      \* the lists of universes a parent may write
  SeenMax,    \* SEEN_MAX, the games the ledger keeps
  MaxLines,   \* bound on a log
  MaxLogs,    \* bound on launches
  MaxEvents   \* bound on what the child, the parent and failures do

None == "none"

ASSUME GamesConstants ==
  /\ UniverseOf \in [Place -> Universe] /\ None \notin Place \union Universe
  /\ Lists \subseteq SUBSET Universe /\ Lists # {}
  /\ SeenMax \in Nat /\ MaxLines \in Nat /\ MaxLogs \in Nat /\ MaxEvents \in Nat

Line == [kind : {"place", "full", "leave"}, place : Place \union {None}]
Presence == [place : Place, universe : Universe \union {None}]
Nowhere == [place |-> None, universe |-> None]
Policy == [enabled : BOOLEAN, mode : {"allow", "deny"}, list : Lists]

VARIABLES
  client,   \* the Roblox client: is it up, where is it, which line is still to come
  log,      \* its newest log
  logs,     \* how many logs there have been
  live,     \* was the newest log written in the last STALE_SEC?
  config,   \* roblox-games.json: its form and what it says
  guard,    \* the guard's memory: pc, policy, last_good, when it read the file
  track,    \* the Tracker: path, offset, presence
  ledger,   \* the keys of roblox-games.seen.json
  lost,     \* history: the keys a failed read or write, or SEEN_MAX, cost the ledger
  botched,  \* did a taskkill fail?
  events

vars == <<client, log, logs, live, config, guard, track, ledger, lost, botched, events>>
machine == <<client, log, logs, live>>

Event == events < MaxEvents /\ events' = events + 1

Off == [enabled |-> FALSE, mode |-> "allow", list |-> CHOOSE l \in Lists : TRUE]
Untracked == [path |-> 0, offset |-> 0, presence |-> Nowhere]
Awake == [pc |-> "poll", policy |-> Off, lastGood |-> Off, stale |-> TRUE, caught |-> Nowhere]

Init ==
  /\ client = [up |-> FALSE, place |-> None, due |-> None]
  /\ log = <<>> /\ logs = 0 /\ live = FALSE
  /\ config \in [form : {"good"}, policy : Policy]
  /\ guard = Awake /\ track = Untracked
  /\ ledger = {} /\ lost = {} /\ botched = FALSE /\ events = 0
-----------------------------------------------------------------------------
(* What the log says *)

\* The two lines of one join are one join, seen twice.
Merged(current, line) ==
  IF line.kind = "full" /\ current.universe = None
    THEN [current EXCEPT !.universe = UniverseOf[line.place]] ELSE current

Joined(line) ==
  [place |-> line.place, universe |-> IF line.kind = "full" THEN UniverseOf[line.place] ELSE None]

\* Mutant of Closed: only where the client ended up matters.
ClosedNever(seen) == seen.ended

Closed(seen) == IF seen.now = Nowhere THEN seen.ended ELSE seen.ended \union {seen.now}

Fold(seen, line) ==
  CASE line.kind = "leave" -> [now |-> Nowhere, ended |-> Closed(seen)]
    [] line.kind # "leave" /\ seen.now.place = line.place ->
         [seen EXCEPT !.now = Merged(@, line)]
    [] OTHER -> [now |-> Joined(line), ended |-> Closed(seen)]

\* What has been seen after each of the lines.
Seen(lines, current) ==
  LET seen[i \in 0..Len(lines)] ==
        IF i = 0 THEN [now |-> current, ended |-> {}] ELSE Fold(seen[i - 1], lines[i])
  IN seen

FoldPresence(lines, current) == Seen(lines, current)[Len(lines)]

\* The key a finished session has in the ledger.
Key(presence) == IF presence.universe = None THEN presence.place ELSE presence.universe
Keys(sessions) == {Key(s) : s \in sessions \ {Nowhere}}

\* A save that works keeps SEEN_MAX games; that they are the last played is left open.
Saved(keys) ==
  IF Cardinality(ledger \union keys) <= SeenMax THEN {ledger \union keys}
  ELSE {kept \in SUBSET (ledger \union keys) : Cardinality(kept) = SeenMax}

\* A ledger that cannot be read reads as an empty one, which the next save puts in its place;
\* a save that fails is passed over.
Spoiled(keys) ==
  {left \in {kept \union new : kept \in {ledger, {}}, new \in SUBSET keys} :
     Cardinality(left) <= SeenMax}

\* Each finished session is read into the ledger and saved; nothing is written for none.
Remember(sessions) ==
  LET keys == Keys(sessions) IN
  /\ ledger' \in IF keys = {} THEN {ledger} ELSE Saved(keys) \union Spoiled(keys)
  /\ lost' = (lost \union ledger \union keys) \ ledger'

\* Did a read or a write of the ledger fail?
Spoils(sessions) == Keys(sessions) # {} /\ ledger' \notin Saved(Keys(sessions))

Troubled(bad) == IF bad THEN Event ELSE UNCHANGED events
-----------------------------------------------------------------------------
(* The rule *)

Kills(policy, presence) ==
  /\ policy.enabled /\ presence # Nowhere
  /\ (presence.universe \in policy.list) = (policy.mode = "deny")

Loaded == IF config.form = "good" THEN config.policy ELSE guard.lastGood
-----------------------------------------------------------------------------
(* The guard's loop *)

\* The policy of a tick: the file is read every CONFIG_EVERY_SEC, which no two polls
\* in a row are without.
Reading(read) == read \/ guard.stale

Judged(policy, presence, read) ==
  guard' = [guard EXCEPT
    !.policy = policy,
    !.lastGood = IF Reading(read) /\ config.form = "good" THEN config.policy ELSE @,
    !.stale = ~Reading(read),
    !.pc = IF Kills(policy, presence) THEN "pausing" ELSE "poll",
    !.caught = IF Kills(policy, presence) THEN presence ELSE Nowhere]

\* Nothing to watch: whatever was tracked is forgotten.
PollIdle(read) ==
  LET policy == IF Reading(read) THEN Loaded ELSE guard.policy
  IN /\ guard.pc = "poll"
     /\ ~policy.enabled \/ ~live
     /\ track' = Untracked
     /\ Judged(policy, Nowhere, read)
     /\ UNCHANGED <<machine, config, ledger, lost, botched, events>>

\* Mutant of Offset: a new log is tailed from its end.
OffsetAtEnd == IF track.path = logs THEN track.offset ELSE Len(log)

\* A log seen for the first time is read whole.
Offset == IF track.path = logs THEN track.offset ELSE 0

Poll(read) ==
  LET policy == IF Reading(read) THEN Loaded ELSE guard.policy
      before == IF track.path = logs THEN track.presence ELSE Nowhere
      seen == FoldPresence(SubSeq(log, Offset + 1, Len(log)), before)
      outgoing == IF track.path = logs THEN {} ELSE {track.presence}
  IN /\ guard.pc = "poll" /\ policy.enabled /\ live
     /\ track' = [path |-> logs, offset |-> Len(log), presence |-> seen.now]
     /\ Remember(seen.ended \union outgoing) /\ Troubled(Spoils(seen.ended \union outgoing))
     /\ Judged(policy, seen.now, read)
     /\ UNCHANGED <<machine, config, botched>>

\* The pause is over: what is still up is ended, and what was caught is forgotten
\* whether or not that worked.
Kill(works) ==
  /\ guard.pc = "pausing"
  /\ IF client.up /\ works
       THEN client' = [up |-> FALSE, place |-> None, due |-> None] ELSE UNCHANGED client
  /\ botched' = (botched \/ (client.up /\ ~works))
  /\ Remember({guard.caught}) /\ Troubled((client.up /\ ~works) \/ Spoils({guard.caught}))
  /\ track' = [track EXCEPT !.presence = Nowhere]
  /\ guard' = [guard EXCEPT !.pc = "poll", !.caught = Nowhere]
  /\ UNCHANGED <<log, logs, live, config>>

\* The task starts the guard again.
Restart ==
  /\ Event
  /\ guard' = Awake /\ track' = Untracked
  /\ UNCHANGED <<machine, config, ledger, lost, botched>>
-----------------------------------------------------------------------------
(* The client and the child *)

Writes(line) ==
  /\ Len(log) < MaxLines
  /\ log' = Append(log, line) /\ live' = TRUE /\ UNCHANGED logs

World == <<config, guard, track, ledger, lost, botched>>

Launch ==
  /\ ~client.up /\ logs < MaxLogs /\ Event
  /\ client' = [up |-> TRUE, place |-> None, due |-> None]
  /\ logs' = logs + 1 /\ log' = <<>> /\ live' = TRUE
  /\ UNCHANGED World

Join(place) ==
  /\ client.up /\ client.due = None /\ place # client.place /\ Event
  /\ Len(log) + 1 < MaxLines
  /\ Writes([kind |-> "place", place |-> place])
  /\ client' = [client EXCEPT !.place = place, !.due = place]
  /\ UNCHANGED World

\* The line with the universe comes a beat later.
Report ==
  /\ client.up /\ client.due # None
  /\ Writes([kind |-> "full", place |-> client.due])
  /\ client' = [client EXCEPT !.due = None]
  /\ UNCHANGED <<World, events>>

Leave ==
  /\ client.up /\ client.place # None /\ client.due = None /\ Event
  /\ Writes([kind |-> "leave", place |-> None])
  /\ client' = [client EXCEPT !.place = None]
  /\ UNCHANGED World

\* The window is closed or the client dies.
Close ==
  /\ client.up /\ Event
  /\ client' = [up |-> FALSE, place |-> None, due |-> None]
  /\ UNCHANGED <<log, logs, live, World>>

\* STALE_SEC without a line, and a line that says nothing.
GoSilent ==
  /\ live /\ Event
  /\ live' = FALSE
  /\ UNCHANGED <<client, log, logs, World>>

Chatter ==
  /\ client.up /\ ~live
  /\ live' = TRUE
  /\ UNCHANGED <<client, log, logs, World, events>>

\* The panel's three controls write the whole policy; a hand edit may break the file.
Write(policy) ==
  /\ policy # config.policy \/ config.form # "good"
  /\ Event
  /\ config' = [form |-> "good", policy |-> policy]
  /\ UNCHANGED <<machine, guard, track, ledger, lost, botched>>

Break ==
  /\ config.form = "good" /\ Event
  /\ config' = [config EXCEPT !.form = "broken"]
  /\ UNCHANGED <<machine, guard, track, ledger, lost, botched>>
-----------------------------------------------------------------------------
GuardStep ==
  \/ \E read \in BOOLEAN : PollIdle(read) \/ Poll(read)
  \/ \E works \in BOOLEAN : Kill(works)

ClientStep == Report \/ Chatter

Next ==
  \/ GuardStep \/ ClientStep \/ Restart
  \/ Launch \/ Leave \/ Close \/ GoSilent \/ Break
  \/ \E place \in Place : Join(place)
  \/ \E policy \in Policy : Write(policy)

Spec == Init /\ [][Next]_vars

\* The loop never ends, and a client that is up goes on writing its log.
FairSpec == Spec /\ WF_vars(GuardStep) /\ WF_vars(ClientStep)
-----------------------------------------------------------------------------
(* Properties *)

\* The guard waits out its pause exactly while it holds a game it caught.
TypeOK ==
  /\ client \in [up : BOOLEAN, place : Place \union {None}, due : Place \union {None}]
  /\ log \in Seq(Line) /\ Len(log) <= MaxLines /\ logs \in 0..MaxLogs /\ live \in BOOLEAN
  /\ config \in [form : {"good", "broken"}, policy : Policy]
  /\ guard \in [pc : {"poll", "pausing"}, policy : Policy, lastGood : Policy,
                stale : BOOLEAN, caught : Presence \union {Nowhere}]
  /\ track \in [path : 0..MaxLogs, offset : 0..MaxLines, presence : Presence \union {Nowhere}]
  /\ (guard.pc = "pausing") = (guard.caught # Nowhere)
  /\ ledger \subseteq Place \union Universe /\ lost \subseteq Place \union Universe
  /\ botched \in BOOLEAN /\ events \in 0..MaxEvents

\* No game that was played and left is missing from the ledger, however many joins and
\* leaves fall into one poll, but for those it lost with a failed read or write or to
\* SEEN_MAX: the fold, the pauses, kills and restarts of the guard lose none.
Left(i) ==
  \E j \in i + 1..track.offset :
    log[j].kind = "leave" \/ (log[j].kind = "place" /\ log[j].place # log[i].place)
LedgerMissesNone ==
  track.path = logs =>
    \A i \in 1..track.offset :
      log[i].kind = "full" /\ Left(i) => UniverseOf[log[i].place] \in ledger \union lost

\* A forbidden game cannot go on for ever, whatever order joins, teleports, edits of the
\* list, silences and restarts come in.
Banned ==
  /\ config.form = "good" /\ config.policy.enabled
  /\ client.up /\ client.place # None
  /\ (UniverseOf[client.place] \in config.policy.list) = (config.policy.mode = "deny")
BannedEnds == []~botched => ~<>[]Banned

\* The guard records every join it observes (the comment above load_seen): while the lane
\* is on, a game it tracks gets into the ledger, unless it is tracked for ever.
Tracks(universe) == track.presence.universe = universe
JoinsAreRecorded ==
  []config.policy.enabled =>
    \A universe \in Universe : Tracks(universe) ~> (universe \in ledger \/ []Tracks(universe))
=============================================================================
