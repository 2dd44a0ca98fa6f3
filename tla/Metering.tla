------------------------------ MODULE Metering ------------------------------
(***************************************************************************)
(* Is the child watching?  The observation half of a watcher tick          *)
(* (Ticker._observe with pins.py and meter.py): the addresses YouTube      *)
(* names resolved to are pinned, one pktmon counter session counts what    *)
(* they carry, and a high-water mark over the throughput decides.          *)
(*                                                                         *)
(* Time is counted in samples.  `flow` is the counter relative to the last *)
(* reading; an age replaces each absolute time stamp.  The machine has one *)
(* session, whoever started it: it counts what its filters name, and       *)
(* everything when it has none.                                            *)
(***************************************************************************)
EXTENDS Naturals, Integers, FiniteSets

CONSTANTS
  Address,      \* the addresses, numbers in the order of their spelling
  MaxPins,      \* pktmon's filter limit
  Expire,       \* pin_idle_expire_min, in samples
  Window,       \* window_sec, in samples
  Threshold,    \* min_throughput_kbps: bytes per sample that count as video
  VideoRate,    \* bytes per sample of a playing video
  Chatter,      \* bytes per sample, at most, of everything else that is metered
  Foreigners,   \* the filter sets other users of pktmon give the session
  MaxLate,      \* a tick comes at most this many samples after the last one
  MaxEvents     \* bound on resolutions, playbacks, failures and restarts

ASSUME MeteringConstants ==
  /\ Address \subseteq Nat /\ IsFiniteSet(Address)
  /\ MaxPins \in Nat \ {0} /\ Expire \in Nat \ {0} /\ Window \in Nat \ {0}
  /\ Threshold \in Nat \ {0} /\ VideoRate \in Nat /\ Chatter \in Nat
  /\ Foreigners \subseteq SUBSET Address
  /\ MaxLate \in Nat \ {0} /\ MaxEvents \in Nat

Nobody == -1     \* no address, and no sample above the threshold yet
Answer == Address \X BOOLEAN

VARIABLES
  pins,        \* Ticker._pins: address -> [idle, video], for the pinned ones
  metered,     \* Ticker._metered: what the counter session was last built for
  alive,       \* does a counter session exist?
  filters,     \* the addresses it was given, {} for all there are
  baseline,    \* Meter._prev: does the meter hold a previous reading?
  flow,        \* the counter, relative to the last reading of this session
  sinceActive, \* Meter._since_active
  watching,    \* the verdict of the last tick
  elapsed,     \* samples since the last tick
  carried,     \* what the metered addresses really carried since then
  overrun,     \* time credited since the last sample above the threshold
  answers,     \* DNS answers logged since the last look
  stream,      \* the address the video comes from, or Nobody
  events

vars == <<pins, metered, alive, filters, baseline, flow, sinceActive, watching, elapsed,
          carried, overrun, answers, stream, events>>

Event == events < MaxEvents /\ events' = events + 1

NoPins == [a \in {} |-> [idle |-> 0, video |-> FALSE]]

Init ==
  /\ pins = NoPins
  /\ metered = {} /\ alive = FALSE /\ filters = {}
  /\ baseline = FALSE /\ flow = 0 /\ sinceActive = Nobody
  /\ watching = FALSE /\ elapsed = 0 /\ carried = 0 /\ overrun = 0
  /\ answers \in SUBSET Answer /\ stream = Nobody /\ events = 0
-----------------------------------------------------------------------------
(* pins.update, from the answers heard and whether anything flowed *)

Answered(heard) == {r[1] : r \in heard}

\* Traffic keeps every pin alive, since the counter is one aggregate, and an
\* answer is activity too.
Idle(a, heard, active) == IF active \/ a \in Answered(heard) THEN 0 ELSE pins[a].idle

\* An address once seen to serve video stays a video endpoint.
Video(a, heard) == <<a, TRUE>> \in heard \/ (a \in DOMAIN pins /\ pins[a].video)

\* The pins that are not idle.
Live(heard, active) ==
  {a \in DOMAIN pins \union Answered(heard) : Idle(a, heard, active) < Expire}

\* The order in which pins are kept: video endpoints, then the most recently
\* active, then by spelling.
Before(a, b, heard, active) ==
  LET idleA == Idle(a, heard, active)
      idleB == Idle(b, heard, active)
  IN IF Video(a, heard) # Video(b, heard) THEN Video(a, heard)
     ELSE idleA < idleB \/ (idleA = idleB /\ a < b)

\* Mutant of Kept: recency alone decides.
KeptByRecency(heard, active) ==
  LET earlier(a, b) == \/ Idle(a, heard, active) < Idle(b, heard, active)
                       \/ Idle(a, heard, active) = Idle(b, heard, active) /\ a < b
  IN {a \in Live(heard, active) :
        Cardinality({b \in Live(heard, active) : earlier(b, a)}) < MaxPins}

\* Mutant of Kept: one pin more than there are filters.
KeptOneMore(heard, active) ==
  {a \in Live(heard, active) :
     Cardinality({b \in Live(heard, active) : Before(b, a, heard, active)}) <= MaxPins}

Kept(heard, active) ==
  {a \in Live(heard, active) :
     Cardinality({b \in Live(heard, active) : Before(b, a, heard, active)}) < MaxPins}
-----------------------------------------------------------------------------
(* Meter.observe *)

Readable == metered # {} /\ alive

\* Mutant of Usable: a delta against a stale baseline counts.
UsableWithoutBaseline(readable) == readable /\ flow >= 0

\* A reading is unusable when the counter cannot be read, when it is the first
\* one of a baseline, and when it went backwards.
Usable(readable) == readable /\ baseline /\ flow >= 0

High == flow >= Threshold * elapsed

\* Mutant of Aged: idle samples do not age the high-water mark.
AgedNever(usable) == IF usable /\ High THEN 0 ELSE sinceActive

Aged(usable) ==
  IF ~usable \/ (~High /\ sinceActive = Nobody) THEN sinceActive
  ELSE IF High THEN 0
  ELSE IF sinceActive + elapsed < Window THEN sinceActive + elapsed ELSE Window
-----------------------------------------------------------------------------
(* Ticker._observe: read the counter, update the pins, rebuild the session  *)
(* when the set of addresses changed, then judge.                           *)

\* Mutant of Changed: every tick rebuilds the session.
ChangedAlways(set) == set # {} \/ metered # {}

Changed(set) == set # metered

\* stop_metering and set_metered_ips: without a filter pktmon would count
\* everything, so no session is started for an empty set.  No result of pktmon is
\* looked at: what a rebuild that failed leaves is any of the filters of before and
\* of now, under a session that was not stopped, was started, or is not there.
Rebuilt(set, failed) ==
  IF failed
  THEN {s \in [running : BOOLEAN, filters : SUBSET (filters \union set)] :
          s.running => alive \/ set # {}}
  ELSE {[running |-> set # {}, filters |-> set]}

\* A tick hears some of the logged answers, reads the counter or does not, and
\* rebuilds the session or fails to.  A rebuild forgets the meter's history.
Observe(heard, readable, failed) ==
  LET usable  == Usable(readable)
      active  == usable /\ flow > 0
      kept    == Kept(heard, active)
      changed == Changed(kept)
      aged    == IF changed THEN Nobody ELSE Aged(usable)
  IN /\ elapsed > 0
     /\ pins' = [a \in kept |-> [idle |-> Idle(a, heard, active), video |-> Video(a, heard)]]
     /\ metered' = kept
     /\ IF changed
        THEN \E s \in Rebuilt(kept, failed) : alive' = s.running /\ filters' = s.filters
        ELSE UNCHANGED <<alive, filters>>
     /\ baseline' = (readable /\ ~changed)
     /\ sinceActive' = aged
     /\ watching' = (usable /\ aged # Nobody /\ aged < Window)
     /\ overrun' = IF usable /\ High THEN 0
                   ELSE IF watching' THEN overrun + elapsed ELSE overrun
     /\ flow' = IF readable \/ changed THEN 0 ELSE flow
     /\ carried' = 0 /\ elapsed' = 0 /\ answers' = {}
     /\ UNCHANGED stream

Tick == Observe(answers, Readable, FALSE) /\ UNCHANGED events
TickUnread == Event /\ Readable /\ Observe(answers, FALSE, FALSE)
TickUnheard == Event /\ answers # {} /\ Observe({}, Readable, FALSE)
TickRebuildFails ==
  Event /\ Observe(answers, Readable, TRUE) /\ metered' # metered

\* Does the session count addresses the watcher does not meter?
Foreign == filters = {} \/ ~(filters \subseteq metered)

\* What the session counts beside the video, when the metered addresses carry other.
Counted(other) ==
  IF filters = metered THEN {other}
  ELSE IF Foreign THEN {0, VideoRate}
  ELSE 0..other

FromStream(sources) == IF stream \in sources THEN VideoRate ELSE 0

\* A sample's worth of time: the metered addresses carry what they carry, and the
\* session counts what its filters let it.
Pass ==
  /\ elapsed < MaxLate
  /\ elapsed' = elapsed + 1
  /\ IF metered = {} THEN UNCHANGED <<carried, flow>>
     ELSE \E other \in 0..Chatter : \E counted \in Counted(other) :
            /\ carried' = carried + other + FromStream(metered)
            /\ flow' = IF ~alive THEN flow
                       ELSE flow + counted
                              + FromStream(IF filters = {} THEN Address ELSE filters)
  /\ pins' = [a \in DOMAIN pins |->
                [pins[a] EXCEPT !.idle = IF @ < Expire THEN @ + 1 ELSE @]]
  /\ UNCHANGED <<metered, alive, filters, baseline, sinceActive, watching, overrun,
                 answers, stream, events>>

\* A YouTube name resolves; only googlevideo names carry video.
Resolve(answer) ==
  /\ Event
  /\ answers' = answers \union {answer}
  /\ UNCHANGED <<pins, metered, alive, filters, baseline, flow, sinceActive, watching,
                 elapsed, carried, overrun, stream>>

\* A video starts on an address the browser knows, or stops.
Play(source) ==
  /\ Event /\ source # stream
  /\ \/ source = Nobody
     \/ <<source, TRUE>> \in answers
     \/ source \in DOMAIN pins /\ pins[source].video
  /\ stream' = source
  /\ UNCHANGED <<pins, metered, alive, filters, baseline, flow, sinceActive, watching,
                 elapsed, carried, overrun, answers>>

\* Somebody else starts the one pktmon session of the machine over, with filters
\* of their own or with none.
SessionRestarted(lost, others) ==
  /\ Event
  /\ alive' = TRUE /\ filters' = others
  /\ flow' = 0 - lost
  /\ UNCHANGED <<pins, metered, baseline, sinceActive, watching, elapsed, carried,
                 overrun, answers, stream>>

SessionStopped ==
  /\ alive /\ Event
  /\ alive' = FALSE
  /\ UNCHANGED <<pins, metered, filters, baseline, flow, sinceActive, watching, elapsed,
                 carried, overrun, answers, stream>>

\* The watcher starts again: the session is stopped, unless that fails, and the
\* meter is new; the pins come from their file, where there is a sound one, and the first look
\* reaches back over known answers.
Loaded == {pins, NoPins}

Restart(known, stopped) ==
  /\ Event
  /\ metered' = {} /\ alive' = (alive /\ ~stopped)
  /\ filters' = IF stopped THEN {} ELSE filters
  /\ baseline' = FALSE /\ flow' = 0 /\ sinceActive' = Nobody
  /\ watching' = FALSE /\ overrun' = 0
  /\ answers' = answers \union known
  /\ pins' \in Loaded
  /\ UNCHANGED <<elapsed, carried, stream>>

Next ==
  \/ Tick \/ TickUnread \/ TickUnheard \/ TickRebuildFails
  \/ Pass
  \/ \E answer \in Answer : Resolve(answer)
  \/ \E source \in Address \union {Nobody} : Play(source)
  \/ \E lost \in {0, VideoRate}, others \in Foreigners : SessionRestarted(lost, others)
  \/ SessionStopped
  \/ \E known \in SUBSET {<<a, pins[a].video>> : a \in DOMAIN pins}, stopped \in BOOLEAN :
       Restart(known, stopped)

Spec == Init /\ [][Next]_vars

\* The watcher's loop goes on and time passes.
FairSpec == Spec /\ WF_vars(Tick) /\ WF_vars(Pass)
-----------------------------------------------------------------------------
(* Properties *)

\* Types; and there are never more pins than pktmon has filters, which set_metered_ips
\* would cut off silently (windows.py:327).
TypeOK ==
  /\ DOMAIN pins \subseteq Address
  /\ pins \in [DOMAIN pins -> [idle : 0..Expire, video : BOOLEAN]]
  /\ Cardinality(DOMAIN pins) <= MaxPins
  /\ metered \subseteq Address /\ filters \subseteq Address
  /\ alive \in BOOLEAN /\ baseline \in BOOLEAN /\ watching \in BOOLEAN
  /\ flow \in Int /\ carried \in Nat
  /\ sinceActive \in 0..Window \union {Nobody}
  /\ elapsed \in 0..MaxLate
  /\ overrun \in Nat
  /\ answers \subseteq Answer
  /\ stream \in Address \union {Nobody}
  /\ events \in 0..MaxEvents

\* "A delta against a stale baseline would be a huge phantom spike" (meter.py):
\* a sample counts as above the threshold only if the metered addresses really
\* carried that much since the previous tick, however the counter failed and
\* whoever restarted it, or if the session that is read counts other addresses
\* too: the watcher reads any session and never looks at its filters.
NoPhantomSpike ==
  [][ (elapsed > 0 /\ elapsed' = 0 /\ watching' /\ sinceActive' = 0)
        => carried >= Threshold * elapsed \/ Foreign ]_vars

\* The clock stops at most window_sec after streaming ends: less than the window
\* is credited after the last sample above the threshold, however many readings
\* fail, sets change and sessions restart in between.
OverrunBounded == overrun < Window

\* Pins are kept by activity, video endpoints first: while the endpoint of a
\* video carries it, no number of other addresses evicts its pin, unless there
\* are more video endpoints than filters.
VideoEndpoints ==
  {a \in Address : <<a, TRUE>> \in answers \/ (a \in DOMAIN pins /\ pins[a].video)}
StreamKeepsPin ==
  [][ (/\ Tick /\ Usable(Readable) /\ flow > 0
       /\ stream \in DOMAIN pins \intersect VideoEndpoints
       /\ Cardinality(VideoEndpoints) <= MaxPins)
        => stream \in DOMAIN pins' ]_vars

\* A video that plays from a metered address while all pins were just active, over
\* a running session that counts it and with nothing left to disturb it, ends up
\* credited at every tick.
Settled == /\ stream \in metered /\ alive /\ (filters = {} \/ stream \in filters)
           /\ answers = {} /\ events = MaxEvents
           /\ metered = DOMAIN pins /\ \A a \in metered : pins[a].idle = 0
StreamIsCredited == [](Settled => <>[]watching)

\* "If the `pktmon` counters can't be read the watcher re-arms the session"
\* (src/windows/youtube-budget/README.md): a video that plays from a metered
\* address does not stay unmetered because the session went away.
SessionIsRearmed == (stream \in metered /\ ~alive) ~> (alive \/ stream = Nobody)
=============================================================================
