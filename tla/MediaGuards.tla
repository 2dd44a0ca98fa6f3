---------------------------- MODULE MediaGuards ----------------------------
(***************************************************************************)
(* The two resident guards of sound: mic_guard.py silences every capture   *)
(* endpoint, volume_guard.py keeps the default output under a ceiling.     *)
(* Both are one loop: read the configuration now and then, enumerate what  *)
(* is to be minded now and then, and go over it once per second; whatever  *)
(* fails, drop everything and start over a little later.                   *)
(*                                                                         *)
(* One level per endpoint stands for both lanes: for a microphone 0 is     *)
(* muted at zero, 1 one of the two, 2 neither; for an output it is the     *)
(* master volume.  A pass takes no time; it is made of one step for each   *)
(* endpoint, between which devices come, go and are turned up.             *)
(***************************************************************************)
EXTENDS Naturals

CONSTANTS
  Endpoints,        \* the devices
  Order,            \* the place of each when Windows enumerates them
  ConfigEvery, ReacquireEvery, Retry,   \* in passes
  MaxUpsets         \* bound on devices, faults, configurations and deaths that come

\* The longest the loop may overlook an endpoint: it is about to read its file, or to enumerate,
\* when the pass fails and the back-off comes in between.
Longest == (IF ConfigEvery > ReacquireEvery THEN ConfigEvery ELSE ReacquireEvery) - 1 + Retry

ASSUME MediaAssumption ==
  /\ {ConfigEvery, ReacquireEvery, Retry} \subseteq Nat \ {0} /\ MaxUpsets \in Nat
  /\ Order \in [Endpoints -> Nat]

VARIABLES
  lane,      \* "mic" or "volume"
  plugged,   \* the endpoints that are active
  default,   \* the output that programs play through
  level,
  fault,     \* what is wrong with which endpoint
  config,    \* what the lane's file says
  loop,      \* the guard's process
  exposed,   \* seconds an endpoint was too loud although nothing was in the way
  upsets

mediaVars == <<lane, plugged, default, level, fault, config, loop, exposed, upsets>>

Top == 2
Off == Top + 1
NoFault == [at |-> "none", kind |-> "none"]

DefaultCap == IF lane = "mic" THEN 0 ELSE 1

\* A file that is damaged means the default ceiling; at 100 % nothing is capped.
CapOf(file) ==
  CASE file = "off"  -> Off
    [] file = "full" -> Top
    [] file = "low"  -> 0
    [] file = "bad"  -> DefaultCap

Files == IF lane = "mic" THEN {"off", "low", "bad"} ELSE {"off", "low", "full", "bad"}

Asleep(l, passes) == [l EXCEPT !.pc = "asleep", !.wait = passes]

\* A process that has just started believes the default and reads the file at once.
Started == [pc |-> "asleep", wait |-> 0, cap |-> DefaultCap, read |-> ConfigEvery,
            held |-> {}, age |-> ReacquireEvery, left |-> {}]

MediaInit ==
  /\ lane \in {"mic", "volume"} /\ plugged \in SUBSET Endpoints /\ default \in Endpoints
  /\ level = [e \in Endpoints |-> Top] /\ fault = NoFault /\ config = "low"
  /\ loop = Started /\ exposed = [e \in Endpoints |-> 0] /\ upsets = 0
-----------------------------------------------------------------------------
\* Every active microphone, or the one output that is the default.
Wanted == {e \in plugged : lane = "volume" => e = default}

Faulty(e, kinds) == fault.at = e /\ fault.kind \in kinds

\* There is no default output, or an endpoint does not let itself be opened.
OpenFails ==
  \/ lane = "volume" /\ Wanted = {}
  \/ \E e \in Wanted : Faulty(e, {"open"})

\* Release everything and enumerate anew after the back-off.
Dropped(l) == Asleep([l EXCEPT !.held = {}, !.left = {}, !.age = ReacquireEvery], Retry)
Excused == exposed' = [e \in Endpoints |-> 0]

\* Mutant of Due: a list that is held is held for good.
DueOnce(l) == l.held = {}

Due(l) == l.held = {} \/ l.age >= ReacquireEvery

\* Mutant of Refreshed: a loop that stands down does not look at its file any more.
RefreshedAwake == IF loop.read >= ConfigEvery /\ loop.cap # Off
                  THEN [loop EXCEPT !.cap = CapOf(config), !.read = 0] ELSE loop

Refreshed == IF loop.read >= ConfigEvery THEN [loop EXCEPT !.cap = CapOf(config), !.read = 0]
             ELSE loop

Awake == loop.pc = "asleep" /\ loop.wait = 0

StandDown ==
  /\ Awake /\ Refreshed.cap = Off
  /\ loop' = Asleep([Refreshed EXCEPT !.held = {}, !.age = ReacquireEvery], 1)
  /\ UNCHANGED <<lane, plugged, default, level, fault, config, exposed, upsets>>

OpenOrKeep ==
  /\ Awake /\ Refreshed.cap # Off /\ ~(Due(Refreshed) /\ OpenFails)
  /\ LET held == IF Due(Refreshed) THEN Wanted ELSE loop.held IN
     loop' = [Refreshed EXCEPT !.pc = "pass", !.held = held, !.left = held,
                !.age = IF Due(Refreshed) THEN 0 ELSE @]
  /\ UNCHANGED <<lane, plugged, default, level, fault, config, exposed, upsets>>

CannotOpen ==
  /\ Awake /\ Refreshed.cap # Off /\ Due(Refreshed) /\ OpenFails
  /\ loop' = Dropped(Refreshed) /\ Excused
  /\ UNCHANGED <<lane, plugged, default, level, fault, config, upsets>>

\* The pass is at e: the first of those that are left.
Current(e) ==
  loop.pc = "pass" /\ e \in loop.left /\ \A d \in loop.left : Order[e] <= Order[d]

\* An answer that is no number counts as too loud, unless nothing is capped.
NeedsSilencing(e) == loop.cap < Top /\ (level[e] > loop.cap \/ Faulty(e, {"garbage"}))

Unreadable(e) == e \notin plugged \/ Faulty(e, {"read", "open"})

LeaveAlone(e) ==
  /\ Current(e) /\ ~Unreadable(e) /\ ~NeedsSilencing(e)
  /\ loop' = [loop EXCEPT !.left = @ \ {e}]
  /\ UNCHANGED <<lane, plugged, default, level, fault, config, exposed, upsets>>

Silence(e) ==
  /\ Current(e) /\ ~Unreadable(e) /\ NeedsSilencing(e) /\ ~Faulty(e, {"write"})
  /\ level' = [level EXCEPT ![e] = loop.cap]
  /\ exposed' = [exposed EXCEPT ![e] = 0]
  /\ loop' = [loop EXCEPT !.left = @ \ {e}]
  /\ UNCHANGED <<lane, plugged, default, fault, config, upsets>>

\* One that fails ends the pass over all; the mute may have been set, the level not.  It is in
\* the way of those the pass has not reached, and of no other.
PassFails(e) ==
  /\ Current(e)
  /\ \/ Unreadable(e) /\ UNCHANGED level
     \/ /\ NeedsSilencing(e) /\ Faulty(e, {"write"})
        /\ level' \in {level, [level EXCEPT ![e] = IF lane = "mic" THEN 1 ELSE @]}
  /\ exposed' = [d \in Endpoints |-> IF d \in loop.left THEN 0 ELSE exposed[d]]
  /\ loop' = Dropped(loop)
  /\ UNCHANGED <<lane, plugged, default, fault, config, upsets>>

PassEnds ==
  /\ loop.pc = "pass" /\ loop.left = {}
  /\ loop' = Asleep(loop, 1)
  /\ UNCHANGED <<lane, plugged, default, level, fault, config, exposed, upsets>>

\* The endpoints a pass over all has been at when it is done with e.
UpTo(e) == {d \in Wanted : Order[d] <= Order[e]}

\* --once: one enumeration and one pass, by hand.
Once ==
  LET cap == CapOf(config)
      fails(d) == Faulty(d, {"read"}) \/ (Faulty(d, {"write"}) /\ level[d] > cap) IN
  /\ cap < Top /\ ~OpenFails
  /\ level' = [e \in Endpoints |->
       IF e \in Wanted /\ level[e] > cap /\ \A d \in UpTo(e) : ~fails(d) THEN cap
       ELSE level[e]]
  /\ exposed' = [e \in Endpoints |-> IF level'[e] = level[e] THEN exposed[e] ELSE 0]
  /\ UNCHANGED <<lane, plugged, default, fault, config, loop, upsets>>
-----------------------------------------------------------------------------
(* The world *)

Upset == upsets < MaxUpsets /\ upsets' = upsets + 1

\* A click in the tray, a drag at the slider, a program.
TurnUp(e) ==
  /\ \E higher \in level[e]..Top : level' = [level EXCEPT ![e] = higher]
  /\ UNCHANGED <<lane, plugged, default, fault, config, loop, exposed, upsets>>

Replug ==
  /\ Upset /\ plugged' \in SUBSET Endpoints /\ default' \in Endpoints
  /\ exposed' = [e \in Endpoints |-> IF e \in plugged' /\ (lane = "volume" => e = default')
                                      THEN exposed[e] ELSE 0]
  /\ UNCHANGED <<lane, level, fault, config, loop>>

Break ==
  /\ Upset
  /\ fault' \in [at : Endpoints, kind : {"open", "read", "write", "garbage"}] \union {NoFault}
  /\ UNCHANGED <<lane, plugged, default, level, config, loop, exposed>>

Edit ==
  /\ Upset /\ config' \in Files
  /\ exposed' = [e \in Endpoints |-> IF level[e] > CapOf(config') THEN exposed[e] ELSE 0]
  /\ UNCHANGED <<lane, plugged, default, level, fault, loop>>

\* The user logs off or ends the process; logging on or the task's repetition revives it.
Die ==
  /\ Upset /\ loop.pc # "dead" /\ loop' = [Started EXCEPT !.pc = "dead"] /\ Excused
  /\ UNCHANGED <<lane, plugged, default, level, fault, config>>

Revive ==
  /\ loop.pc = "dead" /\ loop' = Started
  /\ UNCHANGED <<lane, plugged, default, level, fault, config, exposed, upsets>>

\* Nothing in the way of e: a fault of one endpoint is in the way of those after it.
Minded(e) ==
  /\ config # "off" /\ loop.pc # "dead" /\ e \in Wanted /\ ~OpenFails
  /\ \A d \in UpTo(e) : ~Faulty(d, {"read", "write"})

TooLoud(e) == level[e] > CapOf(config)

\* A second; the loop is never late.
Second ==
  /\ loop.pc = "asleep" /\ loop.wait > 0
  /\ loop' = [loop EXCEPT !.wait = @ - 1,
                !.read = IF @ < ConfigEvery THEN @ + 1 ELSE @,
                !.age = IF @ < ReacquireEvery THEN @ + 1 ELSE @]
  /\ exposed' = [e \in Endpoints |-> IF ~(Minded(e) /\ TooLoud(e)) THEN 0
                                    ELSE IF exposed[e] <= Longest THEN exposed[e] + 1 ELSE exposed[e]]
  /\ UNCHANGED <<lane, plugged, default, level, fault, config, upsets>>

Work ==
  \/ StandDown \/ OpenOrKeep \/ CannotOpen
  \/ \E e \in Endpoints : LeaveAlone(e) \/ Silence(e) \/ PassFails(e)
  \/ PassEnds \/ Revive \/ Second

MediaNext == Work \/ Once \/ Replug \/ Break \/ Edit \/ Die \/ \E e \in Endpoints : TurnUp(e)

MediaSpec == MediaInit /\ [][MediaNext]_mediaVars /\ WF_mediaVars(Work)
-----------------------------------------------------------------------------
(* Properties *)

MediaTypeOK ==
  /\ lane \in {"mic", "volume"} /\ plugged \subseteq Endpoints /\ default \in Endpoints
  /\ level \in [Endpoints -> 0..Top] /\ config \in Files
  /\ fault \in [at : Endpoints, kind : {"open", "read", "write", "garbage"}] \union {NoFault}
  /\ loop \in [pc : {"asleep", "pass", "dead"}, wait : 0..Longest, cap : 0..Off,
               read : 0..ConfigEvery, held : SUBSET Endpoints, age : 0..ReacquireEvery, left : SUBSET Endpoints]
  /\ exposed \in [Endpoints -> 0..Longest + 1] /\ upsets \in 0..MaxUpsets

\* An endpoint that is turned up, plugged in or newly forbidden is silent again within an
\* interval and a back-off, although other endpoints fail meanwhile and end pass after pass: in
\* its way is only what cannot be opened, an answer of its own that fails, or a pass that fails
\* at one enumerated before it.  (mic_guard.py says "five seconds bounds how long it can stay
\* live"; with the back-off it is seven.)
LoudBounded ==
  \A e \in Endpoints : exposed[e] <= Longest

\* An endpoint that nothing is in the way of is silenced time and again, even when another
\* one after it can never be read or written, and under a damaged configuration.
SilencedAgain ==
  \A e \in Endpoints : <>[]Minded(e) => []<>~TooLoud(e)
=============================================================================
