------------------------------ MODULE DnsRelay ------------------------------
(***************************************************************************)
(* The loopback relay between Windows and the filter in the WSL guest:     *)
(* two bounded pools of workers (names, and calls to AdGuard's page) share *)
(* one router, which remembers the guest's address, throws it away when it *)
(* fails, looks it up again in a thread of its own, and meanwhile lets     *)
(* names be answered by the LAN's resolver.                                *)
(***************************************************************************)
EXTENDS Naturals, FiniteSets

CONSTANTS
  Names,      \* DNS requests (DnsProxy)
  Calls,      \* connections to AdGuard's page (TcpRelay)
  Lookups,    \* threads that look the guest's address up
  Address,    \* addresses the guest may have
  None,       \* no address
  Workers,    \* threads of each pool
  MaxEvents   \* bound on what the world does

ASSUME RelayConstants ==
  /\ Names \cap Calls = {} /\ IsFiniteSet(Names) /\ IsFiniteSet(Calls)
  /\ None \notin Address /\ Workers \in Nat \ {0} /\ MaxEvents \in Nat

Request == Names \union Calls
Server == {"names", "calls"}
Of(server) == IF server = "names" THEN Names ELSE Calls
ServerOf(r) == IF r \in Names THEN "names" ELSE "calls"

VARIABLES
  guest,       \* [addr, serving]: the WSL guest and the filter in it
  primary,     \* UpstreamRouter._primary
  degraded,    \* _degraded
  refreshing,  \* _refreshing
  cooling,     \* is _last_refresh less than the cooldown ago?
  done,        \* _refresh_done
  lookup,      \* the discovery threads
  job,         \* the requests: [pc, first]
  slots,       \* slots taken in each pool
  events

vars == <<guest, primary, degraded, refreshing, cooling, done, lookup, job, slots, events>>
router == <<primary, degraded, refreshing, cooling, done, lookup>>

Event == events < MaxEvents /\ events' = events + 1

Idle == [pc |-> "idle", first |-> None]
NoLookup == [pc |-> "idle", addr |-> None]

Init ==
  /\ primary = None /\ degraded = FALSE
  /\ refreshing = FALSE /\ cooling = FALSE /\ done = FALSE
  /\ lookup = [l \in Lookups |-> NoLookup]
  /\ job = [r \in Request |-> Idle]
  /\ slots = [s \in Server |-> 0]
  /\ events = 0
  /\ guest \in [addr : Address, serving : BOOLEAN] \union {[addr |-> None, serving |-> FALSE]}
-----------------------------------------------------------------------------
(* The pools *)

InFlight(s) == {r \in Of(s) : job[r].pc # "idle"}
Running(s) == {r \in Of(s) : job[r].pc \notin {"idle", "queued"}}

Room(s) == slots[s] < 2 * Workers

\* Without a slot the request is dropped: nothing happens.
Arrive(r) ==
  /\ job[r].pc = "idle" /\ Room(ServerOf(r))
  /\ slots' = [slots EXCEPT ![ServerOf(r)] = @ + 1]
  /\ job' = [job EXCEPT ![r].pc = "queued"]
  /\ UNCHANGED <<router, guest, events>>

Begin(r) ==
  /\ job[r].pc = "queued" /\ Cardinality(Running(ServerOf(r))) < Workers
  /\ job' = [job EXCEPT ![r].pc = "get"]
  /\ UNCHANGED <<router, guest, slots, events>>

\* Mutant of Finish: a request that failed keeps its slot.
FinishKeepingSlot(r, ok) ==
  /\ job' = [job EXCEPT ![r] = Idle]
  /\ slots' = IF ok THEN [slots EXCEPT ![ServerOf(r)] = @ - 1] ELSE slots

\* However a request ends, its slot is given back.
Finish(r, ok) ==
  /\ job' = [job EXCEPT ![r] = Idle]
  /\ slots' = [slots EXCEPT ![ServerOf(r)] = @ - 1]

Go(r, pc) == job' = [job EXCEPT ![r].pc = pc] /\ UNCHANGED slots
-----------------------------------------------------------------------------
(* The router *)

\* Mutant of MayLook: a look-up in flight is not noticed.
MayLookAgain == ~cooling

\* Mutant of MayLook: the cooldown is not looked at.
MayLookSoon == ~refreshing

MayLook == ~refreshing /\ ~cooling

\* Mutant of Ready: the event is cleared before the cooldown is looked at.
ReadyCleared == FALSE

\* What the event says after a refusal to look.
Ready == done

\* At most one look-up, and not within the cooldown of the last.
Schedule ==
  IF MayLook
    THEN /\ refreshing' = TRUE /\ cooling' = TRUE /\ done' = FALSE
         /\ \E l \in Lookups : /\ lookup[l].pc = "idle"
                               /\ lookup' = [lookup EXCEPT ![l].pc = "looking"]
    ELSE done' = Ready /\ UNCHANGED <<refreshing, cooling, lookup>>

\* Mutant of AfterGet: a router without an address waits for somebody else's failure.
AfterGetQuiet(r) == IF primary # None THEN "ask" ELSE IF r \in Names THEN "open" ELSE "wait"

AfterGet(r) == IF primary # None THEN "ask" ELSE "schedule"

Get(r) ==
  /\ job[r].pc = "get"
  /\ job' = [job EXCEPT ![r] = [pc |-> AfterGet(r), first |-> primary]]
  /\ UNCHANGED <<router, guest, slots, events>>

Answers(addr) == addr # None /\ addr = guest.addr /\ guest.serving

\* A name is answered; a call goes on until one side hangs up.
Ask(r) ==
  /\ job[r].pc = "ask"
  /\ IF Answers(job[r].first)
       THEN /\ degraded' = FALSE
            /\ IF r \in Names THEN Finish(r, TRUE) ELSE Go(r, "relay")
       ELSE Go(r, "invalidate") /\ UNCHANGED degraded
  /\ UNCHANGED <<guest, primary, refreshing, cooling, done, lookup, events>>

AskLost(r) ==
  /\ job[r].pc = "ask" /\ Event
  /\ Go(r, "invalidate")
  /\ UNCHANGED <<router, guest>>

\* Whatever the router remembers by then, the address that failed or a better one.
Invalidate(r) ==
  /\ job[r].pc = "invalidate"
  /\ primary' = None
  /\ Go(r, "schedule")
  /\ UNCHANGED <<guest, degraded, refreshing, cooling, done, lookup, events>>

\* A call that found no address asks for a look-up twice, and then waits for one.
ScheduleLookup(r) ==
  /\ job[r].pc \in {"schedule", "again"}
  /\ Schedule
  /\ Go(r, CASE r \in Names -> "open"
             [] r \in Calls /\ job[r].pc = "schedule" /\ job[r].first = None -> "again"
             [] OTHER -> "wait")
  /\ UNCHANGED <<guest, primary, degraded, events>>

\* The LAN's resolver is asked, which filters nothing.
FailOpen(r) ==
  /\ job[r].pc = "open"
  /\ degraded' = TRUE
  /\ Finish(r, FALSE)
  /\ UNCHANGED <<guest, primary, refreshing, cooling, done, lookup, events>>

\* The wait is over, or its time is: an address not yet tried is tried once.
TryRefreshed(r) ==
  IF primary # None /\ primary # job[r].first
    THEN /\ job' = [job EXCEPT ![r] = [pc |-> "retry", first |-> primary]]
         /\ UNCHANGED <<slots, degraded>>
    ELSE degraded' = TRUE /\ Finish(r, FALSE)

Wake(r) ==
  /\ job[r].pc = "wait" /\ done
  /\ TryRefreshed(r)
  /\ UNCHANGED <<guest, primary, refreshing, cooling, done, lookup, events>>

TimeOut(r) ==
  /\ job[r].pc = "wait" /\ ~done
  /\ TryRefreshed(r)
  /\ UNCHANGED <<guest, primary, refreshing, cooling, done, lookup, events>>

\* The second address is not thrown away when it fails.
Retry(r) ==
  /\ job[r].pc = "retry"
  /\ degraded' = ~Answers(job[r].first)
  /\ IF Answers(job[r].first) THEN Go(r, "relay") ELSE Finish(r, FALSE)
  /\ UNCHANGED <<guest, primary, refreshing, cooling, done, lookup, events>>

HangUp(r) ==
  /\ job[r].pc = "relay"
  /\ Finish(r, TRUE)
  /\ UNCHANGED <<router, guest, events>>

\* A connection that never brings a whole query is no question to the router.
Garbled(n) ==
  /\ n \in Names /\ job[n].pc = "get" /\ Event
  /\ Finish(n, FALSE)
  /\ UNCHANGED <<router, guest>>
-----------------------------------------------------------------------------
(* Discovery: wsl.exe starts a guest that is not running *)

Look(l) ==
  /\ lookup[l].pc = "looking"
  /\ \E addr \in Address :
       /\ guest.addr # None => addr = guest.addr
       /\ lookup' = [lookup EXCEPT ![l] = [pc |-> "found", addr |-> addr]]
       /\ guest' = [guest EXCEPT !.addr = addr]
  /\ UNCHANGED <<primary, degraded, refreshing, cooling, done, job, slots, events>>

LookFails(l) ==
  /\ lookup[l].pc = "looking" /\ Event
  /\ lookup' = [lookup EXCEPT ![l] = [pc |-> "found", addr |-> None]]
  /\ UNCHANGED <<guest, primary, degraded, refreshing, cooling, done, job, slots>>

Post(l) ==
  /\ lookup[l].pc = "found"
  /\ primary' = lookup[l].addr
  /\ cooling' = TRUE /\ refreshing' = FALSE /\ done' = TRUE
  /\ lookup' = [lookup EXCEPT ![l] = NoLookup]
  /\ UNCHANGED <<guest, degraded, job, slots, events>>
-----------------------------------------------------------------------------
(* The world *)

\* A second has passed since the last look-up.
CoolDown ==
  /\ cooling
  /\ cooling' = FALSE
  /\ UNCHANGED <<guest, primary, degraded, refreshing, done, lookup, job, slots, events>>

\* The guest stops, or its filter does.
GuestStops ==
  /\ Event
  /\ guest' \in {[addr |-> None, serving |-> FALSE], [guest EXCEPT !.serving = FALSE]}
  /\ UNCHANGED <<router, job, slots>>

\* The guest is started elsewhere, at whatever address it gets.
GuestStarts ==
  /\ guest.addr = None /\ Event
  /\ \E addr \in Address : guest' = [guest EXCEPT !.addr = addr]
  /\ UNCHANGED <<router, job, slots>>

FilterStarts ==
  /\ guest.addr # None /\ ~guest.serving
  /\ guest' = [guest EXCEPT !.serving = TRUE]
  /\ UNCHANGED <<router, job, slots, events>>

\* The relay dies; its task starts it again.
Restart ==
  /\ Event
  /\ primary' = None /\ degraded' = FALSE
  /\ refreshing' = FALSE /\ cooling' = FALSE /\ done' = FALSE
  /\ lookup' = [l \in Lookups |-> NoLookup]
  /\ job' = [r \in Request |-> Idle]
  /\ slots' = [s \in Server |-> 0]
  /\ UNCHANGED guest
-----------------------------------------------------------------------------
Serve(r) ==
  \/ Get(r) \/ Ask(r) \/ Invalidate(r) \/ ScheduleLookup(r) \/ FailOpen(r)
  \/ Wake(r) \/ TimeOut(r) \/ Retry(r)

Discover(l) == Look(l) \/ Post(l)

Next ==
  \/ \E r \in Request : Arrive(r) \/ Begin(r) \/ Serve(r) \/ AskLost(r) \/ Garbled(r) \/ HangUp(r)
  \/ \E l \in Lookups : Discover(l) \/ LookFails(l)
  \/ CoolDown \/ GuestStops \/ GuestStarts \/ FilterStarts \/ Restart

Spec == Init /\ [][Next]_vars

\* Threads that can go on do, pools take work that waits, and time passes.
FairSpec ==
  /\ Spec /\ WF_vars(CoolDown)
  /\ \A r \in Request : WF_vars(Serve(r))
  /\ WF_vars(\E n \in Names : Begin(n))
  /\ \A l \in Lookups : WF_vars(Discover(l))
-----------------------------------------------------------------------------
(* Properties *)

PCs == {"idle", "queued", "get", "ask", "invalidate", "schedule", "again", "wait", "open",
        "retry", "relay"}

TypeOK ==
  /\ guest \in [addr : Address \union {None}, serving : BOOLEAN]
  /\ primary \in Address \union {None}
  /\ degraded \in BOOLEAN /\ refreshing \in BOOLEAN /\ cooling \in BOOLEAN /\ done \in BOOLEAN
  /\ lookup \in [Lookups -> [pc : {"idle", "looking", "found"}, addr : Address \union {None}]]
  /\ job \in [Request -> [pc : PCs, first : Address \union {None}]]
  /\ slots \in [Server -> 0..2 * Workers]
  /\ events \in 0..MaxEvents

\* However requests end - answered, refused, timed out, hung up - no slot is lost and
\* none given back twice, and no pool takes more than it has.
SlotsReturned ==
  \A s \in Server : slots[s] = Cardinality(InFlight(s)) /\ slots[s] <= 2 * Workers

\* wsl.exe runs once at a time, whoever asks, and the flag says so.
OneDiscovery ==
  \A l, m \in Lookups :
    lookup[l].pc # "idle" => refreshing /\ (lookup[m].pc # "idle" => l = m)

\* Nobody waits for a look-up that is not under way and was never made.
WaitersWake == (\E r \in Request : job[r].pc = "wait") => refreshing \/ done

\* Whatever the workers do meanwhile, the threads that look the guest up keep to what
\* SingleFlight promises: a second one neither starts beside the first nor within its
\* cooldown, a refused start takes no waiter's answer back, and no address becomes known
\* but from a look-up that ends.
Flight == INSTANCE SingleFlight WITH
            known <- primary,
            looking <- (\E l \in Lookups : lookup[l].pc # "idle"),
            answered <- done

OneFlight == Flight!Spec

\* A filter that keeps serving is found again and stays found, while names are asked:
\* through late failures on old addresses, failed look-ups, restarts and the cooldown.
FilterRegained ==
  <>[]guest.serving /\ []<>(\E n \in Names : job[n].pc = "queued")
    => <>[](primary = guest.addr)
=============================================================================
