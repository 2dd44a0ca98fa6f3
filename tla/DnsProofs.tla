----------------------------- MODULE DnsProofs -----------------------------
(***************************************************************************)
(* Proofs about the loopback relay, for any finite sets of names and calls *)
(* in flight, any number of workers, look-up threads and addresses, and    *)
(* about the commands that point the adapter at it, for any number of      *)
(* mishaps.                                                                *)
(***************************************************************************)
EXTENDS DnsRelay, DnsSetup, FiniteSetTheorems, TLAPS

-----------------------------------------------------------------------------
(* The relay's pools *)

Jobs == [pc : PCs, first : Address \union {None}]

\* The requests and the pools: every slot taken belongs to a request in flight.
PoolsOK ==
  /\ job \in [Request -> Jobs] /\ slots \in [Server -> 0..2 * Workers]
  /\ \A s \in Server : slots[s] = Cardinality(InFlight(s))

LEMMA PoolFacts ==
  /\ \A r \in Request : ServerOf(r) \in Server /\ r \in Of(ServerOf(r))
  /\ \A s \in Server : \A r \in Of(s) : r \in Request /\ s = ServerOf(r)
  /\ \A s \in Server : IsFiniteSet(Of(s)) /\ IsFiniteSet(InFlight(s))
<1>1. \A s \in Server : IsFiniteSet(Of(s)) /\ InFlight(s) \subseteq Of(s)
  BY RelayConstants DEF Server, Of, InFlight
<1>2. \A s \in Server : IsFiniteSet(InFlight(s))
  BY <1>1, FS_Subset
<1>. QED
  BY <1>1, <1>2, RelayConstants DEF Server, Request, Of, ServerOf

\* Requests that stay in flight, or out of it, change nothing in the pools.
LEMMA PoolsSame ==
  ASSUME PoolsOK, job' \in [Request -> Jobs], UNCHANGED slots,
         \A x \in Request : job'[x].pc = "idle" <=> job[x].pc = "idle"
  PROVE  PoolsOK'
<1>1. \A s \in Server : InFlight(s)' = InFlight(s)
  BY PoolFacts DEF InFlight, Of
<1>. QED
  BY <1>1 DEF PoolsOK

\* One request goes from one place to another.
LEMMA PoolsMove ==
  ASSUME PoolsOK, NEW r \in Request, NEW new \in Jobs, job' = [job EXCEPT ![r] = new],
         UNCHANGED slots, job[r].pc # "idle", new.pc # "idle"
  PROVE  PoolsOK'
<1>1. job' \in [Request -> Jobs]
  BY DEF PoolsOK
<1>2. \A x \in Request : job'[x].pc = "idle" <=> job[x].pc = "idle"
  BY DEF PoolsOK
<1>. QED
  BY <1>1, <1>2, PoolsSame

LEMMA PoolsGo ==
  ASSUME PoolsOK, NEW r \in Request, NEW pc \in PCs \ {"idle"}, Go(r, pc), job[r].pc # "idle"
  PROVE  PoolsOK'
<1>. DEFINE new == [job[r] EXCEPT !.pc = pc]
<1>1. job[r] \in Jobs
  BY DEF PoolsOK
<1>2. new \in Jobs /\ new.pc = pc
  BY <1>1 DEF Jobs
<1>3. job' = [job EXCEPT ![r] = new] /\ UNCHANGED slots
  BY DEF Go, PoolsOK
<1>. HIDE DEF new
<1>. QED
  BY <1>2, <1>3, PoolsMove

LEMMA PoolsArrive == ASSUME PoolsOK, NEW r \in Request, Arrive(r) PROVE PoolsOK'
<1>. DEFINE new == [job[r] EXCEPT !.pc = "queued"]
<1>. DEFINE s0 == ServerOf(r)
<1>1. job[r] \in Jobs /\ s0 \in Server
  BY PoolFacts DEF PoolsOK
<1>2. new \in Jobs /\ new.pc = "queued"
  BY <1>1 DEF Jobs, PCs
<1>3. job' = [job EXCEPT ![r] = new] /\ slots' = [slots EXCEPT ![s0] = slots[s0] + 1]
  BY DEF Arrive, PoolsOK
<1>4. slots[s0] + 1 \in 0..2 * Workers
  BY <1>1, RelayConstants DEF Arrive, Room, PoolsOK
<1>5. InFlight(s0)' = InFlight(s0) \union {r} /\ r \notin InFlight(s0)
  BY <1>2, <1>3, PoolFacts DEF InFlight, Of, PoolsOK, Arrive
<1>6. \A s \in Server \ {s0} : InFlight(s)' = InFlight(s)
  BY <1>3, PoolFacts DEF InFlight, Of, PoolsOK
<1>7. Cardinality(InFlight(s0)') = Cardinality(InFlight(s0)) + 1
  BY <1>1, <1>5, PoolFacts, FS_AddElement
<1>. HIDE DEF new, s0
<1>8. job' \in [Request -> Jobs] /\ slots' \in [Server -> 0..2 * Workers]
  BY <1>1, <1>2, <1>3, <1>4 DEF PoolsOK
<1>9. \A s \in Server : slots'[s] = Cardinality(InFlight(s)')
  <2>1. ASSUME NEW s \in Server PROVE slots'[s] = Cardinality(InFlight(s)')
    <3>1. CASE s = s0
      BY <1>3, <1>7, <3>1 DEF PoolsOK
    <3>2. CASE s # s0
      BY <1>3, <1>6, <3>2 DEF PoolsOK
    <3>. QED
      BY <3>1, <3>2
  <2>. QED
    BY <2>1
<1>. QED
  BY <1>8, <1>9 DEF PoolsOK

\* However a request ends, exactly its slot is given back.
LEMMA PoolsFinish ==
  ASSUME PoolsOK, NEW r \in Request, NEW ok, Finish(r, ok), job[r].pc # "idle" PROVE PoolsOK'
<1>. DEFINE s0 == ServerOf(r)
<1>1. s0 \in Server /\ Idle \in Jobs /\ Idle.pc = "idle"
  BY PoolFacts DEF Jobs, Idle, PCs
<1>3. job' = [job EXCEPT ![r] = Idle] /\ slots' = [slots EXCEPT ![s0] = slots[s0] - 1]
  BY DEF Finish, PoolsOK
<1>5. InFlight(s0)' = InFlight(s0) \ {r} /\ r \in InFlight(s0)
  BY <1>1, <1>3, PoolFacts DEF InFlight, Of, PoolsOK
<1>6. \A s \in Server \ {s0} : InFlight(s)' = InFlight(s)
  BY <1>3, PoolFacts DEF InFlight, Of, PoolsOK
<1>7. Cardinality(InFlight(s0)') = Cardinality(InFlight(s0)) - 1 /\ Cardinality(InFlight(s0)') \in Nat
  <2>1. IsFiniteSet(InFlight(s0))
    BY <1>1, PoolFacts
  <2>2. Cardinality(InFlight(s0) \ {r}) = Cardinality(InFlight(s0)) - 1
    BY <1>5, <2>1, FS_RemoveElement
  <2>3. Cardinality(InFlight(s0) \ {r}) \in Nat
    BY <2>1, FS_RemoveElement, FS_CardinalityType
  <2>. QED
    BY <1>5, <2>2, <2>3
<1>. HIDE DEF s0
<1>8. slots[s0] - 1 \in 0..2 * Workers
  BY <1>1, <1>7, RelayConstants DEF PoolsOK
<1>9. job' \in [Request -> Jobs] /\ slots' \in [Server -> 0..2 * Workers]
  BY <1>1, <1>3, <1>8 DEF PoolsOK
<1>10. \A s \in Server : slots'[s] = Cardinality(InFlight(s)')
  <2>1. ASSUME NEW s \in Server PROVE slots'[s] = Cardinality(InFlight(s)')
    <3>1. CASE s = s0
      BY <1>3, <1>7, <3>1 DEF PoolsOK
    <3>2. CASE s # s0
      BY <1>3, <1>6, <3>2 DEF PoolsOK
    <3>. QED
      BY <3>1, <3>2
  <2>. QED
    BY <2>1
<1>. QED
  BY <1>9, <1>10 DEF PoolsOK

LEMMA PoolsServe ==
  ASSUME PoolsOK, primary \in Address \union {None}, NEW r \in Request,
         Arrive(r) \/ Begin(r) \/ Serve(r) \/ AskLost(r) \/ Garbled(r) \/ HangUp(r)
  PROVE  PoolsOK'
<1>1. CASE Arrive(r)
  BY <1>1, PoolsArrive
<1>2. CASE Begin(r)
  <2>1. Go(r, "get") /\ job[r].pc # "idle"
    BY <1>2 DEF Begin, Go
  <2>. QED
    BY <2>1, PoolsGo DEF PCs
<1>3. CASE Get(r)
  <2>1. [pc |-> AfterGet(r), first |-> primary] \in Jobs /\ AfterGet(r) # "idle"
    BY DEF Jobs, AfterGet, PCs
  <2>2. /\ job' = [job EXCEPT ![r] = [pc |-> AfterGet(r), first |-> primary]]
        /\ UNCHANGED slots /\ job[r].pc # "idle"
    BY <1>3 DEF Get
  <2>. QED
    BY <2>1, <2>2, PoolsMove
<1>4. CASE Ask(r)
  <2>1. job[r].pc # "idle" /\ (Finish(r, TRUE) \/ Go(r, "relay") \/ Go(r, "invalidate"))
    BY <1>4 DEF Ask
  <2>. QED
    BY <2>1, PoolsFinish, PoolsGo DEF PCs
<1>5. CASE AskLost(r) \/ Invalidate(r)
  <2>1. job[r].pc # "idle" /\ (Go(r, "invalidate") \/ Go(r, "schedule"))
    BY <1>5 DEF AskLost, Invalidate
  <2>. QED
    BY <2>1, PoolsGo DEF PCs
<1>6. CASE ScheduleLookup(r)
  <2>1. job[r].pc # "idle" /\ (Go(r, "open") \/ Go(r, "again") \/ Go(r, "wait"))
    <3>1. r \in Names \/ r \in Calls
      BY DEF Request
    <3>2. CASE r \in Names
      BY <1>6, <3>2, RelayConstants DEF ScheduleLookup
    <3>3. CASE r \in Calls /\ job[r].pc = "schedule" /\ job[r].first = None
      BY <1>6, <3>3, RelayConstants DEF ScheduleLookup
    <3>4. CASE r \in Calls /\ ~(job[r].pc = "schedule" /\ job[r].first = None)
      BY <1>6, <3>4, RelayConstants DEF ScheduleLookup
    <3>. QED
      BY <3>1, <3>2, <3>3, <3>4
  <2>. QED
    BY <2>1, PoolsGo DEF PCs
<1>7. CASE FailOpen(r) \/ HangUp(r) \/ Garbled(r)
  <2>1. job[r].pc # "idle" /\ (Finish(r, FALSE) \/ Finish(r, TRUE))
    BY <1>7 DEF FailOpen, HangUp, Garbled
  <2>. QED
    BY <2>1, PoolsFinish
<1>8. CASE Wake(r) \/ TimeOut(r)
  <2>1. job[r].pc # "idle" /\ TryRefreshed(r)
    BY <1>8 DEF Wake, TimeOut
  <2>2. CASE Finish(r, FALSE)
    BY <2>1, <2>2, PoolsFinish
  <2>3. CASE job' = [job EXCEPT ![r] = [pc |-> "retry", first |-> primary]] /\ UNCHANGED slots
    <3>1. [pc |-> "retry", first |-> primary] \in Jobs
      BY DEF Jobs, PCs
    <3>. QED
      BY <2>1, <2>3, <3>1, PoolsMove
  <2>. QED
    BY <2>1, <2>2, <2>3 DEF TryRefreshed
<1>9. CASE Retry(r)
  <2>1. job[r].pc # "idle" /\ (Finish(r, FALSE) \/ Go(r, "relay"))
    BY <1>9 DEF Retry
  <2>. QED
    BY <2>1, PoolsFinish, PoolsGo DEF PCs
<1>. QED
  BY <1>1, <1>2, <1>3, <1>4, <1>5, <1>6, <1>7, <1>8, <1>9 DEF Serve

LEMMA PoolsEmpty ==
  ASSUME job' = [r \in Request |-> Idle], slots' = [s \in Server |-> 0] PROVE PoolsOK'
<1>1. \A s \in Server : InFlight(s)' = {}
  BY PoolFacts DEF InFlight, Idle
<1>2. Cardinality({}) = 0 /\ Idle \in Jobs /\ 0 \in 0..2 * Workers
  BY FS_EmptySet, RelayConstants DEF Jobs, Idle, PCs
<1>. QED
  BY <1>1, <1>2 DEF PoolsOK

-----------------------------------------------------------------------------
(* The router and its discovery threads *)

\* Within the cooldown there is a look-up under way or one has ended: whoever is refused a
\* look-up can wait for the event.
RouterOK ==
  /\ guest \in [addr : Address \union {None}, serving : BOOLEAN]
  /\ primary \in Address \union {None} /\ degraded \in BOOLEAN
  /\ refreshing \in BOOLEAN /\ cooling \in BOOLEAN /\ done \in BOOLEAN
  /\ lookup \in [Lookups -> [pc : {"idle", "looking", "found"}, addr : Address \union {None}]]
  /\ events \in 0..MaxEvents
  /\ OneDiscovery
  /\ cooling => refreshing \/ done

LEMMA EventTypes ==
  ASSUME RouterOK, Event \/ UNCHANGED events PROVE events' \in 0..MaxEvents
BY RelayConstants DEF RouterOK, Event

LEMMA ScheduleKept ==
  ASSUME RouterOK, Schedule
  PROVE  /\ refreshing' \in BOOLEAN /\ cooling' \in BOOLEAN /\ done' \in BOOLEAN
         /\ lookup' \in [Lookups -> [pc : {"idle", "looking", "found"}, addr : Address \union {None}]]
         /\ OneDiscovery' /\ (refreshing' \/ done')
<1>1. CASE MayLook
  <2>1. PICK l \in Lookups : lookup[l].pc = "idle" /\ lookup' = [lookup EXCEPT ![l].pc = "looking"]
    BY <1>1 DEF Schedule
  <2>2. \A m \in Lookups : lookup[m].pc = "idle"
    BY <1>1 DEF MayLook, RouterOK, OneDiscovery
  <2>3. refreshing' = TRUE /\ cooling' = TRUE /\ done' = FALSE
    BY <1>1 DEF Schedule
  <2>4. lookup' \in [Lookups -> [pc : {"idle", "looking", "found"}, addr : Address \union {None}]]
    BY <2>1 DEF RouterOK
  <2>5. \A m \in Lookups : lookup'[m].pc # "idle" => m = l
    BY <2>1, <2>2 DEF RouterOK
  <2>. QED
    BY <2>3, <2>4, <2>5 DEF OneDiscovery
<1>2. CASE ~MayLook
  <2>1. UNCHANGED <<done, refreshing, cooling, lookup>>
    BY <1>2 DEF Schedule, Ready
  <2>. QED
    BY <1>2, <2>1 DEF MayLook, RouterOK, OneDiscovery
<1>. QED
  BY <1>1, <1>2

\* A step that leaves the look-ups and their flags alone.
LEMMA RouterSame ==
  ASSUME RouterOK, UNCHANGED <<refreshing, cooling, done, lookup>>,
         guest' \in [addr : Address \union {None}, serving : BOOLEAN],
         primary' \in Address \union {None}, degraded' \in BOOLEAN, events' \in 0..MaxEvents
  PROVE  RouterOK'
BY DEF RouterOK, OneDiscovery

LEMMA RouterServe ==
  ASSUME RouterOK, NEW r \in Request,
         Arrive(r) \/ Begin(r) \/ Serve(r) \/ AskLost(r) \/ Garbled(r) \/ HangUp(r)
  PROVE  RouterOK'
<1>0. events' \in 0..MaxEvents /\ guest' = guest
  <2>1. (Event \/ UNCHANGED events) /\ guest' = guest
    BY DEF Arrive, Begin, Serve, AskLost, Garbled, HangUp, Get, Ask, Invalidate, ScheduleLookup, FailOpen,
           Wake, TimeOut, Retry, router
  <2>. QED
    BY <2>1, EventTypes
<1>1. CASE Arrive(r) \/ Begin(r) \/ Get(r) \/ AskLost(r) \/ Garbled(r) \/ HangUp(r)
  <2>1. UNCHANGED <<primary, degraded, refreshing, cooling, done, lookup>>
    BY <1>1 DEF Arrive, Begin, Get, AskLost, Garbled, HangUp, router
  <2>. QED
    BY <1>0, <2>1, RouterSame DEF RouterOK
<1>2. CASE Ask(r) \/ FailOpen(r) \/ Wake(r) \/ TimeOut(r) \/ Retry(r)
  <2>1. UNCHANGED <<primary, refreshing, cooling, done, lookup>>
    BY <1>2 DEF Ask, FailOpen, Wake, TimeOut, Retry
  <2>2. degraded' \in BOOLEAN
    <3>1. CASE Retry(r)
      <4>1. degraded' = ~Answers(job[r].first)
        BY <3>1 DEF Retry
      <4>. QED
        BY <4>1, Zenon DEF Answers
    <3>2. CASE Ask(r) \/ FailOpen(r) \/ Wake(r) \/ TimeOut(r)
      BY <3>2 DEF Ask, FailOpen, Wake, TimeOut, TryRefreshed, RouterOK
    <3>. QED
      BY <1>2, <3>1, <3>2
  <2>. QED
    BY <1>0, <2>1, <2>2, RouterSame DEF RouterOK
<1>3. CASE Invalidate(r)
  BY <1>0, <1>3, RouterSame DEF Invalidate, RouterOK
<1>4. CASE ScheduleLookup(r)
  <2>1. Schedule /\ UNCHANGED <<guest, primary, degraded>>
    BY <1>4 DEF ScheduleLookup
  <2>. QED
    BY <1>0, <2>1, ScheduleKept DEF RouterOK
<1>. QED
  BY <1>1, <1>2, <1>3, <1>4 DEF Serve

LEMMA RouterDiscover ==
  ASSUME RouterOK, NEW l \in Lookups, Discover(l) \/ LookFails(l) PROVE RouterOK'
<1>0. events' \in 0..MaxEvents
  <2>1. Event \/ UNCHANGED events
    BY DEF Discover, Look, Post, LookFails
  <2>. QED
    BY <2>1, EventTypes
<1>1. CASE Look(l) \/ LookFails(l)
  <2>1. PICK addr \in Address \union {None} :
          lookup' = [lookup EXCEPT ![l] = [pc |-> "found", addr |-> addr]]
    BY <1>1 DEF Look, LookFails
  <2>2. lookup[l].pc # "idle" /\ UNCHANGED <<primary, degraded, refreshing, cooling, done>>
    BY <1>1 DEF Look, LookFails
  <2>3. guest' \in [addr : Address \union {None}, serving : BOOLEAN]
    BY <1>1 DEF Look, LookFails, RouterOK
  <2>4. lookup' \in [Lookups -> [pc : {"idle", "looking", "found"}, addr : Address \union {None}]]
    BY <2>1 DEF RouterOK
  <2>5. \A m \in Lookups : lookup'[m].pc # "idle" <=> lookup[m].pc # "idle"
    BY <2>1, <2>2 DEF RouterOK
  <2>6. OneDiscovery'
    BY <2>2, <2>5 DEF OneDiscovery, RouterOK
  <2>. QED
    BY <1>0, <2>2, <2>3, <2>4, <2>6 DEF RouterOK
<1>2. CASE Post(l)
  <2>1. /\ lookup[l].pc # "idle" /\ lookup' = [lookup EXCEPT ![l] = NoLookup]
        /\ cooling' = TRUE /\ refreshing' = FALSE /\ done' = TRUE
        /\ primary' = lookup[l].addr /\ UNCHANGED <<guest, degraded>>
    BY <1>2 DEF Post
  <2>2. primary' \in Address \union {None}
    BY <2>1 DEF RouterOK
  <2>3. NoLookup \in [pc : {"idle", "looking", "found"}, addr : Address \union {None}]
        /\ NoLookup.pc = "idle"
    BY DEF NoLookup
  <2>4. lookup' \in [Lookups -> [pc : {"idle", "looking", "found"}, addr : Address \union {None}]]
    BY <2>1, <2>3 DEF RouterOK
  <2>5. \A m \in Lookups : lookup'[m].pc = "idle"
    BY <2>1, <2>3 DEF RouterOK, OneDiscovery
  <2>. QED
    BY <1>0, <2>1, <2>2, <2>4, <2>5 DEF RouterOK, OneDiscovery
<1>. QED
  BY <1>1, <1>2 DEF Discover

LEMMA RouterWorld ==
  ASSUME RouterOK, CoolDown \/ GuestStops \/ GuestStarts \/ FilterStarts PROVE RouterOK'
<1>1. events' \in 0..MaxEvents
  <2>1. Event \/ UNCHANGED events
    BY DEF CoolDown, GuestStops, GuestStarts, FilterStarts
  <2>. QED
    BY <2>1, EventTypes
<1>2. CASE CoolDown
  BY <1>1, <1>2 DEF CoolDown, RouterOK, OneDiscovery
<1>3. CASE GuestStops \/ GuestStarts \/ FilterStarts
  <2>1. UNCHANGED <<primary, degraded, refreshing, cooling, done, lookup>>
    BY <1>3 DEF GuestStops, GuestStarts, FilterStarts, router
  <2>2. guest' \in [addr : Address \union {None}, serving : BOOLEAN]
    <3>1. CASE GuestStops
      <4>1. CASE guest' = [addr |-> None, serving |-> FALSE]
        BY <4>1
      <4>2. CASE guest' = [guest EXCEPT !.serving = FALSE]
        BY <4>2 DEF RouterOK
      <4>. QED
        BY <3>1, <4>1, <4>2 DEF GuestStops
    <3>2. CASE GuestStarts
      <4>1. PICK addr \in Address : guest' = [guest EXCEPT !.addr = addr]
        BY <3>2 DEF GuestStarts
      <4>. QED
        BY <4>1 DEF RouterOK
    <3>3. CASE FilterStarts
      BY <3>3 DEF FilterStarts, RouterOK
    <3>. QED
      BY <1>3, <3>1, <3>2, <3>3
  <2>. QED
    BY <1>1, <2>1, <2>2, RouterSame DEF RouterOK
<1>. QED
  BY <1>2, <1>3

LEMMA RouterFresh ==
  ASSUME primary = None, degraded = FALSE, refreshing = FALSE, cooling = FALSE, done = FALSE,
         lookup = [l \in Lookups |-> NoLookup], events \in 0..MaxEvents,
         guest \in [addr : Address \union {None}, serving : BOOLEAN]
  PROVE  RouterOK
BY DEF RouterOK, OneDiscovery, NoLookup

-----------------------------------------------------------------------------
(* Waiting *)

\* Waiting is begun by a look-up that was made or refused, and nothing else.
LEMMA WaitersServe ==
  ASSUME PoolsOK, RouterOK, WaitersWake, NEW r \in Request,
         Arrive(r) \/ Begin(r) \/ Serve(r) \/ AskLost(r) \/ Garbled(r) \/ HangUp(r)
  PROVE  WaitersWake'
<1>1. CASE ScheduleLookup(r)
  BY <1>1, ScheduleKept DEF ScheduleLookup, WaitersWake
<1>2. CASE ~ScheduleLookup(r)
  <2>1. UNCHANGED <<refreshing, done>>
    BY <1>2 DEF Arrive, Begin, Serve, AskLost, Garbled, HangUp, Get, Ask, Invalidate, FailOpen,
           Wake, TimeOut, Retry, router
  <2>2. ASSUME NEW x \in Request, job'[x].pc = "wait" PROVE job[x].pc = "wait"
    <3>1. job'[r].pc # "wait" /\ \A y \in Request \ {r} : job'[y] = job[y]
      <4>1. job \in [Request -> Jobs]
        BY DEF PoolsOK
      <4>2. ASSUME NEW pc, pc # "wait", job' = [job EXCEPT ![r].pc = pc]
            PROVE  job'[r].pc # "wait" /\ \A y \in Request \ {r} : job'[y] = job[y]
        BY <4>1, <4>2 DEF Jobs
      <4>3. CASE Arrive(r) \/ Begin(r)
        BY <4>2, <4>3 DEF Arrive, Begin
      <4>4. CASE Get(r)
        BY <4>1, <4>4 DEF Get, AfterGet
      <4>5. CASE Ask(r) \/ AskLost(r) \/ Invalidate(r) \/ FailOpen(r) \/ HangUp(r) \/ Garbled(r) \/ Retry(r)
        <5>1. \/ \E pc \in {"relay", "invalidate", "schedule"} : job' = [job EXCEPT ![r].pc = pc]
              \/ job' = [job EXCEPT ![r] = Idle]
          BY <4>5 DEF Ask, AskLost, Garbled, Invalidate, FailOpen, HangUp, Retry, Go, Finish
        <5>. QED
          BY <4>1, <4>2, <5>1 DEF Idle
      <4>6. CASE Wake(r) \/ TimeOut(r)
        BY <4>1, <4>6 DEF Wake, TimeOut, TryRefreshed, Finish, Idle
      <4>. QED
        BY <1>2, <4>3, <4>4, <4>5, <4>6 DEF Serve
    <3>. QED
      BY <2>2, <3>1
  <2>. QED
    BY <2>1, <2>2 DEF WaitersWake
<1>. QED
  BY <1>1, <1>2

-----------------------------------------------------------------------------
(* The theorems *)

RelayInv == PoolsOK /\ RouterOK /\ WaitersWake

LEMMA RelayInit == Init => RelayInv
<1>. SUFFICES ASSUME Init PROVE RelayInv
  OBVIOUS
<1>1. PoolsOK
  <2>1. \A s \in Server : InFlight(s) = {}
    BY PoolFacts DEF Init, InFlight, Idle
  <2>2. Cardinality({}) = 0 /\ Idle \in Jobs /\ 0 \in 0..2 * Workers
    BY FS_EmptySet, RelayConstants DEF Jobs, Idle, PCs
  <2>. QED
    BY <2>1, <2>2 DEF Init, PoolsOK
<1>2. RouterOK
  <2>1. guest \in [addr : Address \union {None}, serving : BOOLEAN]
    <3>1. CASE guest \in [addr : Address, serving : BOOLEAN]
      BY <3>1
    <3>2. CASE guest = [addr |-> None, serving |-> FALSE]
      BY <3>2
    <3>. QED
      BY <3>1, <3>2 DEF Init
  <2>2. events \in 0..MaxEvents
    BY RelayConstants DEF Init
  <2>. QED
    BY <2>1, <2>2, RouterFresh DEF Init
<1>3. WaitersWake
  BY DEF Init, WaitersWake, Idle
<1>. QED
  BY <1>1, <1>2, <1>3 DEF RelayInv

LEMMA RelayKept == ASSUME RelayInv, [Next]_vars PROVE RelayInv'
<1>. USE DEF RelayInv
<1>1. CASE \E r \in Request : Arrive(r) \/ Begin(r) \/ Serve(r) \/ AskLost(r) \/ Garbled(r) \/ HangUp(r)
  <2>1. primary \in Address \union {None}
    BY DEF RouterOK
  <2>. QED
    BY <1>1, <2>1, PoolsServe, RouterServe, WaitersServe
<1>2. CASE \E l \in Lookups : Discover(l) \/ LookFails(l)
  <2>1. UNCHANGED <<job, slots>>
    BY <1>2 DEF Discover, Look, Post, LookFails
  <2>2. WaitersWake'
    <3>1. UNCHANGED <<refreshing, done>> \/ done' = TRUE
      BY <1>2 DEF Discover, Look, Post, LookFails
    <3>. QED
      BY <2>1, <3>1 DEF WaitersWake
  <2>. QED
    BY <1>2, <2>1, <2>2, PoolsSame, RouterDiscover DEF PoolsOK
<1>3. CASE CoolDown \/ GuestStops \/ GuestStarts \/ FilterStarts
  <2>1. UNCHANGED <<job, slots, refreshing, done>>
    BY <1>3 DEF CoolDown, GuestStops, GuestStarts, FilterStarts, router
  <2>. QED
    BY <1>3, <2>1, PoolsSame, RouterWorld DEF PoolsOK, WaitersWake
<1>4. CASE Restart
  <2>1. PoolsOK'
    BY <1>4, PoolsEmpty DEF Restart
  <2>2. events' \in 0..MaxEvents
    BY <1>4, EventTypes DEF Restart
  <2>3. RouterOK'
    BY <1>4, <2>2, RelayConstants DEF Restart, RouterOK, OneDiscovery, NoLookup
  <2>4. WaitersWake'
    BY <1>4 DEF Restart, WaitersWake, Idle
  <2>. QED
    BY <2>1, <2>3, <2>4
<1>5. CASE UNCHANGED vars
  <2>1. UNCHANGED <<guest, primary, degraded, refreshing, cooling, done, lookup, job, slots, events>>
    BY <1>5 DEF vars
  <2>. QED
    BY <2>1, PoolsSame, RouterSame DEF PoolsOK, RouterOK, WaitersWake
<1>. QED
  BY <1>1, <1>2, <1>3, <1>4, <1>5 DEF Next

\* However requests end, no slot is lost and none given back twice.
THEOREM RelaySlotsReturned == Spec => []SlotsReturned
<1>1. RelayInv => SlotsReturned
  BY RelayConstants DEF RelayInv, PoolsOK, SlotsReturned
<1>. QED
  BY <1>1, RelayInit, RelayKept, PTL DEF Spec

\* wsl.exe runs once at a time, whoever asks.
THEOREM RelayOneDiscovery == Spec => []OneDiscovery
<1>1. RelayInv => OneDiscovery
  BY DEF RelayInv, RouterOK
<1>. QED
  BY <1>1, RelayInit, RelayKept, PTL DEF Spec

\* Nobody waits for a look-up that is not under way and was never made.
THEOREM RelayWaitersWake == Spec => []WaitersWake
<1>1. RelayInv => WaitersWake
  BY DEF RelayInv
<1>. QED
  BY <1>1, RelayInit, RelayKept, PTL DEF Spec

\* The variables have the values TypeOK lists.
THEOREM RelayTypeCorrect == Spec => []TypeOK
<1>1. RelayInv => TypeOK
  BY DEF RelayInv, PoolsOK, RouterOK, TypeOK, Jobs
<1>. QED
  BY <1>1, RelayInit, RelayKept, PTL DEF Spec

-----------------------------------------------------------------------------
(* One flight: every step of the relay is a step of SingleFlight, or none of it *)

Busy == \E l \in Lookups : lookup[l].pc # "idle"

\* What a step may do to the router's address, look-ups and cooldown.
FlightMoves ==
  \/ UNCHANGED <<primary, Busy, cooling, done>>
  \/ Flight!Next

\* A worker asks for a look-up: one begins, or nothing happens.
LEMMA FlightSchedule ==
  ASSUME RouterOK, Schedule, UNCHANGED primary PROVE FlightMoves
<1>1. CASE MayLook
  <2>1. PICK l \in Lookups : lookup[l].pc = "idle" /\ lookup' = [lookup EXCEPT ![l].pc = "looking"]
    BY <1>1 DEF Schedule
  <2>2. ~Busy /\ ~cooling
    BY <1>1 DEF MayLook, RouterOK, OneDiscovery, Busy
  <2>3. Busy'
    BY <2>1 DEF RouterOK, Busy
  <2>4. cooling' = TRUE /\ done' = FALSE
    BY <1>1 DEF Schedule
  <2>5. Flight!Begin
    BY <2>2, <2>3, <2>4 DEF Flight!Begin, Busy
  <2>. QED
    BY <2>5 DEF FlightMoves, Flight!Next
<1>2. CASE ~MayLook
  <2>1. UNCHANGED <<done, cooling, lookup>>
    BY <1>2 DEF Schedule, Ready
  <2>. QED
    BY <2>1 DEF FlightMoves, Busy
<1>. QED
  BY <1>1, <1>2

LEMMA FlightServe ==
  ASSUME RouterOK, NEW r \in Request,
         Arrive(r) \/ Begin(r) \/ Serve(r) \/ AskLost(r) \/ Garbled(r) \/ HangUp(r)
  PROVE  FlightMoves
<1>1. CASE ScheduleLookup(r)
  BY <1>1, FlightSchedule DEF ScheduleLookup
<1>2. CASE Invalidate(r)
  <2>1. primary' = None /\ UNCHANGED <<lookup, cooling, done>>
    BY <1>2 DEF Invalidate
  <2>2. Flight!Forget
    BY <2>1 DEF Flight!Forget
  <2>. QED
    BY <2>2 DEF FlightMoves, Flight!Next
<1>3. CASE ~ScheduleLookup(r) /\ ~Invalidate(r)
  <2>1. UNCHANGED <<primary, lookup, cooling, done>>
    BY <1>3 DEF Arrive, Begin, Serve, AskLost, Garbled, HangUp, Get, Ask, FailOpen, Wake, TimeOut, Retry,
                router
  <2>. QED
    BY <2>1 DEF FlightMoves, Busy
<1>. QED
  BY <1>1, <1>2, <1>3

\* The only thread that looks ends, and what it found is known.
LEMMA FlightDiscover ==
  ASSUME RouterOK, NEW l \in Lookups, Discover(l) \/ LookFails(l) PROVE FlightMoves
<1>1. CASE Look(l) \/ LookFails(l)
  <2>1. PICK addr : lookup' = [lookup EXCEPT ![l] = [pc |-> "found", addr |-> addr]]
    BY <1>1 DEF Look, LookFails
  <2>2. lookup[l].pc # "idle" /\ UNCHANGED <<primary, cooling, done>>
    BY <1>1 DEF Look, LookFails
  <2>3. Busy /\ Busy'
    BY <2>1, <2>2 DEF Busy, RouterOK
  <2>. QED
    BY <2>2, <2>3 DEF FlightMoves, Busy
<1>2. CASE Post(l)
  <2>1. /\ lookup[l].pc # "idle" /\ lookup' = [lookup EXCEPT ![l] = NoLookup]
        /\ primary' = lookup[l].addr /\ cooling' = TRUE /\ done' = TRUE
    BY <1>2 DEF Post
  <2>2. Busy /\ ~Busy'
    BY <2>1 DEF Busy, RouterOK, OneDiscovery, NoLookup
  <2>3. primary' \in Address \union {None}
    BY <2>1 DEF RouterOK
  <2>4. Flight!End
    BY <2>1, <2>2, <2>3 DEF Flight!End, Busy
  <2>. QED
    BY <2>4 DEF FlightMoves, Flight!Next
<1>. QED
  BY <1>1, <1>2 DEF Discover

LEMMA FlightStep ==
  ASSUME RelayInv, [Next]_vars PROVE [Flight!Next]_(Flight!look)
<1>. SUFFICES FlightMoves
  BY DEF FlightMoves, Flight!look, Busy
<1>0. RouterOK
  BY DEF RelayInv
<1>1. CASE \E r \in Request : Arrive(r) \/ Begin(r) \/ Serve(r) \/ AskLost(r) \/ Garbled(r) \/ HangUp(r)
  BY <1>0, <1>1, FlightServe
<1>2. CASE \E l \in Lookups : Discover(l) \/ LookFails(l)
  BY <1>0, <1>2, FlightDiscover
<1>3. CASE CoolDown
  <2>1. Flight!CoolDown
    BY <1>3 DEF CoolDown, Flight!CoolDown
  <2>. QED
    BY <2>1 DEF FlightMoves, Flight!Next
<1>4. CASE GuestStops \/ GuestStarts \/ FilterStarts \/ UNCHANGED vars
  <2>1. UNCHANGED <<primary, lookup, cooling, done>>
    BY <1>4 DEF GuestStops, GuestStarts, FilterStarts, vars, router
  <2>. QED
    BY <2>1 DEF FlightMoves, Busy
<1>5. CASE Restart
  <2>1. primary' = None /\ cooling' = FALSE /\ done' = FALSE /\ ~Busy'
    BY <1>5 DEF Restart, Busy, NoLookup
  <2>2. Flight!Restart
    BY <2>1 DEF Flight!Restart, Busy
  <2>. QED
    BY <2>2 DEF FlightMoves, Flight!Next
<1>. QED
  BY <1>1, <1>2, <1>3, <1>4, <1>5 DEF Next

LEMMA FlightInit == Init => Flight!Init
BY DEF Init, Flight!Init, NoLookup

\* The relay implements SingleFlight, whatever its workers and look-up threads interleave.
THEOREM RelayOneFlight == Spec => OneFlight
<1>1. RelayInv /\ [Next]_vars => [Flight!Next]_(Flight!look)
  BY FlightStep
<1>. QED
  BY <1>1, FlightInit, RelayInit, RelayKept, PTL DEF Spec, OneFlight, Flight!Spec

-----------------------------------------------------------------------------
(* The adapter's two families *)

Commands == [pc : SetupPCs, server : {Relay, Guest}, reconciled : BOOLEAN,
             target : {Nothing, Dhcp, Guest, Relay}]

\* Between the two families only the first is where the command wants it; once the second
\* was set they agree, whatever an earlier command left.
Paired ==
  /\ At("v6") => v4 = setup.target
  /\ At("verify") \/ At("again") => (v4 = Relay <=> v6 = Relay)

FamilyInv == setup \in Commands /\ Paired /\ FamiliesTogether

\* A step that leaves the adapter alone, at a place before the first family or after the last.
LEMMA AdapterAlone ==
  ASSUME FamilyInv, setup' \in Commands, UNCHANGED <<v4, v6>>,
         \/ UNCHANGED <<setup, damaged>>
         \/ /\ setup'.pc \notin {"v6", "verify", "again"}
            /\ setup'.pc = "rollback" \/ damaged' \/ (~At("v6") /\ ~At("rollback") /\ (damaged => damaged'))
  PROVE  FamilyInv'
BY DEF FamilyInv, Paired, FamiliesTogether, At

LEMMA ToShape ==
  ASSUME setup \in Commands, NEW pc \in SetupPCs, To(pc)
  PROVE  setup' \in Commands /\ setup'.pc = pc /\ setup'.target = setup.target
BY DEF To, Commands

LEMMA NoCommandShape == NoCommand \in Commands /\ NoCommand.pc = "idle"
BY DEF NoCommand, Commands, SetupPCs

\* What the command chooses is one of the three.
LEMMA TargetChosen == ASSUME setup \in Commands PROVE Target \in {Dhcp, Guest, Relay}
<1>1. CASE setup.reconciled /\ Filters(setup.server)
  BY <1>1 DEF Target, Commands
<1>2. CASE ~(setup.reconciled /\ Filters(setup.server)) /\ setup.server = Relay /\ Responds(Relay)
  BY <1>2 DEF Target
<1>3. CASE ~(setup.reconciled /\ Filters(setup.server)) /\ ~(setup.server = Relay /\ Responds(Relay))
  BY <1>3 DEF Target
<1>. QED
  BY <1>1, <1>2, <1>3

LEMMA EarlyStepsKept ==
  ASSUME FamilyInv, (\E server \in {Relay, Guest} : RunDns(server)) \/ DnsReconcile \/ DnsProbe \/ DnsRetireRule
  PROVE  FamilyInv'
<1>0. setup \in Commands /\ UNCHANGED <<v4, v6, damaged>>
  BY DEF FamilyInv, RunDns, DnsReconcile, DnsProbe, DnsRetireRule, adapterVars
<1>1. setup.pc \in {"idle", "reconcile", "probe", "nrpt"}
  BY DEF RunDns, DnsReconcile, DnsProbe, DnsRetireRule, At
<1>2. setup' \in Commands /\ setup'.pc \in {"reconcile", "probe", "nrpt", "v4"}
  <2>1. CASE \E server \in {Relay, Guest} : RunDns(server)
    <3>1. PICK server \in {Relay, Guest} :
            setup' = [NoCommand EXCEPT !.pc = "reconcile", !.server = server]
      BY <2>1 DEF RunDns
    <3>. QED
      BY <3>1 DEF NoCommand, Commands, SetupPCs
  <2>2. CASE DnsReconcile
    <3>1. PICK ok \in BOOLEAN : setup' = [setup EXCEPT !.pc = "probe", !.reconciled = ok]
      BY <2>2 DEF DnsReconcile
    <3>. QED
      BY <1>0, <3>1 DEF Commands, SetupPCs
  <2>3. CASE DnsProbe
    <3>1. setup' = [setup EXCEPT !.pc = "nrpt", !.target = Target]
      BY <2>3 DEF DnsProbe
    <3>2. Target \in {Dhcp, Guest, Relay}
      BY <1>0, TargetChosen
    <3>. QED
      BY <1>0, <3>1, <3>2 DEF Commands, SetupPCs
  <2>4. CASE DnsRetireRule
    BY <1>0, <2>4, ToShape DEF DnsRetireRule, SetupPCs
  <2>. QED
    BY <2>1, <2>2, <2>3, <2>4
<1>. QED
  BY <1>0, <1>1, <1>2, AdapterAlone DEF At

LEMMA FamilyStepsKept == ASSUME FamilyInv, DnsV4 \/ DnsV6 PROVE FamilyInv'
<1>0. setup \in Commands /\ UNCHANGED damaged
  BY DEF FamilyInv, DnsV4, DnsV6
<1>1. CASE To("rollback")
  <2>1. setup' \in Commands /\ setup'.pc = "rollback"
    BY <1>0, <1>1, ToShape DEF SetupPCs
  <2>. QED
    BY <2>1 DEF FamilyInv, Paired, FamiliesTogether, At
<1>2. CASE DnsV4 /\ v4' = setup.target /\ To("v6")
  <2>1. setup' \in Commands /\ setup'.pc = "v6" /\ setup'.target = setup.target
    BY <1>0, <1>2, ToShape DEF SetupPCs
  <2>. QED
    BY <1>2, <2>1 DEF FamilyInv, Paired, FamiliesTogether, At
<1>3. CASE DnsV6 /\ v6' = (IF setup.target = Relay THEN Relay ELSE Dhcp) /\ To("verify")
  <2>1. setup' \in Commands /\ setup'.pc = "verify" /\ setup'.target = setup.target
    BY <1>0, <1>3, ToShape DEF SetupPCs
  <2>2. v4 = setup.target /\ v4' = v4
    BY <1>3 DEF DnsV6, FamilyInv, Paired
  <2>3. v4' = Relay <=> v6' = Relay
    BY <1>3, <2>2 DEF Relay, Dhcp
  <2>. QED
    BY <2>1, <2>3 DEF FamilyInv, Paired, FamiliesTogether, At
<1>. QED
  BY <1>1, <1>2, <1>3 DEF DnsV4, DnsV6

LEMMA VerifyKept == ASSUME FamilyInv, DnsVerify \/ DnsGiveUp PROVE FamilyInv'
<1>0. setup \in Commands /\ UNCHANGED <<v4, v6>> /\ setup.pc \in {"verify", "again"}
  BY DEF FamilyInv, DnsVerify, DnsGiveUp, At
<1>1. v4 = Relay <=> v6 = Relay
  BY <1>0 DEF FamilyInv, Paired, At
<1>2. setup' = NoCommand \/ To("again") \/ To("rollback")
  BY DEF DnsVerify, DnsGiveUp, Return
<1>3. setup' \in Commands /\ setup'.pc \in {"idle", "again", "rollback"}
  BY <1>0, <1>2, ToShape, NoCommandShape DEF SetupPCs
<1>. QED
  BY <1>0, <1>1, <1>3 DEF FamilyInv, Paired, FamiliesTogether, At

LEMMA RollbackKept == ASSUME FamilyInv, DnsRollback PROVE FamilyInv'
<1>1. PICK failed \in SUBSET {"v4", "v6"} : GivenBack(failed) /\ damaged' = (failed # {})
  BY DEF DnsRollback
<1>2. setup' \in Commands /\ setup'.pc = "idle"
  BY NoCommandShape DEF DnsRollback, Return
<1>3. CASE failed = {}
  <2>1. v4' = Dhcp /\ v6' = Dhcp
    BY <1>1, <1>3 DEF GivenBack
  <2>. QED
    BY <1>2, <2>1 DEF FamilyInv, Paired, FamiliesTogether, At
<1>4. CASE failed # {}
  <2>1. damaged'
    BY <1>1, <1>4
  <2>. QED
    BY <1>2, <2>1 DEF FamilyInv, Paired, FamiliesTogether, At
<1>. QED
  BY <1>3, <1>4

\* What cuts a command between the families, or while it rolls back, is damage.
LEMMA CutStepsKept == ASSUME FamilyInv, Cut \/ Logon PROVE FamilyInv'
<1>1. UNCHANGED <<v4, v6>> /\ damaged' = (damaged \/ At("v6") \/ At("rollback"))
  BY DEF Cut, Logon
<1>2. setup' \in Commands /\ setup'.pc = "idle"
  BY NoCommandShape DEF Cut, Logon, Return
<1>3. damaged' \/ (~At("v6") /\ ~At("rollback") /\ (damaged => damaged'))
  BY <1>1, Zenon
<1>. QED
  BY <1>1, <1>2, <1>3, AdapterAlone

LEMMA FamilyKept == ASSUME FamilyInv, [SetupNext]_setupVars PROVE FamilyInv'
<1>1. CASE \/ DnsClear \/ Persist \/ Unregister \/ DogFires \/ DogAsked \/ DogStep \/ DogReaped
           \/ RelayDies \/ RelayRestarts \/ RelayLooks \/ GuestFails \/ GuestTimer \/ RouterChanges
           \/ UNCHANGED setupVars
  <2>1. UNCHANGED <<v4, v6, setup, damaged>>
    BY <1>1 DEF DnsClear, Persist, Unregister, DogFires, DogAsked, Woken, DogStep, DogLook, DogStart,
           DogMid, DogReconcile, DogAfter, DogReaped, RelayDies, RelayRestarts, RelayLooks,
           GuestFails, GuestTimer, RouterChanges, setupVars, adapterVars
  <2>2. setup' \in Commands
    BY <2>1 DEF FamilyInv
  <2>. QED
    BY <2>1, <2>2, AdapterAlone
<1>. QED
  BY <1>1, EarlyStepsKept, FamilyStepsKept, VerifyKept, RollbackKept, CutStepsKept
     DEF SetupNext, DnsStep

LEMMA SetupStarts == SetupInit => FamilyInv
BY NoCommandShape DEF SetupInit, FamilyInv, Paired, FamiliesTogether, At, Relay, Dhcp, Guest

\* Neither family is on the relay without the other, unless a command was cut between the two or
\* its rollback refused, and none has ended well since.
THEOREM SetupFamiliesTogether == SetupSpec => []FamiliesTogether
<1>1. SetupInit => FamilyInv
  BY SetupStarts
<1>2. FamilyInv /\ [SetupNext]_setupVars => FamilyInv'
  BY FamilyKept
<1>3. FamilyInv => FamiliesTogether
  BY DEF FamilyInv
<1>. QED
  BY <1>1, <1>2, <1>3, PTL DEF SetupSpec

-----------------------------------------------------------------------------
(* The types of the adapter, the relay's task, the guest and the watchdog *)

\* The types without the command's, which FamilyInv carries.
WorldOK ==
  /\ vm \in {"off", "bare", "serving"} /\ keeps \in BOOLEAN
  /\ relay \in [task : {Nothing, Router, Guest}, up : BOOLEAN,
                fallback : {Nothing, Router, Guest}, tries : 0..Retries]
  /\ sees \in BOOLEAN /\ lan \in BOOLEAN
  /\ dog \in [pc : {"idle", "look", "start", "mid", "reconcile", "after"},
              by : {"task", "panel", "hand"}]
  /\ record \in {"none", "up", "down"}
  /\ mishaps \in 0..MaxMishaps

\* A family is set to what the command chose, once it has chosen.
AdapterOK ==
  /\ v4 \in {Dhcp, Guest, Relay} /\ v6 \in {Dhcp, Relay} /\ nrpt \in BOOLEAN /\ damaged \in BOOLEAN
  /\ setup.pc \in {"nrpt", "v4", "v6"} => setup.target \in {Dhcp, Guest, Relay}

LEMMA MishapType == ASSUME mishaps \in 0..MaxMishaps, Mishap \/ Fine PROVE mishaps' \in 0..MaxMishaps
BY SetupConstants DEF Mishap, Fine

\* What the script in the guest leaves.
LEMMA GuestTypes ==
  ASSUME WorldOK, NEW ok \in BOOLEAN, Reconcile(ok)
  PROVE  vm' \in {"off", "bare", "serving"} /\ keeps' \in BOOLEAN /\ mishaps' \in 0..MaxMishaps
<1>1. mishaps' \in 0..MaxMishaps
  BY MishapType DEF Reconcile, WorldOK
<1>2. vm' \in {"off", "bare", "serving"} /\ keeps' \in BOOLEAN
  BY DEF Reconcile, WorldOK
<1>. QED
  BY <1>1, <1>2

LEMMA BootTypes ==
  ASSUME WorldOK, Boot PROVE vm' \in {"off", "bare", "serving"}
BY DEF Boot, WorldOK

LEMMA DogMoves ==
  ASSUME WorldOK, NEW pc \in {"idle", "look", "start", "mid", "reconcile", "after"},
         dog' = [dog EXCEPT !.pc = pc]
  PROVE  dog' \in [pc : {"idle", "look", "start", "mid", "reconcile", "after"},
                   by : {"task", "panel", "hand"}]
BY DEF WorldOK

\* The commands leave the rest of the world alone, but for the guest they reconcile.
LEMMA WorldCommands ==
  ASSUME WorldOK, (\E server \in {Relay, Guest} : RunDns(server)) \/ DnsStep \/ DnsClear \/ Cut
  PROVE  WorldOK'
<1>1. UNCHANGED <<relay, sees, lan, dog, record>>
  BY DEF RunDns, DnsStep, DnsClear, Cut, DnsReconcile, DnsProbe, DnsRetireRule, DnsV4, DnsV6,
         DnsVerify, DnsGiveUp, DnsRollback, relayVars, dogVars
<1>2. CASE DnsReconcile
  <2>1. \E ok \in BOOLEAN : Reconcile(ok)
    BY <1>2 DEF DnsReconcile
  <2>. QED
    BY <1>1, <2>1, GuestTypes DEF WorldOK
<1>3. CASE ~DnsReconcile
  <2>1. UNCHANGED <<vm, keeps>> /\ (Mishap \/ Fine)
    BY <1>3 DEF RunDns, DnsStep, DnsClear, Cut, DnsProbe, DnsRetireRule, DnsV4, DnsV6, RuleRemoved,
           DnsVerify, DnsGiveUp, DnsRollback, guestVars, Fine
  <2>. QED
    BY <1>1, <2>1, MishapType DEF WorldOK
<1>. QED
  BY <1>2, <1>3

LEMMA WorldRelay ==
  ASSUME WorldOK, v4 \in {Dhcp, Guest, Relay},
         Persist \/ Unregister \/ RelayDies \/ RelayRestarts \/ RelayLooks
  PROVE  WorldOK'
<1>1. UNCHANGED <<keeps, lan, dog, record>> /\ (Mishap \/ Fine)
  BY DEF Persist, Unregister, RelayDies, RelayRestarts, RelayLooks, guestVars, dogVars, Fine
<1>2. vm' \in {"off", "bare", "serving"} /\ sees' \in BOOLEAN
  <2>1. CASE RelayLooks
    BY <2>1, BootTypes DEF RelayLooks
  <2>2. CASE Persist
    <3>1. vm' = vm /\ sees' = (sees /\ relay.up)
      BY <2>2 DEF Persist, guestVars
    <3>. QED
      BY <3>1, Zenon DEF WorldOK
  <2>3. CASE Unregister \/ RelayDies \/ RelayRestarts
    BY <2>3 DEF Unregister, RelayDies, RelayRestarts, guestVars, WorldOK
  <2>. QED
    BY <2>1, <2>2, <2>3
<1>3. relay' \in [task : {Nothing, Router, Guest}, up : BOOLEAN,
                  fallback : {Nothing, Router, Guest}, tries : 0..Retries]
  <2>1. Captured \in {Nothing, Router, Guest} /\ Nothing \in {Nothing, Router, Guest}
    BY DEF Captured
  <2>2. CASE relay' = Started(Captured)
    <3>1. \E fallback \in {Nothing, Router, Guest} :
            relay' = [task |-> Captured, up |-> TRUE, fallback |-> fallback, tries |-> 0]
      <4>1. CASE relay.up
        BY <2>2, <4>1 DEF Started, WorldOK
      <4>2. CASE ~relay.up
        BY <2>1, <2>2, <4>2 DEF Started, WorldOK
      <4>. QED
        BY <4>1, <4>2
    <3>. QED
      BY <2>1, <3>1, SetupConstants DEF WorldOK
  <2>3. CASE Persist
    <3>1. CASE relay' = [relay EXCEPT !.task = Captured]
      BY <2>1, <3>1 DEF WorldOK
    <3>. QED
      BY <2>2, <2>3, <3>1 DEF Persist
  <2>4. CASE Unregister \/ RelayDies \/ RelayLooks
    BY <2>4 DEF Unregister, RelayDies, RelayLooks, WorldOK
  <2>5. CASE RelayRestarts
    <3>1. relay.tries + 1 \in 0..Retries
      BY <2>5, SetupConstants DEF RelayRestarts, WorldOK
    <3>. QED
      BY <2>5, <3>1 DEF RelayRestarts, WorldOK
  <2>. QED
    BY <2>3, <2>4, <2>5
<1>. QED
  BY <1>1, <1>2, <1>3, MishapType DEF WorldOK

LEMMA WorldDog ==
  ASSUME WorldOK, DogFires \/ DogAsked \/ DogStep \/ DogReaped PROVE WorldOK'
<1>0. UNCHANGED <<relay, sees, lan>>
  BY DEF DogFires, DogAsked, DogStep, DogReaped, Woken, DogLook, DogStart, DogMid, DogReconcile,
         DogAfter, relayVars
<1>1. Asleep \in [pc : {"idle", "look", "start", "mid", "reconcile", "after"},
                  by : {"task", "panel", "hand"}]
  BY DEF Asleep
<1>2. ASSUME Wrote PROVE record' \in {"none", "up", "down"} /\ (Mishap \/ Fine)
  BY <1>2 DEF Wrote, Noted, WorldOK
<1>3. CASE DogFires \/ DogAsked
  <2>1. PICK by \in {"task", "panel", "hand"} : Woken(by)
    BY <1>3, SetupConstants DEF DogFires, DogAsked
  <2>2. dog' \in [pc : {"idle", "look", "start", "mid", "reconcile", "after"},
                  by : {"task", "panel", "hand"}]
    BY <2>1 DEF Woken
  <2>. QED
    BY <1>0, <2>1, <2>2 DEF Woken, guestVars, WorldOK
<1>4. CASE DogLook \/ DogAfter
  <2>1. UNCHANGED <<vm, keeps>>
    BY <1>4 DEF DogLook, DogAfter, guestVars
  <2>2. \/ dog' = Asleep /\ Wrote
        \/ DogTo("start") /\ Fine
    BY <1>4 DEF DogLook, DogAfter
  <2>3. CASE dog' = Asleep /\ Wrote
    BY <1>0, <1>1, <1>2, <2>1, <2>3, MishapType DEF WorldOK
  <2>4. CASE DogTo("start") /\ Fine
    BY <1>0, <2>1, <2>4, DogMoves, MishapType DEF DogTo, WorldOK
  <2>. QED
    BY <2>2, <2>3, <2>4
<1>5. CASE DogStart
  <2>1. vm' \in {"off", "bare", "serving"} /\ (Mishap \/ Fine) /\ keeps' = keeps
    BY <1>5, BootTypes DEF DogStart, WorldOK
  <2>. QED
    BY <1>0, <1>5, <2>1, DogMoves, MishapType DEF DogStart, DogTo, WorldOK
<1>6. CASE DogMid
  <2>1. DogTo("after") \/ DogTo("reconcile")
    BY <1>6 DEF DogMid
  <2>2. UNCHANGED <<vm, keeps, mishaps>>
    BY <1>6 DEF DogMid, guestVars
  <2>. QED
    BY <1>0, <2>1, <2>2, DogMoves DEF DogTo, WorldOK
<1>7. CASE DogReconcile
  <2>1. DogTo("after") /\ \E ok \in BOOLEAN : Reconcile(ok)
    BY <1>7 DEF DogReconcile
  <2>. QED
    BY <1>0, <2>1, GuestTypes, DogMoves DEF DogTo, WorldOK
<1>8. CASE DogReaped
  BY <1>0, <1>1, <1>8, MishapType DEF DogReaped, guestVars, WorldOK
<1>. QED
  BY <1>3, <1>4, <1>5, <1>6, <1>7, <1>8 DEF DogStep

LEMMA WorldOutside ==
  ASSUME WorldOK, GuestFails \/ GuestTimer \/ RouterChanges \/ Logon PROVE WorldOK'
<1>1. Mishap \/ Fine
  BY DEF GuestFails, GuestTimer, RouterChanges, Logon, Fine, WorldOK
<1>2. CASE GuestFails \/ GuestTimer
  BY <1>1, <1>2, MishapType DEF GuestFails, GuestTimer, relayVars, dogVars, WorldOK
<1>3. CASE RouterChanges
  <2>1. lan' = ~lan /\ UNCHANGED <<vm, keeps, relay, sees, dog, record>>
    BY <1>3 DEF RouterChanges, guestVars, relayVars, dogVars
  <2>2. lan' \in BOOLEAN
    BY <2>1, Zenon
  <2>. QED
    BY <1>1, <2>1, <2>2, MishapType DEF WorldOK
<1>4. CASE Logon
  <2>1. \E up \in BOOLEAN :
          relay' = [task |-> relay.task, up |-> up, fallback |-> relay.task, tries |-> 0]
    <3>1. PICK up \in BOOLEAN :
            relay' = [relay EXCEPT !.up = up, !.fallback = relay.task, !.tries = 0]
      <4>1. (relay.task # Nothing) \in BOOLEAN
        BY Zenon
      <4>. QED
        BY <1>4, <4>1, Zenon DEF Logon
    <3>. QED
      BY <3>1 DEF WorldOK
  <2>2. relay' \in [task : {Nothing, Router, Guest}, up : BOOLEAN,
                    fallback : {Nothing, Router, Guest}, tries : 0..Retries]
    BY <2>1, SetupConstants DEF WorldOK
  <2>3. dog' \in [pc : {"idle", "look", "start", "mid", "reconcile", "after"},
                  by : {"task", "panel", "hand"}]
    BY <1>4 DEF Logon, Asleep
  <2>. QED
    BY <1>1, <1>4, <2>2, <2>3, MishapType DEF Logon, WorldOK
<1>. QED
  BY <1>2, <1>3, <1>4

\* A command that goes on, or returns, keeps the target it chose.
LEMMA TargetStays ==
  ASSUME setup \in Commands, AdapterOK, NEW pc \in SetupPCs, To(pc),
         pc \in {"nrpt", "v4", "v6"} => setup.pc \in {"nrpt", "v4", "v6"}
  PROVE  setup'.pc \in {"nrpt", "v4", "v6"} => setup'.target \in {Dhcp, Guest, Relay}
BY ToShape DEF AdapterOK

LEMMA AdapterCommands ==
  ASSUME setup \in Commands, AdapterOK,
         (\E server \in {Relay, Guest} : RunDns(server)) \/ DnsStep \/ Cut \/ Logon
  PROVE  AdapterOK'
<1>1. CASE (\E server \in {Relay, Guest} : RunDns(server)) \/ DnsReconcile
  <2>1. UNCHANGED adapterVars /\ setup'.pc \in {"reconcile", "probe"}
    <3>1. CASE \E server \in {Relay, Guest} : RunDns(server)
      BY <3>1 DEF RunDns, NoCommand
    <3>2. CASE DnsReconcile
      BY <3>2 DEF DnsReconcile, Commands
    <3>. QED
      BY <1>1, <3>1, <3>2
  <2>. QED
    BY <2>1 DEF AdapterOK, adapterVars
<1>2. CASE DnsProbe
  <2>1. setup' = [setup EXCEPT !.pc = "nrpt", !.target = Target] /\ UNCHANGED adapterVars
    BY <1>2 DEF DnsProbe
  <2>2. setup'.target \in {Dhcp, Guest, Relay}
    BY <2>1, TargetChosen DEF Commands
  <2>. QED
    BY <2>1, <2>2 DEF AdapterOK, adapterVars
<1>3. CASE \/ DnsRetireRule \/ DnsV4 \/ DnsV6 \/ DnsVerify \/ DnsGiveUp \/ DnsRollback \/ Cut
           \/ Logon
  <2>1. setup'.pc \in {"nrpt", "v4", "v6"} => setup'.target \in {Dhcp, Guest, Relay}
    <3>1. CASE setup' = NoCommand
      BY <3>1, NoCommandShape
    <3>2. CASE \/ setup.pc = "nrpt" /\ To("v4")
               \/ setup.pc = "v4" /\ To("v6")
               \/ To("rollback") \/ To("verify") \/ To("again")
      BY <3>2, TargetStays DEF SetupPCs
    <3>3. CASE DnsRetireRule \/ DnsV4 \/ DnsV6
      <4>1. \/ setup.pc = "nrpt" /\ To("v4")
            \/ setup.pc = "v4" /\ To("v6")
            \/ To("rollback") \/ To("verify")
        BY <3>3, Zenon DEF DnsRetireRule, DnsV4, DnsV6, At
      <4>. QED
        BY <3>2, <4>1, Zenon
    <3>4. CASE DnsVerify \/ DnsGiveUp
      BY <3>1, <3>2, <3>4 DEF DnsVerify, DnsGiveUp, Return
    <3>5. CASE DnsRollback \/ Cut \/ Logon
      <4>1. setup' = NoCommand
        BY <3>5, Zenon DEF DnsRollback, Cut, Logon, Return
      <4>. QED
        BY <3>1, <4>1
    <3>. QED
      BY <1>3, <3>3, <3>4, <3>5
  <2>2. nrpt' \in BOOLEAN
    BY <1>3 DEF DnsRetireRule, DnsV4, DnsV6, DnsVerify, DnsGiveUp, DnsRollback, Cut, Logon,
           RuleRemoved, AdapterOK
  <2>3. v4' \in {Dhcp, Guest, Relay}
    BY <1>3 DEF DnsRetireRule, DnsV4, DnsV6, DnsVerify, DnsGiveUp, DnsRollback, GivenBack, Cut, Logon,
           At, AdapterOK
  <2>4. v6' \in {Dhcp, Relay}
    BY <1>3 DEF DnsRetireRule, DnsV4, DnsV6, DnsVerify, DnsGiveUp, DnsRollback, GivenBack, Cut, Logon,
           AdapterOK
  <2>5. damaged' \in BOOLEAN
    <3>1. CASE Cut \/ Logon
      <4>1. damaged' = (damaged \/ At("v6") \/ At("rollback"))
        BY <3>1 DEF Cut, Logon
      <4>. QED
        BY <4>1, Zenon
    <3>2. CASE DnsRollback
      <4>1. PICK failed : damaged' = (failed # {})
        BY <3>2 DEF DnsRollback
      <4>. QED
        BY <4>1, Zenon
    <3>3. CASE DnsRetireRule \/ DnsV4 \/ DnsV6 \/ DnsVerify \/ DnsGiveUp
      BY <3>3 DEF DnsRetireRule, DnsV4, DnsV6, DnsVerify, DnsGiveUp, AdapterOK
    <3>. QED
      BY <1>3, <3>1, <3>2, <3>3
  <2>. QED
    BY <2>1, <2>2, <2>3, <2>4, <2>5 DEF AdapterOK
<1>. QED
  BY <1>1, <1>2, <1>3 DEF DnsStep

\* Nobody else touches the adapter, but dns --clear, which removes the rule.
LEMMA AdapterOthers ==
  ASSUME AdapterOK,
         \/ DnsClear \/ Persist \/ Unregister \/ DogFires \/ DogAsked \/ DogStep \/ DogReaped
         \/ RelayDies \/ RelayRestarts \/ RelayLooks \/ GuestFails \/ GuestTimer \/ RouterChanges
  PROVE  AdapterOK'
<1>1. UNCHANGED <<setup, v4, v6, damaged>> /\ nrpt' \in BOOLEAN
  BY DEF DnsClear, Persist, Unregister, DogFires, DogAsked, Woken, DogStep, DogLook, DogStart,
         DogMid, DogReconcile, DogAfter, DogReaped, RelayDies, RelayRestarts, RelayLooks,
         GuestFails, GuestTimer, RouterChanges, adapterVars, AdapterOK
<1>. QED
  BY <1>1 DEF AdapterOK

\* The commands' and the watchdog's variables have the values SetupTypeOK lists.
THEOREM SetupTypeCorrect == SetupSpec => []SetupTypeOK
<1>. DEFINE TInv == FamilyInv /\ WorldOK /\ AdapterOK
<1>1. SetupInit => TInv
  <2>. SUFFICES ASSUME SetupInit PROVE TInv
    OBVIOUS
  <2>1. FamilyInv
    BY SetupStarts
  <2>2. WorldOK
    <3>1. relay \in [task : {Nothing, Router, Guest}, up : BOOLEAN,
                     fallback : {Nothing, Router, Guest}, tries : 0..Retries]
      BY SetupConstants DEF SetupInit
    <3>2. dog \in [pc : {"idle", "look", "start", "mid", "reconcile", "after"},
                   by : {"task", "panel", "hand"}]
      BY DEF SetupInit, Asleep
    <3>3. mishaps \in 0..MaxMishaps
      BY SetupConstants DEF SetupInit
    <3>. QED
      BY <3>1, <3>2, <3>3 DEF SetupInit, WorldOK
  <2>3. nrpt \in BOOLEAN
    <3>1. nrpt = (v4 = Guest)
      BY DEF SetupInit
    <3>. QED
      BY <3>1, Zenon
  <2>4. AdapterOK
    BY <2>3, NoCommandShape DEF SetupInit, AdapterOK
  <2>. QED
    BY <2>1, <2>2, <2>4
<1>2. TInv /\ [SetupNext]_setupVars => TInv'
  <2>. SUFFICES ASSUME TInv, [SetupNext]_setupVars PROVE TInv'
    OBVIOUS
  <2>0. setup \in Commands /\ v4 \in {Dhcp, Guest, Relay}
    BY DEF FamilyInv, AdapterOK
  <2>1. FamilyInv'
    BY FamilyKept
  <2>2. CASE UNCHANGED setupVars
    BY <2>1, <2>2 DEF setupVars, guestVars, relayVars, adapterVars, dogVars, WorldOK, AdapterOK
  <2>3. CASE SetupNext
    <3>1. WorldOK'
      BY <2>0, <2>3, WorldCommands, WorldRelay, WorldDog, WorldOutside DEF SetupNext
    <3>2. AdapterOK'
      BY <2>0, <2>3, AdapterCommands, AdapterOthers DEF SetupNext
    <3>. QED
      BY <2>1, <3>1, <3>2
  <2>. QED
    BY <2>2, <2>3
<1>3. TInv => SetupTypeOK
  BY DEF FamilyInv, WorldOK, AdapterOK, SetupTypeOK, Commands
<1>. QED
  BY <1>1, <1>2, <1>3, PTL DEF SetupSpec
=============================================================================
