--------------------------- MODULE MeteringProofs ---------------------------
(***************************************************************************)
(* Proofs about Metering, for every set of addresses and every choice of   *)
(* limit, window, threshold, traffic and lateness.                         *)
(***************************************************************************)
EXTENDS Metering, FiniteSetTheorems, TLAPS

LEMMA TypeInit == Init => TypeOK
<1> SUFFICES ASSUME Init PROVE TypeOK
  OBVIOUS
<1>1. DOMAIN pins = {}
  BY DEF Init, NoPins
<1>2. pins \in [DOMAIN pins -> [idle : 0..Expire, video : BOOLEAN]]
  BY <1>1 DEF Init, NoPins
<1>3. /\ alive \in BOOLEAN /\ baseline \in BOOLEAN /\ watching \in BOOLEAN
      /\ filters \subseteq Address
  BY DEF Init
<1>5. Cardinality(DOMAIN pins) <= MaxPins
  BY <1>1, FS_EmptySet, MeteringConstants DEF MeteringConstants
<1>4. /\ metered \subseteq Address /\ flow \in Int /\ carried \in Nat
      /\ sinceActive \in 0..Window \union {Nobody}
      /\ elapsed \in 0..MaxLate /\ overrun \in Nat
      /\ answers \subseteq Answer /\ stream \in Address \union {Nobody}
      /\ events \in 0..MaxEvents
  BY MeteringConstants DEF Init, MeteringConstants
<1> QED
  BY <1>1, <1>2, <1>3, <1>4, <1>5 DEF TypeOK

\* What a tick keeps is made of known addresses, each with a pin of its type.
LEMMA KeptIsTyped ==
  ASSUME TypeOK, NEW heard, heard \subseteq Answer, NEW active \in BOOLEAN
  PROVE  /\ Kept(heard, active) \subseteq Address
         /\ \A a \in Kept(heard, active) :
              /\ Idle(a, heard, active) \in 0..Expire
              /\ Video(a, heard) \in BOOLEAN
<1>1. Answered(heard) \subseteq Address
  BY DEF Answered, Answer
<1>2. Live(heard, active) \subseteq Address
  BY <1>1 DEF Live, TypeOK
<1>3. Kept(heard, active) \subseteq Live(heard, active)
  BY DEF Kept
<1>4. ASSUME NEW a \in Live(heard, active)
      PROVE  Idle(a, heard, active) \in 0..Expire /\ Video(a, heard) \in BOOLEAN
  <2>1. CASE active \/ a \in Answered(heard)
    BY <2>1, MeteringConstants DEF Idle, Video, MeteringConstants
  <2>2. CASE ~active /\ a \notin Answered(heard)
    <3>1. a \in DOMAIN pins
      BY <2>2 DEF Live
    <3>2. pins[a] \in [idle : 0..Expire, video : BOOLEAN]
      BY <3>1 DEF TypeOK
    <3> QED
      BY <2>2, <3>2 DEF Idle, Video
  <2> QED
    BY <2>1, <2>2
<1> QED
  BY <1>2, <1>3, <1>4

\* Before orders the live addresses strictly: by video, by idleness, by spelling.
LEMMA BeforeIsAnOrder ==
  ASSUME TypeOK, NEW heard, heard \subseteq Answer, NEW active \in BOOLEAN
  PROVE  LET live == Live(heard, active)
             ahead(a, b) == Before(a, b, heard, active)
         IN /\ live \subseteq Address
            /\ \A a \in live : ~ahead(a, a)
            /\ \A a, b \in live : a # b => ahead(a, b) \/ ahead(b, a)
            /\ \A a, b, c \in live : ahead(a, b) /\ ahead(b, c) => ahead(a, c)
<1>1. Live(heard, active) \subseteq Address
  BY DEF Answered, Answer, Live, TypeOK
<1> DEFINE less(a, b) == \/ Idle(a, heard, active) < Idle(b, heard, active)
                         \/ Idle(a, heard, active) = Idle(b, heard, active) /\ a < b
<1>2. ASSUME NEW a \in Live(heard, active)
      PROVE  a \in Nat /\ Idle(a, heard, active) \in Nat /\ Video(a, heard) \in BOOLEAN
  <2>1. a \in Nat
    BY <1>1, MeteringConstants DEF MeteringConstants
  <2>2. CASE active \/ a \in Answered(heard)
    BY <2>1, <2>2 DEF Idle, Video
  <2>3. CASE ~active /\ a \notin Answered(heard)
    <3>1. a \in DOMAIN pins
      BY <2>3 DEF Live
    <3>2. pins[a] \in [idle : 0..Expire, video : BOOLEAN]
      BY <3>1 DEF TypeOK
    <3>3. pins[a].idle \in 0..Expire /\ Expire \in Nat
      BY <3>2, MeteringConstants DEF MeteringConstants
    <3>4. Idle(a, heard, active) = pins[a].idle
      BY <2>3 DEF Idle
    <3> QED
      BY <2>1, <3>2, <3>3, <3>4 DEF Video
  <2> QED
    BY <2>2, <2>3
<1>6. ASSUME NEW a \in Live(heard, active), NEW b \in Live(heard, active)
      PROVE  Before(a, b, heard, active) <=>
               \/ Video(a, heard) /\ ~Video(b, heard)
               \/ (Video(a, heard) <=> Video(b, heard)) /\ less(a, b)
  <2>1. Video(a, heard) \in BOOLEAN /\ Video(b, heard) \in BOOLEAN
    BY <1>2
  <2> QED
    BY <2>1, Zenon DEF Before
<1>3. ASSUME NEW a \in Live(heard, active), NEW b \in Live(heard, active), a # b
      PROVE  Before(a, b, heard, active) \/ Before(b, a, heard, active)
  <2>1. less(a, b) \/ less(b, a)
    BY <1>2, <1>3
  <2> HIDE DEF less
  <2> QED
    BY <1>6, <2>1
<1>4. ASSUME NEW a \in Live(heard, active), NEW b \in Live(heard, active),
             NEW c \in Live(heard, active),
             Before(a, b, heard, active), Before(b, c, heard, active)
      PROVE  Before(a, c, heard, active)
  <2>1. less(a, b) /\ less(b, c) => less(a, c)
    BY <1>2
  <2> HIDE DEF less
  <2> QED
    BY <1>4, <1>6, <2>1
<1>5. \A a \in Live(heard, active) : ~Before(a, a, heard, active)
  <2>1. \A a \in Live(heard, active) : ~less(a, a)
    BY <1>2
  <2> HIDE DEF less
  <2> QED
    BY <1>6, <2>1
<1> QED
  BY <1>1, <1>3, <1>4, <1>5

\* An address is kept by how many are before it; two that are kept differ in that
\* number, so no more are kept than there are filters.
LEMMA KeptFits ==
  ASSUME TypeOK, NEW heard, heard \subseteq Answer, NEW active \in BOOLEAN
  PROVE  Cardinality(Kept(heard, active)) <= MaxPins
<1> DEFINE live == Live(heard, active)
           ahead(a) == {b \in live : Before(b, a, heard, active)}
           rank == [a \in Kept(heard, active) |-> Cardinality(ahead(a)) + 1]
<1>1. /\ live \subseteq Address
      /\ \A a \in live : a \notin ahead(a)
      /\ \A a, b \in live : a # b => a \in ahead(b) \/ b \in ahead(a)
      /\ \A a, b \in live : a \in ahead(b) => ahead(a) \subseteq ahead(b)
  BY BeforeIsAnOrder
<1>2. Kept(heard, active) = {a \in live : Cardinality(ahead(a)) < MaxPins}
  BY DEF Kept
<1> HIDE DEF ahead, live
<1>3. \A a \in live : ahead(a) \subseteq live
  BY DEF ahead
<1>4. IsFiniteSet(live)
  BY <1>1, MeteringConstants, FS_Subset DEF MeteringConstants
<1>5. ASSUME NEW a \in live PROVE IsFiniteSet(ahead(a)) /\ Cardinality(ahead(a)) \in Nat
  BY <1>3, <1>4, FS_Subset, FS_CardinalityType
<1>6. ASSUME NEW a \in live, NEW b \in live, a \in ahead(b)
      PROVE  Cardinality(ahead(a)) < Cardinality(ahead(b))
  <2>1. ahead(a) \subseteq ahead(b) \ {a}
    BY <1>1, <1>6
  <2>2. /\ IsFiniteSet(ahead(b) \ {a})
        /\ Cardinality(ahead(b) \ {a}) = Cardinality(ahead(b)) - 1
    BY <1>5, <1>6, FS_RemoveElement
  <2>3. Cardinality(ahead(a)) <= Cardinality(ahead(b) \ {a})
    BY <2>1, <2>2, FS_Subset
  <2> QED
    BY <1>5, <2>2, <2>3
<1>7. rank \in Injection(Kept(heard, active), 1..MaxPins)
  <2>1. \A a \in Kept(heard, active) : rank[a] \in 1..MaxPins
    BY <1>2, <1>5, MeteringConstants DEF MeteringConstants
  <2>2. ASSUME NEW a \in Kept(heard, active), NEW b \in Kept(heard, active), a # b
        PROVE  rank[a] # rank[b]
    <3>1. a \in live /\ b \in live
      BY <1>2
    <3>2. Cardinality(ahead(a)) # Cardinality(ahead(b))
      BY <1>1, <1>5, <1>6, <2>2, <3>1
    <3> QED
      BY <1>5, <3>1, <3>2
  <2> QED
    BY <2>1, <2>2 DEF Injection, IsInjective
<1>8. IsFiniteSet(1..MaxPins) /\ Cardinality(1..MaxPins) = MaxPins
  BY FS_Interval, MeteringConstants DEF MeteringConstants
<1> QED
  BY <1>7, <1>8, FS_Injection DEF ExistsInjection

\* The verdict's high-water mark never leaves its range.
LEMMA AgedIsTyped ==
  ASSUME TypeOK, NEW usable \in BOOLEAN
  PROVE  Aged(usable) \in 0..Window \union {Nobody}
  BY MeteringConstants DEF TypeOK, Aged, Nobody, MeteringConstants

LEMMA TypeObserve ==
  ASSUME TypeOK, NEW heard, heard \subseteq Answer, NEW readable \in BOOLEAN,
         NEW failed \in BOOLEAN, Observe(heard, readable, failed),
         events' \in 0..MaxEvents
  PROVE  TypeOK'
<1> DEFINE active == Usable(readable) /\ flow > 0
           kept   == Kept(heard, active)
           aged   == IF Changed(kept) THEN Nobody ELSE Aged(Usable(readable))
<1>1. Usable(readable) \in BOOLEAN /\ active \in BOOLEAN
  BY DEF Usable, TypeOK
<1>2. /\ kept \subseteq Address
      /\ \A a \in kept : /\ Idle(a, heard, active) \in 0..Expire
                         /\ Video(a, heard) \in BOOLEAN
  <2> HIDE DEF active
  <2> QED
    BY <1>1, KeptIsTyped
<1>3. pins' = [a \in kept |->
                 [idle |-> Idle(a, heard, active), video |-> Video(a, heard)]]
  BY DEF Observe
<1>4. aged \in 0..Window \union {Nobody}
  BY <1>1, AgedIsTyped DEF Nobody
<1>5. /\ metered' = kept
      /\ IF Changed(kept)
         THEN \E s \in Rebuilt(kept, failed) : alive' = s.running /\ filters' = s.filters
         ELSE UNCHANGED <<alive, filters>>
      /\ baseline' = (readable /\ ~Changed(kept))
      /\ sinceActive' = aged
      /\ watching' = (Usable(readable) /\ aged # Nobody /\ aged < Window)
      /\ overrun' = IF Usable(readable) /\ High THEN 0
                    ELSE IF watching' THEN overrun + elapsed ELSE overrun
      /\ flow' = IF readable \/ Changed(kept) THEN 0 ELSE flow
      /\ carried' = 0 /\ elapsed' = 0 /\ answers' = {}
      /\ stream' = stream
  BY DEF Observe
<1>6. DOMAIN pins' \subseteq Address
      /\ pins' \in [DOMAIN pins' -> [idle : 0..Expire, video : BOOLEAN]]
  <2> HIDE DEF active, kept
  <2> QED
    BY <1>2, <1>3
<1>9. flow' \in Int
  BY <1>5 DEF TypeOK
<1>7. alive' \in BOOLEAN /\ filters' \subseteq Address
  <2>1. CASE Changed(kept)
    <3>1. PICK s \in Rebuilt(kept, failed) : alive' = s.running /\ filters' = s.filters
      BY <1>5, <2>1
    <3>2. kept \subseteq Address
      BY <1>2
    <3> HIDE DEF kept
    <3>3. s.running \in BOOLEAN /\ s.filters \subseteq filters \union kept
      <4>1. CASE failed
        <5>1. s \in [running : BOOLEAN, filters : SUBSET (filters \union kept)]
          BY <4>1 DEF Rebuilt
        <5> QED
          BY <5>1
      <4>2. CASE ~failed
        <5>1. s = [running |-> kept # {}, filters |-> kept]
          BY <4>2 DEF Rebuilt
        <5> QED
          BY <5>1
      <4> QED
        BY <4>1, <4>2
    <3> QED
      BY <3>1, <3>2, <3>3 DEF TypeOK
  <2>2. CASE ~Changed(kept)
    BY <1>5, <2>2 DEF TypeOK
  <2> QED
    BY <2>1, <2>2
<1>10. Cardinality(DOMAIN pins') <= MaxPins
  <2> HIDE DEF active
  <2>1. Cardinality(kept) <= MaxPins
    BY <1>1, KeptFits
  <2> HIDE DEF kept
  <2> QED
    BY <1>3, <2>1
<1>8. overrun' \in Nat
  BY <1>5, MeteringConstants DEF TypeOK, MeteringConstants
<1> HIDE DEF active, kept, aged
<1> QED
  BY <1>2, <1>4, <1>5, <1>6, <1>7, <1>8, <1>9, <1>10, MeteringConstants DEF TypeOK, MeteringConstants

LEMMA TypePass == TypeOK /\ Pass => TypeOK'
<1> SUFFICES ASSUME TypeOK, Pass PROVE TypeOK'
  OBVIOUS
<1>2. carried' \in Nat /\ flow' \in Int
  <2>1. CASE metered # {}
    <3>1. PICK other \in 0..Chatter : \E counted \in Counted(other) :
            /\ carried' = carried + other + FromStream(metered)
            /\ flow' = IF ~alive THEN flow
                       ELSE flow + counted
                              + FromStream(IF filters = {} THEN Address ELSE filters)
      BY <2>1 DEF Pass
    <3>2. PICK counted \in Counted(other) :
            /\ carried' = carried + other + FromStream(metered)
            /\ flow' = IF ~alive THEN flow
                       ELSE flow + counted
                              + FromStream(IF filters = {} THEN Address ELSE filters)
      BY <3>1
    <3>3. counted \in Nat
      BY MeteringConstants DEF Counted, MeteringConstants
    <3>4. \A sources : FromStream(sources) \in Nat
      BY MeteringConstants DEF FromStream, MeteringConstants
    <3>5. carried \in Nat /\ flow \in Int /\ other \in Nat
      BY DEF TypeOK
    <3> HIDE DEF FromStream
    <3> QED
      BY <3>2, <3>3, <3>4, <3>5
  <2> QED
    BY <2>1 DEF Pass, TypeOK
<1>3. DOMAIN pins' = DOMAIN pins
  BY DEF Pass
<1>4. ASSUME NEW a \in DOMAIN pins PROVE pins'[a] \in [idle : 0..Expire, video : BOOLEAN]
  <2>1. pins[a] \in [idle : 0..Expire, video : BOOLEAN]
    BY DEF TypeOK
  <2>2. pins'[a] = [pins[a] EXCEPT !.idle = IF @ < Expire THEN @ + 1 ELSE @]
    BY DEF Pass
  <2> QED
    BY <2>1, <2>2, MeteringConstants DEF MeteringConstants
<1>5. pins' = [a \in DOMAIN pins |-> pins'[a]]
  BY DEF Pass
<1>6. pins' \in [DOMAIN pins' -> [idle : 0..Expire, video : BOOLEAN]]
  BY <1>3, <1>4, <1>5
<1> QED
  BY <1>2, <1>3, <1>6, MeteringConstants DEF Pass, TypeOK, MeteringConstants

LEMMA TypeStep == TypeOK /\ [Next]_vars => TypeOK'
<1> SUFFICES ASSUME TypeOK, [Next]_vars PROVE TypeOK'
  OBVIOUS
<1> USE MeteringConstants DEF MeteringConstants
<1>0. Readable \in BOOLEAN /\ answers \subseteq Answer
  BY DEF Readable, TypeOK
<1>e. Event \/ events' = events => events' \in 0..MaxEvents
  BY DEF Event, TypeOK
<1>1. CASE Tick
  BY <1>0, <1>1, <1>e, TypeObserve DEF Tick
<1>2. CASE TickUnread
  BY <1>0, <1>2, <1>e, TypeObserve DEF TickUnread
<1>3. CASE TickUnheard
  BY <1>0, <1>3, <1>e, TypeObserve DEF TickUnheard
<1>4. CASE TickRebuildFails
  BY <1>0, <1>4, <1>e, TypeObserve DEF TickRebuildFails
<1>5. CASE Pass
  BY <1>5, TypePass
<1>6. ASSUME NEW answer \in Answer, Resolve(answer) PROVE TypeOK'
  BY <1>6 DEF Resolve, Event, TypeOK
<1>7. ASSUME NEW source \in Address \union {Nobody}, Play(source) PROVE TypeOK'
  BY <1>7 DEF Play, Event, TypeOK
<1>8. ASSUME NEW lost \in {0, VideoRate}, NEW others \in Foreigners,
             SessionRestarted(lost, others)
      PROVE  TypeOK'
  BY <1>8 DEF SessionRestarted, Event, TypeOK
<1>9. CASE SessionStopped
  <2>1. alive' \in BOOLEAN
    BY <1>9 DEF SessionStopped
  <2> QED
    BY <1>9, <1>e, <2>1 DEF SessionStopped, TypeOK
<1>10. ASSUME NEW known \in SUBSET {<<a, pins[a].video>> : a \in DOMAIN pins},
              NEW stopped \in BOOLEAN, Restart(known, stopped)
       PROVE  TypeOK'
  <2>1. ASSUME NEW a \in DOMAIN pins PROVE <<a, pins[a].video>> \in Answer
    <3>1. pins[a] \in [idle : 0..Expire, video : BOOLEAN]
      BY DEF TypeOK
    <3> QED
      BY <3>1 DEF TypeOK, Answer
  <2>2. known \subseteq Answer
    BY <2>1
  <2>3. /\ alive' \in BOOLEAN /\ filters' \subseteq Address
        /\ baseline' \in BOOLEAN /\ watching' \in BOOLEAN
    BY <1>10 DEF Restart, TypeOK
  <2>4. answers' \subseteq Answer
    BY <1>10, <2>2 DEF Restart, TypeOK
  <2>5. /\ DOMAIN pins' \subseteq Address /\ Cardinality(DOMAIN pins') <= MaxPins
        /\ pins' \in [DOMAIN pins' -> [idle : 0..Expire, video : BOOLEAN]]
    <3>1. CASE pins' = pins
      BY <3>1 DEF TypeOK
    <3>2. CASE pins' = NoPins
      BY <3>2, FS_EmptySet, MeteringConstants DEF NoPins
    <3> QED
      BY <1>10, <3>1, <3>2 DEF Restart, Loaded
  <2> QED
    BY <1>10, <1>e, <2>3, <2>4, <2>5 DEF Restart, TypeOK
<1>11. CASE UNCHANGED vars
  BY <1>11 DEF vars, TypeOK
<1> QED
  BY <1>1, <1>2, <1>3, <1>4, <1>5, <1>6, <1>7, <1>8, <1>9, <1>10, <1>11 DEF Next

\* Types, and never more pins than filters.
THEOREM MeteringTypes == Spec => []TypeOK
  BY TypeInit, TypeStep, PTL DEF Spec
-----------------------------------------------------------------------------
\* The high-water mark is at least as old as the time credited since it was set,
\* and the counter of a session that counts nothing else never runs ahead of what the
\* metered addresses carried.
Ledger ==
  /\ overrun < Window
  /\ sinceActive # Nobody => overrun <= sinceActive
  /\ baseline /\ ~Foreign => flow <= carried

LEMMA LedgerInit == Init => Ledger
  BY MeteringConstants DEF Init, Ledger, Nobody, MeteringConstants

\* What a reading does to the high-water mark.
LEMMA AgedCases ==
  ASSUME TypeOK, NEW usable \in BOOLEAN
  PROVE  /\ usable /\ High => Aged(usable) = 0
         /\ ~usable \/ (~High /\ sinceActive = Nobody) => Aged(usable) = sinceActive
         /\ usable /\ ~High /\ sinceActive # Nobody =>
              \/ Aged(usable) = sinceActive + elapsed
              \/ Aged(usable) = Window /\ sinceActive <= Window
  BY MeteringConstants DEF TypeOK, Aged, Nobody, MeteringConstants

LEMMA LedgerObserve ==
  ASSUME TypeOK, Ledger, NEW heard, NEW readable \in BOOLEAN, NEW failed,
         Observe(heard, readable, failed)
  PROVE  Ledger'
<1> DEFINE usable == Usable(readable)
           changed == Changed(Kept(heard, usable /\ flow > 0))
           aged   == IF changed THEN Nobody ELSE Aged(usable)
<1>1. /\ sinceActive' = aged
      /\ watching' = (usable /\ aged # Nobody /\ aged < Window)
      /\ overrun' = IF usable /\ High THEN 0
                    ELSE IF watching' THEN overrun + elapsed ELSE overrun
      /\ baseline' = (readable /\ ~changed)
      /\ flow' = IF readable \/ changed THEN 0 ELSE flow
      /\ carried' = 0 /\ elapsed > 0
  BY DEF Observe
<1>2. usable \in BOOLEAN
  BY DEF Usable, TypeOK
<1>3. baseline' => flow' <= carried'
  BY <1>1
<1>4. /\ overrun \in Nat /\ elapsed \in Nat /\ Window \in Nat \ {0}
      /\ sinceActive \in 0..Window \union {Nobody}
      /\ overrun < Window /\ (sinceActive # Nobody => overrun <= sinceActive)
  BY MeteringConstants DEF TypeOK, Ledger, MeteringConstants
<1> HIDE DEF usable, changed
<1>5. CASE usable /\ High
  <2>1. overrun' = 0
    BY <1>1, <1>5
  <2>2. sinceActive' # Nobody => sinceActive' = 0
    BY <1>1, <1>2, <1>5, AgedCases
  <2> QED
    BY <1>3, <1>4, <2>1, <2>2 DEF Ledger
<1>6. CASE usable /\ ~High /\ sinceActive # Nobody
  <2>1. \/ Aged(usable) = sinceActive + elapsed
        \/ Aged(usable) = Window /\ sinceActive <= Window
    BY <1>2, <1>6, AgedCases
  <2>4. /\ sinceActive \in Nat /\ sinceActive <= Window /\ overrun <= sinceActive
        /\ sinceActive + elapsed \in Nat /\ overrun <= sinceActive + elapsed
    BY <1>4, <1>6
  <2>2. CASE watching'
    <3>1. aged # Nobody /\ aged < Window
      BY <1>1, <2>2
    <3>2. aged = Aged(usable)
      BY <3>1
    <3>3. aged = sinceActive + elapsed
      BY <1>4, <2>1, <3>1, <3>2
    <3>4. overrun' = overrun + elapsed /\ sinceActive' = sinceActive + elapsed
      BY <1>1, <1>6, <2>2, <3>3
    <3>5. sinceActive \in Nat /\ sinceActive + elapsed < Window
      <4> HIDE DEF aged
      <4> QED
        BY <2>4, <3>1, <3>3
    <3> QED
      BY <1>3, <1>4, <2>4, <3>4, <3>5 DEF Ledger
  <2>3. CASE ~watching'
    <3>1. overrun' = overrun
      BY <1>1, <1>6, <2>3
    <3>2. sinceActive' = Nobody \/ sinceActive' = Aged(usable)
      BY <1>1
    <3>3. sinceActive' # Nobody => overrun <= sinceActive'
      BY <2>1, <2>4, <1>4, <3>2
    <3> QED
      BY <1>3, <1>4, <3>1, <3>3 DEF Ledger
  <2> QED
    BY <2>2, <2>3
<1>7. CASE ~usable \/ (~High /\ sinceActive = Nobody)
  <2>1. Aged(usable) = sinceActive
    BY <1>2, <1>7, AgedCases
  <2>2. sinceActive' = Nobody \/ sinceActive' = sinceActive
    BY <1>1, <2>1
  <2>3. ~watching'
    BY <1>1, <1>7, <2>2
  <2>4. overrun' = overrun
    BY <1>1, <1>7, <2>3
  <2> QED
    BY <1>3, <1>4, <2>2, <2>4 DEF Ledger
<1> QED
  BY <1>2, <1>5, <1>6, <1>7

LEMMA LedgerStep == TypeOK /\ Ledger /\ [Next]_vars => Ledger'
<1> SUFFICES ASSUME TypeOK, Ledger, [Next]_vars PROVE Ledger'
  OBVIOUS
<1> USE MeteringConstants DEF MeteringConstants
<1>0. Readable \in BOOLEAN
  BY DEF Readable, TypeOK
<1>1. CASE Tick
  BY <1>0, <1>1, LedgerObserve DEF Tick
<1>2. CASE TickUnread
  BY <1>2, LedgerObserve DEF TickUnread
<1>3. CASE TickUnheard
  BY <1>0, <1>3, LedgerObserve DEF TickUnheard
<1>4. CASE TickRebuildFails
  BY <1>0, <1>4, LedgerObserve DEF TickRebuildFails
<1>5. CASE Pass
  <2>1. Foreign' = Foreign /\ baseline' = baseline
    BY <1>5 DEF Pass, Foreign
  <2>2. baseline' /\ ~Foreign' => flow' <= carried'
    <3> SUFFICES ASSUME baseline, ~Foreign PROVE flow' <= carried'
      BY <2>1
    <3>1. metered # {} /\ filters # {} /\ filters \subseteq metered
      BY DEF Foreign
    <3>2. PICK other \in 0..Chatter : \E counted \in Counted(other) :
            /\ carried' = carried + other + FromStream(metered)
            /\ flow' = IF ~alive THEN flow
                       ELSE flow + counted
                              + FromStream(IF filters = {} THEN Address ELSE filters)
      BY <1>5, <3>1 DEF Pass
    <3>3. PICK counted \in Counted(other) :
            flow' = IF ~alive THEN flow ELSE flow + counted + FromStream(filters)
      BY <3>1, <3>2
    <3>4. counted \in Nat /\ counted <= other
      BY DEF Counted
    <3>5. /\ FromStream(filters) \in Nat /\ FromStream(metered) \in Nat
          /\ FromStream(filters) <= FromStream(metered)
      BY <3>1 DEF FromStream
    <3>6. carried \in Nat /\ flow \in Int /\ flow <= carried
      BY DEF TypeOK, Ledger
    <3> HIDE DEF FromStream
    <3> QED
      BY <3>2, <3>3, <3>4, <3>5, <3>6
  <2> QED
    BY <1>5, <2>2 DEF Pass, Ledger
<1>6. ASSUME NEW answer \in Answer, Resolve(answer) PROVE Ledger'
  BY <1>6 DEF Resolve, Ledger, Foreign
<1>7. ASSUME NEW source \in Address \union {Nobody}, Play(source) PROVE Ledger'
  BY <1>7 DEF Play, Ledger, Foreign
<1>8. ASSUME NEW lost \in {0, VideoRate}, NEW others \in Foreigners,
             SessionRestarted(lost, others)
      PROVE  Ledger'
  BY <1>8 DEF SessionRestarted, Ledger, TypeOK
<1>9. CASE SessionStopped
  BY <1>9 DEF SessionStopped, Ledger, Foreign
<1>10. ASSUME NEW known \in SUBSET {<<a, pins[a].video>> : a \in DOMAIN pins},
              NEW stopped \in BOOLEAN, Restart(known, stopped)
       PROVE  Ledger'
  BY <1>10 DEF Restart, Ledger, Nobody
<1>11. CASE UNCHANGED vars
  BY <1>11 DEF vars, Ledger, Foreign
<1> QED
  BY <1>1, <1>2, <1>3, <1>4, <1>5, <1>6, <1>7, <1>8, <1>9, <1>10, <1>11 DEF Next

LEMMA LedgerHolds == Spec => []Ledger
  BY TypeInit, TypeStep, LedgerInit, LedgerStep, PTL DEF Spec

\* The clock stops within the window (meter.py, is_watching), whatever fails.
THEOREM ClockStops == Spec => []OverrunBounded
<1>1. Ledger => OverrunBounded
  BY DEF Ledger, OverrunBounded
<1> QED
  BY <1>1, LedgerHolds, PTL
-----------------------------------------------------------------------------
\* No failure of the counter makes traffic out of nothing (meter.py, observe); only a
\* session with other filters than the watcher's does.
THEOREM SpikesAreReal == Spec => NoPhantomSpike
<1>1. ASSUME TypeOK, Ledger, [Next]_vars,
             elapsed > 0, elapsed' = 0, watching', sinceActive' = 0
      PROVE  carried >= Threshold * elapsed \/ Foreign
  <2> USE MeteringConstants DEF MeteringConstants
  <2>1. ASSUME NEW heard, NEW readable \in BOOLEAN, NEW failed,
               Observe(heard, readable, failed)
        PROVE  carried >= Threshold * elapsed \/ Foreign
    <3> DEFINE aged == IF Changed(Kept(heard, Usable(readable) /\ flow > 0)) THEN Nobody
                       ELSE Aged(Usable(readable))
    <3>1. sinceActive' = aged /\ watching' = (Usable(readable) /\ aged # Nobody /\ aged < Window)
      BY <2>1 DEF Observe
    <3>2. Usable(readable) /\ Aged(Usable(readable)) = 0
      BY <1>1, <3>1 DEF Nobody
    <3>3. Threshold * elapsed \in Nat
      BY <1>1 DEF TypeOK
    <3>4. flow >= Threshold * elapsed
      BY <1>1, <3>2 DEF Aged, High, TypeOK, Nobody
    <3> QED
      BY <1>1, <3>2, <3>3, <3>4 DEF Ledger, Usable, TypeOK
  <2>2. Readable \in BOOLEAN
    BY <1>1 DEF Readable, TypeOK
  <2>3. CASE Tick \/ TickUnread \/ TickUnheard \/ TickRebuildFails
    BY <2>1, <2>2, <2>3 DEF Tick, TickUnread, TickUnheard, TickRebuildFails
  <2>4. CASE Pass
    BY <1>1, <2>4 DEF Pass, TypeOK
  <2>5. CASE \/ \E answer \in Answer : Resolve(answer)
             \/ \E source \in Address \union {Nobody} : Play(source)
             \/ \E lost \in {0, VideoRate}, others \in Foreigners : SessionRestarted(lost, others)
             \/ SessionStopped
             \/ \E known \in SUBSET {<<a, pins[a].video>> : a \in DOMAIN pins},
                   stopped \in BOOLEAN : Restart(known, stopped)
             \/ UNCHANGED vars
    <3>1. elapsed' = elapsed
      BY <2>5 DEF Resolve, Play, SessionRestarted, SessionStopped, Restart, vars
    <3> QED
      BY <1>1, <3>1 DEF TypeOK
  <2> QED
    BY <1>1, <2>3, <2>4, <2>5 DEF Next
<1>2. TypeOK /\ Ledger /\ [Next]_vars =>
        [(elapsed > 0 /\ elapsed' = 0 /\ watching' /\ sinceActive' = 0)
           => carried >= Threshold * elapsed \/ Foreign]_vars
  BY <1>1
<1> QED
  BY <1>2, MeteringTypes, LedgerHolds, PTL DEF Spec, NoPhantomSpike
-----------------------------------------------------------------------------
\* While something flows, only a video endpoint can be ahead of a video endpoint.
LEMMA OnlyVideoIsAhead ==
  ASSUME NEW heard, NEW s, Video(s, heard), NEW b \in Live(heard, TRUE),
         Before(b, s, heard, TRUE)
  PROVE  Video(b, heard)
  BY DEF Before, Idle

LEMMA NotAheadOfItself ==
  ASSUME NEW heard, NEW s \in Nat
  PROVE  ~Before(s, s, heard, TRUE)
<1>1. Before(s, s, heard, TRUE) = (Idle(s, heard, TRUE) < Idle(s, heard, TRUE) \/ s < s)
  BY DEF Before
<1>2. Idle(s, heard, TRUE) = 0
  BY DEF Idle
<1>3. ~(0 < 0 \/ s < s)
  OBVIOUS
<1> QED
  BY <1>1, <1>2, <1>3

\* The endpoint that carries the video outlives any number of other addresses.
THEOREM StreamOutlivesChatter == Spec => StreamKeepsPin
<1>1. ASSUME TypeOK, Tick, Usable(Readable), flow > 0,
             stream \in DOMAIN pins \intersect VideoEndpoints,
             Cardinality(VideoEndpoints) <= MaxPins
      PROVE  stream \in DOMAIN pins'
  <2> DEFINE ahead == {b \in Live(answers, TRUE) : Before(b, stream, answers, TRUE)}
  <2>1. DOMAIN pins' = Kept(answers, TRUE)
    <3>1. (Usable(Readable) /\ flow > 0) = TRUE
      BY <1>1
    <3> QED
      BY <1>1, <3>1 DEF Tick, Observe
  <2>2. stream \in Live(answers, TRUE)
    BY <1>1, MeteringConstants DEF Live, Idle, MeteringConstants
  <2>3. stream \in Address /\ Video(stream, answers)
    BY <1>1 DEF VideoEndpoints, Video
  <2>4. ahead \subseteq VideoEndpoints
    <3>1. ASSUME NEW b \in ahead PROVE b \in VideoEndpoints
      <4>1. Video(b, answers)
        BY <2>3, OnlyVideoIsAhead
      <4>2. b \in Address
        BY <1>1 DEF Live, Answered, Answer, TypeOK
      <4> QED
        BY <4>1, <4>2 DEF Video, VideoEndpoints
    <3> QED
      BY <3>1
  <2>5. stream \notin ahead
    <3>1. stream \in Nat
      BY <2>3, MeteringConstants DEF MeteringConstants
    <3> QED
      BY <3>1, NotAheadOfItself
  <2>6. IsFiniteSet(VideoEndpoints)
    <3>1. VideoEndpoints \subseteq Address
      BY DEF VideoEndpoints
    <3> QED
      BY <3>1, MeteringConstants, FS_Subset DEF MeteringConstants
  <2>7. /\ IsFiniteSet(VideoEndpoints \ {stream})
        /\ Cardinality(VideoEndpoints \ {stream}) = Cardinality(VideoEndpoints) - 1
    BY <1>1, <2>6, FS_RemoveElement
  <2>8. ahead \subseteq VideoEndpoints \ {stream}
    BY <2>4, <2>5
  <2>9. Cardinality(ahead) <= Cardinality(VideoEndpoints \ {stream}) /\ IsFiniteSet(ahead)
    BY <2>7, <2>8, FS_Subset
  <2>10. Cardinality(ahead) \in Nat /\ Cardinality(VideoEndpoints) \in Nat
    BY <2>6, <2>9, FS_CardinalityType
  <2>11. Cardinality(ahead) < MaxPins
    BY <1>1, <2>7, <2>9, <2>10, MeteringConstants DEF MeteringConstants
  <2> QED
    BY <2>1, <2>2, <2>11 DEF Kept
<1>2. TypeOK /\ [Next]_vars =>
        [(/\ Tick /\ Usable(Readable) /\ flow > 0
          /\ stream \in DOMAIN pins \intersect VideoEndpoints
          /\ Cardinality(VideoEndpoints) <= MaxPins)
           => stream \in DOMAIN pins']_vars
  BY <1>1
<1> QED
  BY <1>2, MeteringTypes, PTL DEF Spec, StreamKeepsPin
=============================================================================
