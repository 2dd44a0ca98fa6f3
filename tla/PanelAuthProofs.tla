-------------------------- MODULE PanelAuthProofs --------------------------
(***************************************************************************)
(* Proofs about the panel's sign-in, for any number of threads, browsers,  *)
(* tokens and levels, and any interleaving of their requests.              *)
(***************************************************************************)
EXTENDS PanelAuth, FiniteSetTheorems, TLAPS

Reqs == [pc : PCs, kind : {"none", "login", "password", "set"},
         who : Clients \union {"none"}, token : Tokens \union {NoToken},
         value : Levels \union {0}, seen : Levels \union {0}, proved : BOOLEAN,
         doomed : SUBSET Tokens]

\* The values of the variables, but for the throttle.
Shapes ==
  /\ configured \in BOOLEAN
  /\ sessions \subseteq Tokens /\ expired \subseteq sessions /\ old \subseteq sessions
  /\ cookie \in [Clients -> Tokens \union {NoToken}]
  /\ level \in Levels \union {0}
  /\ req \in [Threads -> Reqs]

\* What is applied without the password was no weaker than what the request saw.
JudgedOne(r) == At(r, "apply") /\ ~req[r].proved => req[r].value <= req[r].seen
Judged == \A r \in Threads : JudgedOne(r)

PanelInv == Shapes /\ ChangeSignsOut /\ Judged

LEMMA IdleShape == Idle \in Reqs /\ Idle.pc = "idle"
BY DEF Idle, Reqs, PCs, NoToken

\* One thread goes from one place to another.
LEMMA ThreadMoves ==
  ASSUME Shapes, NEW r \in Threads, NEW new \in Reqs, req' = [req EXCEPT ![r] = new]
  PROVE  /\ req' \in [Threads -> Reqs] /\ req'[r] = new
         /\ \A q \in Threads \ {r} : req'[q] = req[q]
BY DEF Shapes

LEMMA ToMoves ==
  ASSUME Shapes, NEW r \in Threads, NEW pc \in PCs, To(r, pc)
  PROVE  /\ req' \in [Threads -> Reqs] /\ req'[r].pc = pc /\ req'[r].proved = req[r].proved
         /\ \A q \in Threads \ {r} : req'[q] = req[q]
<1>. DEFINE new == [req[r] EXCEPT !.pc = pc, !.token = NoToken, !.doomed = {}]
<1>1. req[r] \in Reqs
  BY DEF Shapes
<1>2. new \in Reqs /\ new.pc = pc /\ new.proved = req[r].proved
  BY <1>1 DEF Reqs
<1>3. req' = [req EXCEPT ![r] = new]
  BY DEF To, Shapes
<1>. HIDE DEF new
<1>. QED
  BY <1>2, <1>3, ThreadMoves

LEMMA AnswerMoves ==
  ASSUME Shapes, NEW r \in Threads, Answer(r)
  PROVE  /\ req' \in [Threads -> Reqs] /\ req'[r].pc = "idle"
         /\ \A q \in Threads \ {r} : req'[q] = req[q]
BY IdleShape, ThreadMoves DEF Answer

\* A step of one thread that leaves "revoke" only with the old sessions gone, and is not
\* about to apply a value it was not to apply.
LEMMA OneThread ==
  ASSUME PanelInv, Shapes', NEW r \in Threads, \A q \in Threads \ {r} : req'[q] = req[q],
         old' \subseteq old \/ req'[r].pc = "revoke",
         req[r].pc # "revoke" \/ req'[r].pc = "revoke" \/ old' = {},
         JudgedOne(r)'
  PROVE  PanelInv'
<1>1. ChangeSignsOut'
  <2>1. CASE req'[r].pc = "revoke"
    BY <2>1 DEF ChangeSignsOut, At
  <2>2. CASE req'[r].pc # "revoke" /\ old' # {}
    <3>1. PICK q \in Threads : req[q].pc = "revoke"
      BY <2>2 DEF PanelInv, ChangeSignsOut, At
    <3>2. q # r
      BY <2>2, <3>1
    <3>. QED
      BY <3>1, <3>2 DEF ChangeSignsOut, At
  <2>. QED
    BY <2>1, <2>2 DEF ChangeSignsOut
<1>2. Judged'
  BY DEF PanelInv, Judged, JudgedOne, At
<1>. QED
  BY <1>1, <1>2 DEF PanelInv

\* A step that is no thread's.
LEMMA NoThread ==
  ASSUME PanelInv, Shapes', UNCHANGED req, old' \subseteq old PROVE PanelInv'
BY DEF PanelInv, ChangeSignsOut, Judged, JudgedOne, At

LEMMA DeletedShapes ==
  ASSUME Shapes, NEW gone, Deleted(gone)
  PROVE  /\ sessions' \subseteq Tokens /\ expired' \subseteq sessions' /\ old' \subseteq sessions'
         /\ old' \subseteq old
BY DEF Shapes, Deleted

LEMMA FreshIsUnused == ASSUME Unused # {} PROVE Fresh \in Tokens
BY DEF Unused, Fresh

\* Steps that end the request, or go on to check a password, and touch no session.
LEMMA PlainSteps ==
  ASSUME PanelInv, NEW r \in Threads, TurnedAway(r) \/ Verify(r) \/ Fail(r) \/ Apply(r) \/ NotSaved(r)
  PROVE  PanelInv'
<1>0. Shapes
  BY DEF PanelInv
<1>1. UNCHANGED <<configured, sessions, expired, old, cookie>> /\ req[r].pc # "revoke"
  BY DEF TurnedAway, Verify, Fail, Apply, NotSaved, tableVars, At
<1>2. level' \in Levels \union {0}
  <2>1. CASE Apply(r)
    <3>1. level' \in {req[r].value, level} /\ req[r] \in Reqs
      BY <1>0, <2>1 DEF Apply, Shapes
    <3>. QED
      BY <1>0, <3>1 DEF Shapes, Reqs
  <2>. QED
    BY <1>0, <2>1 DEF TurnedAway, Verify, Fail, NotSaved, Shapes
<1>3. Answer(r) \/ To(r, "proved") \/ To(r, "failed")
  BY DEF TurnedAway, Verify, Fail, Apply, NotSaved
<1>4. /\ req' \in [Threads -> Reqs] /\ req'[r].pc \in {"idle", "proved", "failed"}
      /\ \A q \in Threads \ {r} : req'[q] = req[q]
  BY <1>0, <1>3, AnswerMoves, ToMoves DEF PCs
<1>5. Shapes'
  BY <1>0, <1>1, <1>2, <1>4 DEF Shapes
<1>. QED
  BY <1>1, <1>4, <1>5, OneThread DEF JudgedOne, At

LEMMA AskKept ==
  ASSUME PanelInv, NEW r \in Threads, NEW c \in Clients,
         NEW kind \in {"login", "password", "set"}, Ask(r, c, kind)
  PROVE  PanelInv'
<1>. DEFINE pc == IF kind = "login" THEN "gate" ELSE "look"
            token == IF kind = "login" THEN NoToken ELSE cookie[c]
            new == [req[r] EXCEPT !.pc = pc, !.kind = kind, !.who = c, !.token = token]
<1>0. Shapes /\ req[r] \in Reqs /\ token \in Tokens \union {NoToken} /\ pc \in {"gate", "look"}
  BY DEF PanelInv, Shapes
<1>1. req' = [req EXCEPT ![r] = new]
  BY <1>0 DEF Ask, Shapes
<1>2. new \in Reqs /\ new.pc = pc
  <2>. HIDE DEF pc, token
  <2>. QED
    BY <1>0 DEF Reqs, PCs
<1>. HIDE DEF pc, token, new
<1>3. UNCHANGED <<configured, sessions, expired, old, cookie, level>> /\ req[r].pc = "idle"
  BY DEF Ask, At, tableVars
<1>4. req' \in [Threads -> Reqs] /\ req'[r] = new /\ \A q \in Threads \ {r} : req'[q] = req[q]
  BY <1>0, <1>1, <1>2, ThreadMoves
<1>5. Shapes'
  BY <1>0, <1>3, <1>4 DEF Shapes
<1>. QED
  BY <1>0, <1>2, <1>3, <1>4, <1>5, OneThread DEF JudgedOne, At

LEMMA LookKept == ASSUME PanelInv, NEW r \in Threads, Look(r) PROVE PanelInv'
<1>. DEFINE new == [req[r] EXCEPT !.pc = "swept", !.doomed = expired]
<1>0. Shapes /\ req[r] \in Reqs /\ expired \in SUBSET Tokens
  BY DEF PanelInv, Shapes
<1>1. req' = [req EXCEPT ![r] = new]
  BY <1>0 DEF Look, Shapes
<1>2. new \in Reqs /\ new.pc = "swept"
  BY <1>0 DEF Reqs, PCs
<1>. HIDE DEF new
<1>3. UNCHANGED <<configured, sessions, expired, old, cookie, level>> /\ req[r].pc = "look"
  BY DEF Look, At, tableVars
<1>4. req' \in [Threads -> Reqs] /\ req'[r] = new /\ \A q \in Threads \ {r} : req'[q] = req[q]
  BY <1>0, <1>1, <1>2, ThreadMoves
<1>5. Shapes'
  BY <1>0, <1>3, <1>4 DEF Shapes
<1>. QED
  BY <1>2, <1>3, <1>4, <1>5, OneThread DEF JudgedOne, At

LEMMA JudgeKept == ASSUME PanelInv, NEW r \in Threads, Judge(r) PROVE PanelInv'
<1>0. Shapes /\ req[r] \in Reqs /\ level \in Levels \union {0}
  BY DEF PanelInv, Shapes
<1>1. PICK value \in Levels :
        LET asks == Weakens(value, level) IN
        req' = [req EXCEPT ![r].value = value, ![r].pc = IF asks THEN "gate" ELSE "apply",
                           ![r].seen = IF asks THEN @ ELSE level]
  BY DEF Judge
<1>3. UNCHANGED <<configured, sessions, expired, old, cookie, level>> /\ req[r].pc = "judge"
  BY DEF Judge, At, tableVars
<1>4. /\ req' \in [Threads -> Reqs] /\ \A q \in Threads \ {r} : req'[q] = req[q]
      /\ JudgedOne(r)'
  <2>1. CASE Weakens(value, level)
    <3>. DEFINE new == [req[r] EXCEPT !.value = value, !.pc = "gate"]
    <3>1. req' = [req EXCEPT ![r] = new]
      BY <1>0, <1>1, <2>1 DEF Shapes, Reqs
    <3>2. new \in Reqs /\ new.pc = "gate"
      BY <1>0 DEF Reqs, PCs
    <3>. HIDE DEF new
    <3>. QED
      BY <1>0, <3>1, <3>2, ThreadMoves DEF JudgedOne, At
  <2>2. CASE ~Weakens(value, level)
    <3>. DEFINE new == [req[r] EXCEPT !.value = value, !.pc = "apply", !.seen = level]
    <3>1. req' = [req EXCEPT ![r] = new]
      BY <1>0, <1>1, <2>2 DEF Shapes, Reqs
    <3>2. new \in Reqs /\ new.value = value /\ new.seen = level
      BY <1>0 DEF Reqs, PCs
    <3>3. value <= level
      BY <1>0, <2>2, PanelAssumption DEF Weakens
    <3>. HIDE DEF new
    <3>. QED
      BY <1>0, <3>1, <3>2, <3>3, ThreadMoves DEF JudgedOne, At
  <2>. QED
    BY <2>1, <2>2
<1>5. Shapes'
  BY <1>0, <1>3, <1>4 DEF Shapes
<1>. QED
  BY <1>3, <1>4, <1>5, OneThread DEF At

\* The sweep's deletions, and what a request does after them.
LEMMA SweptKept ==
  ASSUME PanelInv, NEW r \in Threads, Trip(r) \/ Validate(r) \/ GiveCookie(r) PROVE PanelInv'
<1>0. Shapes /\ req[r] \in Reqs
  BY DEF PanelInv, Shapes
<1>1. PICK gone : Deleted(gone)
  BY DEF Trip, Validate, GiveCookie
<1>2. Answer(r) \/ To(r, "gate") \/ To(r, "judge")
  BY DEF Trip, Validate, GiveCookie
<1>3. /\ req' \in [Threads -> Reqs] /\ req'[r].pc \in {"idle", "gate", "judge"}
      /\ \A q \in Threads \ {r} : req'[q] = req[q]
  BY <1>0, <1>2, AnswerMoves, ToMoves DEF PCs
<1>4. UNCHANGED <<configured, level>> /\ req[r].pc = "swept"
  BY DEF Trip, Validate, GiveCookie, At
<1>5. cookie' \in [Clients -> Tokens \union {NoToken}]
  <2>1. cookie' = cookie \/ cookie' = [cookie EXCEPT ![req[r].who] = req[r].token]
    BY DEF Trip, Validate, GiveCookie
  <2>2. req[r].token \in Tokens \union {NoToken}
    BY <1>0 DEF Reqs
  <2>. QED
    BY <1>0, <2>1, <2>2 DEF Shapes
<1>6. Shapes'
  BY <1>0, <1>1, <1>3, <1>4, <1>5, DeletedShapes DEF Shapes
<1>. QED
  BY <1>0, <1>1, <1>3, <1>4, <1>6, DeletedShapes, OneThread DEF JudgedOne, At

LEMMA SignInKept == ASSUME PanelInv, NEW r \in Threads, SignIn(r) PROVE PanelInv'
<1>. DEFINE new == [req[r] EXCEPT !.pc = "swept", !.token = Fresh, !.doomed = expired]
<1>0. Shapes /\ req[r] \in Reqs /\ expired \in SUBSET Tokens
  BY DEF PanelInv, Shapes
<1>1. req' = [req EXCEPT ![r] = new]
  BY <1>0 DEF SignIn, Shapes
<1>2. Fresh \in Tokens
  BY FreshIsUnused DEF SignIn
<1>3. new \in Reqs /\ new.pc = "swept"
  BY <1>0, <1>2 DEF Reqs, PCs
<1>. HIDE DEF new
<1>4. /\ UNCHANGED <<configured, expired, old, cookie, level>> /\ req[r].pc \in {"proved", "create"}
      /\ sessions' = sessions \union {Fresh}
  BY DEF SignIn, At
<1>5. req' \in [Threads -> Reqs] /\ req'[r] = new /\ \A q \in Threads \ {r} : req'[q] = req[q]
  BY <1>0, <1>1, <1>3, ThreadMoves
<1>6. Shapes'
  BY <1>0, <1>2, <1>4, <1>5 DEF Shapes
<1>. QED
  BY <1>3, <1>4, <1>5, <1>6, OneThread DEF JudgedOne, At

LEMMA AuthoriseKept == ASSUME PanelInv, NEW r \in Threads, Authorise(r) PROVE PanelInv'
<1>. DEFINE new == [req[r] EXCEPT !.pc = "apply", !.proved = TRUE]
<1>0. Shapes /\ req[r] \in Reqs
  BY DEF PanelInv, Shapes
<1>1. req' = [req EXCEPT ![r] = new]
  BY <1>0 DEF Authorise, Shapes
<1>2. new \in Reqs /\ new.pc = "apply" /\ new.proved
  BY <1>0 DEF Reqs, PCs
<1>. HIDE DEF new
<1>3. UNCHANGED <<configured, sessions, expired, old, cookie, level>> /\ req[r].pc = "proved"
  BY DEF Authorise, At, tableVars
<1>4. req' \in [Threads -> Reqs] /\ req'[r] = new /\ \A q \in Threads \ {r} : req'[q] = req[q]
  BY <1>0, <1>1, <1>2, ThreadMoves
<1>5. Shapes'
  BY <1>0, <1>3, <1>4 DEF Shapes
<1>. QED
  BY <1>2, <1>3, <1>4, <1>5, OneThread DEF JudgedOne, At

LEMMA SaveKept == ASSUME PanelInv, NEW r \in Threads, Save(r) PROVE PanelInv'
<1>0. Shapes
  BY DEF PanelInv
<1>1. /\ req' \in [Threads -> Reqs] /\ req'[r].pc = "revoke"
      /\ \A q \in Threads \ {r} : req'[q] = req[q]
  BY <1>0, ToMoves DEF Save, PCs
<1>2. UNCHANGED <<configured, sessions, expired, cookie, level>> /\ old' = sessions
  BY DEF Save
<1>3. Shapes'
  BY <1>0, <1>1, <1>2 DEF Save, Shapes
<1>. QED
  BY <1>1, <1>3, OneThread DEF JudgedOne, At

\* Nothing that was in the table at the save is left when the thread has emptied it.
LEMMA RevokeKept == ASSUME PanelInv, NEW r \in Threads, Revoke(r) PROVE PanelInv'
<1>. DEFINE new == [req[r] EXCEPT !.pc = "create", !.kind = "login"]
<1>0. Shapes /\ req[r] \in Reqs
  BY DEF PanelInv, Shapes
<1>1. req' = [req EXCEPT ![r] = new]
  BY <1>0 DEF Revoke, Shapes
<1>2. new \in Reqs /\ new.pc = "create"
  BY <1>0 DEF Reqs, PCs
<1>. HIDE DEF new
<1>3. req' \in [Threads -> Reqs] /\ req'[r] = new /\ \A q \in Threads \ {r} : req'[q] = req[q]
  BY <1>0, <1>1, <1>2, ThreadMoves
<1>4. /\ UNCHANGED <<configured, cookie, level>> /\ sessions' \subseteq Tokens
      /\ old' = {} /\ expired' = {}
  BY <1>0 DEF Revoke, Dropped, Shapes
<1>5. Shapes'
  BY <1>0, <1>3, <1>4 DEF Shapes
<1>. QED
  BY <1>2, <1>3, <1>4, <1>5, OneThread DEF JudgedOne, At

LEMMA RestartKept == ASSUME PanelInv, Restart PROVE PanelInv'
<1>1. /\ old' = {} /\ sessions' = {} /\ expired' = {} /\ UNCHANGED <<configured, cookie, level>>
  BY DEF PanelInv, Shapes, Restart, Deleted
<1>2. req' \in [Threads -> Reqs] /\ \A r \in Threads : req'[r].pc = "idle"
  BY IdleShape DEF Restart
<1>3. Shapes'
  BY <1>1, <1>2 DEF PanelInv, Shapes
<1>. QED
  BY <1>1, <1>2, <1>3 DEF PanelInv, ChangeSignsOut, Judged, JudgedOne, At

\* The steps that are no thread's.
LEMMA OthersKept ==
  ASSUME PanelInv, (\E c \in Clients : Logout(c)) \/ (\E t \in Tokens : Expire(t)) \/ SetPassword \/ Tick
  PROVE  PanelInv'
<1>0. Shapes
  BY DEF PanelInv
<1>1. UNCHANGED req /\ old' \subseteq old
  BY DEF Logout, Expire, SetPassword, Tick, Deleted, tableVars
<1>2. CASE \E c \in Clients : Logout(c)
  <2>1. PICK c \in Clients : Logout(c)
    BY <1>2
  <2>2. Deleted({cookie[c]}) /\ UNCHANGED <<configured, level>>
    BY <2>1 DEF Logout
  <2>3. cookie' \in [Clients -> Tokens \union {NoToken}]
    BY <1>0, <2>1 DEF Logout, Shapes
  <2>4. Shapes'
    BY <1>0, <1>1, <2>2, <2>3, DeletedShapes DEF Shapes
  <2>. QED
    BY <1>1, <2>4, NoThread
<1>3. CASE \E t \in Tokens : Expire(t)
  <2>1. Shapes'
    BY <1>0, <1>3 DEF Expire, Shapes
  <2>. QED
    BY <1>1, <2>1, NoThread
<1>4. CASE SetPassword
  <2>1. Shapes'
    BY <1>0, <1>4 DEF SetPassword, Shapes, tableVars
  <2>. QED
    BY <1>1, <2>1, NoThread
<1>5. CASE Tick
  <2>1. Shapes'
    BY <1>0, <1>5 DEF Tick, Shapes, tableVars
  <2>. QED
    BY <1>1, <2>1, NoThread
<1>. QED
  BY <1>2, <1>3, <1>4, <1>5

LEMMA PanelInit == Init => PanelInv
<1>. SUFFICES ASSUME Init PROVE PanelInv
  OBVIOUS
<1>1. req \in [Threads -> Reqs] /\ \A r \in Threads : req[r].pc = "idle"
  BY IdleShape DEF Init
<1>2. Shapes
  BY <1>1 DEF Init, Shapes, NoToken
<1>. QED
  BY <1>1, <1>2 DEF Init, PanelInv, ChangeSignsOut, Judged, JudgedOne, At

LEMMA PanelKept == ASSUME PanelInv, [Next]_vars PROVE PanelInv'
<1>1. CASE \E r \in Threads, c \in Clients : \E kind \in {"login", "password", "set"} : Ask(r, c, kind)
  BY <1>1, AskKept
<1>2. CASE \E r \in Threads : Handle(r)
  BY <1>2, PlainSteps, LookKept, JudgeKept, SweptKept, SignInKept, AuthoriseKept, SaveKept,
     RevokeKept DEF Handle
<1>3. CASE Restart
  BY <1>3, RestartKept
<1>4. CASE UNCHANGED vars
  <2>1. UNCHANGED <<configured, sessions, expired, old, cookie, level, req>>
    BY <1>4 DEF vars, tableVars
  <2>2. Shapes'
    BY <2>1 DEF PanelInv, Shapes
  <2>. QED
    BY <2>1, <2>2, NoThread
<1>. QED
  BY <1>1, <1>2, <1>3, <1>4, OthersKept DEF Next

\* Changing the password ends every session that was in the table when it was saved.
THEOREM PanelChangeSignsOut == Spec => []ChangeSignsOut
<1>1. PanelInv => ChangeSignsOut
  BY DEF PanelInv
<1>2. PanelInv /\ [Next]_vars => PanelInv'
  BY PanelKept
<1>. QED
  BY <1>1, <1>2, PanelInit, PTL DEF Spec

\* Nothing is made weaker without the password, but for a change that was judged before
\* another one made the control stricter.
THEOREM PanelWeakeningAsks == Spec => WeakeningAsks
<1>. DEFINE Asks == \A r \in Threads : Apply(r) /\ level' > level => req[r].proved \/ req[r].seen > level
<1>1. PanelInv => Asks
  <2>. SUFFICES ASSUME PanelInv, NEW r \in Threads, Apply(r), level' > level, ~req[r].proved
                PROVE  req[r].seen > level
    OBVIOUS
  <2>1. req[r] \in Reqs /\ level \in Nat
    BY PanelAssumption DEF PanelInv, Shapes
  <2>2. level' = req[r].value
    BY <2>1 DEF Apply
  <2>3. req[r].value <= req[r].seen
    BY DEF PanelInv, Judged, JudgedOne, Apply
  <2>4. req[r].value \in Nat /\ req[r].seen \in Nat
    <3>1. req[r].value \in Levels \union {0} /\ req[r].seen \in Levels \union {0}
      BY <2>1 DEF Reqs
    <3>2. Levels \union {0} \subseteq Nat
      BY PanelAssumption
    <3>. QED
      BY <3>1, <3>2
  <2>. QED
    BY <2>1, <2>2, <2>3, <2>4
<1>2. PanelInv /\ [Next]_vars => PanelInv'
  BY PanelKept
<1>3. PanelInv => [Asks]_vars
  BY <1>1
<1>. QED
  BY <1>2, <1>3, PanelInit, PTL DEF Spec, WeakeningAsks
-----------------------------------------------------------------------------
(* Naturals: what is false of some is false of a least one *)

LEMMA LeastMember ==
  ASSUME NEW S, S \subseteq Nat, S # {}
  PROVE  \E s \in S : \A y \in S : s <= y
<1> DEFINE T == {0..s : s \in S}
<1>1. T \subseteq FiniteSubsetsOf(Nat) /\ T # {}
  <2>1. ASSUME NEW s \in S PROVE 0..s \in SUBSET Nat /\ IsFiniteSet(0..s)
    BY FS_Interval
  <2>2. QED BY <2>1 DEF FiniteSubsetsOf
<1>2. PICK s \in S : \A y \in T : ~ (<<y, 0..s>> \in StrictSubsetOrdering(Nat))
  <2> HIDE DEF T
  <2>1. PICK x \in T : \A y \in T : ~ (<<y, x>> \in StrictSubsetOrdering(Nat))
    BY <1>1, FS_StrictSubsetOrderingWellFounded, WFMin
  <2>2. QED BY <2>1 DEF T
<1>3. ASSUME NEW y \in S PROVE s <= y
  <2>1. ~ (0..y \subseteq 0..s /\ 0..y # 0..s)
    <3>1. <<0..y, 0..s>> \notin StrictSubsetOrdering(Nat)
      BY <1>2, <1>3
    <3>2. 0..y \in SUBSET Nat /\ 0..s \in SUBSET Nat
      OBVIOUS
    <3> HIDE DEF T
    <3> DEFINE A == 0..y  B == 0..s
    <3> HIDE DEF A, B
    <3>3. <<A, B>> \notin StrictSubsetOrdering(Nat) /\ A \in SUBSET Nat /\ B \in SUBSET Nat
      BY <3>1, <3>2 DEF A, B
    <3>4. ~ (A \subseteq B /\ A # B)
      BY <3>3, Zenon DEF StrictSubsetOrdering
    <3>5. QED BY <3>4 DEF A, B
  <2>2. SUFFICES ASSUME y < s PROVE FALSE
    OBVIOUS
  <2>3. s \in 0..s /\ s \notin 0..y
    BY <2>2
  <2>4. QED BY <2>1, <2>2, <2>3
<1>4. QED BY <1>3

\* Induction, as a fact about sets.
LEMMA EveryNatural ==
  ASSUME NEW S, 0 \in S, \A n \in Nat : n \in S => n + 1 \in S
  PROVE  Nat \subseteq S
<1> DEFINE Failing == {n \in Nat : n \notin S}
<1>1. SUFFICES ASSUME Failing # {} PROVE FALSE
  OBVIOUS
<1>2. PICK n \in Failing : \A m \in Failing : n <= m
  <2> HIDE DEF Failing
  <2>1. Failing \subseteq Nat
    BY DEF Failing
  <2>2. QED BY <1>1, <2>1, LeastMember
<1>3. n # 0 /\ n - 1 \in Nat /\ n - 1 \notin Failing
  BY <1>2
<1>4. QED BY <1>2, <1>3
-----------------------------------------------------------------------------
(* The throttle's memory *)

\* Sequences over a set.
LEMMA SeqFacts ==
  ASSUME NEW S
  PROVE  /\ <<>> \in Seq(S)
         /\ \A s \in Seq(S), e \in S : Append(s, e) \in Seq(S)
         /\ \A m \in Nat : \A f \in [1..m -> S] : f \in Seq(S)
         /\ \A s \in Seq(S) : Len(s) \in Nat /\ s \in [1..Len(s) -> S]
OBVIOUS

\* The recursive definition of Kept has a solution for every number of attempts.
Unfolds(f, n, list) == f = [i \in 0..n |-> IF i = 0 THEN <<>> ELSE Noted(f[i - 1], list[i])]

LEMMA KeptExists == ASSUME NEW list, NEW n \in Nat PROVE \E f : Unfolds(f, n, list)
<1>. DEFINE Good == {m \in Nat : \E f : Unfolds(f, m, list)}
<1>1. 0 \in Good
  <2>. DEFINE f == [i \in 0..0 |-> <<>>]
  <2>1. Unfolds(f, 0, list)
    BY DEF Unfolds
  <2>. QED
    BY <2>1
<1>2. ASSUME NEW m \in Nat, m \in Good PROVE m + 1 \in Good
  <2>1. PICK f : Unfolds(f, m, list)
    BY <1>2
  <2>. DEFINE g == [i \in 0..m + 1 |-> IF i = m + 1 THEN Noted(f[m], list[m + 1]) ELSE f[i]]
  <2>2. \A i \in 0..m + 1 : g[i] = IF i = 0 THEN <<>> ELSE Noted(g[i - 1], list[i])
    <3>1. \A i \in 0..m : f[i] = IF i = 0 THEN <<>> ELSE Noted(f[i - 1], list[i])
      BY <2>1, Zenon DEF Unfolds
    <3>. TAKE i \in 0..m + 1
    <3>2. CASE i = m + 1
      <4>1. g[i] = Noted(f[m], list[i]) /\ g[i - 1] = f[m] /\ i # 0
        BY <3>2
      <4>. QED
        BY <4>1
    <3>3. CASE i # m + 1
      <4>1. g[i] = f[i] /\ i \in 0..m /\ (i # 0 => g[i - 1] = f[i - 1])
        BY <3>3
      <4>. HIDE DEF g
      <4>. QED
        BY <3>1, <4>1
    <3>. QED
      BY <3>2, <3>3
  <2>3. g = [i \in 0..m + 1 |-> g[i]]
    OBVIOUS
  <2>. HIDE DEF g
  <2>4. Unfolds(g, m + 1, list)
    BY <2>2, <2>3, Zenon DEF Unfolds
  <2>. QED
    BY <2>4
<1>. HIDE DEF Good
<1>3. Nat \subseteq Good
  BY <1>1, <1>2, EveryNatural
<1>. QED
  BY <1>3 DEF Good

\* The filter drops what is older than the window and keeps the rest.
LEMMA RecentTypes == ASSUME NEW list \in Seq(Nat) PROVE Recent(list) \in Seq(0..WindowSec)
<1>. DEFINE n == Len(list)
            kept == Kept(list)
            Good == {i \in Nat : i <= n => kept[i] \in Seq(0..WindowSec)}
<1>0. n \in Nat
  OBVIOUS
<1>1. kept = CHOOSE f : Unfolds(f, n, list)
  BY Zenon DEF Kept, Unfolds
<1>2. Unfolds(kept, n, list)
  BY <1>0, <1>1, KeptExists, Zenon
<1>. HIDE DEF kept
<1>3. \A i \in 0..n : kept[i] = IF i = 0 THEN <<>> ELSE Noted(kept[i - 1], list[i])
  BY <1>2, Zenon DEF Unfolds
<1>4. 0 \in Good
  <2>1. kept[0] = <<>>
    BY <1>0, <1>3
  <2>2. <<>> \in Seq(0..WindowSec)
    BY SeqFacts
  <2>. QED
    BY <2>1, <2>2
<1>5. ASSUME NEW i \in Nat, i \in Good PROVE i + 1 \in Good
  <2>. SUFFICES ASSUME i + 1 <= n PROVE kept[i + 1] \in Seq(0..WindowSec)
    OBVIOUS
  <2>1. kept[i] \in Seq(0..WindowSec) /\ i + 1 \in 1..n
    BY <1>0, <1>5
  <2>2. kept[i + 1] = Noted(kept[i], list[i + 1])
    BY <1>0, <1>3, <2>1
  <2>3. list[i + 1] \in Nat
    BY <2>1
  <2>4. list[i + 1] <= WindowSec => list[i + 1] \in 0..WindowSec
    BY <2>3, PanelAssumption
  <2>. QED
    BY <2>1, <2>2, <2>4, SeqFacts, Zenon DEF Noted
<1>. HIDE DEF Good
<1>6. Nat \subseteq Good
  BY <1>4, <1>5, EveryNatural
<1>7. n <= n => kept[n] \in Seq(0..WindowSec)
  BY <1>0, <1>6 DEF Good
<1>. QED
  BY <1>0, <1>7 DEF Recent, kept

ThrottleOK == failures \in [Clients -> Seq(0..WindowSec)]

\* Every step forgets a client's failures, adds one, or lets them age.
LEMMA ThrottleKept == ASSUME ThrottleOK, Shapes, [Next]_vars PROVE ThrottleOK'
<1>1. CASE Tick
  <2>1. ASSUME NEW c \in Clients
        PROVE  Recent([i \in DOMAIN failures[c] |-> failures[c][i] + 1]) \in Seq(0..WindowSec)
    <3>1. failures[c] \in Seq(0..WindowSec)
      BY DEF ThrottleOK
    <3>2. [i \in DOMAIN failures[c] |-> failures[c][i] + 1] \in Seq(Nat)
      <4>1. PICK m \in Nat : failures[c] \in [1..m -> 0..WindowSec]
        BY <3>1, SeqFacts, Zenon
      <4>2. [i \in DOMAIN failures[c] |-> failures[c][i] + 1] \in [1..m -> Nat]
        BY <4>1, PanelAssumption
      <4>. QED
        BY <4>2, SeqFacts, Zenon
    <3>. QED
      BY <3>2, RecentTypes
  <2>2. failures' = [c \in Clients |-> Recent([i \in DOMAIN failures[c] |-> failures[c][i] + 1])]
    BY <1>1 DEF Tick
  <2>. QED
    BY <2>1, <2>2, Zenon DEF ThrottleOK
<1>2. CASE Restart
  BY <1>2 DEF Restart, ThrottleOK
<1>3. CASE ~Tick /\ ~Restart
  <2>1. \/ UNCHANGED failures
        \/ \E c : failures' = [failures EXCEPT ![c] = <<>>]
        \/ \E c : failures' = [failures EXCEPT ![c] = Append(@, 0)]
    BY <1>3 DEF Next, Handle, Ask, Look, Trip, Validate, Judge, TurnedAway, Refused, Verify, Fail,
       Failed, SignIn, Forgiven, Overwritten, GiveCookie, Authorise, Apply, NotSaved, Save, Revoke, Logout,
       Expire, SetPassword, vars
  <2>2. CASE \E c : failures' = [failures EXCEPT ![c] = <<>>]
    <3>1. PICK c : failures' = [failures EXCEPT ![c] = <<>>]
      BY <2>2
    <3>2. <<>> \in Seq(0..WindowSec)
      BY SeqFacts
    <3>. QED
      BY <3>1, <3>2 DEF ThrottleOK
  <2>3. CASE \E c : failures' = [failures EXCEPT ![c] = Append(@, 0)]
    <3>1. PICK c : failures' = [failures EXCEPT ![c] = Append(@, 0)]
      BY <2>3
    <3>2. CASE c \in Clients
      <4>1. Append(failures[c], 0) \in Seq(0..WindowSec)
        BY <3>2, PanelAssumption DEF ThrottleOK
      <4>. QED
        BY <3>1, <3>2, <4>1 DEF ThrottleOK
    <3>3. CASE c \notin Clients
      BY <3>1, <3>3 DEF ThrottleOK
    <3>. QED
      BY <3>2, <3>3
  <2>. QED
    BY <2>1, <2>2, <2>3 DEF ThrottleOK
<1>. QED
  BY <1>1, <1>2, <1>3

-----------------------------------------------------------------------------
(* The control's value *)

\* A change that is past its judgement carries one of the control's values.
ValuedOne(r) ==
  \/ req[r].pc = "apply"
  \/ req[r].kind = "set" /\ req[r].pc \in {"gate", "proved"}
  => req[r].value \in Levels
Valued == \A r \in Threads : ValuedOne(r)

LEMMA OneValued ==
  ASSUME Valued, NEW r \in Threads, \A q \in Threads \ {r} : req'[q] = req[q], ValuedOne(r)'
  PROVE  Valued'
BY DEF Valued, ValuedOne

LEMMA ToValued ==
  ASSUME Shapes, Valued, NEW r \in Threads, NEW pc \in PCs, To(r, pc),
         pc = "apply" \/ (req[r].kind = "set" /\ pc \in {"gate", "proved"}) => req[r].value \in Levels
  PROVE  Valued'
<1>. DEFINE new == [req[r] EXCEPT !.pc = pc, !.token = NoToken, !.doomed = {}]
<1>1. req[r] \in Reqs
  BY DEF Shapes
<1>2. new \in Reqs /\ new.pc = pc /\ new.kind = req[r].kind /\ new.value = req[r].value
  BY <1>1 DEF Reqs
<1>3. req' = [req EXCEPT ![r] = new]
  BY DEF To, Shapes
<1>. HIDE DEF new
<1>4. req'[r] = new /\ \A q \in Threads \ {r} : req'[q] = req[q]
  BY <1>2, <1>3, ThreadMoves
<1>. QED
  BY <1>2, <1>4, OneValued DEF ValuedOne

LEMMA AnswerValued == ASSUME Shapes, Valued, NEW r \in Threads, Answer(r) PROVE Valued'
<1>1. req'[r] = Idle /\ \A q \in Threads \ {r} : req'[q] = req[q]
  BY IdleShape, ThreadMoves DEF Answer
<1>2. ValuedOne(r)'
  BY <1>1 DEF ValuedOne, Idle
<1>. QED
  BY <1>1, <1>2, OneValued

\* Requests that do not end and do not go by To: the first step, the sweep's, the judgement,
\* and the two that follow a password.
LEMMA MovesValued ==
  ASSUME Shapes, Valued, NEW r \in Threads,
         \/ \E c \in Clients, kind \in {"login", "password", "set"} : Ask(r, c, kind)
         \/ Look(r) \/ SignIn(r) \/ Judge(r) \/ Authorise(r) \/ Revoke(r)
  PROVE  Valued'
<1>0. req[r] \in Reqs /\ req \in [Threads -> Reqs]
  BY DEF Shapes
<1>1. CASE \E c \in Clients, kind \in {"login", "password", "set"} : Ask(r, c, kind)
  <2>1. PICK c \in Clients, kind \in {"login", "password", "set"} : Ask(r, c, kind)
    BY <1>1
  <2>2. /\ req'[r].kind = kind /\ req'[r].pc = (IF kind = "login" THEN "gate" ELSE "look")
        /\ \A q \in Threads \ {r} : req'[q] = req[q]
    BY <1>0, <2>1 DEF Ask, Reqs
  <2>. QED
    BY <2>2, OneValued DEF ValuedOne
<1>2. CASE Look(r) \/ SignIn(r)
  <2>1. req'[r].pc = "swept" /\ \A q \in Threads \ {r} : req'[q] = req[q]
    BY <1>0, <1>2 DEF Look, SignIn, Reqs
  <2>. QED
    BY <2>1, OneValued DEF ValuedOne
<1>3. CASE Judge(r)
  <2>1. PICK value \in Levels :
          LET asks == Weakens(value, level) IN
          req' = [req EXCEPT ![r].value = value, ![r].pc = IF asks THEN "gate" ELSE "apply",
                             ![r].seen = IF asks THEN @ ELSE level]
    BY <1>3 DEF Judge
  <2>2. req'[r].value = value /\ \A q \in Threads \ {r} : req'[q] = req[q]
    BY <1>0, <2>1 DEF Reqs
  <2>. QED
    BY <2>2, OneValued DEF ValuedOne
<1>4. CASE Authorise(r)
  <2>1. /\ req'[r].value = req[r].value /\ \A q \in Threads \ {r} : req'[q] = req[q]
        /\ req[r].kind = "set" /\ req[r].pc = "proved"
    BY <1>0, <1>4 DEF Authorise, At, Reqs
  <2>2. req[r].value \in Levels
    BY <2>1 DEF Valued, ValuedOne
  <2>. QED
    BY <2>1, <2>2, OneValued DEF ValuedOne
<1>5. CASE Revoke(r)
  <2>1. req'[r].pc = "create" /\ \A q \in Threads \ {r} : req'[q] = req[q]
    BY <1>0, <1>5 DEF Revoke, Reqs
  <2>2. ValuedOne(r)'
    <3>1. req'[r].kind = "login"
      BY <1>0, <1>5 DEF Revoke, Reqs
    <3>. QED
      BY <2>1, <3>1 DEF ValuedOne
  <2>. QED
    BY <2>1, <2>2, OneValued
<1>. QED
  BY <1>1, <1>2, <1>3, <1>4, <1>5

LEMMA ValuedKept == ASSUME Shapes, Valued, [Next]_vars PROVE Valued'
<1>1. CASE \E r \in Threads, c \in Clients : \E kind \in {"login", "password", "set"} : Ask(r, c, kind)
  BY <1>1, MovesValued
<1>2. ASSUME NEW r \in Threads, Handle(r) PROVE Valued'
  <2>1. CASE Look(r) \/ SignIn(r) \/ Judge(r) \/ Authorise(r) \/ Revoke(r)
    BY <2>1, MovesValued
  <2>2. CASE Validate(r) /\ ~Answer(r)
    <3>1. To(r, "judge") \/ (To(r, "gate") /\ req[r].kind = "password")
      BY <2>2 DEF Validate
    <3>. QED
      BY <3>1, ToValued DEF PCs
  <2>3. CASE Verify(r)
    <3>1. (To(r, "proved") \/ To(r, "failed")) /\ req[r].pc = "gate"
      BY <2>3 DEF Verify, At
    <3>. QED
      BY <3>1, ToValued DEF PCs, Valued, ValuedOne
  <2>4. CASE Save(r)
    <3>1. To(r, "revoke")
      BY <2>4 DEF Save
    <3>. QED
      BY <3>1, ToValued DEF PCs
  <2>5. CASE \/ Trip(r) \/ TurnedAway(r) \/ Fail(r) \/ GiveCookie(r) \/ Apply(r) \/ NotSaved(r)
             \/ Answer(r)
    <3>1. Answer(r)
      BY <2>5 DEF Trip, TurnedAway, Fail, GiveCookie, Apply, NotSaved
    <3>. QED
      BY <3>1, AnswerValued
  <2>. QED
    BY <1>2, <2>1, <2>2, <2>3, <2>4, <2>5 DEF Handle
<1>3. CASE Restart
  <2>1. \A r \in Threads : req'[r] = Idle
    BY <1>3 DEF Restart
  <2>. QED
    BY <2>1 DEF Valued, ValuedOne, Idle
<1>4. CASE \/ \E c \in Clients : Logout(c)
           \/ \E t \in Tokens : Expire(t)
           \/ SetPassword \/ Tick \/ UNCHANGED vars
  <2>1. UNCHANGED req
    BY <1>4 DEF Logout, Expire, SetPassword, Tick, vars
  <2>. QED
    BY <2>1 DEF Valued, ValuedOne
<1>. QED
  BY <1>1, <1>2, <1>3, <1>4 DEF Next

\* The control is written with a value of its own or not at all.
LEMMA LevelKept ==
  ASSUME Valued, level \in Levels, [Next]_vars PROVE level' \in Levels
<1>1. CASE \E r \in Threads : Apply(r)
  <2>1. PICK r \in Threads : Apply(r)
    BY <1>1
  <2>2. req[r].pc = "apply" /\ level' \in {req[r].value, level}
    BY <2>1 DEF Apply, At
  <2>3. req[r].value \in Levels
    BY <2>2 DEF Valued, ValuedOne
  <2>. QED
    BY <2>2, <2>3
<1>2. CASE ~(\E r \in Threads : Apply(r))
  <2>1. UNCHANGED level
    BY <1>2 DEF Next, Handle, Ask, Look, Trip, Validate, Judge, TurnedAway, Verify, Fail, SignIn,
       GiveCookie, Authorise, NotSaved, Save, Revoke, Logout, Expire, SetPassword, Restart, Tick, vars
  <2>. QED
    BY <2>1
<1>. QED
  BY <1>1, <1>2

LEMMA MishapsKept ==
  ASSUME mishaps \in 0..MaxMishaps, [Next]_vars PROVE mishaps' \in 0..MaxMishaps
<1>1. CASE SetPassword \/ Restart
  BY <1>1, PanelAssumption DEF SetPassword, Restart, Mishap
<1>2. CASE ~SetPassword /\ ~Restart
  <2>1. UNCHANGED mishaps
    BY <1>2 DEF Next, Handle, Ask, Look, Trip, Validate, Judge, TurnedAway, Verify, Fail, SignIn,
       GiveCookie, Authorise, Apply, NotSaved, Save, Revoke, Logout, Expire, Tick, vars
  <2>. QED
    BY <2>1
<1>. QED
  BY <1>1, <1>2

\* The variables have the values TypeOK lists: the control keeps to its levels, whatever
\* request writes it, and the throttle remembers no failure older than its window.
THEOREM PanelTypes == Spec => []TypeOK
<1>. DEFINE Types == PanelInv /\ ThrottleOK /\ Valued /\ level \in Levels /\ mishaps \in 0..MaxMishaps
<1>1. Init => Types
  <2>. SUFFICES ASSUME Init PROVE Types
    OBVIOUS
  <2>1. PanelInv
    BY PanelInit
  <2>2. ThrottleOK
    BY SeqFacts DEF Init, ThrottleOK
  <2>3. Valued
    BY DEF Init, Valued, ValuedOne, Idle
  <2>4. level \in Levels /\ mishaps \in 0..MaxMishaps
    BY PanelAssumption DEF Init
  <2>. QED
    BY <2>1, <2>2, <2>3, <2>4
<1>2. Types /\ [Next]_vars => Types'
  <2>. SUFFICES ASSUME Types, [Next]_vars PROVE Types'
    OBVIOUS
  <2>1. Shapes
    BY DEF PanelInv
  <2>2. PanelInv' /\ ThrottleOK' /\ Valued'
    BY <2>1, PanelKept, ThrottleKept, ValuedKept
  <2>3. level' \in Levels
    BY LevelKept
  <2>4. mishaps' \in 0..MaxMishaps
    BY MishapsKept
  <2>. QED
    BY <2>2, <2>3, <2>4
<1>3. Types => TypeOK
  BY DEF PanelInv, Shapes, ThrottleOK, TypeOK, Reqs
<1>. QED
  BY <1>1, <1>2, <1>3, PTL DEF Spec
=============================================================================
