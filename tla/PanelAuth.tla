----------------------------- MODULE PanelAuth -----------------------------
(***************************************************************************)
(* The panel's sign-in: one password, a table of sessions that expire, a   *)
(* throttle per source, and the rule that a change which weakens a         *)
(* protection asks for the password again.  Every request has a thread of  *)
(* its own, and nothing is locked: the steps of two requests interleave.   *)
(*                                                                         *)
(* A session expires when it was idle for hours or is a day old: it may at *)
(* any time.  The throttle's times are ages, which every tick raises by    *)
(* one; a tick is long beside a request.                                   *)
(***************************************************************************)
EXTENDS Naturals, Sequences, SequencesExt

CONSTANTS
  Threads,       \* requests that can be in the panel at once
  Clients,       \* browsers, each at an address of its own
  Tokens,        \* bound on the sessions in the table
  WindowSec, LockoutAfter, LockoutSec,
  Levels,        \* values of the control that is changed; a higher one is weaker
  MaxMishaps     \* bound on restarts and on passwords set from the console

ASSUME PanelAssumption ==
  /\ {WindowSec, LockoutAfter, LockoutSec} \subseteq Nat \ {0}
  /\ Levels \subseteq Nat /\ Levels # {} /\ MaxMishaps \in Nat

VARIABLES
  configured,  \* is there a password?
  sessions,    \* the tokens in the table
  expired,     \* those whose time is up
  old,         \* those that were there when the page last saved a new password
  cookie,      \* what each browser sends
  failures,    \* per client, the ages of its failed attempts
  level,       \* the control's value
  req,         \* what each thread is doing
  mishaps

tableVars == <<sessions, expired, old>>
vars == <<configured, tableVars, cookie, failures, level, req, mishaps>>

NoToken == "none"
Idle == [pc |-> "idle", kind |-> "none", who |-> "none", token |-> NoToken,
         value |-> 0, seen |-> 0, proved |-> FALSE, doomed |-> {}]

Init ==
  /\ configured \in BOOLEAN /\ sessions = {} /\ expired = {} /\ old = {}
  /\ cookie = [c \in Clients |-> NoToken] /\ failures = [c \in Clients |-> <<>>]
  /\ level \in Levels /\ req = [r \in Threads |-> Idle] /\ mishaps = 0
-----------------------------------------------------------------------------
(* The session table *)

Deleted(gone) == sessions' = sessions \ gone /\ expired' = expired \ gone /\ old' = old \ gone

\* Idle for too long, or too old altogether.
Expire(t) ==
  /\ t \in sessions \ expired /\ expired' = expired \union {t}
  /\ UNCHANGED <<configured, sessions, old, cookie, failures, level, req, mishaps>>

\* Tokens that no thread and no browser knows; a fresh one is drawn from them.
Unused ==
  Tokens \ (sessions \union {cookie[c] : c \in Clients} \union {req[r].token : r \in Threads})
Fresh == CHOOSE t \in Tokens : t \in Unused

(* The throttle *)

Noted(kept, age) == IF age <= WindowSec THEN Append(kept, age) ELSE kept

\* What is kept of the first n attempts, for each n.
Kept(list) ==
  LET kept[n \in 0..Len(list)] == IF n = 0 THEN <<>> ELSE Noted(kept[n - 1], list[n])
  IN kept

Recent(list) == Kept(list)[Len(list)]

Locked(c) == Len(failures[c]) >= LockoutAfter /\ Last(failures[c]) < LockoutSec

Failed(c) == failures' = [failures EXCEPT ![c] = Append(@, 0)]
-----------------------------------------------------------------------------
(* Requests *)

At(r, pc) == req[r].pc = pc
To(r, pc) == req' = [req EXCEPT ![r].pc = pc, ![r].token = NoToken, ![r].doomed = {}]
Answer(r) == req' = [req EXCEPT ![r] = Idle]

\* What a request carries (password, new value) is chosen where it is first looked at.
\* The pages that only read do what a change does that is refused in the end.
Ask(r, c, kind) ==
  /\ At(r, "idle") /\ (kind = "login" \/ cookie[c] # NoToken)
  /\ req' = [req EXCEPT ![r].pc = IF kind = "login" THEN "gate" ELSE "look",
                        ![r].kind = kind, ![r].who = c,
                        ![r].token = IF kind = "login" THEN NoToken ELSE cookie[c]]
  /\ UNCHANGED <<configured, tableVars, cookie, failures, level, mishaps>>

Logout(c) ==
  /\ cookie[c] # NoToken /\ cookie' = [cookie EXCEPT ![c] = NoToken]
  /\ Deleted({cookie[c]})
  /\ UNCHANGED <<configured, failures, level, req, mishaps>>

\* The sweep lists what has expired, then deletes it ...
Look(r) ==
  /\ At(r, "look")
  /\ req' = [req EXCEPT ![r].pc = "swept", ![r].doomed = expired]
  /\ UNCHANGED <<configured, tableVars, cookie, failures, level, mishaps>>

Collided(r) == ~(req[r].doomed \subseteq sessions)

\* ... and finds that another sweep was faster: the request ends in an error.
Trip(r) ==
  /\ At(r, "swept") /\ Collided(r) /\ Answer(r)
  /\ \E some \in SUBSET (req[r].doomed \intersect sessions) : Deleted(some)
  /\ UNCHANGED <<configured, cookie, failures, level, mishaps>>

\* Is the cookie's session in the table?
Validate(r) ==
  /\ At(r, "swept") /\ req[r].kind # "login" /\ ~Collided(r)
  /\ Deleted(req[r].doomed)
  /\ IF req[r].token \notin sessions \ req[r].doomed THEN Answer(r)
       ELSE To(r, IF req[r].kind = "password" THEN "gate" ELSE "judge")
  /\ UNCHANGED <<configured, cookie, failures, level, mishaps>>

\* Mutant of Weakens: weaker by one is let pass.
WeakensMore(value, current) == value > current + 1

\* More time or less enforcement than now.
Weakens(value, current) == value > current

Judge(r) ==
  /\ At(r, "judge")
  /\ \E value \in Levels :
       LET asks == Weakens(value, level) IN
       req' = [req EXCEPT ![r].value = value, ![r].pc = IF asks THEN "gate" ELSE "apply",
                          ![r].seen = IF asks THEN @ ELSE level]
  /\ UNCHANGED <<configured, tableVars, cookie, failures, level, mishaps>>

\* Mutant of Refused: an attempt during the lockout starts the lockout again.
RefusedRestarts(c) == failures' = [failures EXCEPT ![c] = [i \in 1..LockoutAfter |-> 0]]

Refused(c) == UNCHANGED failures

\* Locked out, nothing set up, or no password given for a change that asks for one.
TurnedAway(r) ==
  /\ At(r, "gate") /\ Answer(r)
  /\ \/ Locked(req[r].who) /\ Refused(req[r].who)
     \/ ~configured /\ req[r].kind = "login" /\ UNCHANGED failures
     \/ req[r].kind = "set" /\ UNCHANGED failures
  /\ UNCHANGED <<configured, tableVars, cookie, level, mishaps>>

Verify(r) ==
  /\ At(r, "gate") /\ ~Locked(req[r].who) /\ (req[r].kind = "login" => configured)
  /\ \E right \in {configured, FALSE} : To(r, IF right THEN "proved" ELSE "failed")
  /\ UNCHANGED <<configured, tableVars, cookie, failures, level, mishaps>>

\* The throttle is read, changed and written without a lock: what one request does to it is
\* undone by another of the same source that has read it and not yet noted its own failure.
Overwritten(r) ==
  /\ \E q \in Threads \ {r} : At(q, "failed") /\ req[q].who = req[r].who
  /\ UNCHANGED failures

Fail(r) ==
  /\ At(r, "failed") /\ Answer(r) /\ (Failed(req[r].who) \/ Overwritten(r))
  /\ UNCHANGED <<configured, tableVars, cookie, level, mishaps>>

Forgiven(r) == failures' = [failures EXCEPT ![req[r].who] = <<>>] \/ Overwritten(r)

SignIn(r) ==
  /\ \/ At(r, "proved") /\ req[r].kind = "login" /\ Forgiven(r)
     \/ At(r, "create") /\ UNCHANGED failures
  /\ Unused # {}
  /\ sessions' = sessions \union {Fresh} /\ UNCHANGED <<expired, old>>
  /\ req' = [req EXCEPT ![r].pc = "swept", ![r].token = Fresh, ![r].doomed = expired]
  /\ UNCHANGED <<configured, cookie, level, mishaps>>

GiveCookie(r) ==
  /\ At(r, "swept") /\ req[r].kind = "login" /\ ~Collided(r) /\ Answer(r)
  /\ Deleted(req[r].doomed)
  /\ cookie' = [cookie EXCEPT ![req[r].who] = req[r].token]
  /\ UNCHANGED <<configured, failures, level, mishaps>>

Authorise(r) ==
  /\ At(r, "proved") /\ req[r].kind = "set" /\ Forgiven(r)
  /\ req' = [req EXCEPT ![r].pc = "apply", ![r].proved = TRUE]
  /\ UNCHANGED <<configured, tableVars, cookie, level, mishaps>>

\* The control is written, or refuses, or cannot be written.
Apply(r) ==
  /\ At(r, "apply") /\ level' \in {req[r].value, level} /\ Answer(r)
  /\ UNCHANGED <<configured, tableVars, cookie, failures, mishaps>>
-----------------------------------------------------------------------------
(* The password *)

\* A new password that is blank, short or mistyped, or a file that cannot be written.
NotSaved(r) ==
  /\ At(r, "proved") /\ req[r].kind = "password" /\ Forgiven(r) /\ Answer(r)
  /\ UNCHANGED <<configured, tableVars, cookie, level, mishaps>>

Save(r) ==
  /\ At(r, "proved") /\ req[r].kind = "password" /\ Forgiven(r)
  /\ To(r, "revoke") /\ old' = sessions
  /\ UNCHANGED <<configured, sessions, expired, cookie, level, mishaps>>

\* Mutant of Dropped: the browser that changes the password stays signed in as it was.
DroppedOthers(r) == sessions \ {cookie[req[r].who]}

\* Every session, the one doing the changing included.
Dropped(r) == sessions

\* Then the browser is signed in anew, which is a step of its own, and may fail.
Revoke(r) ==
  /\ At(r, "revoke")
  /\ sessions' = sessions \ Dropped(r) /\ expired' = expired \ Dropped(r) /\ old' = old \ Dropped(r)
  /\ req' = [req EXCEPT ![r].pc = "create", ![r].kind = "login"]
  /\ UNCHANGED <<configured, cookie, failures, level, mishaps>>

Mishap == mishaps < MaxMishaps /\ mishaps' = mishaps + 1

\* set-password on the console: sessions stay until the panel restarts.
SetPassword ==
  /\ Mishap /\ configured' = TRUE
  /\ UNCHANGED <<tableVars, cookie, failures, level, req>>

Restart ==
  /\ Mishap /\ Deleted(sessions) /\ failures' = [c \in Clients |-> <<>>]
  /\ req' = [r \in Threads |-> Idle]
  /\ UNCHANGED <<configured, cookie, level>>
-----------------------------------------------------------------------------
Tick ==
  /\ failures' = [c \in Clients |-> Recent([i \in DOMAIN failures[c] |-> failures[c][i] + 1])]
  /\ UNCHANGED <<configured, tableVars, cookie, level, req, mishaps>>

Handle(r) ==
  \/ Look(r) \/ Trip(r) \/ Validate(r) \/ Judge(r) \/ TurnedAway(r) \/ Verify(r) \/ Fail(r)
  \/ SignIn(r) \/ GiveCookie(r) \/ Authorise(r) \/ Apply(r) \/ NotSaved(r) \/ Save(r) \/ Revoke(r)

Next ==
  \/ \E r \in Threads, c \in Clients : \E kind \in {"login", "password", "set"} : Ask(r, c, kind)
  \/ \E r \in Threads : Handle(r)
  \/ \E c \in Clients : Logout(c)
  \/ \E t \in Tokens : Expire(t)
  \/ SetPassword \/ Restart \/ Tick

Spec == Init /\ [][Next]_vars

\* Threads go on and time passes.
FairSpec == Spec /\ WF_vars(Tick) /\ \A r \in Threads : WF_vars(Handle(r))
-----------------------------------------------------------------------------
(* Properties *)

PCs == {"idle", "gate", "look", "swept", "judge", "proved", "failed", "apply", "revoke",
        "create"}

TypeOK ==
  /\ configured \in BOOLEAN
  /\ sessions \subseteq Tokens /\ expired \subseteq sessions /\ old \subseteq sessions
  /\ cookie \in [Clients -> Tokens \union {NoToken}]
  /\ failures \in [Clients -> Seq(0..WindowSec)]
  /\ level \in Levels
  /\ req \in [Threads -> [pc : PCs, kind : {"none", "login", "password", "set"},
                          who : Clients \union {"none"}, token : Tokens \union {NoToken},
                          value : Levels \union {0},
                          seen : Levels \union {0}, proved : BOOLEAN,
                          doomed : SUBSET Tokens]]
  /\ mishaps \in 0..MaxMishaps

\* Changing the password ends every session that was in the table when it was saved, whatever
\* other requests do meanwhile.  One that is made after that from the old password comes from a
\* login that was past its check by then.
ChangeSignsOut ==
  old # {} => \E r \in Threads : At(r, "revoke")

\* Nothing is made weaker without the password, but for a change that was judged before
\* another one made the control stricter.
WeakeningAsks ==
  [][\A r \in Threads : Apply(r) /\ level' > level => req[r].proved \/ req[r].seen > level]_vars

\* A source that stops failing is let in again, however often it tries meanwhile.
LockoutEnds ==
  \A c \in Clients :
    <>[](\A r \in Threads : req[r].who = c => ~At(r, "failed")) => <>[]~Locked(c)
=============================================================================
