----------------------------- MODULE HostProofs -----------------------------
(***************************************************************************)
(* Proofs about the cleanup tool, the installer and the guards of sound,   *)
(* for any set of games, any list of guards and any endpoints, whatever    *)
(* calls fail and however long the guards' intervals are.                  *)
(***************************************************************************)
EXTENDS MediaGuards, Installer, CleanupSession, TLAPS

-----------------------------------------------------------------------------
(* The cleanup tool: what is invoked was answered, or opened by somebody else *)

\* What is open in the client was said yes to or is somebody else's doing, and the game the
\* steps are at was said yes to.
Agreed ==
  /\ NoneUnasked /\ answered \subseteq Games
  /\ {client.menu, client.dialog} \subseteq answered \union strange \union {NoGame}
  /\ session.pc \in Steps => session.game \in answered

\* The client and the session are records.
Shapes ==
  /\ client \in Windows /\ strange \subseteq Games /\ skipped \subseteq Games
  /\ session \in [pc : Steps \union {"start", "choose", "next", "prompt", "wait", "over"},
                  game : Games \union {NoGame}, dry : BOOLEAN, known : BOOLEAN, seen : BOOLEAN]
  /\ unlocked \in BOOLEAN
  /\ installed \subseteq Games /\ listed \subseteq Games /\ results \in [Games -> Verdicts]
  /\ session.pc \in Steps \union {"prompt", "wait"} => session.game \in Games

\* What is invoked is what is open.
LEMMA InvokedWasOpen ==
  ASSUME Shapes, NEW item \in Showing, Invoke(item)
  PROVE  /\ client' \in Windows
         /\ installed' \subseteq installed
         /\ invoked' \subseteq invoked \union ({client.menu, client.dialog} \ {NoGame})
         /\ {client.menu, client.dialog}' \subseteq {client.menu, client.dialog, NoGame}
<1>. USE DEF Windows
<1>1. item[2] \in {client.menu, client.dialog} \ {NoGame} /\ item[1] \in {"menu", "dialog"}
  BY DEF Showing
<1>2. item[2] \in Games
  BY <1>1 DEF Shapes
<1>3. CASE item[1] = "menu"
  <2>1. CASE client' = [client EXCEPT !.menu = NoGame, !.dialog = item[2]]
               /\ UNCHANGED <<installed, invoked>>
    BY <1>1, <1>2, <2>1 DEF Shapes
  <2>2. CASE client' = [client EXCEPT !.menu = NoGame] /\ Uninstalls(item[2])
    BY <1>1, <1>2, <2>2 DEF Shapes, Uninstalls
  <2>. QED
    BY <1>3, <2>1, <2>2 DEF Invoke
<1>4. CASE item[1] = "dialog"
  BY <1>1, <1>2, <1>4 DEF Shapes, Uninstalls, Invoke
<1>. QED
  BY <1>1, <1>3, <1>4

LEMMA ShapesInit == CleanupInit => Shapes /\ session.pc = "start" /\ results = [g \in Games |-> "not offered"]
<1>. SUFFICES ASSUME CleanupInit
     PROVE  Shapes /\ session.pc = "start" /\ results = [g \in Games |-> "not offered"]
  OBVIOUS
<1>1. client \in Windows /\ strange = Open(client) /\ skipped = {} /\ unlocked \in BOOLEAN
  BY DEF CleanupInit
<1>2. strange \subseteq Games
  BY <1>1 DEF Open, Windows
<1>3. /\ installed = Games /\ listed \subseteq Games /\ results = [g \in Games |-> "not offered"]
      /\ session = [pc |-> "start", game |-> NoGame, dry |-> FALSE, known |-> FALSE, seen |-> FALSE]
  BY DEF CleanupInit
<1>4. results \in [Games -> Verdicts]
  BY <1>3 DEF Verdicts
<1>5. /\ session.pc = "start" /\ session.pc \notin Steps \union {"prompt", "wait"}
      /\ session \in [pc : Steps \union {"start", "choose", "next", "prompt", "wait", "over"},
                      game : Games \union {NoGame}, dry : BOOLEAN, known : BOOLEAN, seen : BOOLEAN]
  BY <1>3 DEF Steps
<1>. QED
  BY <1>1, <1>2, <1>3, <1>4, <1>5 DEF Shapes

\* A client is launched when it is not there, and otherwise taken as it is.
LEMMA LaunchShows ==
  ASSUME Launch
  PROVE  \E dry \in BOOLEAN, up \in BOOLEAN, pc \in {"choose", "over"} :
           /\ session' = [session EXCEPT !.dry = dry, !.pc = pc]
           /\ client' = [client EXCEPT !.up = up] \/ UNCHANGED client
<1>1. PICK dry \in BOOLEAN :
        \/ /\ \E starts \in BOOLEAN : client' = [client EXCEPT !.up = @ \/ starts]
           /\ session' = [session EXCEPT !.dry = dry, !.pc = IF client'.up THEN "choose" ELSE "over"]
        \/ /\ UNCHANGED client
           /\ session' = [session EXCEPT !.dry = dry, !.pc = "over"]
  BY Zenon DEF Launch, Attach
<1>2. CASE UNCHANGED client /\ session' = [session EXCEPT !.dry = dry, !.pc = "over"]
  BY <1>2
<1>3. CASE /\ \E starts \in BOOLEAN : client' = [client EXCEPT !.up = @ \/ starts]
           /\ session' = [session EXCEPT !.dry = dry, !.pc = IF client'.up THEN "choose" ELSE "over"]
  <2>1. PICK starts \in BOOLEAN : client' = [client EXCEPT !.up = @ \/ starts]
    BY <1>3
  <2>. DEFINE up == client.up \/ starts
              pc == IF client'.up THEN "choose" ELSE "over"
  <2>2. up \in BOOLEAN /\ pc \in {"choose", "over"}
    OBVIOUS
  <2>3. client' = [client EXCEPT !.up = up] /\ session' = [session EXCEPT !.dry = dry, !.pc = pc]
    BY <1>3, <2>1
  <2>. HIDE DEF up, pc
  <2>. QED
    BY <2>2, <2>3
<1>. QED
  BY <1>1, <1>2, <1>3

\* Every step but the three that leave the steps' places alone is about the prompt or the end.
LEMMA ShapesKept ==
  ASSUME Shapes, [CleanupNext]_cleanupVars
  PROVE  Shapes' /\ installed' \subseteq installed /\ listed' = listed
<1>. USE DEF Recorded, Goto, SessionAt, Windows
<1>1. CASE Launch
  <2>1. PICK dry \in BOOLEAN, up \in BOOLEAN, pc \in {"choose", "over"} :
          /\ session' = [session EXCEPT !.dry = dry, !.pc = pc]
          /\ client' = [client EXCEPT !.up = up] \/ UNCHANGED client
    BY <1>1, LaunchShows
  <2>2. client' \in Windows
    BY <2>1 DEF Shapes
  <2>. QED
    BY <1>1, <2>1, <2>2 DEF Launch, Shapes, Steps
<1>16. CASE Choose
  <2>1. results' \in [Games -> Verdicts]
    BY <1>16 DEF Choose, Shapes, Verdicts
  <2>2. client' \in Windows /\ UNCHANGED <<installed, listed, unlocked, strange, skipped>>
    BY <1>16 DEF Choose, Shapes
  <2>3. \E pc \in {"next", "over"} : session' = [session EXCEPT !.pc = pc]
    BY <1>16 DEF Choose
  <2>. QED
    BY <2>1, <2>2, <2>3 DEF Shapes, Steps
<1>2. ASSUME NEW g \in Games, NextGame(g) PROVE Shapes' /\ installed' \subseteq installed /\ listed' = listed
  <2>1. CASE session' = [session EXCEPT !.game = g, !.pc = "prompt"] /\ UNCHANGED results
    BY <1>2, <2>1 DEF NextGame, Shapes, Steps
  <2>2. CASE /\ session' = [session EXCEPT !.game = g, !.pc = "over"]
             /\ results' = [results EXCEPT ![g] = "not attempted"]
    BY <1>2, <2>2 DEF NextGame, Shapes, Steps, Verdicts
  <2>. QED
    BY <1>2, <2>1, <2>2, Zenon DEF NextGame
<1>3. ASSUME NEW text \in {"y", "s", "q", "other"}, PromptAnswered(text)
      PROVE  Shapes' /\ installed' \subseteq installed /\ listed' = listed
  <2>1. session.game \in Games /\ UNCHANGED <<client, installed, listed, strange>>
    BY <1>3 DEF PromptAnswered, Shapes
  <2>2. CASE ParseChoice(text) = "q"
    BY <1>3, <2>1, <2>2 DEF PromptAnswered, Shapes, Steps
  <2>3. CASE ParseChoice(text) = "s"
    BY <1>3, <2>1, <2>3 DEF PromptAnswered, Shapes, Steps, Verdicts
  <2>4. CASE ParseChoice(text) = "y" /\ session.dry
    BY <1>3, <2>1, <2>4 DEF PromptAnswered, Shapes, Steps, Verdicts
  <2>5. CASE ParseChoice(text) = "y" /\ ~session.dry
    <3>1. PICK said \in Listing(session.game) :
            /\ session' = [session EXCEPT !.pc = "menu", !.seen = FALSE, !.known = said]
            /\ Walked(session.game, said)
      BY <1>3, <2>5 DEF PromptAnswered
    <3>2. said \in BOOLEAN /\ skipped' \subseteq Games
      BY <2>1, <3>1 DEF Listing, Walked, Shapes
    <3>3. UNCHANGED <<results, unlocked>>
      BY <1>3, <2>5 DEF PromptAnswered
    <3>. QED
      BY <2>1, <3>1, <3>2, <3>3 DEF Shapes, Steps
  <2>6. CASE ParseChoice(text) \notin {"q", "s", "y"}
    BY <1>3, <2>1, <2>6 DEF PromptAnswered, Shapes, Steps
  <2>. QED
    BY <1>3, <2>2, <2>3, <2>4, <2>5, <2>6 DEF ParseChoice, Shapes
<1>4. CASE OpenGameMenu
  BY <1>4 DEF OpenGameMenu, Shapes, Steps
<1>5. CASE ClickUninstall
  <2>1. PICK item \in Showing : Invoke(item)
    BY <1>5 DEF ClickUninstall
  <2>. QED
    BY <1>5, <2>1, InvokedWasOpen DEF ClickUninstall, Shapes, Steps
<1>6. CASE ConfirmUninstall
  <2>1. PICK item \in Showing : Invoke(item)
    BY <1>6 DEF ConfirmUninstall
  <2>. QED
    BY <1>6, <2>1, InvokedWasOpen DEF ConfirmUninstall, Shapes, Steps
<1>7. CASE ByHand
  BY <1>7 DEF ByHand, Shapes, Steps, After
<1>8. CASE Abort
  BY <1>8 DEF Abort, Shapes, Steps, Verdicts
<1>9. ASSUME NEW reading \in Readings, SeenGone(reading) \/ SeenPresent(reading) \/ TimeIsUp(reading)
      PROVE  Shapes' /\ installed' \subseteq installed /\ listed' = listed
  <2>1. \E verdict : Polls(reading, verdict)
    BY <1>9 DEF SeenGone, SeenPresent, TimeIsUp
  <2>2. /\ UNCHANGED <<installed, listed, unlocked, strange>> /\ session.game \in Games
        /\ client' \in Windows /\ skipped' \subseteq Games
    BY <2>1 DEF Polls, Walked, Shapes
  <2>3. CASE SeenGone(reading)
    BY <2>2, <2>3 DEF SeenGone, Shapes, Steps, Verdicts
  <2>4. CASE SeenPresent(reading)
    BY <2>2, <2>4 DEF SeenPresent, Shapes, Steps
  <2>5. CASE TimeIsUp(reading)
    <3>1. PICK verdict \in {"shrank", "not verified"} : Recorded(verdict, "next")
      BY <2>5 DEF TimeIsUp
    <3>. QED
      BY <2>2, <3>1 DEF Shapes, Steps, Verdicts
  <2>. QED
    BY <1>9, <2>3, <2>4, <2>5
<1>10. CASE Interrupt
  BY <1>10 DEF Interrupt, Shapes, Steps
<1>11. CASE Lock
  <2>1. unlocked' \in BOOLEAN /\ UNCHANGED <<installed, listed, client, session, strange, skipped, results>>
    BY <1>11 DEF Lock
  <2>. QED
    BY <2>1 DEF Shapes
<1>12. CASE Killed
  <2>1. UNCHANGED <<installed, listed, unlocked, session, strange, skipped, results>> /\ client' = Closed
    BY <1>12 DEF Killed
  <2>2. Closed \in Windows
    BY DEF Closed
  <2>. QED
    BY <2>1, <2>2 DEF Shapes
<1>15. ASSUME NEW g \in Games, Elsewhere(g) PROVE Shapes' /\ installed' \subseteq installed /\ listed' = listed
  BY <1>15 DEF Elsewhere, Shapes
<1>13. CASE UNCHANGED cleanupVars
  BY <1>13 DEF cleanupVars, Shapes
<1>14. CASE CleanupNext
  <2>1. CASE \E reading \in Readings : SeenGone(reading) \/ SeenPresent(reading) \/ TimeIsUp(reading)
    BY <1>9, <2>1, Zenon
  <2>2. CASE \E text \in {"y", "s", "q", "other"} : PromptAnswered(text)
    BY <1>3, <2>2, Zenon
  <2>3. CASE \E g \in Games : NextGame(g)
    BY <1>2, <2>3, Zenon
  <2>4. CASE \E g \in Games : Elsewhere(g)
    BY <1>15, <2>4, Zenon
  <2>. QED
    BY <1>1, <1>4, <1>5, <1>6, <1>7, <1>8, <1>10, <1>11, <1>12, <1>14, <1>16, <2>1, <2>2, <2>3,
       <2>4, Zenon
       DEF CleanupNext
<1>. QED
  BY <1>13, <1>14, Zenon

LEMMA AgreedKept ==
  ASSUME Shapes, Agreed, [CleanupNext]_cleanupVars
  PROVE  Agreed'
<1>. USE DEF Recorded, Goto, SessionAt, NoneUnasked, Windows
<1>1. CASE Launch
  <2>1. UNCHANGED <<client.menu, client.dialog>> /\ session'.pc \in {"choose", "over"}
    BY <1>1, LaunchShows DEF Shapes
  <2>. QED
    BY <1>1, <2>1 DEF Launch, Agreed, Steps
<1>16. CASE Choose
  BY <1>16 DEF Choose, Agreed, Shapes, Steps
<1>2. ASSUME NEW g \in Games, NextGame(g) PROVE Agreed'
  BY <1>2 DEF NextGame, Agreed, Shapes, Steps
<1>3. ASSUME NEW text \in {"y", "s", "q", "other"}, PromptAnswered(text) PROVE Agreed'
  <2>1. /\ session.pc = "prompt" /\ session.game \in Games /\ UNCHANGED <<client, invoked, strange>>
        /\ answered' = IF text = "y" THEN answered \union {session.game} ELSE answered
    BY <1>3 DEF PromptAnswered, Shapes
  <2>2. session'.pc \in Steps => text = "y" /\ session'.game = session.game
    <3>1. CASE text = "y"
      BY <1>3, <3>1 DEF PromptAnswered, ParseChoice, Steps, Shapes
    <3>2. CASE text # "y"
      BY <1>3, <3>2 DEF PromptAnswered, ParseChoice, Steps, Shapes
    <3>. QED
      BY <3>1, <3>2
  <2>. QED
    BY <2>1, <2>2 DEF Agreed
<1>4. CASE OpenGameMenu
  BY <1>4 DEF OpenGameMenu, Agreed, Shapes, Steps
<1>5. CASE ClickUninstall
  <2>1. PICK item \in Showing : Invoke(item)
    BY <1>5 DEF ClickUninstall
  <2>2. session'.pc = "confirm" /\ session'.game = session.game /\ session.pc \in Steps
    BY <1>5 DEF ClickUninstall, Shapes, Steps
  <2>. QED
    BY <1>5, <2>1, <2>2, InvokedWasOpen DEF ClickUninstall, Agreed
<1>6. CASE ConfirmUninstall
  <2>1. PICK item \in Showing : Invoke(item)
    BY <1>6 DEF ConfirmUninstall
  <2>2. session'.pc = "wait"
    BY <1>6 DEF ConfirmUninstall, Shapes
  <2>. QED
    BY <1>6, <2>1, <2>2, InvokedWasOpen DEF ConfirmUninstall, Agreed, Steps
<1>7. CASE ByHand
  <2>1. session.pc \in Steps /\ session'.game = session.game /\ UNCHANGED <<answered, invoked, strange>>
    BY <1>7 DEF ByHand, Shapes
  <2>2. {client'.menu, client'.dialog} \subseteq {client.menu, client.dialog, session.game, NoGame}
    BY <1>7 DEF ByHand, Shapes
  <2>. QED
    BY <2>1, <2>2 DEF Agreed
<1>8. CASE Abort
  BY <1>8 DEF Abort, Agreed, Shapes, Steps
<1>9. ASSUME NEW reading \in Readings, SeenGone(reading) \/ SeenPresent(reading) \/ TimeIsUp(reading)
      PROVE  Agreed'
  <2>1. \E verdict : Polls(reading, verdict)
    BY <1>9 DEF SeenGone, SeenPresent, TimeIsUp
  <2>2. session'.pc \in {"wait", "next"}
    <3>1. session.pc = "wait"
      BY <2>1 DEF Polls
    <3>. QED
      BY <1>9, <3>1 DEF SeenGone, SeenPresent, TimeIsUp, Shapes
  <2>. QED
    BY <2>1, <2>2 DEF Polls, Agreed, Shapes, Steps
<1>10. CASE Interrupt
  BY <1>10 DEF Interrupt, Agreed, Shapes, Steps
<1>11. CASE Lock
  BY <1>11 DEF Lock, Agreed
<1>12. CASE Killed
  BY <1>12 DEF Killed, Agreed, Closed
<1>15. ASSUME NEW g \in Games, Elsewhere(g) PROVE Agreed'
  BY <1>15 DEF Elsewhere, Agreed, Shapes
<1>13. CASE UNCHANGED cleanupVars
  BY <1>13 DEF cleanupVars, Agreed
<1>14. CASE CleanupNext
  <2>1. CASE \E reading \in Readings : SeenGone(reading) \/ SeenPresent(reading) \/ TimeIsUp(reading)
    BY <1>9, <2>1, Zenon
  <2>2. CASE \E text \in {"y", "s", "q", "other"} : PromptAnswered(text)
    BY <1>3, <2>2, Zenon
  <2>3. CASE \E g \in Games : NextGame(g)
    BY <1>2, <2>3, Zenon
  <2>4. CASE \E g \in Games : Elsewhere(g)
    BY <1>15, <2>4, Zenon
  <2>. QED
    BY <1>1, <1>4, <1>5, <1>6, <1>7, <1>8, <1>10, <1>11, <1>12, <1>14, <1>16, <2>1, <2>2, <2>3,
       <2>4, Zenon
       DEF CleanupNext
<1>. QED
  BY <1>13, <1>14, Zenon

\* Nothing destructive without a "y" for that game, but for what somebody else has opened.
THEOREM CleanupNoneUnasked == CleanupSpec => []NoneUnasked
<1>1. CleanupInit => Shapes /\ Agreed
  BY ShapesInit DEF CleanupInit, Agreed, NoneUnasked, Open, Steps
<1>2. Shapes /\ Agreed /\ [CleanupNext]_cleanupVars => (Shapes /\ Agreed)'
  BY ShapesKept, AgreedKept
<1>3. Agreed => NoneUnasked
  BY DEF Agreed
<1>. QED
  BY <1>1, <1>2, <1>3, PTL DEF CleanupSpec

\* The variables have the values CleanupTypeOK lists.
THEOREM CleanupTypeCorrect == CleanupSpec => []CleanupTypeOK
<1>1. CleanupInit => Shapes /\ Agreed
  BY ShapesInit DEF CleanupInit, Agreed, NoneUnasked, Open, Steps
<1>2. Shapes /\ Agreed /\ [CleanupNext]_cleanupVars => (Shapes /\ Agreed)'
  BY ShapesKept, AgreedKept
<1>3. Shapes /\ Agreed => CleanupTypeOK
  BY DEF Agreed, Shapes, NoneUnasked, CleanupTypeOK
<1>. QED
  BY <1>1, <1>2, <1>3, PTL DEF CleanupSpec

-----------------------------------------------------------------------------
(* The cleanup tool: what is said to be gone is gone *)

\* A game that Windows listed when the parent said yes, and that no walk passed over, is
\* remembered as such until the verdict.
Remembered ==
  /\ session.pc \in Steps \union {"wait"}
  /\ session.game \in (listed \intersect installed) \ skipped
  => session.known

\* While the registry lists it and a walk says so, no reading of the library makes it gone.
LEMMA RegistryWins ==
  ASSUME session.known, NEW reading
  PROVE  StillPresent(reading, RegPresent(TRUE)) = {TRUE}
<1>1. RegPresent(TRUE) = {TRUE}
  BY DEF RegPresent
<1>. QED
  BY <1>1 DEF StillPresent

\* What was passed over remains so.
LEMMA SkippedStays ==
  ASSUME [CleanupNext]_cleanupVars
  PROVE  skipped \subseteq skipped'
<1>1. CASE \E reading \in Readings : SeenGone(reading) \/ SeenPresent(reading) \/ TimeIsUp(reading)
  BY <1>1 DEF SeenGone, SeenPresent, TimeIsUp, Polls, Walked
<1>2. CASE \E text \in {"y", "s", "q", "other"} : PromptAnswered(text)
  BY <1>2 DEF PromptAnswered, Walked
<1>. QED
  BY <1>1, <1>2 DEF CleanupNext, cleanupVars, Launch, Choose, NextGame, OpenGameMenu, ClickUninstall,
    ConfirmUninstall, ByHand, Abort, Interrupt, Lock, Killed, Elsewhere

LEMMA RememberedKept ==
  ASSUME Shapes, Remembered, LeftIsGone, [CleanupNext]_cleanupVars
  PROVE  Remembered' /\ LeftIsGone'
<1>. USE DEF Recorded, Goto, SessionAt
<1>. DEFINE Good == Remembered' /\ LeftIsGone'
<1>0. listed' = listed /\ installed' \subseteq installed /\ skipped \subseteq skipped'
  BY ShapesKept, SkippedStays
\* Most steps leave the verdicts alone, or add one that is not "left".
<1>a. ASSUME \A g \in Games : results'[g] = "left" => results[g] = "left"  PROVE LeftIsGone'
  BY <1>0, <1>a DEF LeftIsGone, Shapes
<1>b. ASSUME NEW verdict \in Verdicts \ {"left"}, results' = [results EXCEPT ![session.game] = verdict]
      PROVE  LeftIsGone'
  BY <1>a, <1>b DEF Shapes
<1>c. ASSUME session'.known = session.known, session'.game = session.game,
             session'.pc \in Steps \union {"wait"} => session.pc \in Steps \union {"wait"}
      PROVE  Remembered'
  BY <1>0, <1>c DEF Remembered
<1>1. CASE Launch
  <2>1. session'.pc \in {"choose", "over"} /\ UNCHANGED results
    BY <1>1, LaunchShows DEF Launch, Shapes
  <2>. QED
    BY <2>1, <1>a DEF Remembered, Steps
<1>14. CASE Choose
  <2>1. session'.pc \in {"next", "over"}
    BY <1>14 DEF Choose, Shapes
  <2>2. \A g \in Games : results'[g] = "left" => results[g] = "left"
    BY <1>14 DEF Choose
  <2>. QED
    BY <2>1, <2>2, <1>a DEF Remembered, Steps
<1>2. ASSUME NEW g \in Games, NextGame(g) PROVE Good
  <2>1. Remembered'
    BY <1>2 DEF NextGame, Remembered, Shapes, Steps
  <2>2. \A h \in Games : results'[h] = "left" => results[h] = "left"
    BY <1>2 DEF NextGame, Shapes
  <2>. QED
    BY <2>1, <2>2, <1>a
<1>3. ASSUME NEW text \in {"y", "s", "q", "other"}, PromptAnswered(text) PROVE Good
  <2>1. session.pc = "prompt" /\ session.game \in Games
    BY <1>3 DEF PromptAnswered, Shapes
  <2>2. CASE text = "q"
    BY <1>3, <2>1, <2>2, <1>a DEF PromptAnswered, ParseChoice, Remembered, Shapes, Steps
  <2>3. CASE text = "s"
    <3>1. Remembered'
      BY <1>3, <2>1, <2>3 DEF PromptAnswered, ParseChoice, Remembered, Shapes, Steps
    <3>2. results' = [results EXCEPT ![session.game] = "skipped"]
      BY <1>3, <2>3 DEF PromptAnswered, ParseChoice
    <3>. QED
      BY <3>1, <3>2, <1>b DEF Verdicts
  <2>4. CASE text = "y" /\ session.dry
    <3>1. Remembered'
      BY <1>3, <2>1, <2>4 DEF PromptAnswered, ParseChoice, Remembered, Shapes, Steps
    <3>2. results' = [results EXCEPT ![session.game] = "dry-run"]
      BY <1>3, <2>4 DEF PromptAnswered, ParseChoice
    <3>. QED
      BY <3>1, <3>2, <1>b DEF Verdicts
  <2>5. CASE text = "y" /\ ~session.dry
    <3>1. PICK said \in Listing(session.game) :
            /\ session' = [session EXCEPT !.pc = "menu", !.seen = FALSE, !.known = said]
            /\ Walked(session.game, said)
      BY <1>3, <2>5 DEF PromptAnswered, ParseChoice
    <3>2. session'.known = said /\ session'.game = session.game
      BY <3>1 DEF Shapes
    <3>3. session.game \in listed \intersect installed => said \/ session.game \in skipped'
      BY <3>1 DEF Walked
    <3>4. Remembered'
      BY <1>0, <3>2, <3>3 DEF Remembered
    <3>5. UNCHANGED results
      BY <1>3, <2>5 DEF PromptAnswered, ParseChoice
    <3>. QED
      BY <3>4, <3>5, <1>a
  <2>6. CASE text = "other"
    BY <1>3, <2>1, <2>6, <1>a, <1>c DEF PromptAnswered, ParseChoice
  <2>. QED
    BY <2>2, <2>3, <2>4, <2>5, <2>6 DEF Shapes
<1>4. CASE OpenGameMenu \/ ClickUninstall \/ ConfirmUninstall \/ ByHand
  <2>1. UNCHANGED results /\ session.pc \in Steps
    BY <1>4 DEF OpenGameMenu, ClickUninstall, ConfirmUninstall, ByHand, Steps
  <2>2. session'.known = session.known /\ session'.game = session.game
    BY <1>4 DEF OpenGameMenu, ClickUninstall, ConfirmUninstall, ByHand, Shapes
  <2>. QED
    BY <2>1, <2>2, <1>a, <1>c
<1>5. CASE Abort
  <2>1. session' = [session EXCEPT !.pc = "next"]
        /\ results' = [results EXCEPT ![session.game] = "aborted"]
    BY <1>5 DEF Abort
  <2>. QED
    BY <2>1, <1>b, <1>c DEF Verdicts, Steps, Shapes
<1>6. ASSUME NEW reading \in Readings, SeenGone(reading) PROVE Good
  <2>1. PICK said \in Listing(session.game) :
          StillPresent(reading, RegPresent(said)) = {FALSE} /\ Walked(session.game, said)
    BY <1>6 DEF SeenGone, Polls
  <2>2. /\ session.pc = "wait" /\ session' = [session EXCEPT !.pc = "next"]
        /\ results' = [results EXCEPT ![session.game] = "left"] /\ installed' = installed
    BY <1>6 DEF SeenGone, Polls
  <2>5. session.game \notin (listed \intersect installed) \ skipped'
    <3>1. SUFFICES ASSUME session.game \in (listed \intersect installed) \ skipped'  PROVE FALSE
      OBVIOUS
    <3>2. session.known
      BY <1>0, <2>2, <3>1 DEF Remembered
    <3>3. said = TRUE
      BY <2>1, <3>1 DEF Walked, Listing
    <3>. QED
      BY <2>1, <3>2, <3>3, RegistryWins
  <2>3. Remembered'
    BY <2>2, <1>c DEF Steps, Shapes
  <2>4. LeftIsGone'
    BY <1>0, <2>2, <2>5 DEF LeftIsGone, Shapes
  <2>. QED
    BY <2>3, <2>4
<1>7. ASSUME NEW reading \in Readings, SeenPresent(reading) PROVE Good
  BY <1>7, <1>a, <1>c DEF SeenPresent, Polls, Shapes
<1>8. ASSUME NEW reading \in Readings, TimeIsUp(reading) PROVE Good
  <2>1. PICK verdict \in {"shrank", "not verified"} : Recorded(verdict, "next")
    BY <1>8 DEF TimeIsUp
  <2>. QED
    BY <2>1, <1>b, <1>c DEF Verdicts, Steps, Shapes
<1>9. CASE Interrupt
  BY <1>9, <1>a, <1>c DEF Interrupt, Steps, Shapes
<1>10. CASE Lock \/ Killed
  BY <1>10, <1>a, <1>c DEF Lock, Killed
<1>13. ASSUME NEW g \in Games, Elsewhere(g) PROVE Good
  BY <1>13, <1>a, <1>c DEF Elsewhere
<1>11. CASE UNCHANGED cleanupVars
  BY <1>11, <1>a, <1>c DEF cleanupVars
<1>12. CASE CleanupNext
  <2>1. CASE \E reading \in Readings : SeenGone(reading) \/ SeenPresent(reading) \/ TimeIsUp(reading)
    BY <1>6, <1>7, <1>8, <2>1, Zenon
  <2>2. CASE \E text \in {"y", "s", "q", "other"} : PromptAnswered(text)
    BY <1>3, <2>2, Zenon
  <2>3. CASE \E g \in Games : NextGame(g)
    BY <1>2, <2>3, Zenon
  <2>4. CASE \E g \in Games : Elsewhere(g)
    BY <1>13, <2>4, Zenon
  <2>. QED
    BY <1>1, <1>4, <1>5, <1>9, <1>10, <1>12, <1>14, <2>1, <2>2, <2>3, <2>4, Zenon DEF CleanupNext
<1>. QED
  BY <1>11, <1>12, Zenon

\* A game that Windows listed, and no walk passed over, is reported as gone only when it is.
THEOREM CleanupLeftIsGone == CleanupSpec => []LeftIsGone
<1>1. CleanupInit => Shapes /\ Remembered /\ LeftIsGone
  BY ShapesInit DEF CleanupInit, Remembered, LeftIsGone, Steps
<1>2. Shapes /\ Remembered /\ LeftIsGone /\ [CleanupNext]_cleanupVars
        => (Shapes /\ Remembered /\ LeftIsGone)'
  BY ShapesKept, RememberedKept
<1>. QED
  BY <1>1, <1>2, PTL DEF CleanupSpec

-----------------------------------------------------------------------------
(* The installer: what is missing was told *)

Names == Watchers \union ToSet(Guards)

\* What the run has been through so far.
Past == {Task(i) : i \in {j \in 0..Len(Guards) : j < install.next}} \ install.without

\* Before the first install what is registered runs.  From then on, unless a run failed or was
\* cut, what it has been through is registered, and runs or was said not to.
Kempt ==
  /\ install.pc = "none" =>
       tasks \intersect Enforcing = running \intersect Enforcing /\ (guarded => Guarded(running))
  /\ install.pc \in {"legacy", "prepare"} => install.next = 0
  /\ install.pc \notin {"none", "failed", "cut"} => Past \subseteq tasks /\ Past \ install.unstarted \subseteq running
  /\ install.pc \in {"retire", "done", "shadow"} => AllRegistered
  /\ install.pc = "done" => install.name = "live"

LEMMA TaskNames ==
  ASSUME InstallTypeOK, NEW i \in 0..Len(Guards)
  PROVE  Task(i) \in {install.name} \union ToSet(Guards) /\ Task(i) \in Names
<1>1. Task(i) \in {install.name} \union ToSet(Guards)
  BY InstallerAssumption DEF Task, ToSet
<1>2. install.name \in Watchers
  BY DEF InstallTypeOK, Watchers
<1>. QED
  BY <1>1, <1>2 DEF Names

LEMMA InstallTypeInit == InstallInit => InstallTypeOK
<1>. SUFFICES ASSUME InstallInit PROVE InstallTypeOK
  OBVIOUS
<1>1. Len(Guards) \in Nat /\ 0 \in 0..MaxTroubles
  BY InstallerAssumption
<1>2. tasks \subseteq Watchers /\ running = tasks /\ troubles = 0
  BY DEF InstallInit, Watchers
<1>3. guarded \in BOOLEAN
  BY DEF InstallInit, Guarded
<1>4. 0 \in 0..Len(Guards) + 1
  BY <1>1
<1>. QED
  BY <1>1, <1>2, <1>3, <1>4 DEF InstallInit, InstallTypeOK

LEMMA RunsTypes ==
  ASSUME InstallTypeOK, NEW processes \in SUBSET Names, Runs(processes)
  PROVE  running' \subseteq Names /\ guarded' \in BOOLEAN
BY DEF Runs, InstallTypeOK, Guarded

LEMMA TroubleTypes ==
  ASSUME InstallTypeOK, Trouble \/ UNCHANGED troubles
  PROVE  troubles' \in 0..MaxTroubles
BY InstallerAssumption DEF Trouble, InstallTypeOK

LEMMA PastSame ==
  ASSUME install'.name = install.name, install'.next = install.next,
         install'.without = install.without
  PROVE  Past' = Past
BY DEF Past, Task

LEMMA PastNext ==
  ASSUME InstallTypeOK, ~AllRegistered, install'.name = install.name,
         install'.next = install.next + 1, install'.without = install.without
  PROVE  Past' \subseteq Past \union ({Task(install.next)} \ install.without)
<1>1. \A j \in 0..Len(Guards) : j < install.next + 1 => j < install.next \/ j = install.next
  BY InstallerAssumption DEF InstallTypeOK
<1>. QED
  BY <1>1 DEF Past, Task

LEMMA PastNames ==
  ASSUME InstallTypeOK
  PROVE  Past \subseteq ({install.name} \union ToSet(Guards)) \intersect Names
BY TaskNames DEF Past

\* Going to another place of main.
LEMMA GoesOn ==
  ASSUME InstallTypeOK,
         NEW pc \in {"none", "legacy", "prepare", "register", "retire", "failed", "cut", "shadow", "done"},
         Goes(pc), troubles' \in 0..MaxTroubles, tasks' \subseteq Names, running' \subseteq Names,
         guarded' \in BOOLEAN
  PROVE  /\ InstallTypeOK' /\ Past' = Past /\ install'.pc = pc
         /\ install'.name = install.name /\ install'.next = install.next
         /\ install'.unstarted = install.unstarted
<1>1. install' = [install EXCEPT !.pc = pc]
  BY DEF Goes
<1>2. /\ install'.name = install.name /\ install'.next = install.next /\ install'.pc = pc
      /\ install'.without = install.without /\ install'.unstarted = install.unstarted
  BY <1>1 DEF InstallTypeOK
<1>3. Past' = Past
  BY <1>2, PastSame
<1>. QED
  BY <1>1, <1>2, <1>3 DEF InstallTypeOK, Names

\* A step that only goes on inside an install, or ends it complete.
LEMMA OnlyGoes ==
  ASSUME InstallTypeOK, Kempt, NEW from, InstallAt(from), NEW pc, Goes(pc),
         UNCHANGED <<tasks, running, guarded, troubles>>,
         \/ from = "prepare" /\ pc = "register"
         \/ from = "register" /\ pc \in {"retire", "shadow"} /\ AllRegistered
         \/ from \in {"register", "retire"} /\ pc = "done" /\ AllRegistered /\ install.name = "live"
  PROVE  InstallTypeOK' /\ Kempt'
<1>1. /\ InstallTypeOK' /\ Past' = Past /\ install'.pc = pc
      /\ install'.name = install.name /\ install'.next = install.next
      /\ install'.unstarted = install.unstarted
  BY GoesOn DEF InstallTypeOK, Names
<1>. QED
  BY <1>1 DEF Kempt, AllRegistered, InstallAt

LEMMA BeginKept == ASSUME InstallTypeOK, Kempt, Begin PROVE InstallTypeOK' /\ Kempt'
<1>1. PICK name \in {"live", "shadow"}, keep \in BOOLEAN, start \in BOOLEAN, without \in SUBSET Optional :
        install' = [pc |-> "legacy", name |-> name, keep |-> keep, start |-> start,
                    without |-> without, next |-> 0, unstarted |-> {},
                    had |-> "powershell" \in tasks]
  BY DEF Begin
<1>2. 0 \in 0..Len(Guards) + 1 /\ ("powershell" \in tasks) \in BOOLEAN
  BY InstallerAssumption
<1>3. InstallTypeOK'
  BY <1>1, <1>2 DEF Begin, InstallTypeOK
<1>4. install'.pc = "legacy" /\ install'.next = 0
  BY <1>1
<1>5. Past' = {}
  BY <1>4, InstallerAssumption DEF Past
<1>. QED
  BY <1>3, <1>4, <1>5 DEF Kempt

LEMMA RetireLegacyKept == ASSUME InstallTypeOK, Kempt, RetireLegacy PROVE InstallTypeOK' /\ Kempt'
<1>1. PICK ended \in BOOLEAN, deleted \in BOOLEAN :
        Ended("powershell", ended, deleted) /\ FineOr(ended /\ deleted)
  BY DEF RetireLegacy
<1>2. tasks' \subseteq Names
  BY <1>1 DEF Ended, InstallTypeOK, Names
<1>3. running' \subseteq Names /\ guarded' \in BOOLEAN
  <2>1. PICK processes \in SUBSET Names : Runs(processes)
    BY <1>1 DEF Ended, InstallTypeOK, Names
  <2>. QED
    BY <2>1, RunsTypes
<1>4. troubles' \in 0..MaxTroubles
  BY <1>1, TroubleTypes DEF FineOr
<1>5. InstallTypeOK' /\ Past' = Past /\ install'.pc = "prepare" /\ install'.next = install.next
  BY <1>2, <1>3, <1>4, GoesOn DEF RetireLegacy
<1>6. install.next = 0
  BY DEF RetireLegacy, Kempt, InstallAt
<1>7. Past = {}
  BY <1>6, InstallerAssumption DEF Past
<1>. QED
  BY <1>5, <1>6, <1>7 DEF Kempt

LEMMA LeaveOutKept == ASSUME InstallTypeOK, Kempt, LeaveOut PROVE InstallTypeOK' /\ Kempt'
<1>1. /\ install.pc = "register" /\ ~AllRegistered /\ Task(install.next) \in install.without
      /\ install' = [install EXCEPT !.next = install.next + 1]
      /\ UNCHANGED <<tasks, running, guarded, troubles>>
  BY DEF LeaveOut, InstallAt
<1>2. install.next + 1 \in 0..Len(Guards) + 1
  BY <1>1, InstallerAssumption DEF AllRegistered, InstallTypeOK
<1>3. InstallTypeOK'
  BY <1>1, <1>2 DEF InstallTypeOK
<1>4. /\ install'.name = install.name /\ install'.next = install.next + 1 /\ install'.pc = "register"
      /\ install'.without = install.without /\ install'.unstarted = install.unstarted
  BY <1>1 DEF InstallTypeOK
<1>5. Past' \subseteq Past
  BY <1>1, <1>4, PastNext
<1>. QED
  BY <1>1, <1>3, <1>4, <1>5 DEF Kempt

LEMMA CannotRegisterKept ==
  ASSUME InstallTypeOK, Kempt, NEW task, CannotRegister(task) PROVE InstallTypeOK' /\ Kempt'
<1>1. install' = [install EXCEPT !.pc = "failed"] /\ UNCHANGED <<tasks, running, guarded>> /\ Trouble
  BY DEF CannotRegister, Failed
<1>2. troubles' \in 0..MaxTroubles
  BY <1>1, TroubleTypes
<1>3. InstallTypeOK' /\ install'.pc = "failed"
  BY <1>1, <1>2 DEF InstallTypeOK
<1>. QED
  BY <1>3 DEF Kempt

LEMMA RegisterKept ==
  ASSUME InstallTypeOK, Kempt, NEW task \in Names, Register(task) PROVE InstallTypeOK' /\ Kempt'
<1>1. /\ install.pc = "register" /\ ~AllRegistered /\ task = Task(install.next)
      /\ tasks' = tasks \union {task}
  BY DEF Register, Registering, InstallAt
<1>2. PICK runs \in BOOLEAN, starts \in BOOLEAN :
        /\ FineOr(runs \/ ~Issued(task))
        /\ Runs(IF starts THEN running \union {task} ELSE running)
        /\ install' = [install EXCEPT !.next = @ + 1,
                         !.unstarted = IF starts THEN @ ELSE @ \union {task}]
  <2>1. PICK runs \in BOOLEAN :
        LET starts == ByTrigger(task) \/ (Issued(task) /\ runs) IN
        /\ FineOr(runs \/ ~Issued(task))
        /\ Runs(IF starts THEN running \union {task} ELSE running)
        /\ install' = [install EXCEPT !.next = @ + 1,
                         !.unstarted = IF starts THEN @ ELSE @ \union {task}]
    BY DEF Register
  <2>2. CASE ByTrigger(task) \/ (Issued(task) /\ runs)
    BY <2>1, <2>2
  <2>3. CASE ~(ByTrigger(task) \/ (Issued(task) /\ runs))
    BY <2>1, <2>3
  <2>. QED
    BY <2>2, <2>3
<1>. DEFINE unstarted == IF starts THEN install.unstarted ELSE install.unstarted \union {task}
<1>3. /\ install'.name = install.name /\ install'.next = install.next + 1 /\ install'.pc = "register"
      /\ install'.without = install.without /\ install'.unstarted = unstarted
  BY <1>1, <1>2 DEF InstallTypeOK
<1>4. install.next + 1 \in 0..Len(Guards) + 1
  BY <1>1, InstallerAssumption DEF AllRegistered, InstallTypeOK
<1>5. troubles' \in 0..MaxTroubles
  BY <1>2, TroubleTypes DEF FineOr
<1>6. running' = (IF starts THEN running \union {task} ELSE running)
      /\ running' \subseteq Names /\ guarded' \in BOOLEAN
  <2>1. (IF starts THEN running \union {task} ELSE running) \in SUBSET Names
    BY DEF InstallTypeOK, Names
  <2>. QED
    BY <1>2, <2>1, RunsTypes DEF Runs
<1>7. unstarted \subseteq Names
  BY DEF InstallTypeOK, Names
<1>8. InstallTypeOK'
  BY <1>1, <1>2, <1>4, <1>5, <1>6, <1>7 DEF InstallTypeOK, Names
<1>9. Past' \subseteq Past \union {task}
  BY <1>1, <1>3, PastNext
<1>. QED
  BY <1>1, <1>3, <1>6, <1>8, <1>9 DEF Kempt

LEMMA GoingKept ==
  ASSUME InstallTypeOK, Kempt, Prepare \/ ShadowArmed \/ Kept PROVE InstallTypeOK' /\ Kempt'
<1>1. CASE Prepare
  BY <1>1, OnlyGoes DEF Prepare
<1>2. CASE ShadowArmed
  BY <1>2, OnlyGoes DEF ShadowArmed
<1>3. CASE Kept
  BY <1>3, OnlyGoes DEF Kept
<1>. QED
  BY <1>1, <1>2, <1>3

\* What a live install has been through is none of the tasks it retires.
LEMMA RetireKept ==
  ASSUME InstallTypeOK, Kempt, NEW from, NEW task \in {"powershell", "shadow"}, NEW to,
         Retire(from, task, to), <<from, to>> \in {<<"register", "retire">>, <<"retire", "done">>}
  PROVE  InstallTypeOK' /\ Kempt'
<1>1. install.pc = from /\ AllRegistered /\ install.name = "live" /\ Goes(to)
  BY DEF Retire, InstallAt
<1>2. CASE UNCHANGED <<tasks, running, guarded, troubles>>
  BY <1>1, <1>2, OnlyGoes DEF InstallAt
<1>3. CASE \E ended, deleted \in BOOLEAN : Ended(task, ended, deleted) /\ FineOr(ended /\ deleted)
  <2>1. PICK ended \in BOOLEAN, deleted \in BOOLEAN :
          Ended(task, ended, deleted) /\ FineOr(ended /\ deleted)
    BY <1>3
  <2>2. tasks' \subseteq Names
    BY <2>1 DEF Ended, InstallTypeOK, Names
  <2>3. running' \subseteq Names /\ guarded' \in BOOLEAN /\ running \ {task} \subseteq running'
    <3>1. PICK processes \in SUBSET Names : Runs(processes) /\ running \ {task} \subseteq processes
      BY <2>1 DEF Ended, InstallTypeOK, Names
    <3>. QED
      BY <3>1, RunsTypes DEF Runs
  <2>4. troubles' \in 0..MaxTroubles
    BY <2>1, TroubleTypes DEF FineOr
  <2>5. /\ InstallTypeOK' /\ Past' = Past /\ install'.pc = to
        /\ install'.name = install.name /\ install'.next = install.next
        /\ install'.unstarted = install.unstarted
    BY <1>1, <2>2, <2>3, <2>4, GoesOn
  <2>6. task \notin Past
    BY <1>1, PastNames, InstallerAssumption
  <2>7. tasks \ {task} \subseteq tasks'
    BY <2>1 DEF Ended
  <2>8. Past \subseteq tasks' /\ Past \ install.unstarted \subseteq running'
    BY <1>1, <2>3, <2>6, <2>7 DEF Kempt
  <2>. QED
    BY <1>1, <2>5, <2>8 DEF Kempt, AllRegistered
<1>. QED
  BY <1>2, <1>3 DEF Retire

LEMMA SingleKept ==
  ASSUME InstallTypeOK, Kempt, NEW g \in Alone, Single(g) PROVE InstallTypeOK' /\ Kempt'
<1>1. g \in Names /\ g \notin Enforcing
  BY InstallerAssumption DEF Names, Enforcing
<1>2. PICK runs \in BOOLEAN :
        FineOr(runs) /\ Runs(IF runs THEN running \union {g} ELSE running)
  BY DEF Single
<1>3. running' \subseteq Names /\ guarded' \in BOOLEAN
  <2>1. (IF runs THEN running \union {g} ELSE running) \in SUBSET Names
    BY <1>1 DEF InstallTypeOK, Names
  <2>. QED
    BY <1>2, <2>1, RunsTypes
<1>4. troubles' \in 0..MaxTroubles
  BY <1>2, TroubleTypes DEF FineOr
<1>5. install' = install /\ tasks' = tasks \union {g}
  BY DEF Single
<1>6. InstallTypeOK'
  BY <1>1, <1>3, <1>4, <1>5 DEF InstallTypeOK, Names
<1>7. Past' = Past
  BY <1>5, PastSame
<1>8. /\ running \subseteq running' /\ running' \intersect Enforcing = running \intersect Enforcing
      /\ tasks' \intersect Enforcing = tasks \intersect Enforcing
  BY <1>1, <1>2, <1>5 DEF Runs
<1>9. Guarded(running)' = Guarded(running) /\ (guarded' => guarded \/ Guarded(running))
  BY <1>8, <1>2 DEF Guarded, Runs
<1>10. install.pc = "none" => (guarded' => Guarded(running)')
  BY <1>9 DEF Kempt
<1>. QED
  BY <1>5, <1>6, <1>7, <1>8, <1>10 DEF Kempt, AllRegistered

LEMMA CutKept ==
  ASSUME InstallTypeOK, Kempt, Goes("cut"), Trouble, tasks' = tasks, running' \subseteq Names,
         guarded' \in BOOLEAN
  PROVE  InstallTypeOK' /\ Kempt'
<1>1. InstallTypeOK' /\ install'.pc = "cut"
  BY TroubleTypes, GoesOn DEF InstallTypeOK, Names
<1>. QED
  BY <1>1 DEF Kempt

LEMMA RebootKept == ASSUME InstallTypeOK, Kempt, Reboot PROVE InstallTypeOK' /\ Kempt'
<1>1. running' = tasks /\ tasks' = tasks /\ (guarded' <=> guarded \/ Guarded(tasks))
  BY DEF Reboot, Runs
<1>2. running' \subseteq Names /\ guarded' \in BOOLEAN
  BY RunsTypes DEF Reboot, InstallTypeOK, Names
<1>3. CASE Under
  BY <1>1, <1>2, <1>3, CutKept DEF Reboot
<1>4. CASE ~Under
  <2>1. install' = install /\ UNCHANGED troubles
    BY <1>4 DEF Reboot
  <2>2. InstallTypeOK'
    BY <1>1, <1>2, <2>1 DEF InstallTypeOK, Names
  <2>3. Past' = Past
    BY <2>1, PastSame
  <2>4. install.pc = "none" => (guarded' => Guarded(tasks))
    BY <1>1 DEF Kempt, Guarded
  <2>. QED
    BY <1>1, <2>1, <2>2, <2>3, <2>4 DEF Kempt, AllRegistered, Guarded
<1>. QED
  BY <1>3, <1>4

LEMMA KemptKept ==
  ASSUME InstallTypeOK, Kempt, [InstallNext]_installVars PROVE InstallTypeOK' /\ Kempt'
<1>1. CASE \E task \in Watchers \union ToSet(Guards) : CannotRegister(task) \/ Register(task)
  BY <1>1, CannotRegisterKept, RegisterKept DEF Names
<1>2. CASE \E g \in Alone : Single(g)
  BY <1>2, SingleKept
<1>3. CASE RetireOthers
  BY <1>3, RetireKept DEF RetireOthers
<1>4. CASE CutShort
  BY <1>4, CutKept DEF CutShort, InstallTypeOK, Names
<1>5. CASE UNCHANGED installVars
  <2>1. UNCHANGED <<tasks, running, guarded, install, troubles>>
    BY <1>5 DEF installVars
  <2>2. Past' = Past
    BY <2>1, PastSame
  <2>3. InstallTypeOK'
    BY <2>1 DEF InstallTypeOK
  <2>. QED
    BY <2>1, <2>2, <2>3 DEF Kempt, AllRegistered, Guarded
<1>. QED
  BY <1>1, <1>2, <1>3, <1>4, <1>5, BeginKept, RetireLegacyKept, GoingKept, LeaveOutKept, RebootKept
     DEF InstallNext

LEMMA KemptTells == ASSUME InstallTypeOK, Kempt PROVE GapIsTold
<1>1. ASSUME AllRegistered PROVE Past = Asked(Len(Guards))
  BY <1>1, InstallerAssumption DEF AllRegistered, Past, Asked, InstallTypeOK
<1>2. ASSUME install.pc = "done" PROVE "live" \in Past
  <2>1. AllRegistered /\ install.name = "live"
    BY <1>2 DEF Kempt
  <2>2. 0 \in 0..Len(Guards) /\ 0 < install.next /\ Task(0) = "live"
    BY <2>1, InstallerAssumption DEF AllRegistered, Task, InstallTypeOK
  <2>3. "live" \notin install.without
    BY InstallerAssumption DEF InstallTypeOK
  <2>. QED
    BY <2>2, <2>3 DEF Past
<1>3. WatcherGapIsTold
  <2>1. SUFFICES ASSUME guarded, ~Guarded(running), install.pc = "done"
                 PROVE  "live" \in install.unstarted /\ "live" \in tasks
    BY DEF WatcherGapIsTold, Under, Kempt, InstallTypeOK
  <2>2. "live" \notin running
    BY <2>1 DEF Guarded, Enforcing
  <2>. QED
    BY <1>2, <2>1, <2>2 DEF Kempt
<1>4. EndIsComplete
  BY <1>1 DEF Kempt, EndIsComplete
<1>. QED
  BY <1>3, <1>4 DEF GapIsTold

\* What is missing after an install was told, whichever calls fail and wherever it is cut.
THEOREM InstallGapIsTold == InstallSpec => []GapIsTold
<1>1. InstallInit => InstallTypeOK /\ Kempt
  BY InstallTypeInit DEF InstallInit, Kempt
<1>2. InstallTypeOK /\ Kempt /\ [InstallNext]_installVars => (InstallTypeOK /\ Kempt)'
  BY KemptKept
<1>3. InstallTypeOK /\ Kempt => GapIsTold
  BY KemptTells
<1>. QED
  BY <1>1, <1>2, <1>3, PTL DEF InstallSpec

\* The variables have the values InstallTypeOK lists.
THEOREM InstallTypeCorrect == InstallSpec => []InstallTypeOK
<1>1. InstallInit => InstallTypeOK /\ Kempt
  BY InstallTypeInit DEF InstallInit, Kempt
<1>2. InstallTypeOK /\ Kempt /\ [InstallNext]_installVars => (InstallTypeOK /\ Kempt)'
  BY KemptKept
<1>. QED
  BY <1>1, <1>2, PTL DEF InstallSpec
-----------------------------------------------------------------------------
(* The guards of sound: how long an endpoint can be too loud *)

\* What is counted against the loop is an endpoint it is to mind and that is too loud, and what
\* its ceiling lets through can only have come by a file it has not read since.
Grounded(e) ==
  /\ exposed[e] > 0 => TooLoud(e) /\ e \in Wanted
  /\ level[e] <= loop.cap /\ loop.read < ConfigEvery => exposed[e] <= loop.read

\* The loop sleeps for a second unless it starts over, and the two intervals are not used up
\* when it falls asleep.
Rhythm ==
  /\ loop.pc = "pass" =>
       /\ loop.read < ConfigEvery /\ loop.age < ReacquireEvery /\ loop.left \subseteq loop.held
       /\ loop.cap # Off /\ (loop.held = {} => loop.age = 0)
  /\ loop.pc = "asleep" =>
       /\ loop.cap = Off => loop.held = {}
       /\ loop.cap = Off \/ loop.held # {} =>
            loop.wait <= 1 /\ (loop.wait = 1 => loop.read < ConfigEvery)
       /\ loop.held # {} => (loop.wait = 1 => loop.age < ReacquireEvery)

\* Against which interval an endpoint is counted: the back-off when nothing is held, the
\* file's when it is held, the enumeration's when it is not.
Paced(e) ==
  /\ loop.pc = "dead" => exposed[e] = 0
  /\ loop.pc = "pass" =>
       IF e \in loop.left THEN exposed[e] <= Longest
       ELSE exposed[e] <= IF e \in loop.held THEN loop.read ELSE loop.age
  /\ loop.pc = "asleep" =>
       IF loop.cap = Off THEN exposed[e] <= loop.read
       ELSE IF loop.held = {} THEN exposed[e] + loop.wait <= Longest
       ELSE exposed[e] <= IF e \in loop.held THEN loop.read ELSE loop.age

\* The process is a record.
Loops == [pc : {"asleep", "pass", "dead"}, wait : 0..Longest, cap : 0..Off, read : 0..ConfigEvery,
          held : SUBSET Endpoints, age : 0..ReacquireEvery, left : SUBSET Endpoints]

Timed == MediaTypeOK /\ Rhythm /\ \A e \in Endpoints : Grounded(e) /\ Paced(e)

\* The longest wait is a number that none of the three intervals exceeds, nor a back-off that
\* comes at the end of one of the other two.
LEMMA LongestBounds ==
  /\ {ConfigEvery, ReacquireEvery, Retry} \subseteq Nat \ {0} /\ Longest \in Nat
  /\ ConfigEvery <= Longest /\ ReacquireEvery <= Longest /\ Retry <= Longest
  /\ ConfigEvery - 1 + Retry <= Longest /\ ReacquireEvery - 1 + Retry <= Longest
BY MediaAssumption DEF MediaAssumption, Longest

\* A ceiling that is read is a level, or above all of them.
LEMMA CapIsLevel ==
  ASSUME MediaTypeOK
  PROVE  CapOf(config) \in 0..Off /\ (config # "off" => CapOf(config) # Off)
BY SMTT(30) DEF MediaTypeOK, Files, CapOf, DefaultCap, Off, Top

\* The ends of the clocks are on them.
LEMMA ClockEnds ==
  /\ 1 \in 0..Longest /\ Retry \in 0..Longest /\ 0 \in 0..ConfigEvery /\ ConfigEvery \in 0..ConfigEvery
  /\ 0 \in 0..ReacquireEvery /\ ReacquireEvery \in 0..ReacquireEvery
BY LongestBounds

\* A process that falls asleep, drops everything or reads its file remains a process.
LEMMA ProcessSteps ==
  ASSUME NEW l \in Loops
  PROVE  /\ \A n \in 0..Longest : Asleep(l, n) \in Loops
         /\ Dropped(l) \in Loops
         /\ Asleep([l EXCEPT !.held = {}, !.age = ReacquireEvery], 1) \in Loops
         /\ \A cap \in 0..Off : [l EXCEPT !.cap = cap, !.read = 0] \in Loops
<1>1. \A n \in 0..Longest : Asleep(l, n) \in Loops
  BY ZenonT(20) DEF Asleep, Loops
<1>2. [l EXCEPT !.held = {}, !.left = {}, !.age = ReacquireEvery] \in Loops
  BY ClockEnds, ZenonT(20) DEF Loops
<1>3. \A k \in Loops : Asleep(k, Retry) \in Loops
  BY ClockEnds, ZenonT(20) DEF Asleep, Loops
<1>4. Dropped(l) \in Loops
  BY <1>2, <1>3 DEF Dropped
<1>5. [l EXCEPT !.held = {}, !.age = ReacquireEvery] \in Loops
  BY ClockEnds, ZenonT(20) DEF Loops
<1>6. \A k \in Loops : Asleep(k, 1) \in Loops
  BY ClockEnds, ZenonT(20) DEF Asleep, Loops
<1>7. \A cap \in 0..Off : [l EXCEPT !.cap = cap, !.read = 0] \in Loops
  BY ClockEnds, ZenonT(20) DEF Loops
<1> QED  BY <1>1, <1>4, <1>5, <1>6, <1>7

\* What the process knows after it has looked at its file, if it is time.
LEMMA RefreshedProcess ==
  ASSUME MediaTypeOK, loop \in Loops
  PROVE  Refreshed \in Loops
BY CapIsLevel, ProcessSteps DEF Refreshed

\* A ceiling is read from the file, and the lane never changes.
LEMMA CapStays ==
  ASSUME MediaTypeOK, lane' = lane
  PROVE  CapOf(config)' = CapOf(config') /\ CapOf(config) \in Nat
<1>1. CapOf(config)' = CapOf(config')  BY DEF CapOf, DefaultCap
<1> QED  BY <1>1, CapIsLevel DEF Off, Top

\* What a step starts from.
LEMMA TimedParts ==
  ASSUME Timed
  PROVE  /\ MediaTypeOK /\ Rhythm /\ loop \in Loops
         /\ \A d \in Endpoints : Grounded(d) /\ Paced(d) /\ level[d] \in 0..2 /\ exposed[d] \in 0..Longest + 1
BY SMTT(30) DEF Timed, MediaTypeOK, Loops, Top

\* The bound follows: no interval is longer than the longest.
LEMMA TimedIsBounded ==
  ASSUME Timed
  PROVE  LoudBounded
<1> SUFFICES ASSUME NEW e \in Endpoints PROVE exposed[e] <= Longest  BY DEF LoudBounded
<1>1. /\ exposed[e] \in 0..Longest + 1 /\ loop.pc \in {"asleep", "pass", "dead"}
      /\ loop.wait \in 0..Longest /\ loop.read \in 0..ConfigEvery /\ loop.age \in 0..ReacquireEvery
  BY DEF Timed, MediaTypeOK
<1>2. Paced(e)  BY DEF Timed
<1> QED  BY <1>1, <1>2, LongestBounds, SMTT(30) DEF Paced

\* A loop that has just started has not been late.
LEMMA TimedStarts ==
  ASSUME MediaInit
  PROVE  Timed
<1>1. Started \in [pc : {"asleep", "pass", "dead"}, wait : 0..Longest, cap : 0..Off, read : 0..ConfigEvery,
                   held : SUBSET Endpoints, age : 0..ReacquireEvery, left : SUBSET Endpoints]
  BY LongestBounds, SMTT(30) DEF Started, MediaInit, DefaultCap, Off, Top
<1>2. MediaTypeOK  BY <1>1, LongestBounds, MediaAssumption, SMTT(30)
  DEF MediaInit, MediaTypeOK, MediaAssumption, NoFault, Files, Top
<1>3. Rhythm /\ \A e \in Endpoints : Grounded(e) /\ Paced(e)
  BY LongestBounds, SMTT(30) DEF MediaInit, Rhythm, Grounded, Paced, Started, DefaultCap, Off, Top
<1> QED  BY <1>2, <1>3 DEF Timed

\* An endpoint that is left alone was under the ceiling.
LEMMA LeavingKeepsTime ==
  ASSUME Timed, NEW e \in Endpoints, LeaveAlone(e)
  PROVE  Timed'
<1>0. /\ MediaTypeOK /\ Rhythm /\ loop \in Loops
      /\ \A d \in Endpoints : Grounded(d) /\ Paced(d) /\ level[d] \in 0..2 /\ exposed[d] \in 0..Longest + 1
  BY TimedParts
<1>c. CapOf(config)' = CapOf(config') /\ CapOf(config) \in Nat  BY <1>0, CapStays DEF LeaveAlone
<1>1. MediaTypeOK'
  <2>1. loop' \in Loops  BY <1>0, SMTT(30) DEF LeaveAlone, Loops
  <2>2. level' \in [Endpoints -> 0..2]  BY <1>0, SMTT(30) DEF LeaveAlone, MediaTypeOK
  <2>3. exposed' \in [Endpoints -> 0..Longest + 1]  BY <1>0, SMTT(30) DEF LeaveAlone, MediaTypeOK
  <2>4. config' \in Files'  BY <1>0 DEF LeaveAlone, MediaTypeOK, Files
  <2> QED  BY <1>0, <2>4 DEF LeaveAlone, MediaTypeOK
<1>2. Rhythm'  BY <1>0, SMTT(30) DEF LeaveAlone, Rhythm
<1>3. ASSUME NEW d \in Endpoints PROVE Grounded(d)' /\ Paced(d)'
  <2>1. Grounded(d)'
    <3>1. (exposed[d] > 0 => TooLoud(d) /\ d \in Wanted)'
      BY <1>0, <1>c, SMTT(30) DEF LeaveAlone, Grounded, TooLoud, Wanted
    <3>2. (level[d] <= loop.cap /\ loop.read < ConfigEvery => exposed[d] <= loop.read)'
      BY <1>0, SMTT(30) DEF LeaveAlone, Grounded
    <3> QED  BY <3>1, <3>2 DEF Grounded
  <2>2. Paced(d)'  BY <1>0, SMTT(30) DEF LeaveAlone, NeedsSilencing, Grounded, Paced, Rhythm,
                      MediaTypeOK, Top
  <2> QED  BY <2>1, <2>2
<1> QED  BY <1>1, <1>2, <1>3 DEF Timed

\* Silencing starts the count anew.
LEMMA SilencingKeepsTime ==
  ASSUME Timed, NEW e \in Endpoints, Silence(e)
  PROVE  Timed'
<1>0. /\ MediaTypeOK /\ Rhythm /\ loop \in Loops
      /\ \A d \in Endpoints : Grounded(d) /\ Paced(d) /\ level[d] \in 0..2 /\ exposed[d] \in 0..Longest + 1
  BY TimedParts
<1>c. CapOf(config)' = CapOf(config') /\ CapOf(config) \in Nat  BY <1>0, CapStays DEF Silence
<1>1. MediaTypeOK'
  <2>1. loop' \in Loops  BY <1>0, SMTT(30) DEF Silence, Loops
  <2>2. level' \in [Endpoints -> 0..2]  BY <1>0, SMTT(30) DEF Silence, NeedsSilencing,
                                           MediaTypeOK, Top
  <2>3. exposed' \in [Endpoints -> 0..Longest + 1]
    BY <1>0, LongestBounds, SMTT(30) DEF Silence, MediaTypeOK
  <2>4. config' \in Files'  BY <1>0 DEF Silence, MediaTypeOK, Files
  <2> QED  BY <1>0, <2>3, <2>4 DEF Silence, NeedsSilencing, MediaTypeOK, Top
<1>2. Rhythm'  BY <1>0, SMTT(30) DEF Silence, Rhythm
<1>3. ASSUME NEW d \in Endpoints PROVE Grounded(d)' /\ Paced(d)'
  <2>1. Grounded(d)'
    <3>1. (exposed[d] > 0 => TooLoud(d) /\ d \in Wanted)'
      BY <1>0, <1>c, SMTT(30) DEF Silence, Grounded, TooLoud, Wanted, MediaTypeOK
    <3>2. (level[d] <= loop.cap /\ loop.read < ConfigEvery => exposed[d] <= loop.read)'
      BY <1>0, SMTT(30) DEF Silence, Grounded, MediaTypeOK
    <3> QED  BY <3>1, <3>2 DEF Grounded
  <2>2. Paced(d)'  BY <1>0, SMTT(30) DEF Silence, Current, Paced, MediaTypeOK
  <2> QED  BY <2>1, <2>2
<1> QED  BY <1>1, <1>2, <1>3 DEF Timed

\* A pass that fails starts it anew for those it has not reached.
LEMMA FailingKeepsTime ==
  ASSUME Timed, NEW e \in Endpoints, PassFails(e)
  PROVE  Timed'
<1>0. /\ MediaTypeOK /\ Rhythm /\ loop \in Loops
      /\ \A d \in Endpoints : Grounded(d) /\ Paced(d) /\ level[d] \in 0..2 /\ exposed[d] \in 0..Longest + 1
  BY TimedParts
<1>c. CapOf(config)' = CapOf(config') /\ CapOf(config) \in Nat  BY <1>0, CapStays DEF PassFails
<1>l. \A d \in Endpoints : level'[d] = level[d] \/ (d = e /\ d \in loop.left)
  BY <1>0, SMTT(30) DEF PassFails, Current, MediaTypeOK
<1>1. MediaTypeOK'
  <2>1. loop' \in Loops  BY <1>0, ProcessSteps DEF PassFails
  <2>2. level' \in [Endpoints -> 0..2]  BY <1>0, SMTT(30) DEF PassFails, MediaTypeOK
  <2>3. exposed' \in [Endpoints -> 0..Longest + 1]
    BY <1>0, LongestBounds, SMTT(30) DEF PassFails
  <2>4. config' \in Files'  BY <1>0 DEF PassFails, MediaTypeOK, Files
  <2> QED  BY <1>0, <2>1, <2>3, <2>4 DEF PassFails, MediaTypeOK, Loops, Top
<1>2. Rhythm'  BY <1>0, SMTT(30) DEF PassFails, Dropped, Asleep, Current, Rhythm
<1>3. ASSUME NEW d \in Endpoints PROVE Grounded(d)' /\ Paced(d)'
  <2>1. Grounded(d)'
    <3>1. (exposed[d] > 0 => TooLoud(d) /\ d \in Wanted)'  
      BY <1>0, <1>c, <1>l, SMTT(30) DEF PassFails, Grounded, TooLoud, Wanted
    <3>2. (level[d] <= loop.cap /\ loop.read < ConfigEvery => exposed[d] <= loop.read)'
      BY <1>0, <1>l, SMTT(30) DEF PassFails, Dropped, Asleep, Grounded, MediaTypeOK
    <3> QED  BY <3>1, <3>2 DEF Grounded
  <2>2. Paced(d)'  BY <1>0, LongestBounds, SMTT(30) DEF PassFails, Dropped, Asleep, Current,
                      Paced, Rhythm, MediaTypeOK
  <2> QED  BY <2>1, <2>2
<1> QED  BY <1>1, <1>2, <1>3 DEF Timed

\* At its end the loop has been over all it holds.
LEMMA PassEndKeepsTime ==
  ASSUME Timed, PassEnds
  PROVE  Timed'
<1>0. /\ MediaTypeOK /\ Rhythm /\ loop \in Loops
      /\ \A d \in Endpoints : Grounded(d) /\ Paced(d) /\ level[d] \in 0..2 /\ exposed[d] \in 0..Longest + 1
  BY TimedParts
<1>c. CapOf(config)' = CapOf(config') /\ CapOf(config) \in Nat  BY <1>0, CapStays DEF PassEnds
<1>1. MediaTypeOK'
  <2>1. loop' \in Loops  BY <1>0, ProcessSteps, ClockEnds DEF PassEnds
  <2>2. level' \in [Endpoints -> 0..2]  BY <1>0, SMTT(30) DEF PassEnds, MediaTypeOK
  <2>3. exposed' \in [Endpoints -> 0..Longest + 1]  BY <1>0, SMTT(30) DEF PassEnds, MediaTypeOK
  <2>4. config' \in Files'  BY <1>0 DEF PassEnds, MediaTypeOK, Files
  <2> QED  BY <1>0, <2>1, <2>4 DEF PassEnds, MediaTypeOK, Loops
<1>2. Rhythm'  BY <1>0, SMTT(30) DEF PassEnds, Asleep, Rhythm
<1>3. ASSUME NEW d \in Endpoints PROVE Grounded(d)' /\ Paced(d)'
  <2>1. Grounded(d)'
    <3>1. (exposed[d] > 0 => TooLoud(d) /\ d \in Wanted)'
      BY <1>0, <1>c, SMTT(30) DEF PassEnds, Grounded, TooLoud, Wanted
    <3>2. (level[d] <= loop.cap /\ loop.read < ConfigEvery => exposed[d] <= loop.read)'
      BY <1>0, SMTT(30) DEF PassEnds, Asleep, Grounded
    <3> QED  BY <3>1, <3>2 DEF Grounded
  <2>2. Paced(d)'  BY <1>0, LongestBounds, SMTT(30) DEF PassEnds, Asleep, Paced, Rhythm
  <2> QED  BY <2>1, <2>2
<1> QED  BY <1>1, <1>2, <1>3 DEF Timed

\* A loop that has read that nothing is capped stands down.
LEMMA StandDownKeepsTime ==
  ASSUME Timed, StandDown
  PROVE  Timed'
<1>0. /\ MediaTypeOK /\ Rhythm /\ loop \in Loops
      /\ \A d \in Endpoints : Grounded(d) /\ Paced(d) /\ level[d] \in 0..2 /\ exposed[d] \in 0..Longest + 1
  BY TimedParts
<1>c. CapOf(config)' = CapOf(config') /\ CapOf(config) \in Nat  BY <1>0, CapStays DEF StandDown
<1>1. MediaTypeOK'
  <2>1. loop' \in Loops  BY <1>0, RefreshedProcess, ProcessSteps DEF StandDown
  <2>2. level' \in [Endpoints -> 0..2]  BY <1>0, SMTT(30) DEF StandDown, MediaTypeOK
  <2>3. exposed' \in [Endpoints -> 0..Longest + 1]  BY <1>0, SMTT(30) DEF StandDown, MediaTypeOK
  <2>4. config' \in Files'  BY <1>0 DEF StandDown, MediaTypeOK, Files
  <2> QED  BY <1>0, <2>1, <2>4 DEF StandDown, MediaTypeOK, Loops
<1>2. Rhythm'  BY <1>0, LongestBounds, SMTT(30) DEF StandDown, Asleep, Refreshed, Rhythm, Loops
<1>3. ASSUME NEW d \in Endpoints PROVE Grounded(d)' /\ Paced(d)'
  <2>1. Grounded(d)'
    <3>1. (exposed[d] > 0 => TooLoud(d) /\ d \in Wanted)'
      BY <1>0, <1>c, SMTT(30) DEF StandDown, Grounded, TooLoud, Wanted
    <3>2. (level[d] <= loop.cap /\ loop.read < ConfigEvery => exposed[d] <= loop.read)'
      BY <1>0, SMTT(30) DEF StandDown, Asleep, Refreshed, Grounded, TooLoud, Off, Top
    <3> QED  BY <3>1, <3>2 DEF Grounded
  <2>2. Paced(d)'  BY <1>0, SMTT(30) DEF StandDown, Asleep, Refreshed, Grounded, Paced, Rhythm,
                      TooLoud, MediaTypeOK, Off, Top
  <2> QED  BY <2>1, <2>2
<1> QED  BY <1>1, <1>2, <1>3 DEF Timed

\* What is enumerated or still held is about to be passed over.
LEMMA OpenKeepsTime ==
  ASSUME Timed, OpenOrKeep
  PROVE  Timed'
<1>0. /\ MediaTypeOK /\ Rhythm /\ loop \in Loops
      /\ \A d \in Endpoints : Grounded(d) /\ Paced(d) /\ level[d] \in 0..2 /\ exposed[d] \in 0..Longest + 1
  BY TimedParts
<1>z. CapOf(config) \in 0..Off  BY <1>0, CapIsLevel
<1>c. CapOf(config)' = CapOf(config') /\ CapOf(config) \in Nat  BY <1>0, CapStays DEF OpenOrKeep
<1>1. MediaTypeOK'
  <2>1. loop' \in Loops
    <3>1. Refreshed \in Loops /\ loop.held \in SUBSET Endpoints /\ Wanted \in SUBSET Endpoints
      BY <1>0, RefreshedProcess DEF Wanted, MediaTypeOK
    <3> QED  BY <3>1, ClockEnds DEF OpenOrKeep, Loops
  <2>2. level' \in [Endpoints -> 0..2]  BY <1>0, SMTT(30) DEF OpenOrKeep, MediaTypeOK
  <2>3. exposed' \in [Endpoints -> 0..Longest + 1]  BY <1>0, SMTT(30) DEF OpenOrKeep, MediaTypeOK
  <2>4. config' \in Files'  BY <1>0 DEF OpenOrKeep, MediaTypeOK, Files
  <2> QED  BY <1>0, <2>1, <2>4 DEF OpenOrKeep, MediaTypeOK, Loops
<1>2. Rhythm'  BY <1>0, LongestBounds, SMTT(30) DEF OpenOrKeep, Due, Refreshed, Rhythm, Loops
<1>3. ASSUME NEW d \in Endpoints PROVE Grounded(d)' /\ Paced(d)'
  <2>1. Grounded(d)'
    <3>1. (exposed[d] > 0 => TooLoud(d) /\ d \in Wanted)'
      BY <1>0, <1>c, SMTT(30) DEF OpenOrKeep, Grounded, TooLoud, Wanted
    <3>2. (level[d] <= loop.cap /\ loop.read < ConfigEvery => exposed[d] <= loop.read)'
      BY <1>0, <1>z, SMTT(30) DEF OpenOrKeep, Refreshed, Grounded, TooLoud
    <3> QED  BY <3>1, <3>2 DEF Grounded
  <2>2. Paced(d)'  BY <1>0, LongestBounds, SMTT(30) DEF OpenOrKeep, Due, Refreshed, Grounded,
                      Paced, Rhythm, MediaTypeOK
  <2> QED  BY <2>1, <2>2
<1> QED  BY <1>1, <1>2, <1>3 DEF Timed

\* What cannot be enumerated is in the way.
LEMMA NoOpenKeepsTime ==
  ASSUME Timed, CannotOpen
  PROVE  Timed'
<1>0. /\ MediaTypeOK /\ Rhythm /\ loop \in Loops
      /\ \A d \in Endpoints : Grounded(d) /\ Paced(d) /\ level[d] \in 0..2 /\ exposed[d] \in 0..Longest + 1
  BY TimedParts
<1>1. MediaTypeOK'
  <2>1. loop' \in Loops  BY <1>0, RefreshedProcess, ProcessSteps DEF CannotOpen
  <2>2. level' \in [Endpoints -> 0..2]  BY <1>0, SMTT(30) DEF CannotOpen, MediaTypeOK
  <2>3. exposed' \in [Endpoints -> 0..Longest + 1]
    BY LongestBounds, SMTT(30) DEF CannotOpen, Excused
  <2>4. config' \in Files'  BY <1>0 DEF CannotOpen, MediaTypeOK, Files
  <2> QED  BY <1>0, <2>1, <2>3, <2>4 DEF CannotOpen, MediaTypeOK, Loops
<1>2. Rhythm'  BY SMTT(30) DEF CannotOpen, Dropped, Asleep, Rhythm
<1>3. ASSUME NEW d \in Endpoints PROVE Grounded(d)' /\ Paced(d)'
  <2>1. Grounded(d)'
    <3>1. (exposed[d] > 0 => TooLoud(d) /\ d \in Wanted)'  BY SMTT(30) DEF CannotOpen, Excused
    <3>2. (level[d] <= loop.cap /\ loop.read < ConfigEvery => exposed[d] <= loop.read)'
      BY <1>0, SMTT(30) DEF CannotOpen, Dropped, Excused, Asleep, Refreshed, MediaTypeOK
    <3> QED  BY <3>1, <3>2 DEF Grounded
  <2>2. Paced(d)'  BY LongestBounds, SMTT(30) DEF CannotOpen, Dropped, Excused, Asleep, Paced
  <2> QED  BY <2>1, <2>2
<1> QED  BY <1>1, <1>2, <1>3 DEF Timed

\* A second is counted by the loop's clocks, too.
LEMMA SecondKeepsTime ==
  ASSUME Timed, Second
  PROVE  Timed'
<1>0. /\ MediaTypeOK /\ Rhythm /\ loop \in Loops
      /\ \A d \in Endpoints : Grounded(d) /\ Paced(d) /\ level[d] \in 0..2 /\ exposed[d] \in 0..Longest + 1
  BY TimedParts
<1>c. CapOf(config)' = CapOf(config') /\ CapOf(config) \in Nat  BY <1>0, CapStays DEF Second
<1>1. MediaTypeOK'
  <2>1. loop' \in Loops
    <3>1. /\ loop.wait - 1 \in 0..Longest
          /\ (IF loop.read < ConfigEvery THEN loop.read + 1 ELSE loop.read) \in 0..ConfigEvery
          /\ (IF loop.age < ReacquireEvery THEN loop.age + 1 ELSE loop.age) \in 0..ReacquireEvery
      BY <1>0, LongestBounds DEF Second, Loops
    <3> QED  BY <1>0, <3>1 DEF Second, Loops
  <2>2. level' \in [Endpoints -> 0..2]  BY <1>0, SMTT(30) DEF Second, MediaTypeOK
  <2>3. exposed' \in [Endpoints -> 0..Longest + 1]  BY <1>0, LongestBounds, SMTT(30) DEF Second
  <2>4. config' \in Files'  BY <1>0 DEF Second, MediaTypeOK, Files
  <2> QED  BY <1>0, <2>1, <2>3, <2>4 DEF Second, MediaTypeOK, Loops
<1>2. Rhythm'  BY <1>0, SMTT(30) DEF Second, Rhythm, Loops
<1>3. ASSUME NEW d \in Endpoints PROVE Grounded(d)' /\ Paced(d)'
  <2>1. Grounded(d)'
    <3>1. (exposed[d] > 0 => TooLoud(d) /\ d \in Wanted)'
      BY <1>c, SMTT(30) DEF Second, Minded, TooLoud, Wanted
    <3>2. (level[d] <= loop.cap /\ loop.read < ConfigEvery => exposed[d] <= loop.read)'
      BY <1>0, SMTT(30) DEF Second, Grounded, MediaTypeOK
    <3> QED  BY <3>1, <3>2 DEF Grounded
  <2>2. Paced(d)'  BY <1>0, LongestBounds, SMTT(30) DEF Second, Paced, Rhythm, MediaTypeOK
  <2> QED  BY <2>1, <2>2
<1> QED  BY <1>1, <1>2, <1>3 DEF Timed

\* A pass by hand only lowers.
LEMMA OnceKeepsTime ==
  ASSUME Timed, Once
  PROVE  Timed'
<1>0. /\ MediaTypeOK /\ Rhythm /\ loop \in Loops
      /\ \A d \in Endpoints : Grounded(d) /\ Paced(d) /\ level[d] \in 0..2 /\ exposed[d] \in 0..Longest + 1
  BY TimedParts
<1>c. CapOf(config)' = CapOf(config') /\ CapOf(config) \in Nat  BY <1>0, CapStays DEF Once
<1>1. MediaTypeOK'
  <2>1. loop' \in Loops  BY <1>0, SMTT(30) DEF Once
  <2>2. level' \in [Endpoints -> 0..2]
    <3>1. CapOf(config) \in 0..2  BY <1>c, SMTT(30) DEF Once, Top
    <3> QED  BY <1>0, <3>1, SMTT(30) DEF Once
  <2>3. exposed' \in [Endpoints -> 0..Longest + 1]  BY <1>0, LongestBounds, SMTT(30) DEF Once
  <2>4. config' \in Files'  BY <1>0 DEF Once, MediaTypeOK, Files
  <2> QED  BY <1>0, <2>2, <2>3, <2>4 DEF Once, MediaTypeOK, Top
<1>2. Rhythm'  BY <1>0, SMTT(30) DEF Once, Rhythm
<1>3. ASSUME NEW d \in Endpoints PROVE Grounded(d)' /\ Paced(d)'
  <2>1. Grounded(d)'
    <3>1. (exposed[d] > 0 => TooLoud(d) /\ d \in Wanted)'
      BY <1>0, <1>c, SMTT(30) DEF Once, Grounded, TooLoud, Wanted
    <3>2. (level[d] <= loop.cap /\ loop.read < ConfigEvery => exposed[d] <= loop.read)'
      BY <1>0, SMTT(30) DEF Once, Grounded, MediaTypeOK
    <3> QED  BY <3>1, <3>2 DEF Grounded
  <2>2. Paced(d)'  BY <1>0, LongestBounds, SMTT(30) DEF Once, Paced, MediaTypeOK
  <2> QED  BY <2>1, <2>2
<1> QED  BY <1>1, <1>2, <1>3 DEF Timed

\* The level of what is above its ceiling only rises.
LEMMA TurnUpKeepsTime ==
  ASSUME Timed, NEW e \in Endpoints, TurnUp(e)
  PROVE  Timed'
<1>0. /\ MediaTypeOK /\ Rhythm /\ loop \in Loops
      /\ \A d \in Endpoints : Grounded(d) /\ Paced(d) /\ level[d] \in 0..2 /\ exposed[d] \in 0..Longest + 1
  BY TimedParts
<1>c. CapOf(config)' = CapOf(config') /\ CapOf(config) \in Nat  BY <1>0, CapStays DEF TurnUp
<1>1. MediaTypeOK'
  <2>1. loop' \in Loops  BY <1>0, SMTT(30) DEF TurnUp
  <2>2. level' \in [Endpoints -> 0..2]  BY <1>0, SMTT(30) DEF TurnUp, MediaTypeOK, Top
  <2>3. exposed' \in [Endpoints -> 0..Longest + 1]  BY <1>0, SMTT(30) DEF TurnUp, MediaTypeOK
  <2>4. config' \in Files'  BY <1>0 DEF TurnUp, MediaTypeOK, Files
  <2> QED  BY <1>0, <2>4 DEF TurnUp, MediaTypeOK
<1>2. Rhythm'  BY <1>0, SMTT(30) DEF TurnUp, Rhythm
<1>3. ASSUME NEW d \in Endpoints PROVE Grounded(d)' /\ Paced(d)'
  <2>1. Grounded(d)'
    <3>1. (exposed[d] > 0 => TooLoud(d) /\ d \in Wanted)'
      BY <1>0, <1>c, SMTT(30) DEF TurnUp, Grounded, TooLoud, Wanted
    <3>2. (level[d] <= loop.cap /\ loop.read < ConfigEvery => exposed[d] <= loop.read)'
      BY <1>0, SMTT(30) DEF TurnUp, Grounded, MediaTypeOK
    <3> QED  BY <3>1, <3>2 DEF Grounded
  <2>2. Paced(d)'  BY <1>0, SMTT(30) DEF TurnUp, Paced
  <2> QED  BY <2>1, <2>2
<1> QED  BY <1>1, <1>2, <1>3 DEF Timed

\* A device that comes has not been counted.
LEMMA ReplugKeepsTime ==
  ASSUME Timed, Replug
  PROVE  Timed'
<1>0. /\ MediaTypeOK /\ Rhythm /\ loop \in Loops
      /\ \A d \in Endpoints : Grounded(d) /\ Paced(d) /\ level[d] \in 0..2 /\ exposed[d] \in 0..Longest + 1
  BY TimedParts
<1>c. CapOf(config)' = CapOf(config') /\ CapOf(config) \in Nat  BY <1>0, CapStays DEF Replug
<1>1. MediaTypeOK'
  <2>1. loop' \in Loops  BY <1>0, SMTT(30) DEF Replug
  <2>2. level' \in [Endpoints -> 0..2]  BY <1>0, SMTT(30) DEF Replug, MediaTypeOK
  <2>3. exposed' \in [Endpoints -> 0..Longest + 1]  BY <1>0, LongestBounds, SMTT(30) DEF Replug
  <2>4. config' \in Files'  BY <1>0 DEF Replug, MediaTypeOK, Files
  <2> QED  BY <1>0, <2>3, <2>4, MediaAssumption DEF Replug, Upset, MediaTypeOK
<1>2. Rhythm'  BY <1>0, SMTT(30) DEF Replug, Rhythm
<1>3. ASSUME NEW d \in Endpoints PROVE Grounded(d)' /\ Paced(d)'
  <2>1. Grounded(d)'
    <3>1. (exposed[d] > 0 => TooLoud(d) /\ d \in Wanted)'
      BY <1>0, <1>c, SMTT(30) DEF Replug, Grounded, TooLoud, Wanted
    <3>2. (level[d] <= loop.cap /\ loop.read < ConfigEvery => exposed[d] <= loop.read)'
      BY <1>0, SMTT(30) DEF Replug, Grounded, MediaTypeOK
    <3> QED  BY <3>1, <3>2 DEF Grounded
  <2>2. Paced(d)'  BY <1>0, LongestBounds, SMTT(30) DEF Replug, Paced, MediaTypeOK
  <2> QED  BY <2>1, <2>2
<1> QED  BY <1>1, <1>2, <1>3 DEF Timed

\* A fault does not count.
LEMMA BreakKeepsTime ==
  ASSUME Timed, Break
  PROVE  Timed'
<1>0. /\ MediaTypeOK /\ Rhythm /\ loop \in Loops
      /\ \A d \in Endpoints : Grounded(d) /\ Paced(d) /\ level[d] \in 0..2 /\ exposed[d] \in 0..Longest + 1
  BY TimedParts
<1>c. CapOf(config)' = CapOf(config') /\ CapOf(config) \in Nat  BY <1>0, CapStays DEF Break
<1>1. MediaTypeOK'
  <2>1. loop' \in Loops  BY <1>0, SMTT(30) DEF Break
  <2>2. level' \in [Endpoints -> 0..2]  BY <1>0, SMTT(30) DEF Break, MediaTypeOK
  <2>3. exposed' \in [Endpoints -> 0..Longest + 1]  BY <1>0, SMTT(30) DEF Break, MediaTypeOK
  <2>4. config' \in Files'  BY <1>0 DEF Break, MediaTypeOK, Files
  <2> QED  BY <1>0, <2>4, MediaAssumption DEF Break, Upset, MediaTypeOK
<1>2. Rhythm'  BY <1>0, SMTT(30) DEF Break, Rhythm
<1>3. ASSUME NEW d \in Endpoints PROVE Grounded(d)' /\ Paced(d)'
  <2>1. Grounded(d)'
    <3>1. (exposed[d] > 0 => TooLoud(d) /\ d \in Wanted)'
      BY <1>0, <1>c, SMTT(30) DEF Break, Grounded, TooLoud, Wanted
    <3>2. (level[d] <= loop.cap /\ loop.read < ConfigEvery => exposed[d] <= loop.read)'
      BY <1>0, SMTT(30) DEF Break, Grounded
    <3> QED  BY <3>1, <3>2 DEF Grounded
  <2>2. Paced(d)'  BY <1>0, SMTT(30) DEF Break, Paced
  <2> QED  BY <2>1, <2>2
<1> QED  BY <1>1, <1>2, <1>3 DEF Timed

\* A new ceiling counts from its writing.
LEMMA EditKeepsTime ==
  ASSUME Timed, Edit
  PROVE  Timed'
<1>0. /\ MediaTypeOK /\ Rhythm /\ loop \in Loops
      /\ \A d \in Endpoints : Grounded(d) /\ Paced(d) /\ level[d] \in 0..2 /\ exposed[d] \in 0..Longest + 1
  BY TimedParts
<1>c. CapOf(config)' = CapOf(config') /\ CapOf(config) \in Nat  BY <1>0, CapStays DEF Edit
<1>1. MediaTypeOK'
  <2>1. loop' \in Loops  BY <1>0, SMTT(30) DEF Edit
  <2>2. level' \in [Endpoints -> 0..2]  BY <1>0, SMTT(30) DEF Edit, MediaTypeOK
  <2>3. exposed' \in [Endpoints -> 0..Longest + 1]  BY <1>0, LongestBounds, SMTT(30) DEF Edit
  <2>4. config' \in Files'  BY <1>0 DEF Edit, Files
  <2> QED  BY <1>0, <2>3, <2>4, MediaAssumption DEF Edit, Upset, MediaTypeOK
<1>2. Rhythm'  BY <1>0, SMTT(30) DEF Edit, Rhythm
<1>3. ASSUME NEW d \in Endpoints PROVE Grounded(d)' /\ Paced(d)'
  <2>1. Grounded(d)'
    <3>1. (exposed[d] > 0 => TooLoud(d) /\ d \in Wanted)'
      BY <1>0, <1>c, SMTT(30) DEF Edit, Grounded, TooLoud, Wanted
    <3>2. (level[d] <= loop.cap /\ loop.read < ConfigEvery => exposed[d] <= loop.read)'
      BY <1>0, SMTT(30) DEF Edit, Grounded, MediaTypeOK
    <3> QED  BY <3>1, <3>2 DEF Grounded
  <2>2. Paced(d)'  BY <1>0, LongestBounds, SMTT(30) DEF Edit, Paced, MediaTypeOK
  <2> QED  BY <2>1, <2>2
<1> QED  BY <1>1, <1>2, <1>3 DEF Timed

\* Without a process nothing is counted.
LEMMA DieKeepsTime ==
  ASSUME Timed, Die
  PROVE  Timed'
<1>0. /\ MediaTypeOK /\ Rhythm /\ loop \in Loops
      /\ \A d \in Endpoints : Grounded(d) /\ Paced(d) /\ level[d] \in 0..2 /\ exposed[d] \in 0..Longest + 1
  BY TimedParts
<1>1. MediaTypeOK'
  <2>1. loop' \in Loops  BY LongestBounds, SMTT(30) DEF Die, Started, DefaultCap, Loops, Off, Top
  <2>2. level' \in [Endpoints -> 0..2]  BY <1>0, SMTT(30) DEF Die, MediaTypeOK
  <2>3. exposed' \in [Endpoints -> 0..Longest + 1]  BY LongestBounds, SMTT(30) DEF Die, Excused
  <2>4. config' \in Files'  BY <1>0 DEF Die, MediaTypeOK, Files
  <2> QED  BY <1>0, <2>1, <2>3, <2>4, MediaAssumption DEF Die, Upset, MediaTypeOK, Loops
<1>2. Rhythm'  BY SMTT(30) DEF Die, Rhythm
<1>3. ASSUME NEW d \in Endpoints PROVE Grounded(d)' /\ Paced(d)'
  <2>1. Grounded(d)'
    <3>1. (exposed[d] > 0 => TooLoud(d) /\ d \in Wanted)'  BY SMTT(30) DEF Die, Excused
    <3>2. (level[d] <= loop.cap /\ loop.read < ConfigEvery => exposed[d] <= loop.read)'
      BY LongestBounds, SMTT(30) DEF Die, Started
    <3> QED  BY <3>1, <3>2 DEF Grounded
  <2>2. Paced(d)'  BY SMTT(30) DEF Die, Excused, Paced
  <2> QED  BY <2>1, <2>2
<1> QED  BY <1>1, <1>2, <1>3 DEF Timed

\* A process that starts reads and enumerates at once.
LEMMA ReviveKeepsTime ==
  ASSUME Timed, Revive
  PROVE  Timed'
<1>0. /\ MediaTypeOK /\ Rhythm /\ loop \in Loops
      /\ \A d \in Endpoints : Grounded(d) /\ Paced(d) /\ level[d] \in 0..2 /\ exposed[d] \in 0..Longest + 1
  BY TimedParts
<1>c. CapOf(config)' = CapOf(config') /\ CapOf(config) \in Nat  BY <1>0, CapStays DEF Revive
<1>1. MediaTypeOK'
  <2>1. loop' \in Loops  BY LongestBounds, SMTT(30) DEF Revive, Started, DefaultCap, Loops, Off,
                            Top
  <2>2. level' \in [Endpoints -> 0..2]  BY <1>0, SMTT(30) DEF Revive, MediaTypeOK
  <2>3. exposed' \in [Endpoints -> 0..Longest + 1]  BY <1>0, SMTT(30) DEF Revive, MediaTypeOK
  <2>4. config' \in Files'  BY <1>0 DEF Revive, MediaTypeOK, Files
  <2> QED  BY <1>0, <2>1, <2>4 DEF Revive, MediaTypeOK, Loops
<1>2. Rhythm'  BY SMTT(30) DEF Revive, Started, Rhythm
<1>3. ASSUME NEW d \in Endpoints PROVE Grounded(d)' /\ Paced(d)'
  <2>1. Grounded(d)'
    <3>1. (exposed[d] > 0 => TooLoud(d) /\ d \in Wanted)'
      BY <1>0, <1>c, SMTT(30) DEF Revive, Grounded, TooLoud, Wanted
    <3>2. (level[d] <= loop.cap /\ loop.read < ConfigEvery => exposed[d] <= loop.read)'
      BY LongestBounds, SMTT(30) DEF Revive, Started
    <3> QED  BY <3>1, <3>2 DEF Grounded
  <2>2. Paced(d)'  BY <1>0, LongestBounds, SMTT(30) DEF Revive, Started, Paced
  <2> QED  BY <2>1, <2>2
<1> QED  BY <1>1, <1>2, <1>3 DEF Timed

\* Each step keeps time.
LEMMA TimedStep ==
  ASSUME Timed, MediaNext
  PROVE  Timed'
<1>1. CASE Work  BY <1>1, StandDownKeepsTime, OpenKeepsTime, NoOpenKeepsTime, LeavingKeepsTime,
                    SilencingKeepsTime, FailingKeepsTime, PassEndKeepsTime, ReviveKeepsTime,
                    SecondKeepsTime DEF Work
<1>2. CASE Once  BY <1>2, OnceKeepsTime
<1>3. CASE Replug \/ Break \/ Edit \/ Die
  BY <1>3, ReplugKeepsTime, BreakKeepsTime, EditKeepsTime, DieKeepsTime
<1>4. ASSUME NEW e \in Endpoints, TurnUp(e) PROVE Timed'  BY <1>4, TurnUpKeepsTime
<1> QED  BY <1>1, <1>2, <1>3, <1>4 DEF MediaNext

\* A step that changes nothing keeps time.
LEMMA TimedStutter ==
  ASSUME Timed, UNCHANGED mediaVars
  PROVE  Timed'
BY DEF Timed, MediaTypeOK, Rhythm, Grounded, Paced, TooLoud, Wanted, CapOf, DefaultCap, Files,
   mediaVars

\* However long the loop's three intervals are, whatever devices there are and whatever is done
\* to them: an endpoint in whose way nothing is has never been too loud for longer than the
\* longest of the three.
THEOREM SilenceIsPrompt == MediaSpec => []LoudBounded
<1>1. Timed /\ [MediaNext]_mediaVars => Timed'  BY TimedStep, TimedStutter
<1> QED  BY <1>1, TimedStarts, TimedIsBounded, PTL DEF MediaSpec

\* The guard's variables have the values MediaTypeOK lists: no clock runs past its interval, and
\* what is left of a pass is always some of the endpoints.
THEOREM SoundTypeCorrect == MediaSpec => []MediaTypeOK
<1>1. Timed /\ [MediaNext]_mediaVars => Timed'  BY TimedStep, TimedStutter
<1>2. Timed => MediaTypeOK  BY DEF Timed
<1> QED  BY <1>1, <1>2, TimedStarts, PTL DEF MediaSpec
=============================================================================
