--------------------------- MODULE CleanupSession ---------------------------
(***************************************************************************)
(* The Play Games cleanup tool: one game after the other, a question for   *)
(* each, three steps in the client's window (its menu, Uninstall, confirm) *)
(* that are automated or, when they miss, left to the parent, and a        *)
(* verdict on what became of the game.                                     *)
(*                                                                         *)
(* The client's window is external and may do anything a click allows: it  *)
(* may be there before the tool, with a menu or a dialog an earlier run or *)
(* somebody else left open, one may be opened at any time, a click may do  *)
(* nothing, the library may be unreadable or show only some of its tiles,  *)
(* and the guard closes the client when the parent's unlock runs out.      *)
(***************************************************************************)
EXTENDS Naturals, FiniteSets

CONSTANT Games

VARIABLES
  installed,   \* the games in the Android VM
  listed,      \* those of the games that Windows lists under the same name
  unlocked,    \* is the guard disabled, or has its unlock time left?
  client,      \* is the client's window there, and what is open in it?
  session,     \* the tool: its place, its game and what it remembers of it
  answered,    \* games the parent typed a "y" for
  invoked,     \* games whose uninstall the tool itself confirmed
  strange,     \* games whose menu or dialog was opened, but not for this run's question
  skipped,     \* games whose key a walk over the registry passed over
  results      \* the verdict on each game

cleanupVars ==
  <<installed, listed, unlocked, client, session, answered, invoked, strange, skipped, results>>

NoGame == "no game"
Closed == [up |-> FALSE, menu |-> NoGame, dialog |-> NoGame]
Verdicts == {"-", "not offered", "skipped", "aborted", "dry-run", "not attempted", "left", "shrank", "not verified"}
SessionAt(pc) == session.pc = pc

\* Games with a menu or a dialog open.
Open(c) == {c.menu, c.dialog} \ {NoGame}

Windows == [up : BOOLEAN, menu : Games \union {NoGame}, dialog : Games \union {NoGame}]

CleanupInit ==
  /\ installed = Games /\ listed \in SUBSET Games /\ unlocked \in BOOLEAN
  /\ client \in {c \in Windows : c.up \/ c = Closed} /\ strange = Open(client) /\ skipped = {}
  /\ session = [pc |-> "start", game |-> NoGame, dry |-> FALSE, known |-> FALSE, seen |-> FALSE]
  /\ answered = {} /\ invoked = {} /\ results = [g \in Games |-> "not offered"]

Goto(pc) == session' = [session EXCEPT !.pc = pc]
Recorded(verdict, pc) ==
  /\ results' = [results EXCEPT ![session.game] = verdict]
  /\ Goto(pc)
-----------------------------------------------------------------------------
\* guard.check: a file that is missing or damaged, or an unlock without time, means enforcing.
GuardSays == {unlocked, FALSE}

\* One that runs is taken as it is, whatever is open in it; one that does not may not start.
Attach(starts) == [client EXCEPT !.up = @ \/ starts]

\* The guard is asked before anything is launched.
Launch ==
  /\ SessionAt("start")
  /\ \E dry \in BOOLEAN :
       \/ /\ TRUE \in GuardSays /\ \E starts \in BOOLEAN : client' = Attach(starts)
          /\ session' = [session EXCEPT !.dry = dry, !.pc = IF client'.up THEN "choose" ELSE "over"]
       \/ /\ FALSE \in GuardSays /\ UNCHANGED client
          /\ session' = [session EXCEPT !.dry = dry, !.pc = "over"]
  /\ UNCHANGED <<installed, listed, unlocked, answered, invoked, strange, skipped, results>>

\* The games are the tiles of the library, the games Windows lists, or, when the first cannot be
\* read and the second is not wanted, the names the parent types: any games.  With --list-only
\* that is all.
Choose ==
  /\ SessionAt("choose")
  /\ \/ Goto("over") /\ UNCHANGED results
     \/ \E games \in SUBSET Games :
          /\ results' = [g \in Games |-> IF g \in games THEN "-" ELSE results[g]]
          /\ Goto("next")
  /\ client' \in {client, [client EXCEPT !.menu = NoGame]}
  /\ UNCHANGED <<installed, listed, unlocked, answered, invoked, strange, skipped>>

NextGame(g) ==
  /\ SessionAt("next") /\ results[g] = "-"
  /\ \/ /\ TRUE \in GuardSays
        /\ session' = [session EXCEPT !.game = g, !.pc = "prompt"] /\ UNCHANGED results
     \/ /\ FALSE \in GuardSays
        /\ session' = [session EXCEPT !.game = g, !.pc = "over"]
        /\ results' = [results EXCEPT ![g] = "not attempted"]
  /\ UNCHANGED <<installed, listed, unlocked, client, answered, invoked, strange, skipped>>

\* Mutant of ParseChoice: Enter alone means yes.
ParseChoiceDefault(text) == IF text = "other" THEN "y" ELSE text

\* y, s or q, in whatever spelling; anything else is asked again.
ParseChoice(text) == text

\* What a walk over the registry says of a game Windows lists: a key that cannot be opened, or
\* that moved during the walk, is passed over.
Listing(g) == IF g \in listed \intersect installed THEN {TRUE, FALSE} ELSE {FALSE}

\* A walk that said so may have passed g over.
Walked(g, said) ==
  skipped' = IF g \in listed \intersect installed /\ ~said THEN skipped \union {g} ELSE skipped

PromptAnswered(text) ==
  /\ SessionAt("prompt")
  /\ answered' = IF text = "y" THEN answered \union {session.game} ELSE answered
  /\ CASE ParseChoice(text) = "q" -> Goto("over") /\ UNCHANGED <<results, skipped>>
       [] ParseChoice(text) = "s" -> Recorded("skipped", "next") /\ UNCHANGED skipped
       [] ParseChoice(text) = "y" /\ session.dry -> Recorded("dry-run", "next") /\ UNCHANGED skipped
       [] ParseChoice(text) = "y" /\ ~session.dry ->
            /\ \E said \in Listing(session.game) :
                 /\ session' = [session EXCEPT !.pc = "menu", !.seen = FALSE, !.known = said]
                 /\ Walked(session.game, said)
            /\ UNCHANGED results
       [] OTHER -> UNCHANGED <<session, results, skipped>>
  /\ UNCHANGED <<installed, listed, unlocked, client, invoked, strange>>
-----------------------------------------------------------------------------
(* The three steps *)

\* Items called Uninstall: the menu's, and a dialog's button bears the same name.
Showing == {<<"menu", client.menu>>, <<"dialog", client.dialog>>}
             \ {<<"menu", NoGame>>, <<"dialog", NoGame>>}

\* The step is done as soon as an Uninstall item is showing, whatever opened it.
OpenGameMenu ==
  /\ SessionAt("menu") /\ client.up
  /\ client' \in {client} \union
       (IF session.game \in installed THEN {[client EXCEPT !.menu = session.game]} ELSE {})
  /\ client'.menu # NoGame \/ client'.dialog # NoGame
  /\ Goto("uninstall")
  /\ UNCHANGED <<installed, listed, unlocked, answered, invoked, strange, skipped, results>>

\* Never a guess between two.
OnlyOne(items) == Cardinality(items) = 1

Uninstalls(g) == installed' = installed \ {g} /\ invoked' = invoked \union {g}

\* Invoking the item: of a menu it brings the dialog up, or uninstalls at once.
Invoke(item) ==
  LET g == item[2] IN
  IF item[1] = "menu"
    THEN \/ client' = [client EXCEPT !.menu = NoGame, !.dialog = g] /\ UNCHANGED <<installed, invoked>>
         \/ client' = [client EXCEPT !.menu = NoGame] /\ Uninstalls(g)
    ELSE client' = [client EXCEPT !.dialog = NoGame] /\ Uninstalls(g)

ClickUninstall ==
  /\ SessionAt("uninstall") /\ client.up /\ OnlyOne(Showing)
  /\ \E item \in Showing : Invoke(item)
  /\ Goto("confirm") /\ UNCHANGED <<listed, unlocked, answered, strange, skipped, results>>

\* Buttons only: a menu's item may be one or not.
ConfirmUninstall ==
  /\ SessionAt("confirm") /\ client.up
  /\ \E buttons \in {Showing, {item \in Showing : item[1] = "dialog"}} :
       OnlyOne(buttons) /\ \E item \in buttons : Invoke(item)
  /\ Goto("wait") /\ UNCHANGED <<listed, unlocked, answered, strange, skipped, results>>

Steps == {"menu", "uninstall", "confirm"}
After(pc) == CASE pc = "menu" -> "uninstall" [] pc = "uninstall" -> "confirm" [] pc = "confirm" -> "wait"

\* A step that misses, for whatever reason, becomes an instruction: the parent does what it
\* says for this game, or presses Enter without doing it ...
ByHand ==
  LET g == session.game IN
  /\ session.pc \in Steps /\ Goto(After(session.pc))
  /\ \/ UNCHANGED <<installed, client>>
     \/ SessionAt("menu") /\ client.up /\ g \in installed
          /\ client' = [client EXCEPT !.menu = g] /\ UNCHANGED installed
     \/ SessionAt("uninstall") /\ client.menu = g
          /\ client' = [client EXCEPT !.menu = NoGame, !.dialog = g] /\ UNCHANGED installed
     \/ SessionAt("confirm") /\ client.dialog = g
          /\ client' = [client EXCEPT !.dialog = NoGame] /\ installed' = installed \ {g}
  /\ UNCHANGED <<listed, unlocked, answered, invoked, strange, skipped, results>>

\* ... or gives the game up: Escape is pressed, which may close what is open.
Abort ==
  /\ session.pc \in Steps /\ Recorded("aborted", "next")
  /\ client' \in {client, [client EXCEPT !.menu = NoGame], [client EXCEPT !.dialog = NoGame]}
  /\ UNCHANGED <<installed, listed, unlocked, answered, invoked, strange, skipped>>
-----------------------------------------------------------------------------
(* The verdict *)

\* Mutant of StillPresent: one source that says gone is enough.
StillPresentEither(ui, reg) == IF FALSE \in ui \union reg THEN {FALSE} ELSE ui \union reg

\* One source that still lists the game wins; a source that says nothing is {}.
StillPresent(ui, reg) ==
  IF TRUE \in ui \union reg THEN {TRUE} ELSE ui \union reg

\* What the library shows: nothing that can be read, or some of the tiles.
Readings == IF client.up THEN {{}} \union {{session.game \in tiles} : tiles \in SUBSET installed \ {{}}}
            ELSE {{}}

\* The registry counts only for a game that was found in it before the attempt.
RegPresent(said) == IF session.known THEN {said} ELSE {}

\* A poll of wait_until_gone; looking at the library may close a menu.
Polls(reading, verdict) ==
  /\ SessionAt("wait") /\ reading \in Readings
  /\ \E said \in Listing(session.game) :
       /\ StillPresent(reading, RegPresent(said)) \in verdict /\ Walked(session.game, said)
  /\ client' \in {client, [client EXCEPT !.menu = NoGame]}
  /\ UNCHANGED <<installed, listed, unlocked, answered, invoked, strange>>

SeenGone(reading) == Polls(reading, {{FALSE}}) /\ Recorded("left", "next")

SeenPresent(reading) ==
  Polls(reading, {{TRUE}}) /\ session' = [session EXCEPT !.seen = TRUE] /\ UNCHANGED results

\* The last poll.  A disk that shrank, perhaps for another game's sake, is evidence only when
\* nothing could ever be read.
TimeIsUp(reading) ==
  \E present \in {{TRUE}, {}}, shrank \in BOOLEAN :
    /\ Polls(reading, {present})
    /\ Recorded(IF shrank /\ ~session.seen /\ present = {} THEN "shrank" ELSE "not verified", "next")
-----------------------------------------------------------------------------
\* Ctrl+C, or an error: what was recorded is reported.
Interrupt ==
  /\ session.pc \notin {"start", "over"} /\ Goto("over")
  /\ UNCHANGED <<installed, listed, unlocked, client, answered, invoked, strange, skipped, results>>

\* The unlock runs out, or the parent locks; the guard closes the client within a minute.
Lock ==
  /\ unlocked /\ unlocked' = FALSE
  /\ UNCHANGED <<installed, listed, client, session, answered, invoked, strange, skipped, results>>

Killed ==
  /\ ~unlocked /\ client.up /\ client' = Closed
  /\ UNCHANGED <<installed, listed, unlocked, session, answered, invoked, strange, skipped, results>>

\* Somebody else opens a game's menu, or brings a dialog up.
Elsewhere(g) ==
  /\ client.up /\ g \in installed /\ strange' = strange \union {g}
  /\ client' \in {[client EXCEPT !.menu = g], [client EXCEPT !.dialog = g]}
  /\ UNCHANGED <<installed, listed, unlocked, session, answered, invoked, skipped, results>>

CleanupNext ==
  \/ Launch \/ Choose \/ \E g \in Games : NextGame(g)
  \/ \E text \in {"y", "s", "q", "other"} : PromptAnswered(text)
  \/ OpenGameMenu \/ ClickUninstall \/ ConfirmUninstall \/ ByHand \/ Abort
  \/ \E reading \in Readings : SeenGone(reading) \/ SeenPresent(reading) \/ TimeIsUp(reading)
  \/ Interrupt \/ Lock \/ Killed \/ \E g \in Games : Elsewhere(g)

CleanupSpec == CleanupInit /\ [][CleanupNext]_cleanupVars
-----------------------------------------------------------------------------
(* Properties *)

CleanupTypeOK ==
  /\ installed \subseteq Games /\ listed \subseteq Games /\ unlocked \in BOOLEAN
  /\ client \in Windows /\ strange \subseteq Games /\ skipped \subseteq Games
  /\ session \in [pc : Steps \union {"start", "choose", "next", "prompt", "wait", "over"},
                  game : Games \union {NoGame}, dry : BOOLEAN, known : BOOLEAN, seen : BOOLEAN]
  /\ answered \subseteq Games /\ invoked \subseteq Games /\ results \in [Games -> Verdicts]

\* session.py: "Nothing destructive without a "y" for that game."
OnlyYes == invoked \subseteq answered

\* What the tool confirms it was told to, or it was somebody else's doing: whatever menu or
\* dialog a game that was given up, skipped or killed left open, the tool uninstalls only games
\* the parent said yes to and games whose menu or dialog this run has not opened.
NoneUnasked == invoked \subseteq answered \union strange

\* A game that Windows listed, and that no walk over the registry passed over, is reported as
\* gone from the library only when it is, even if the library showed just some of its tiles.
LeftIsGone == \A g \in listed \ skipped : results[g] = "left" => g \notin installed
=============================================================================
