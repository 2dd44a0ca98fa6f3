# SafeHouse in TLA+

SafeHouse is a set of programs that keep a child's Windows PC within rules a parent sets:
a daily YouTube watch-time budget, kill lanes for Roblox, browsers and Google Play Games, a
list of allowed Roblox games, filtered DNS, and a web panel from which the parent steers it
all. The programs are small, but they run at the same time: on timers, on triggers every
minute, as resident loops, as threads of the panel, beside people who edit the same files and
the same AdGuard lists by hand. They share no database and no lock between processes. What
keeps them correct is the order of their effects, and that is what this directory is about.

| Path here | What it is |
|---|---|
| `*.tla` | modules: models of the programs, their properties, the proofs |
| `MC*.tla`, `*.cfg` | small instances for TLC |
| `PROJECT.json` | components, runs, the source lines each definition stands for, findings, hazards, theorems |

Paths below are relative to `src/`.

## 1. Inventory

### Components, state, operations

**YouTube budget** (`python/safehouse_ytbudget`: `decide`, `tick`, `state`, `watcher`, `cli`,
`meter`, `pins`, `platform/`). A watcher ticks every sample: it observes traffic, decides, and
applies the decision to three layers (an AdGuard "blocked service" entry, a firewall rule
over pinned addresses, and the marker file that says who claims the entry). State:
`youtube-budget.json` (date, seconds used, bonus, two flags), `config.json`, the marker
`adguard-block-state.json` (owner to date), the pins file, in memory the meter. Operations: a
tick; the parent's `set-limit`, `grant`, `block`, `allow`, `reset`. Correct when time is
counted once and for the right day, a spent day is blocked on every layer and stays so, and a
block always has a claim that says who may lift it.

**Parental hold** (`python/safehouse_setup/toggle.py`): `--block` and `--allow` on the same
AdGuard entry, with their own claim in the marker. Correct when only `--allow` ends a hold.

**Nightly reset** (`python/adguard_daily_reset.py`): lifts yesterday's budget block. Correct
when it never lifts today's block or a hold.

**Metering** (`meter.py`, `pins.py`, `platform/windows.py`): addresses that YouTube names
resolved to are pinned (at most 32), one machine-wide `pktmon` session counts them, a
high-water mark turns bytes into "watching". Correct when credited time was really streamed,
a playing video's address stays pinned, and a steady stream is credited.

**Kill lanes** (`roblox_guard`, `browser_guard`, `playgames_guard`, `killdelay`): a run every
minute looks at the processes, pauses up to a minute, looks again, ends what is up, and saves
its state file (minutes used, bonus, unlock, kill history). Correct when over-budget play ends
in bounded time, no minute is charged to another day, and a respawn storm is reported.

**Roblox game list** (`roblox_games.py`): a resident loop tails the newest client log, folds
it onto the game the client is in, and ends the client when the list forbids that game; what
was played goes to a ledger for the panel. Correct when no forbidden game goes on for ever and
the ledger misses none.

**Volume and microphone guards** (`volume_guard.py`, `mic_guard.py`): resident loops over Core
Audio; one snaps the level back, the other mutes endpoints again. Correct when a rule that is
broken is restored within a pass even if some device fails.

**Panel** (`python/safehouse_panel`): an HTTP server whose request threads call controls that
edit the files above or AdGuard's user rules; a YouTube schedule with a manual hold on top and a
reconciler thread. In front of the controls (`auth.py`, `app.py`): one password, a table of
sessions that expire, a throttle per source address, and a second look at the password for a
change that weakens a protection; all of it in memory, and nothing of it locked. Correct when
what the parent last said is what is in force, hand-typed AdGuard rules survive, a changed
password ends the old sessions, nothing is weakened without the password, and a lockout ends.

**DNS relay** (`safehouse_setup/dns_proxy.py`): UDP and TCP relay threads, in two bounded pools,
share one router that knows the WSL address, throws it away when it fails, rediscovers it in a
thread of its own at most once per cooldown, and lets names fall back to the LAN router. Correct
when no slot is lost, one discovery runs at a time, and a filter that serves is found again.

**DNS setup and watchdog** (`dns.py`, `resolver.py`): the change of the adapter's
DNS for both families with rollback, the relay's logon task, and a watchdog that restarts the
guest and its containers and leaves a record for the panel. Correct when the machine resolves
again whatever failed, both families move together, and filtering comes back.

**Installer** (`install.py`, `migration.py`): retires what is superseded and registers the
tasks, some ten `schtasks` calls in a row of which each may fail. Correct when a guarded machine
is not silently left unguarded.

**Play Games cleanup** (`windows/playgames-cleanup`): a session per game of question, three
automated or manual steps in the client's window, and a verdict. Correct when nothing is
uninstalled without a yes and nothing is reported gone that is not.

**Everything else**: browser policy, AdGuard provisioning, deployment, the panel's rendering and
texts. Linear, idempotent or pure I/O.

### Interactions

```
 watcher tick --+                         +-- ctl (parent)         panel threads --+-- lock --> AdGuard user rules
                |                         |                        reconciler -----+
                +--> AdGuard service entry, marker, state file <--+-- toggle         |
                |                                                 +-- nightly reset  +--> kill lanes' state and
   pktmon <-----+--> firewall rule                                                       config files <-- guard runs
                                                                                     +--> roblox-games.json <-- game guard

 dns / persist --> adapter, relay's task      name requests --> relay --> guest's filter, or LAN router
 watchdog --> guest, containers --> record --> panel              ^ discovery (wsl.exe) starts the guest
```

### What is hard here

* read-modify-write of a file or of AdGuard by programs that share no lock
  (tick and ctl, panel and guard run, toggle and reset, panel and a hand on AdGuard's page);
* decisions on state read before a pause, a network call or a wait for a lock;
* effects in several places with failures, lost answers, crashes and midnights in between;
* counters that restart, sessions anybody may stop, logs that come in two lines;
* threads that share tables, pools and cached addresses with little or no locking;
* long rows of commands of which each may fail and the whole may be cut;
* everything that must happen in the end because a loop reconciles.

`PROJECT.json` lists each hazard at its line with the properties aimed at it, or the reason
why there is none.

## 2. Modules

| Module | Models | Extended or used by |
|---|---|---|
| `BudgetDecide` | `decide.py`: the pure decision on state and observation | `BudgetEnforcement` |
| `BudgetEnforcement` | watcher, ctl, toggle and reset as four programs with a program counter each, over shared entry, marker, state file, firewall | `BudgetProperties` |
| `BudgetProperties` | its properties and the inductive strengthenings | `MCBudget`, the proofs |
| `WatchLedger` | abstract: a ledger of the child's days | refined by the budget (`LedgerKept`) |
| `Metering` | `_observe`, pins, meter, the one pktmon session | `MCMetering`, `MeteringProofs` |
| `KillLane` | one run of any of the three kill lanes, the task's triggers, the panel's controls | `MCKillLane`, `KillLaneProofs` |
| `YouTubeSchedule` | the YouTube controls, the lock, the reconciler, AdGuard's rules | `MCYouTubeSchedule`, `YouTubeScheduleProofs` |
| `ModeFile` | abstract: a file on which every act of the parent is whole | refined by the schedule (`ActsAreWhole`) |
| `RobloxGames` | the game-list loop, the client's log, the ledger | `MCRobloxGames`, `RobloxGamesProofs` |
| `DnsRelay` | the worker pools, the router, its discovery | `MCDnsRelay`, `DnsProofs` |
| `SingleFlight` | abstract: one look-up at a time, and what its end makes known | refined by the relay (`OneFlight`) |
| `DnsSetup` | dns, persist, the watchdog, over adapter, guest and relay as a whole | `MCDnsSetup`, `DnsProofs` |
| `PanelAuth` | sign-in, sessions, throttle, judgement of a change, new password | `MCPanelAuth`, `PanelAuthProofs` |
| `MediaGuards` | the loop of the microphone and the volume guard | `MCHost`, `HostProofs` |
| `Installer` | a full install, single lanes, cuts, restarts | `MCHost`, `HostProofs` |
| `CleanupSession` | the cleanup tool against the client's window | `MCHost`, `HostProofs` |
| `MCHost` | the last three as one instance; they share no state | |
| `BudgetProofs`, `MeteringProofs`, `KillLaneProofs`, `YouTubeScheduleProofs`, `RobloxGamesProofs`, `DnsProofs`, `PanelAuthProofs`, `HostProofs` | theorems | |

### How they correspond to the code

*Budget.* `pc[p]` is where a program stands between two of its effects. A tick is
`StartTick` (load the configuration and the state), `Observe` (observe and decide: `job` holds the
working copy and the plan), one step per effect in the order of `Ticker._apply`, and the save. A
call to AdGuard, a look at the marker, an update of it and a file save are single steps; the GET
and the PUT within one client call, and the read and write within one marker update, are not
split. Both can lose updates in the code as well; this is the first refinement on the list in
section 7. A toggle's and the reset's AdGuard calls and marker updates are steps of their own.
`SetBlocked` has three outcomes: done and answered, not done, and done with the answer lost, which
the program takes for a failure. `SetFirewall` and `ClearFirewall` may be refused, the new rule
also after the old one has been deleted. `Drift` is a hand on the AdGuard dashboard, `Outage` and
`Recover` its reachability, `Repin` stands for the metering side, `StateDamaged` and
`MarkerDamaged` for files that no longer parse, and `Crash(p)` for a process that dies or raises
between two steps. `overtaken` observes the claims that are made after a program has looked for
one and before it lifts. The retired hosts lane, shadow mode, clock steps, the parsing of single
values, and the reset's `--force` and `--dry-run` are left out.

*Metering.* Time is counted in samples and time stamps are ages. `flow` is the counter
relative to the last reading, negative after a restart by somebody else. One `Tick` is the
whole of `_observe`; its failure paths are the variants `TickUnread`, `TickUnheard` and
`TickRebuildFails`. `filters` is what the session counts, which need not be what the watcher
metered: no result of `pktmon` is looked at, so a rebuild that fails anywhere leaves any of the old
and the new filters, under a session that runs or not (`Rebuilt`), and somebody else may start a
session with filters of his own or none (`SessionRestarted`). `Foreign` says that the session
counts addresses the watcher does not meter. A pin file that is damaged reads as none (`Loaded`).

*Kill lanes.* `lane` is chosen at the start and never changes: the three programs never touch
each other's files. `run.loaded` is what a run read at its start, `run.next` what it will
save; the pause lies between `RobloxRun`/`AppRun` and `RobloxKill`/`AppKill`. `RunCut` is the
scheduler's time limit or a log-off. A look (`Looks`) may fail and then shows nothing, since the
exit code of `tasklist` is not read. A damaged state file reads as a fresh one (`Damaged`), a
damaged configuration as the strict default (`Strict`). `session`, `allowance`, `slack` and
`reported` are observers the properties need; `slack` is what runs and files that went wrong may
have cost. A panel control reads and writes its file in one step. Two kills of one program within
a minute count as one in the tally. Left out: the users filter, the message, and
`KILL_HISTORY_MAX`.

*Schedule.* Every request takes its clock reading before it waits for the lock (`Wait`), works
under it (`Acquire`, `Get`, `Put`, `Save`), and may be refused, time out after AdGuard obeyed, or
fail to save. `TickRead` and `TickLook` are the unlocked half of the reconciler. `typed` and
`disturbed` are observers. The week is small but a real week: windows cross midnight and wrap.
Comment lines and blanks of the rule list are left out, and a hand edit of the file only
breaks it.

*Games.* `client` and `log` are the environment: a join writes a line with the place and, a
beat later, one with the universe. `Poll` reads everything since `track.offset`; `PollIdle` is
the branch that forgets; `Kill` is the end of the pause. A file that was never written and one
that says `enabled: false` are the same to the code and to the model. The ledger may be unreadable,
and then reads as empty and is overwritten by the next save; a save may fail, which the code passes
over (`Spoiled`); and it keeps `SeenMax` games (`Saved`). `lost` observes what that cost. Left out:
counts and names in the ledger, which entries the cap drops, ratings, the blind and storm
warnings, several clients at once.

*DNS relay.* `job[r].pc` is the place of a request between two uses of the router's lock: `get`,
`ask`, `invalidate`, `schedule`, `wait`, `retry`. Names fall open to the LAN, calls to AdGuard's
page wait for a discovery, bounded by time (`Wake`, `TimeOut`). A look-up is `Look` or `LookFails`
(`wsl.exe`, which starts a guest that is off) and then `Post`. `cooling` is the time since the last
look-up, forgotten by `CoolDown`. What an answer says is left out; UDP and TCP names are one kind,
and `Garbled` is the TCP request that is given up before anything is asked.

*DNS setup.* `setup.pc` walks through `dns.apply`: reconcile the guest, probe, choose the target,
retire the old rule, IPv4, IPv6, verify twice, roll back. The relay of the other module is here
one record: whether it is up, which fallback it was started with, whether it knows the guest.
`Cut`, `DogReaped` and `Logon` end a command or the watchdog anywhere. `damaged` remembers that a
command was cut between the families or its rollback refused, which only another run can mend. A
`resolver --force` started by hand takes the place of the task's run; in the code the two could
overlap, which the model leaves out.

*Panel.* Every request has a thread and a `pc` between two uses of shared state: the sweep that
lists what has expired and the sweep that deletes it are two steps, so `Collided` is reachable,
as in the code. Expiry may come at any time. `level` stands for any one control; the cookie's
token, the judged value and whether the password was proved travel in `req`. Saving a password,
emptying the table (`Revoke`) and signing the browser in anew (`SignIn` from `create`, with its own
sweep) are three steps. The throttle's table is read, changed and written without a lock:
`Overwritten` is a failure, or the pardon, that another request of the same source undoes. `old`
observes the sessions that were there when a new password was saved.

*Sound guards.* One `level` serves both lanes (for a microphone: muted, half muted, open). A pass
is one step per endpoint; devices come, go, break and are turned up between the steps. `exposed`
counts the seconds an endpoint is too loud with nothing in the guard's way; a pass that fails at
one endpoint excuses those it had not reached (`PassFails`), and no other.

*Installer.* `install.next` is the position in the list of tasks; each `schtasks` answer is a
choice. Which tasks exist is a constant: the order of the watcher, its predecessor and the guards
is what matters. `install.unstarted` is what the run printed that it could not start.

*Cleanup.* The client's window is external: it may run before the tool with any menu or dialog open
(`Attach`), one may be opened at any time (`Elsewhere`), one may stay open, a click may do nothing,
the library may be unreadable or show some of its tiles. `Choose` is the list of games the parent
is asked about. A walk over the registry may pass a key over (`Listing`). `strange` observes the
games whose menu or dialog was opened for another reason than this run's question, `skipped` those
a walk passed over. Assumed: Windows' registry entry goes with the game, and a parent asked to do a
step does what the instruction names or nothing.

## 3. Runs

| Run | Shows |
|---|---|
| `budget_races` | programs overlap at every step, die, lose AdGuard and its answers, and meet damaged files: `TypeOK`; only the toggle opens an entry under a hold it could have known of (`OnlyToggleOpensHold`); the reset spares today (`ResetSparesToday`); the state file refines `WatchLedger` with the writers' copies as drafts (`LedgerKept`); everything ends up as the reasons want it (`Settles`); an opened hold is closed again (`HoldIsRestored`) |
| `metering` | no phantom spike from a session that counts what is metered (`NoPhantomSpike`), bounded overrun, the stream keeps its pin and is credited |
| `kill_lanes` | a session exceeds the allowance by two minutes and what runs that went wrong cost (`SessionBounded`), charges are of today, storms are reported, what stays forbidden is ended |
| `youtube_schedule` | manual acts stand unless overwritten (`ManualStands`), the file refines `ModeFile`: a mode replaces all, a hold lands on the schedule in force and ends where it says (`ActsAreWhole`), holds end at their boundary (`HoldEndsAtBoundary`), hand-typed rules survive (`HandTypedSurvives`), a schedule is enforced in the end (`ScheduleSettles`) |
| `roblox_games` | the ledger misses no game played and left but those a failed read or write or its cap cost it (`LedgerMissesNone`); a forbidden game cannot go on for ever while `taskkill` works (`BannedEnds`) |
| `dns_relay` | slots come back (`SlotsReturned`), one look-up at a time (`OneDiscovery`), nobody waits in vain (`WaitersWake`), the router refines `SingleFlight` (`OneFlight`); a filter that goes on serving is found again while names are asked for (`FilterRegained`), late failures on an old address and the cooldown included |
| `dns_setup` | both families move together, unless a command is cut between them or its rollback refused (`FamiliesTogether`); the machine resolves in the end while dns is repeated (`NameServiceRegained`); the watchdog restores the filter; its record is true in the end |
| `panel_auth` | a changed password ends every session that was in the table when it was saved (a login past its check by then may still make one); a weaker value needs the password, but for a change judged against a value somebody made stricter meanwhile; a lockout ends however often it is tried |
| `host` | an endpoint with nothing in its way is too loud for at most the longest interval and a back-off (`LoudBounded`) and is silenced time and again despite a broken one after it (`SilencedAgain`); a gap in the guard is told, but for runs that failed or were cut and for the shadow watcher (`GapIsTold`); the tool uninstalls only games with a yes and games whose menu or dialog it did not open (`NoneUnasked`); a listed game reported gone is gone, unless a walk over the registry passed it over (`LeftIsGone`) |
| `budget_allow_window` | counterexample, see Divergences |
| `install_shadow` | counterexample, see Divergences |
| `cleanup_only_yes` | counterexample, see Divergences |

Every module states what its variables hold (`TypeOK` and its like). All of these are proved, and
those of the budget and of metering are part of a run as well (`budget_races`, `metering`).

### Divergences

Three runs end in a counterexample; the quotes are under `findings` in `PROJECT.json`.

* `budget_allow_window`: a budget that runs out under a hold records no claim, so releasing the
  hold opens YouTube for a sample (`toggle.py:209` promises that it does not).
* `install_shadow`: a full install retires the PowerShell watcher at its start, whatever the
  options, and with `--shadow` or `--keep-powershell-watcher` says at its end that it goes on.
* `cleanup_only_yes`: the tool attaches to a client as it finds it, and a step is done as soon as
  any Uninstall item shows. A dialog that was open before, or that somebody opens, belongs to a game
  without a yes, and the click for another game confirms it (`session.py:9`).

Six more properties are violated by the code. They are stated in the modules, with their
comments; put the definition in place of the properties of the cfg to see the trace.

| Definition | cfg | What happens |
|---|---|---|
| `BlockHasOwner` | `MCBudget_races.cfg` (INVARIANT) | a block whose answer was lost, or whose program died before the claim, has no owner at rest, so nobody knows whose it is |
| `HoldEndsOnlyByAllow` | `MCBudget_races.cfg` | a reset that finds the entry open forgets the parent's hold |
| `CtlBlockSurvives` | `MCBudget_races.cfg` | a tick overwrites a `ctl block` saved while it ran |
| `SessionIsRearmed` | `MCMetering.cfg` | a counter session that is lost is not rebuilt while the pins stay the same |
| `ManualModesAreAbsolute` | `MCYouTubeSchedule.cfg` | a reconciler tick that waits for the lock writes over a manual mode set meanwhile |
| `JoinsAreRecorded` | `MCRobloxGames.cfg` | a game that is still open in a log that goes silent never reaches the ledger |

Seen while modelling, and not stated as properties:

* `windows/README.md:23` and `Install-SafeHouse.ps1:228` say that a proof that fails leaves the
  adapter on the LAN router; the code stays on the relay when the relay answers through its
  fallback (`Target`).
* A dialog that an aborted cleanup leaves open can be confirmed by the next game's click, so a
  game the parent said yes to and then gave up may still go. `NoneUnasked` allows it.
* `mic_guard.py:77-79` says that five seconds bound how long a microphone can stay live. When the
  enumeration that is due fails or a pass ends at another endpoint, the back-off comes on top, and
  it is seven; `LoudBounded` has this bound.
* Two sweeps of the same expired session collide, also in the heartbeat (`server.py:236`), which
  runs outside the handler that turns an exception into an answer.

### Bounds

Every bound is a constant: `MaxEvents` counts commands, failures, edits, launches and crashes
together; clocks and days stop at `MaxTime` or `MaxDay`.

* `budget_races`: two days, because nothing reaches back further than the previous date; limit 0 or
  1, grants of one sample up and down, and two events that may hit between any two steps of any
  two programs: enough for a block and a crash, a hold and a drift, a lost answer and a reset.
* `metering`: two addresses for one filter (so one is always left over), sessions of others with no
  filter or another one, window and expiry of three samples (so both can end within a trace), three
  events.
* `kill_lanes`: two programs, a day of five minutes, seven minutes (one rollover), limits and
  bonuses of 0 and 1, storms of two kills in two minutes, four events.
* `youtube_schedule`: two request threads and the reconciler, a week of two three-minute days,
  one window inside a day, one that crosses midnight and wraps the week together with a whole
  day, two own rules (so a block can be partial), one foreign line, three events.
* `roblox_games`: two universes of three places, a ledger of two, two logs of up to five lines, four
  events.
* `dns_relay`: two names and one call, so that two requests race and one waits; two look-up
  threads (a second could only run in error) and two addresses (old and new); one worker, hence
  two slots; two events, enough for a stop, a move or a restart together with a failure.
* `dns_setup`: two mishaps anywhere (a failed command and a failed rollback), one restart of the
  relay, an adapter that starts fresh or as an older version left it.
* `panel_auth`: two threads, one browser, two tokens, one restart or console password. A window of
  1 and a lockout of 2 ticks are the smallest with window < lockout, in which failures that
  age out of the window end a lockout early; two levels; `LockoutAfter` 2.
* `host`: two endpoints (one before, one after a broken one), intervals of 3, 3 and 2 passes, two
  upsets; three guards (an optional one, two that stand alone, two residents) and two troubles;
  two games and a client in any state. A behaviour is one of the three programs; `part` is chosen at the start.

`CHECK_DEADLOCK` is off for `MCHost` only, whose installer and cleanup tool really end. Everywhere
else it is on: the loops never stop.

### Fairness

* *Budget*: `WF` of the watcher's start (its main loop catches every exception, and the task
  restarts a killed process) and of the next step of each running program; `WF` of `Recover`
  (the resolver watchdog). No fairness for commands.
* *Metering*: `WF` of the tick and of time.
* *Kill lanes*: `WF` of the run's own steps and of the trigger, which the task repeats every
  minute. No fairness for children, parents or failures.
* *Schedule*: `WF` of "some thread that can go on does", and of the reconciler's loop. Which
  thread gets the lock is left open, as a Python lock leaves it.
* *Games*: `WF` of the loop, and of the client's log: a client in a game goes on writing.
* *DNS relay*: `WF` of each request's own steps, of "the pool takes a name that waits", of each
  look-up's steps (`wsl.exe` has a time limit) and of the cooldown. No fairness for requests, the
  guest or the filter; `FilterRegained` names its premises.
* *DNS setup*: `WF` of the running command's steps, of the watchdog's trigger and steps (the task
  repeats), and of the relay's look-up and restart (asked by every name; the task's restarts, of
  which there are few). None for people, for the guest's timer or for mishaps.
* *Panel*: `WF` of time and of each thread's steps.
* *Sound guards*: `WF` of the loop with its revival: the task starts it at logon and repeats.

## 4. Theorems

All are checked by tlapm for every value of the constants that meets the module's assumption.

| Module | Theorem | States |
|---|---|---|
| `BudgetProofs` | `TypeCorrect` | `Spec => []TypeOK`, with overlapping programs, crashes and lost answers, as all of these |
| | `HoldNeverLifted` | `OnlyToggleOpensHold` |
| | `TodaysClaimSpared` | `ResetSparesToday` |
| | `StateFileIsALedger` | the state file implements `WatchLedger` |
| `MeteringProofs` | `MeteringTypes`, `ClockStops`, `SpikesAreReal`, `StreamOutlivesChatter` | the four safety properties of metering |
| `KillLaneProofs` | `KillLaneTypes`, `MinutesAreOfToday`, `StormsAreReported`, `SessionsAreBounded` | types, and the three safety properties of the kill lanes |
| `YouTubeScheduleProofs` | `ScheduleTypes`, `ManualActsStand`, `HoldsEndAtBoundary`, `TypedLinesSurvive` | types, and the three safety properties of the schedule, for any number of threads |
| | `FileActsAreWhole` | the panel's file implements `ModeFile` |
| `RobloxGamesProofs` | `GamesTypes`, `LedgerIsComplete` | types and `LedgerMissesNone`, for logs of any length and number |
| `DnsProofs` | `RelaySlotsReturned`, `RelayOneDiscovery`, `RelayWaitersWake`, `RelayTypeCorrect` | the relay's safety, for any finite sets of requests, any number of look-ups and workers |
| | `RelayOneFlight` | the relay implements `SingleFlight` |
| | `SetupFamiliesTogether`, `SetupTypeCorrect` | IPv4 and IPv6, and the types, for any number of mishaps |
| `PanelAuthProofs` | `PanelChangeSignsOut`, `PanelWeakeningAsks`, `PanelTypes` | the panel's safety, for any threads, browsers, tokens and levels |
| `HostProofs` | `InstallGapIsTold`, `InstallTypeCorrect` | for any list of guards and options, any number of troubles |
| | `SilenceIsPrompt`, `SoundTypeCorrect` | for any devices and intervals |
| | `CleanupNoneUnasked`, `CleanupLeftIsGone`, `CleanupTypeCorrect` | for any set of games |

*Budget.* No assumption is made about who runs beside whom. `LiftJustified` says that a program at
its lift still finds what it found when it looked, no hold, and for the reset no claim of its day,
or that a claim has overtaken it: `Claim` is the only step that adds one, and it notes every program
that is at its lift. The refinement of `WatchLedger` maps each writer's working copy to a draft:
loading opens one, the decision or the command makes one entry in it, a save puts it in place of the
account, a crash gives it up, a damaged file loses the account. It needs `DatesArePast`, that
neither the file nor a copy is ahead of the calendar, since a damaged file starts again on the day
it is found.

*Metering.* `Ledger` ties together what the meter believes and what flowed: with a baseline and a
session that counts nothing else, the counter since the last reading is at most what the metered
addresses really carried, whatever filters are missing.
`StreamKeepsPin` is a counting argument: only video endpoints can be ahead of the stream's
address in the order of eviction, and there are no more of them than filters.

*Kill lanes.* `Sound(f, t)`: the charge of a file fits between its day's first minute and its
last sighting. It must hold of the file and of both copies a run holds, because a cut run drops
them and a save brings back a file loaded before the panel wrote it. `Fought`: a run holds the
tally of the file from its start to its save, and what it will save loses no kill that still counts,
so the step that crosses the threshold is the one that reports it. `Paid` is an account: what was
played is charged, but for the minute before the first sighting, the minutes since the last run
(`Debt`), and the `slack` of what went wrong, both in the file and in what a run will save; a
run that finds budget left therefore knows that less than the allowance was played.

*Schedule.* `Inv` says that whoever reads, writes or saves holds the lock (`Exclusive`); that what
a request will save agrees with what it applies, and a hold in it ends at `hold_until` of its own
windows (`Posted`, `Bounded`); that between the write and the save the rules are already in the
state about to be promised (`Applied`), and in between acts in the state promised (`Standing`);
and that a thread about to write the list back has read every hand-typed line (`Kept`). `OneThread`,
`ToSaving` and `ToRest` are the shapes every step takes. `HoldUntilIsFirst` (the least of midnight
and the next edges) turns `Bounded` into `HoldEndsAtBoundary`; `NatMin`, that a set of naturals has
a least member, comes from the well-foundedness of strict inclusion on finite sets.
The refinement of `ModeFile` needs one thing more, `Whole`: what a request is about to save is, put
on the file as it is now, one act on it. A mode replaces whatever is there; a hold was read off the
file under the lock, so its schedule and its end still fit (`Fits`); only a hand edit comes in
between, and breaks the file for both. Every save is then a step of `ModeFile`, and every other step
leaves the file alone.

*Games.* `LedgerMissesNone` speaks of every line of the log, and a poll folds any number of them at
once. `FoldPresence` is the last value of a recursive function (`Seen`), so it can be unfolded line
by line: `EveryNatural` is induction over the naturals stated of a set, proved from the least member;
`FoldExists` builds the function for every length, and `SeenUnfolds` says that the one chosen
obeys its equation. `FoldStep` is what one line does: a game seen in full is the current one, and a
current one stays or is closed. By induction over the lines a game the log named is closed or still
current at the end (`GameCarried`), which is the invariant `Covered`: what was read is in the ledger,
lost to it, or tracked. `Ahead` says how far the tracker has read, `TrueTo` that a universe is the place's own,
`Holding` that the pause tracks what it caught.

*DNS relay.* Counting the slots needs that a request that starts or ends changes the set in
flight by one member (`PoolsOK`). The router's invariant `RouterOK` says who is looking, that the
flag says so, and that a cooldown that runs means a look-up under way or made: that is why
`Schedule` can refuse to start one and still leave a waiter somebody who wakes it. The same
invariant carries the refinement of `SingleFlight`, in which "looking" is that some thread looks and
not the flag: a look-up starts only when no thread is at it, and the one that posts was the only one
(`FlightMoves`, one lemma for requests, one for look-ups).

*DNS setup.* `Paired`: between the families IPv4 already is where the command takes it, and after
them both are on the relay or neither. The watchdog and the relay never write the adapter.
The types need that a command has chosen its server before it sets a family (`AdapterOK`).

*Panel.* `old` holds only sessions that are still in the table, and none unless a thread is about
to revoke (`ChangeSignsOut` is inductive with the shapes of the variables); `Judged` says that a request about to apply was let through by the password or has seen a value
it does not weaken. The types rest on `Valued`, that a change past its judgement carries a level of
the control, and on `RecentTypes`: the throttle's filter, a recursive function unfolded as in *Games*,
returns ages within the window.

*Installer.* `Kempt` follows the run: unless it failed or was cut, what the list has passed
(`Past`) is registered, and runs or was said not to. The list being passed at the end, the watcher
of the run is among it, and the retirement that follows touches only its predecessors.

*Guards of sound.* `Timed` holds each endpoint's count against the clock that will end it: the
back-off while nothing is held, the file's interval for what is held, the enumeration's for what is
not (`Paced`). `Grounded` is why reading the file cannot leave a count behind: what the ceiling in
force lets through was counted only since the file was last read. `Rhythm` says the clocks are not
used up when the loop falls asleep.

*Cleanup.* `Agreed` says that whatever menu or dialog is open belongs to a game that was answered
for or is strange: only an answered game's steps open one. `Remembered` says that the tool knows of
the game it is working on that Windows lists it, unless a walk passed it over, and `RegistryWins` that it then believes the registry before
any reading of the library.

*Only model-checked*: everything about liveness (`Settles`, `HoldIsRestored`,
`StreamIsCredited`, `ForbiddenEnds`, `ScheduleSettles`, `BannedEnds`, `FilterRegained`,
`NameServiceRegained`, `FilterRestored`, `RecordTruthful`, `LockoutEnds`, `SilencedAgain`), since the
prover has no `ENABLED`. Every invariant and every action property of the passing runs is also
proved, under the assumptions on the constants alone.

## 5. What is not modelled

* *What properties excuse.* An observer in the model (`overtaken`, `slack`, `lost`, `strange`,
  `skipped`, `typed`, `disturbed`, `damaged`) marks what the code itself does not prevent; the
  property then speaks of everything else. The hazards in `PROJECT.json` say in their notes what is
  excused: a hold claimed between a look and a lift, a line typed between the panel's GET and PUT, a
  rollback that is refused, an install that is cut. A browser ended after its unlock in the pause of
  a run, and the collision of two sweeps, are in the models without a property against them.
* *Failed `taskkill` in the game lane*: `BannedEnds` assumes there is none. One failure is
  enough to break it, since the loop forgets what it caught and only a new log line brings it back.
* *A poll between the two lines of a join*: in the model (an allowed game is then ended, and
  remembered by its place); no property forbids it, for the module says both that an allowed
  game is unimpeded and that an unknown universe is ended.
* *A grant overwritten by a guard run*: in the model; the code does not prevent it.
* *What a control of the panel does* apart from the YouTube control and the guards' own: `PanelAuth`
  has one value for all of them. Cookies' attributes, form tokens and origins are left out.
* *Thread exhaustion in the relay*: a discovery thread that cannot be started leaves the router
  believing in one that runs. The wire format of DNS is left out everywhere.
* *The collection of the page's facts* (`collect.py`, `status.py`): read-only.
* *The file helpers*: `atomicio` replaces a file in one step, which is how every model writes one;
  the hosts lane is retired; `fakes` serves the tests.
* AdGuard provisioning, most of the deployment, rendering, translations, COM and Windows plumbing:
  no interaction of their own, or pure I/O.

## 6. Size of the instances

All runs end within three minutes with two workers; the largest are `kill_lanes` (about 1,020,000
distinct states), `dns_setup` (750,000), `host` (576,000), `panel_auth` (537,000), `dns_relay`
(480,000) and `budget_races` (347,000). Raising `MaxEvents`, `MaxMishaps` or `MaxUpsets` by one is
the cheapest way to a larger instance.

## 7. Plan

What is left, in this order:

1. `BudgetEnforcement`: the marker's read-modify-write and AdGuard's GET and PUT as two steps each.
2. The relay of `DnsSetup` replaced by `DnsRelay` itself, with the one record shown to be an
   abstraction of it.
3. The `resolver --force` of a parent beside the task's own run of the watchdog.
4. The panel's other controls (Play Games, volume, privacy) as actions of the modules they steer.
5. `KILL_HISTORY_MAX`, and which entries `SEEN_MAX` drops.
