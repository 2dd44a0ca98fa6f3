----------------------------- MODULE Installer -----------------------------
(***************************************************************************)
(* install.py on a machine that may still run the PowerShell watcher: the  *)
(* order in which it retires what is superseded and registers its own      *)
(* scheduled tasks.  Every schtasks call may fail, the run may be cut or   *)
(* ended by an exception between any two of them, and the machine may be   *)
(* started anew; an install may be repeated with other options.            *)
(*                                                                         *)
(* Three tasks watch YouTube, of which two enforce: the PowerShell watcher *)
(* and the Python one.  The third is the Python watcher in shadow mode.    *)
(***************************************************************************)
EXTENDS Naturals, Sequences, SequencesExt

CONSTANTS
  Guards,      \* the other tasks, in the order they are registered
  Optional,    \* those an option leaves out
  Alone,       \* those an option registers by themselves
  Residents,   \* those that run all the time and are started when they are registered
  MaxTroubles  \* bound on calls that fail and runs that are cut

ASSUME InstallerAssumption ==
  /\ Guards \in Seq(ToSet(Guards)) /\ MaxTroubles \in Nat
  /\ {Optional, Alone, Residents} \subseteq SUBSET ToSet(Guards)
  /\ ToSet(Guards) \intersect {"powershell", "shadow", "live"} = {}

VARIABLES
  tasks,      \* the registered tasks
  running,    \* those of which a process runs
  guarded,    \* has YouTube been guarded at some time?
  install,    \* the run of install.py, and how the last one ended
  troubles

installVars == <<tasks, running, guarded, install, troubles>>

Watchers == {"powershell", "shadow", "live"}
Enforcing == {"powershell", "live"}

Guarded(processes) == processes \intersect Enforcing # {}

InstallInit ==
  /\ tasks \in SUBSET {"powershell"} /\ running = tasks
  /\ guarded = Guarded(running) /\ troubles = 0
  /\ install = [pc |-> "none", name |-> "live", keep |-> FALSE, start |-> TRUE,
                without |-> {}, next |-> 0, unstarted |-> {}, had |-> FALSE]

Trouble == troubles < MaxTroubles /\ troubles' = troubles + 1
FineOr(fine) == IF fine THEN UNCHANGED troubles ELSE Trouble

InstallAt(pc) == install.pc = pc
Under == ~install.pc \in {"none", "failed", "cut", "shadow", "done"}
Goes(pc) == install' = [install EXCEPT !.pc = pc]
Runs(processes) == running' = processes /\ guarded' = (guarded \/ Guarded(processes))
-----------------------------------------------------------------------------
\* A full install: which watcher, whether the old one is kept, what is left out.
Begin ==
  /\ ~Under
  /\ \E name \in {"live", "shadow"}, keep, start \in BOOLEAN, without \in SUBSET Optional :
       install' = [pc |-> "legacy", name |-> name, keep |-> keep, start |-> start,
                   without |-> without, next |-> 0, unstarted |-> {},
                   had |-> "powershell" \in tasks]
  /\ UNCHANGED <<tasks, running, guarded, troubles>>

\* The watcher is registered first, then the guards in their order.
Task(i) == IF i = 0 THEN install.name ELSE Guards[i]
Asked(upto) == {Task(i) : i \in 0..upto} \ install.without
AllRegistered == install.next > Len(Guards)

\* schtasks /End and /Delete; what they answer is not looked at.
Ended(task, ended, deleted) ==
  /\ tasks' = IF deleted THEN tasks \ {task} ELSE tasks
  /\ Runs(IF ended THEN running \ {task} ELSE running)

\* retire_legacy_runtime: every full install begins with it.
RetireLegacy ==
  /\ InstallAt("legacy") /\ Goes("prepare")
  /\ \E ended, deleted \in BOOLEAN :
       Ended("powershell", ended, deleted) /\ FineOr(ended /\ deleted)

\* Rights, seeds, configuration, exclusions, credentials.
Prepare ==
  /\ InstallAt("prepare") /\ Goes("register") /\ UNCHANGED <<tasks, running, guarded, troubles>>

\* Mutant of Failed: a task that cannot be registered is passed over.
FailedAndOn == [install EXCEPT !.next = @ + 1]

\* main returns at the first task that cannot be registered.
Failed == [install EXCEPT !.pc = "failed"]

Registering(task) ==
  /\ InstallAt("register") /\ ~AllRegistered /\ task = Task(install.next)
  /\ task \notin install.without

LeaveOut ==
  /\ InstallAt("register") /\ ~AllRegistered /\ Task(install.next) \in install.without
  /\ install' = [install EXCEPT !.next = @ + 1]
  /\ UNCHANGED <<tasks, running, guarded, troubles>>

CannotRegister(task) ==
  /\ Registering(task) /\ Trouble /\ install' = Failed
  /\ UNCHANGED <<tasks, running, guarded>>

\* The lanes that act once a minute are started by their own trigger as soon as they exist.
ByTrigger(task) == task \notin Watchers \union Residents

\* The others are started with /Run, a watcher unless --no-start forbids it.
Issued(task) == task \in Residents \/ (task \in Watchers /\ install.start)

\* /Create /F; that a /Run fails is only printed.
Register(task) ==
  /\ Registering(task)
  /\ tasks' = tasks \union {task}
  /\ \E runs \in BOOLEAN :
       LET starts == ByTrigger(task) \/ (Issued(task) /\ runs) IN
       /\ FineOr(runs \/ ~Issued(task))
       /\ Runs(IF starts THEN running \union {task} ELSE running)
       /\ install' = [install EXCEPT !.next = @ + 1,
                        !.unstarted = IF starts THEN @ ELSE @ \union {task}]

ShadowArmed ==
  /\ InstallAt("register") /\ AllRegistered /\ install.name = "shadow" /\ Goes("shadow")
  /\ UNCHANGED <<tasks, running, guarded, troubles>>

Kept ==
  /\ InstallAt("register") /\ AllRegistered /\ install.name = "live" /\ install.keep
  /\ Goes("done") /\ UNCHANGED <<tasks, running, guarded, troubles>>

\* retire_task asks first: what is not registered any more is not ended either.
Retire(from, task, to) ==
  /\ InstallAt(from) /\ AllRegistered /\ install.name = "live" /\ ~install.keep
  /\ Goes(to)
  /\ IF task \notin tasks THEN UNCHANGED <<tasks, running, guarded, troubles>>
     ELSE \E ended, deleted \in BOOLEAN :
            Ended(task, ended, deleted) /\ FineOr(ended /\ deleted)

RetireOthers == Retire("register", "powershell", "retire") \/ Retire("retire", "shadow", "done")

\* --roblox-guard-only and the like.
Single(g) ==
  /\ ~Under /\ tasks' = tasks \union {g}
  /\ \E runs \in BOOLEAN :
       /\ FineOr(runs) /\ Runs(IF runs THEN running \union {g} ELSE running)
  /\ UNCHANGED install

\* The console is closed, or a step raises.
CutShort ==
  /\ Under /\ Trouble /\ Goes("cut") /\ UNCHANGED <<tasks, running, guarded>>

Reboot ==
  /\ Runs(tasks)
  /\ IF Under THEN Goes("cut") /\ Trouble ELSE UNCHANGED <<install, troubles>>
  /\ UNCHANGED tasks

InstallNext ==
  \/ Begin \/ RetireLegacy \/ Prepare \/ LeaveOut \/ ShadowArmed \/ Kept \/ RetireOthers
  \/ \E task \in Watchers \union ToSet(Guards) : CannotRegister(task) \/ Register(task)
  \/ \E g \in Alone : Single(g)
  \/ CutShort \/ Reboot

InstallSpec == InstallInit /\ [][InstallNext]_installVars
-----------------------------------------------------------------------------
(* Properties *)

InstallTypeOK ==
  /\ tasks \subseteq Watchers \union ToSet(Guards) /\ running \subseteq Watchers \union ToSet(Guards)
  /\ guarded \in BOOLEAN /\ troubles \in 0..MaxTroubles
  /\ install \in [pc : {"none", "legacy", "prepare", "register", "retire", "failed", "cut",
                        "shadow", "done"},
                  name : {"live", "shadow"}, keep : BOOLEAN, start : BOOLEAN,
                  without : SUBSET Optional, next : 0..Len(Guards) + 1,
                  unstarted : SUBSET (Watchers \union ToSet(Guards)), had : BOOLEAN]

\* A machine that was guarded is left without an enforcing watcher only while an install is
\* under way, after one that failed, was cut or only armed the shadow, and after one that
\* said that the watcher it registered is not started.
WatcherGapIsTold ==
  guarded /\ ~Guarded(running) =>
    \/ Under \/ install.pc \in {"failed", "cut", "shadow"}
    \/ install.pc = "done" /\ "live" \in install.unstarted /\ "live" \in tasks

\* An install that ends with ENFORCING or ARMED has registered all it was asked for, and
\* what does not run is what it said it could not start.
EndIsComplete ==
  install.pc \in {"done", "shadow"} =>
    /\ Asked(Len(Guards)) \subseteq tasks
    /\ Asked(Len(Guards)) \ install.unstarted \subseteq running

\* What an install that ends leaves out, or leaves unstarted, was told; what one leaves that
\* failed, was cut or only armed the shadow is WatcherGapIsTold's exception (and see
\* OldWatcherStays).
GapIsTold == WatcherGapIsTold /\ EndIsComplete

\* "SHADOW MODE ARMED. ... the PowerShell watcher is still the only thing blocking." and
\* "leaving the old task in place": an install that says so leaves it registered.
OldWatcherStays ==
  /\ install.pc = "shadow" \/ (install.pc = "done" /\ install.keep)
  /\ install.had
  => "powershell" \in tasks
=============================================================================
