------------------------------ MODULE DnsSetup ------------------------------
(***************************************************************************)
(* Pointing Windows at the filter and keeping the filter alive.  The       *)
(* administrator's commands write the adapter (dns) and the relay's task   *)
(* (persist); the watchdog's task starts the WSL guest and the filter's    *)
(* containers in it, and leaves a record for the panel.  Both run beside   *)
(* each other, beside the relay and beside whatever fails.                 *)
(***************************************************************************)
EXTENDS Naturals

CONSTANTS
  Retries,     \* times the task restarts a relay that died
  Callers,     \* who wakes the watchdog between its times: "panel", "hand"
  MaxMishaps   \* bound on what goes wrong

ASSUME SetupConstants ==
  Retries \in Nat /\ Callers \subseteq {"panel", "hand"} /\ MaxMishaps \in Nat

Router == "router"   Guest == "guest"   Relay == "relay"   Dhcp == "dhcp"   Nothing == "nothing"

VARIABLES
  vm,       \* the guest: "off", "bare" (no containers) or "serving"
  keeps,    \* do the containers carry the restart policy?
  relay,    \* [task, up, fallback, tries]; task is the fallback in the registration
  sees,     \* has the relay found the guest's address?
  lan,   \* does the LAN's resolver answer?
  v4, v6,   \* the adapter's servers
  nrpt,     \* a rule of an older version, which wedges the DNS client
  setup,    \* the command that runs: [pc, server, reconciled, target]
  damaged,  \* was the last change of the adapter cut, or its rollback refused?
  dog,      \* the watchdog: [pc, by]
  record,   \* resolver.json
  mishaps

guestVars == <<vm, keeps>>
relayVars == <<relay, sees>>
adapterVars == <<v4, v6, nrpt, damaged>>
dogVars == <<dog, record>>
setupVars == <<guestVars, relayVars, lan, adapterVars, setup, dogVars, mishaps>>

Mishap == mishaps < MaxMishaps /\ mishaps' = mishaps + 1
Fine == UNCHANGED mishaps

NoCommand == [pc |-> "idle", server |-> Relay, reconciled |-> FALSE, target |-> Nothing]
Asleep == [pc |-> "idle", by |-> "task"]

\* A fresh machine, or one an older version has set up.
SetupInit ==
  /\ vm \in {"off", "serving"} /\ keeps \in BOOLEAN
  /\ relay = [task |-> Nothing, up |-> FALSE, fallback |-> Nothing, tries |-> 0]
  /\ sees = FALSE /\ lan = TRUE
  /\ v4 \in {Dhcp, Guest} /\ v6 = Dhcp /\ nrpt = (v4 = Guest) /\ damaged = FALSE
  /\ setup = NoCommand /\ dog = Asleep /\ record = "none" /\ mishaps = 0
-----------------------------------------------------------------------------
(* What a query gets *)

Filters(server) ==
  /\ vm = "serving"
  /\ server = Relay => relay.up /\ (sees \/ relay.fallback = Guest)

Responds(server) ==
  CASE server = Relay -> Filters(Relay) \/ (relay.up /\ relay.fallback = Router /\ lan)
    [] server = Guest -> Filters(Guest)
    [] server = Dhcp -> lan

\* What the watchdog asks: are names that must be blocked blocked, through the relay?
Up == Filters(Relay)

\* Does the machine resolve names?
Resolves == ~nrpt /\ Responds(v4)
-----------------------------------------------------------------------------
(* The guest *)

\* dockerd brings back containers with the policy, and not always those.
Boot == IF vm = "off" THEN vm' \in {"bare"} \union (IF keeps THEN {"serving"} ELSE {})
                      ELSE UNCHANGED vm

\* The script in the guest: containers up, policy set, the filter proved - or some of it.
Reconcile(ok) ==
  \/ ok /\ vm' = "serving" /\ keeps' = TRUE /\ Fine
  \/ ok /\ vm' = "serving" /\ UNCHANGED keeps /\ Mishap
  \/ ~ok /\ vm' \in {vm, "bare", "serving"} /\ keeps' \in {keeps, TRUE} /\ Mishap
-----------------------------------------------------------------------------
(* dns: point the adapter at the relay, or back at the router *)

At(pc) == setup.pc = pc
To(pc) == setup' = [setup EXCEPT !.pc = pc]
Return == setup' = NoCommand

RunDns(server) ==
  /\ At("idle")
  /\ setup' = [NoCommand EXCEPT !.pc = "reconcile", !.server = server]
  /\ UNCHANGED <<guestVars, relayVars, lan, adapterVars, dogVars, mishaps>>

DnsReconcile ==
  /\ At("reconcile")
  /\ \E ok \in BOOLEAN :
       Reconcile(ok) /\ setup' = [setup EXCEPT !.pc = "probe", !.reconciled = ok]
  /\ UNCHANGED <<relayVars, lan, adapterVars, dogVars>>

\* Mutant of Target: the relay is trusted unasked.
TargetUnasked ==
  IF setup.reconciled /\ Filters(setup.server) THEN setup.server ELSE Relay

\* The filter if it filters, the relay if it answers at all, else the router.
Target ==
  CASE setup.reconciled /\ Filters(setup.server) -> setup.server
    [] ~(setup.reconciled /\ Filters(setup.server)) /\ setup.server = Relay /\ Responds(Relay) -> Relay
    [] OTHER -> Dhcp

DnsProbe ==
  /\ At("probe")
  /\ setup' = [setup EXCEPT !.pc = "nrpt", !.target = Target]
  /\ UNCHANGED <<guestVars, relayVars, lan, adapterVars, dogVars, mishaps>>

\* Whether the rule went is not looked at.
RuleRemoved ==
  \/ nrpt' = FALSE /\ Fine
  \/ UNCHANGED nrpt /\ Mishap

DnsRetireRule ==
  /\ At("nrpt") /\ To("v4") /\ RuleRemoved
  /\ UNCHANGED <<guestVars, relayVars, lan, v4, v6, damaged, dogVars>>

DnsV4 ==
  /\ At("v4")
  /\ \/ v4' = setup.target /\ To("v6") /\ Fine
     \/ UNCHANGED v4 /\ To("rollback") /\ Mishap
  /\ UNCHANGED <<guestVars, relayVars, lan, v6, nrpt, damaged, dogVars>>

\* IPv6 goes where IPv4 went, or is given back.
DnsV6 ==
  /\ At("v6")
  /\ \/ v6' = (IF setup.target = Relay THEN Relay ELSE Dhcp) /\ To("verify") /\ Fine
     \/ UNCHANGED v6 /\ To("rollback") /\ Mishap
  /\ UNCHANGED <<guestVars, relayVars, lan, v4, nrpt, damaged, dogVars>>

\* The machine must resolve names, now or two seconds later.
DnsVerify ==
  /\ \/ (At("verify") \/ At("again")) /\ Resolves /\ Return /\ damaged' = FALSE
     \/ At("verify") /\ ~Resolves /\ To("again") /\ UNCHANGED damaged
  /\ UNCHANGED <<guestVars, relayVars, lan, v4, v6, nrpt, dogVars, mishaps>>

DnsGiveUp ==
  /\ At("again") /\ ~Resolves /\ To("rollback") /\ RuleRemoved
  /\ UNCHANGED <<guestVars, relayVars, lan, v4, v6, damaged, dogVars>>

\* Mutant of GivenBack: only the family that was set first.
GivenBackFirst(failed) ==
  /\ v4' = IF "v4" \in failed THEN v4 ELSE Dhcp
  /\ UNCHANGED v6

\* Both families go back to DHCP, each on its own.
GivenBack(failed) ==
  /\ v4' = IF "v4" \in failed THEN v4 ELSE Dhcp
  /\ v6' = IF "v6" \in failed THEN v6 ELSE Dhcp

DnsRollback ==
  /\ At("rollback")
  /\ \E failed \in SUBSET {"v4", "v6"} :
       /\ GivenBack(failed) /\ damaged' = (failed # {})
       /\ IF failed = {} THEN Fine ELSE Mishap
  /\ Return
  /\ UNCHANGED <<guestVars, relayVars, lan, nrpt, dogVars>>

\* dns --clear removes the rule and leaves the adapter alone.
DnsClear ==
  /\ At("idle") /\ nrpt' = FALSE
  /\ UNCHANGED <<guestVars, relayVars, lan, v4, v6, damaged, setup, dogVars, mishaps>>

\* The command is killed, or its window closed.
Cut ==
  /\ ~At("idle") /\ Mishap /\ Return
  /\ damaged' = (damaged \/ At("v6") \/ At("rollback"))
  /\ UNCHANGED <<guestVars, relayVars, lan, v4, v6, nrpt, dogVars>>
-----------------------------------------------------------------------------
(* persist: the relay's task *)

\* What the adapter asks now, unless that is the relay itself.
Captured == IF v4 = Guest THEN Guest ELSE Router

Started(task) == [relay EXCEPT !.task = task, !.up = TRUE, !.tries = 0,
                               !.fallback = IF relay.up THEN @ ELSE task]

\* A relay that runs keeps the fallback it was started with.
Persist ==
  /\ At("idle")
  /\ \/ relay' = Started(Captured) /\ Fine
     \/ relay' = [relay EXCEPT !.task = Captured] /\ Mishap
  /\ sees' = (sees /\ relay.up)
  /\ UNCHANGED <<guestVars, lan, adapterVars, setup, dogVars>>

\* persist --remove: a relay that runs goes on until the next logon.
Unregister ==
  /\ At("idle") /\ relay' = [relay EXCEPT !.task = Nothing]
  /\ UNCHANGED <<guestVars, sees, lan, adapterVars, setup, dogVars, mishaps>>
-----------------------------------------------------------------------------
(* The watchdog *)

Dog(pc) == dog.pc = pc
DogTo(pc) == dog' = [dog EXCEPT !.pc = pc] /\ UNCHANGED record

\* A task that runs is not started again.
Woken(by) ==
  /\ Dog("idle") /\ dog' = [pc |-> "look", by |-> by]
  /\ UNCHANGED <<guestVars, relayVars, lan, adapterVars, setup, record, mishaps>>

DogFires == Woken("task")

\* The panel's button runs the task as it is registered; --force is typed by hand.
DogAsked == \E by \in Callers : Woken(by)
Forced == dog.by = "hand"

\* Mutant of Noted: a run that finds nothing to do leaves no record.
NotedRepairs(chain) == record' = IF Dog("look") THEN record ELSE chain

Noted(chain) == record' = chain

\* A record that cannot be written is not an error.
Wrote == \/ Noted(IF Up THEN "up" ELSE "down") /\ Fine
         \/ UNCHANGED record /\ Mishap

DogLook ==
  /\ Dog("look")
  /\ IF Up /\ ~Forced
       THEN dog' = Asleep /\ Wrote
       ELSE DogTo("start") /\ Fine
  /\ UNCHANGED <<guestVars, relayVars, lan, adapterVars, setup>>

DogStart ==
  /\ Dog("start") /\ DogTo("mid")
  /\ \/ Boot /\ Fine
     \/ UNCHANGED vm /\ Mishap
  /\ UNCHANGED <<keeps, relayVars, lan, adapterVars, setup>>

\* Mutant of Enough: a guest that runs is taken for a filter that works.
EnoughRunning == vm # "off" /\ ~Forced

\* Starting the guest was enough.
Enough == Up /\ ~Forced

DogMid ==
  /\ Dog("mid") /\ DogTo(IF Enough THEN "after" ELSE "reconcile")
  /\ UNCHANGED <<guestVars, relayVars, lan, adapterVars, setup, mishaps>>

DogReconcile ==
  /\ Dog("reconcile") /\ DogTo("after") /\ \E ok \in BOOLEAN : Reconcile(ok)
  /\ UNCHANGED <<relayVars, lan, adapterVars, setup>>

DogAfter ==
  /\ Dog("after") /\ dog' = Asleep /\ Wrote
  /\ UNCHANGED <<guestVars, relayVars, lan, adapterVars, setup>>

\* The scheduler's time limit, or the user logs off.
DogReaped ==
  /\ ~Dog("idle") /\ Mishap /\ dog' = Asleep
  /\ UNCHANGED <<guestVars, relayVars, lan, adapterVars, setup, record>>
-----------------------------------------------------------------------------
(* The relay and the world *)

RelayDies ==
  /\ relay.up /\ Mishap
  /\ relay' = [relay EXCEPT !.up = FALSE, !.fallback = Nothing] /\ sees' = FALSE
  /\ UNCHANGED <<guestVars, lan, adapterVars, setup, dogVars>>

RelayRestarts ==
  /\ ~relay.up /\ relay.task # Nothing /\ relay.tries < Retries
  /\ relay' = [relay EXCEPT !.up = TRUE, !.fallback = relay.task, !.tries = @ + 1]
  /\ UNCHANGED <<guestVars, sees, lan, adapterVars, setup, dogVars, mishaps>>

\* The relay asks wsl.exe for the address, which starts a guest that is off.
RelayLooks ==
  /\ relay.up /\ ~sees /\ sees' = TRUE /\ Boot
  /\ UNCHANGED <<keeps, relay, lan, adapterVars, setup, dogVars, mishaps>>

GuestFails ==
  /\ Mishap
  /\ \/ vm # "off" /\ vm' = "off" /\ sees' = FALSE
     \/ vm = "serving" /\ vm' = "bare" /\ UNCHANGED sees
  /\ UNCHANGED <<keeps, relay, lan, adapterVars, setup, dogVars>>

\* The timer in the guest runs the script too.
GuestTimer ==
  /\ vm = "bare" /\ vm' = "serving" /\ keeps' = TRUE
  /\ UNCHANGED <<relayVars, lan, adapterVars, setup, dogVars, mishaps>>

RouterChanges ==
  /\ lan' = ~lan /\ (lan => Mishap) /\ (~lan => Fine)
  /\ UNCHANGED <<guestVars, relayVars, adapterVars, setup, dogVars>>

\* The machine restarts and the user logs on.
Logon ==
  /\ Mishap /\ vm' = "off" /\ sees' = FALSE
  /\ relay' = [relay EXCEPT !.up = (relay.task # Nothing), !.fallback = relay.task, !.tries = 0]
  /\ Return /\ dog' = Asleep
  /\ damaged' = (damaged \/ At("v6") \/ At("rollback"))
  /\ UNCHANGED <<keeps, lan, v4, v6, nrpt, record>>
-----------------------------------------------------------------------------
DnsStep ==
  \/ DnsReconcile \/ DnsProbe \/ DnsRetireRule \/ DnsV4 \/ DnsV6 \/ DnsVerify \/ DnsGiveUp
  \/ DnsRollback
DogStep == DogLook \/ DogStart \/ DogMid \/ DogReconcile \/ DogAfter

SetupNext ==
  \/ \E server \in {Relay, Guest} : RunDns(server)
  \/ DnsStep \/ DnsClear \/ Cut \/ Persist \/ Unregister
  \/ DogFires \/ DogAsked \/ DogStep \/ DogReaped
  \/ RelayDies \/ RelayRestarts \/ RelayLooks
  \/ GuestFails \/ GuestTimer \/ RouterChanges \/ Logon

SetupSpec == SetupInit /\ [][SetupNext]_setupVars

\* Commands go on, the scheduler repeats the watchdog, the relay is asked for names.
FairSetupSpec ==
  /\ SetupSpec
  /\ WF_setupVars(DnsStep) /\ WF_setupVars(DogFires) /\ WF_setupVars(DogStep)
  /\ WF_setupVars(RelayLooks) /\ WF_setupVars(RelayRestarts)
-----------------------------------------------------------------------------
(* Properties *)

SetupPCs == {"idle", "reconcile", "probe", "nrpt", "v4", "v6", "verify", "again", "rollback"}

SetupTypeOK ==
  /\ vm \in {"off", "bare", "serving"} /\ keeps \in BOOLEAN
  /\ relay \in [task : {Nothing, Router, Guest}, up : BOOLEAN,
                 fallback : {Nothing, Router, Guest}, tries : 0..Retries]
  /\ sees \in BOOLEAN /\ lan \in BOOLEAN
  /\ v4 \in {Dhcp, Guest, Relay} /\ v6 \in {Dhcp, Relay} /\ nrpt \in BOOLEAN /\ damaged \in BOOLEAN
  /\ setup \in [pc : SetupPCs, server : {Relay, Guest}, reconciled : BOOLEAN,
                 target : {Nothing, Dhcp, Guest, Relay}]
  /\ dog \in [pc : {"idle", "look", "start", "mid", "reconcile", "after"},
               by : {"task", "panel", "hand"}]
  /\ record \in {"none", "up", "down"}
  /\ mishaps \in 0..MaxMishaps

\* Neither family is on the relay without the other: IPv6 on the router would go around the
\* filter.  Not so after a command that was cut between the two, or whose rollback Windows
\* refused, until a later dns ends well or is rolled back.
FamiliesTogether ==
  damaged \/ At("v6") \/ At("rollback") \/ (v4 = Relay <=> v6 = Relay)

\* While dns is run again and again and the router answers, the machine resolves names
\* in the end: whatever relay, guest, rule or adapter looked like, and whatever failed.
NameServiceRegained ==
  <>[]lan /\ []<>(At("probe") /\ setup.server = Relay) => <>[]Resolves

\* The watchdog brings the filter back, containers without the policy included.
FilterRestored == <>[](vm = "serving")

\* What resolver.json tells the panel is true in the end.
RecordTruthful == <>[](record = IF Up THEN "up" ELSE "down")

=============================================================================
