-------------------------------- MODULE Host --------------------------------
(* The command line of akai-agent and what its commands share on a machine   *)
(* (cli.rs, config.rs, service/systemd.rs): the saved configuration, the     *)
(* WireGuard configuration and interface, the PID file, the service unit.    *)
(* Commands may be killed anywhere, overlap, fail half way, or be cut off by *)
(* a reboot.                                                                 *)
EXTENDS Naturals

CONSTANTS
  Process,     \* process numbers; an agent process runs one command, and its number is free again
  User,        \* what --hub and --username say, taken together
  Address,     \* VPN addresses the hub hands out
  Given,       \* the configurations that init commands name; see GivenAssumption
  MaxAttempts, \* enrolments tried before the worker goes on without VPN
  Network,     \* Network[a]: the hub that hands out a, in answer to whoever is configured for it
  MaxDoubts,   \* commands beside another one, and interfaces not seen, between two boots
  Torn,        \* a file whose writing was cut short
  None

ASSUME BoundsAssumption == MaxAttempts \in Nat \ {0} /\ MaxDoubts \in Nat \ {0}

ASSUME NetworkAssumption == Network \in [Address -> User]

ASSUME DistinctAssumption == None \notin Process \cup User \cup Address \cup {Torn}
                             /\ Torn \notin Process \cup Address

VARIABLES
  config,   \* config.toml
  conf,     \* wg0.conf: the address in it
  iface,    \* wg0: its address while it is up
  pidfile,  \* akai-agent.pid
  unit,     \* akai-agent.service: the command it runs
  pc,       \* pc[p]: the next step of p
  job,      \* job[p]: what p was told, has read and was given
  calm,     \* from now on nothing fails or is unseen, and commands come one at a time
  latest,   \* history: the command that began last, stop, install and uninstall left out
  doubts    \* history: since the boot, commands that began beside another one, and
            \* interfaces that were up and not seen

files == <<config, conf, pidfile>>
history == <<latest, doubts>>
vars == <<files, iface, unit, pc, job, calm, history>>
----------------------------------------------------------------------------
\* what a configuration says: the hub and user it is for, and the API URL of the hub
Config == [user : User \cup {None}, api : BOOLEAN]

ASSUME ConfigAssumption == None \notin Config /\ Torn \notin Config

\* with the flags that init requires and with or without the URL, or with too few
ASSUME GivenAssumption == Given \subseteq {c \in Config : c.user = None => ~c.api}

\* what the parser of the command line knows, upgrade left out
Commands == {"init", "resume", "clean", "stop", "install", "uninstall"}
\* ExecStart={binary_path} start
ServiceCommand == "start"

Starting == {"save", "load", "probe", "address", "enroll", "vpndown", "write", "up", "pid"}
Cleaning == {"rmdirs", "down", "rmconf", "validate"}
\* told: a stop that says that none runs (any more); rejected: not a command
Other == {"readpid", "kill", "rmpid", "told", "unit", "rmunit", "rejected"}

\* running: run_hub_worker
Step == Starting \cup Cleaning \cup Other \cup {"idle", "running"}

\* the hub a worker connects to: at the address of its VPN, or as it was configured
Hub == [of : User \cup {None}, vpn : BOOLEAN]
NoHub == [of |-> None, vpn |-> FALSE]

\* hub: the hub it starts for; addr: the VPN address it was given or has found
Job == [command : Commands \cup {ServiceCommand, None}, given : Config, hub : Hub,
        attempt : 0..MaxAttempts, addr : Address \cup {None},
        target : Process \cup {None}]
NewJob(command, given) ==
  [command |-> command, given |-> given, hub |-> NoHub, attempt |-> 0, addr |-> None,
   target |-> None]
NoConfig == [user |-> None, api |-> FALSE]
NoJob == NewJob(None, NoConfig)

TypeOK ==
  /\ config \in Config \cup {None, Torn}
  /\ conf \in Address \cup {None, Torn}
  /\ iface \in Address \cup {None}
  /\ pidfile \in Process \cup {None, Torn}
  /\ unit \in {ServiceCommand, None}
  /\ pc \in [Process -> Step]
  /\ job \in [Process -> Job]
  /\ calm \in BOOLEAN /\ doubts \in 0..MaxDoubts
  /\ latest \in Process \cup {None}

Init ==
  /\ config = None /\ conf = None /\ iface = None /\ pidfile = None /\ unit = None
  /\ pc = [p \in Process |-> "idle"]
  /\ job = [p \in Process |-> NoJob]
  /\ calm = FALSE /\ latest = None /\ doubts = 0
----------------------------------------------------------------------------
Active(p) == pc[p] \in Starting \cup Cleaning \cup Other
Running(p) == pc[p] = "running"

Goto(p, step) == pc' = [pc EXCEPT ![p] = step]
Sets(p, j) == job' = [job EXCEPT ![p] = j]
\* p goes on with its job, or is through with it
Moves(p, step) ==
  Goto(p, step) /\ (IF step \in {"idle", "told"} THEN Sets(p, NoJob) ELSE UNCHANGED job)

First(command) ==
  CASE command \in {"init", "clean"} -> "rmdirs"
    [] command = "resume" -> "load"
    [] command = "stop" -> "readpid"
    [] command = "install" -> "unit"
    [] command = "uninstall" -> "rmunit"
    [] OTHER -> "rejected"

\* a command is parsed and begins, beside another one at most MaxDoubts times
Begin(p, command, given) ==
  /\ ~Active(p) /\ ~Running(p)
  /\ doubts < MaxDoubts
  /\ calm => \A q \in Process : ~Active(q)
  /\ Goto(p, First(command))
  /\ Sets(p, NewJob(command, given))
  /\ latest' = IF command \in {"stop", "install", "uninstall"} THEN latest ELSE p
  /\ doubts' = IF \E q \in Process : Active(q) THEN doubts + 1 ELSE doubts
  /\ UNCHANGED <<files, iface, unit, calm>>

UserInit(p) == \E given \in Given : Begin(p, "init", given)
UserRuns(p, command) == Begin(p, command, NoConfig)

\* WantedBy=multi-user.target, Restart=always: systemd may start a unit that is there at
\* any time, one process after the other.  So enable, start, stop and disable add nothing
ServiceStarts(p) ==
  /\ unit # None
  /\ \A q \in Process : job[q].command = ServiceCommand => ~Active(q)
  /\ Begin(p, unit, NoConfig)
----------------------------------------------------------------------------
(* clean, and init as far as the configuration.                             *)

\* the directories of root: that of another user who runs it stays.  A removal that
\* fails ends the command
RemoveDirs(p) ==
  /\ pc[p] = "rmdirs"
  /\ config' \in {config, None}
  /\ Moves(p, "down") \/ (~calm /\ Moves(p, "idle"))
  /\ UNCHANGED <<conf, iface, pidfile, unit, calm, history>>

\* wg-quick down needs the configuration and the interface; that it fails is ignored
WgQuickDown(p, next) ==
  /\ \/ iface' = IF conf = None THEN iface ELSE None
     \/ ~calm /\ UNCHANGED iface
  /\ Moves(p, next)
  /\ UNCHANGED <<files, unit, calm, history>>

Down(p) == pc[p] = "down" /\ WgQuickDown(p, "rmconf")

\* mutant: init leaves the configuration of the VPN to the enrolment
LeavesConf(p) == conf' = IF job[p].command = "init" THEN conf ELSE None

RemovesConf(p) == conf' = None

RemoveConf(p) ==
  /\ pc[p] = "rmconf"
  /\ \/ /\ RemovesConf(p)
        /\ Moves(p, IF job[p].command = "init" THEN "validate" ELSE "idle")
     \/ ~calm /\ UNCHANGED conf /\ Moves(p, "idle")
  /\ UNCHANGED <<config, iface, pidfile, unit, calm, history>>

Validate(p) ==
  /\ pc[p] = "validate"
  /\ Moves(p, IF job[p].given.user = None THEN "idle" ELSE "save")
  /\ UNCHANGED <<files, iface, unit, calm, history>>

\* what of a configuration is read back if its writing is cut short: the hub is last
\* but for the API URL
Cut(c) == {Torn, [c EXCEPT !.api = FALSE], NoConfig}

Save(p) ==
  /\ pc[p] = "save"
  /\ \/ config' = job[p].given /\ Moves(p, "probe")
     \/ ~calm /\ config' \in Cut(job[p].given) /\ Moves(p, "idle")
  /\ UNCHANGED <<conf, iface, pidfile, unit, calm, history>>

Loads(p) == config \in Config /\ config.user # None

\* resume_and_start
Load(p) ==
  /\ pc[p] = "load"
  /\ \/ Loads(p) /\ Goto(p, "probe") /\ Sets(p, [job[p] EXCEPT !.given = config])
     \/ ~Loads(p) /\ Moves(p, "idle")
  /\ UNCHANGED <<files, iface, unit, calm, history>>
----------------------------------------------------------------------------
(* start_worker and enroll_vpn.                                             *)

\* start_worker is not told what command it was
StarterJob(given, of) ==
  [command |-> None, given |-> given, hub |-> [of |-> of, vpn |-> FALSE], attempt |-> 1,
   addr |-> None, target |-> None]

\* wg show wg0: an interface is not seen without /dev/net/tun, or if wg cannot run.
\* HUB_ADDR may be set, and stands in for a hub the configuration lacks
Probe(p) ==
  /\ pc[p] = "probe"
  /\ \E seen \in BOOLEAN :
       /\ IF seen = (iface # None)
          THEN UNCHANGED doubts
          ELSE ~seen /\ ~calm /\ doubts < MaxDoubts /\ doubts' = doubts + 1
       /\ \E of \in IF job[p].given.user # None THEN {job[p].given.user} ELSE User \cup {None} :
            \/ /\ of # None /\ (seen \/ job[p].given.api)
               /\ Goto(p, IF seen THEN "address" ELSE "enroll")
               /\ Sets(p, StarterJob(job[p].given, of))
            \/ /\ of = None \/ (~seen /\ ~job[p].given.api)
               /\ Moves(p, "idle")
  /\ UNCHANGED <<files, iface, unit, calm, latest>>

\* the address is read from the file, not from the interface; a file that was cut
\* short may hold it or not
ReadAddress(p) ==
  /\ pc[p] = "address"
  /\ Goto(p, "pid")
  /\ \E found \in IF conf = Torn THEN Address \cup {None} ELSE {conf} :
       Sets(p, [job[p] EXCEPT !.addr = found])
  /\ UNCHANGED <<files, iface, unit, calm, history>>

\* what an enrolment answered is gone: the hub is the configured one
Direct(j, attempt) ==
  [j EXCEPT !.attempt = attempt, !.addr = None, !.hub = [of |-> j.hub.of, vpn |-> FALSE]]

\* mutant: one attempt too many
AgainOnce(p) ==
  IF job[p].attempt <= MaxAttempts
  THEN Goto(p, "enroll") /\ Sets(p, Direct(job[p], job[p].attempt + 1))
  ELSE Goto(p, "pid") /\ Sets(p, Direct(job[p], job[p].attempt))

\* an attempt failed: another one with a new enrolment, or on without VPN
Again(p) ==
  IF job[p].attempt < MaxAttempts
  THEN Goto(p, "enroll") /\ Sets(p, Direct(job[p], job[p].attempt + 1))
  ELSE Goto(p, "pid") /\ Sets(p, Direct(job[p], job[p].attempt))

\* the answer has an address, and the hub's own address in the VPN
Enrolled(j, a) == [j EXCEPT !.addr = a, !.hub = [of |-> Network[a], vpn |-> TRUE]]

\* the API of a configuration is that of its hub
Enroll(p) ==
  /\ pc[p] = "enroll"
  /\ \/ \E a \in Address : /\ Network[a] = job[p].given.user
                          /\ Goto(p, "vpndown") /\ Sets(p, Enrolled(job[p], a))
     \/ ~calm /\ Again(p)
  /\ UNCHANGED <<files, iface, unit, calm, history>>

VpnDown(p) == pc[p] = "vpndown" /\ WgQuickDown(p, "write")


Writes(p) == conf' = job[p].addr

WriteConf(p) ==
  /\ pc[p] = "write"
  /\ \/ Writes(p) /\ Moves(p, "up")
     \/ ~calm /\ conf' = Torn /\ Again(p)
  /\ UNCHANGED <<config, iface, pidfile, unit, calm, history>>

\* wg-quick up: not over an interface that is up, nor without an address
WgQuickUp == iface = None /\ conf \in Address

\* mutant: whatever wg-quick says
IgnoresStatus(p) == TRUE

UpSucceeded(p) == iface' # None /\ iface = None

Up(p) ==
  /\ pc[p] = "up"
  /\ \/ WgQuickUp /\ iface' = conf
     \/ ~WgQuickUp /\ UNCHANGED iface
     \/ ~calm /\ UNCHANGED iface
  /\ \/ UpSucceeded(p) /\ Moves(p, "pid")
     \/ ~UpSucceeded(p) /\ Again(p)
  /\ UNCHANGED <<files, unit, calm, history>>

\* mutant: a worker that goes on without VPN writes none
WritesPidWithVpn(p) == pidfile' = IF job[p].addr = None THEN pidfile ELSE p

WritesPid(p) == pidfile' = p

\* HubWorkerConfig
WorkerConfig(j) ==
  [command |-> None, given |-> [user |-> j.given.user, api |-> FALSE], hub |-> j.hub,
   attempt |-> 0, addr |-> j.addr, target |-> None]

\* the worker runs from here on
WritePid(p) ==
  /\ pc[p] = "pid"
  /\ \/ WritesPid(p) /\ Goto(p, "running") /\ Sets(p, WorkerConfig(job[p]))
     \/ ~calm /\ pidfile' = Torn /\ Moves(p, "idle")
  /\ UNCHANGED <<config, conf, iface, unit, calm, history>>
----------------------------------------------------------------------------
(* stop, install, uninstall.                                                *)

ReadPid(p) ==
  /\ pc[p] = "readpid"
  /\ \/ pidfile = None /\ Moves(p, "told")
     \/ pidfile = Torn /\ Moves(p, "idle")
     \/ pidfile \in Process /\ Goto(p, "kill") /\ Sets(p, [job[p] EXCEPT !.target = pidfile])
  /\ UNCHANGED <<files, iface, unit, calm, history>>

\* nobody handles SIGTERM.  A number nobody has any more is signalled all the same, and
\* so is a stranger that has it now, the command itself too
Kill(p) ==
  /\ pc[p] = "kill"
  /\ LET target == job[p].target IN
     /\ pc' = [pc EXCEPT ![p] = "rmpid", ![target] = "idle"]
     /\ job' = [job EXCEPT ![p].target = None, ![target] = NoJob]
  /\ UNCHANGED <<files, iface, unit, calm, history>>

\* the file may be gone, or another one
RemovePid(p) ==
  /\ pc[p] = "rmpid"
  /\ \/ pidfile' = None /\ Moves(p, IF pidfile = None THEN "idle" ELSE "told")
     \/ ~calm /\ UNCHANGED pidfile /\ Moves(p, "idle")
  /\ UNCHANGED <<config, conf, iface, unit, calm, history>>

\* install, and uninstall: the unit file is written, or removed; that the rest fails
\* leaves it where it is
WriteUnit(p) ==
  /\ pc[p] = "unit"
  /\ \/ unit' = ServiceCommand
     \/ ~calm /\ UNCHANGED unit
  /\ Moves(p, "idle")
  /\ UNCHANGED <<files, iface, calm, history>>

RemoveUnit(p) ==
  /\ pc[p] = "rmunit"
  /\ \/ unit' = None
     \/ ~calm /\ UNCHANGED unit
  /\ Moves(p, "idle")
  /\ UNCHANGED <<files, iface, calm, history>>
----------------------------------------------------------------------------
(* The machine.                                                             *)

\* all is said
Exits(p) ==
  /\ pc[p] \in {"told", "rejected"}
  /\ Moves(p, "idle")
  /\ UNCHANGED <<files, iface, unit, calm, history>>

\* a command is killed; a worker is interrupted, or ends because it could not register
Dies(p) ==
  /\ (Active(p) /\ ~calm) \/ Running(p)
  /\ Moves(p, "idle")
  /\ UNCHANGED <<files, iface, unit, calm, history>>

\* /run and the interface do not survive
Reboot ==
  /\ ~calm
  /\ pc' = [p \in Process |-> "idle"] /\ job' = [p \in Process |-> NoJob]
  /\ iface' = None /\ pidfile' = None
  /\ latest' = None /\ doubts' = 0
  /\ UNCHANGED <<config, conf, unit, calm>>

Calms ==
  /\ ~calm /\ doubts = 0
  /\ calm' = TRUE
  /\ UNCHANGED <<files, iface, unit, pc, job, history>>

Cleans(p) == RemoveDirs(p) \/ Down(p) \/ RemoveConf(p)
Configures(p) == Validate(p) \/ Save(p) \/ Load(p)
Enrolls(p) == Enroll(p) \/ VpnDown(p) \/ WriteConf(p) \/ Up(p)
StartsWorker(p) == Probe(p) \/ ReadAddress(p) \/ Enrolls(p) \/ WritePid(p)
Stops(p) == ReadPid(p) \/ Kill(p) \/ RemovePid(p)
Installs(p) == WriteUnit(p) \/ RemoveUnit(p)

Proceeds(p) == Cleans(p) \/ Configures(p) \/ StartsWorker(p) \/ Stops(p) \/ Installs(p) \/ Exits(p)

Begins(p) ==
  \/ UserInit(p)
  \/ \E command \in Commands \ {"init"} : UserRuns(p, command)
  \/ ServiceStarts(p)

Next == (\E p \in Process : Begins(p) \/ Proceeds(p) \/ Dies(p)) \/ Reboot \/ Calms

Spec == Init /\ [][Next]_vars

\* a command that was begun goes on; nobody has to begin one, and nothing has to calm
Fairness == \A p \in Process : WF_vars(Proceeds(p))

FairSpec == Spec /\ Fairness
----------------------------------------------------------------------------
\* The address a worker announces to the hub is that of the interface, although it is
\* read from a file or out of an answer: whatever was killed, failed half way or was
\* cut off by a reboot before, as long as commands did not overlap and the interface
\* was seen whenever it was up.  It says so of the worker started last.
AnnouncesInterface ==
  \A p \in Process : p = latest /\ Running(p) /\ job[p].addr # None /\ doubts = 0
                      => iface = job[p].addr

\* Every worker runs for a hub and user of an init command, and connects to that hub
\* although the answer of an enrolment replaces the hub's address: never for a part of a
\* configuration that was cut short, or for a hub of the environment.  The address that
\* the worker started last announces was handed out by that same hub, and it uses the
\* hub's address in the VPN only while an interface into that VPN is up: the saved
\* configuration, the VPN configuration and the interface of two hubs never mix,
\* although init replaces them one by one and may be killed or fail in between, as long
\* as commands did not overlap and the interface was seen.
RunsAsConfigured ==
  \A p \in Process : Running(p) =>
    /\ job[p].given.user # None /\ job[p].hub.of = job[p].given.user
    /\ p = latest /\ doubts = 0 =>
         /\ job[p].addr # None => Network[job[p].addr] = job[p].hub.of
         /\ job[p].hub.vpn => iface # None /\ Network[iface] = job[p].hub.of

\* When stop says that it stopped the worker, or that none runs, the worker that was
\* started last does not run: as long as commands did not overlap, and whatever numbers
\* the PID file was left with.
StopLeavesNone ==
  [][\A p \in Process : pc[p] # "told" /\ pc'[p] = "told" /\ doubts = 0 /\ latest # None
                         => ~Running(latest)']_vars

\* Whatever was killed or failed before, and whatever it left behind: once nothing
\* fails any more, a worker resumed from a whole configuration gets its VPN.
Resumable(p) ==
  /\ calm /\ doubts = 0 /\ pc[p] = "load"
  /\ config \in Config /\ config.user # None /\ config.api
  /\ iface # None => conf \in Address
Recovers ==
  \A p \in Process :
    Resumable(p) ~> Running(p) /\ job[p].addr # None /\ iface = job[p].addr

\* What the service starts is a command of the agent.  Violated: see README.md:39 and
\* systemd.rs:97 of the repository
ServiceRunsCommand == \A p \in Process : pc[p] # "rejected"
============================================================================
