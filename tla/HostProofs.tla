----------------------------- MODULE HostProofs -----------------------------
(* Theorems about Host: type correctness, that workers run as they were      *)
(* configured, that they announce the address of their interface, and that   *)
(* stop leaves none running, for any number of processes, addresses, users,  *)
(* attempts and doubts.                                                      *)
EXTENDS Host, TLAPS

USE BoundsAssumption, DistinctAssumption, NetworkAssumption DEF files, history

\* what a process does to its own place and job
LEMMA MovesTo ==
  ASSUME TypeOK, NEW p \in Process, NEW step \in Step, Moves(p, step)
  PROVE  /\ pc' \in [Process -> Step] /\ job' \in [Process -> Job]
         /\ pc'[p] = step
         /\ \A q \in Process \ {p} : pc'[q] = pc[q] /\ job'[q] = job[q]
         /\ step \notin {"idle", "told"} => job'[p] = job[p]
<1>1. NoJob \in Job BY DEF NoJob, NewJob, NoConfig, NoHub, Job, Config, Hub
<1> QED BY <1>1 DEF TypeOK, Moves, Goto, Sets

LEMMA SetsTo ==
  ASSUME TypeOK, NEW p \in Process, NEW step \in Step, NEW j \in Job, Goto(p, step), Sets(p, j)
  PROVE  /\ pc' \in [Process -> Step] /\ job' \in [Process -> Job]
         /\ pc'[p] = step /\ job'[p] = j
         /\ \A q \in Process \ {p} : pc'[q] = pc[q] /\ job'[q] = job[q]
BY DEF TypeOK, Goto, Sets

LEMMA SomeSteps ==
  /\ {"idle", "running"} \cup Starting \cup Cleaning \cup Other = Step
  /\ Starting \subseteq Step /\ Cleaning \subseteq Step /\ Other \subseteq Step
BY DEF Step, Starting, Cleaning, Other

\* the jobs a worker is started with, and runs with
LEMMA StarterJobIs ==
  ASSUME NEW given \in Config, NEW of \in User
  PROVE  /\ StarterJob(given, of) \in Job
         /\ StarterJob(given, of).given = given
         /\ StarterJob(given, of).hub = [of |-> of, vpn |-> FALSE]
         /\ StarterJob(given, of).addr = None
BY DEF StarterJob, Job, Hub

LEMMA WorkerConfigIs ==
  ASSUME NEW j \in Job
  PROVE  /\ WorkerConfig(j) \in Job
         /\ WorkerConfig(j).given.user = j.given.user
         /\ WorkerConfig(j).hub = j.hub
         /\ WorkerConfig(j).addr = j.addr
<1>1. [user |-> j.given.user, api |-> FALSE] \in Config BY DEF Job, Config
<1>2. 0 \in 0..MaxAttempts OBVIOUS
<1> QED BY <1>1, <1>2 DEF WorkerConfig, Job

\* what an enrolment answers
LEMMA EnrolledIs ==
  ASSUME NEW j \in Job, NEW a \in Address
  PROVE  /\ Enrolled(j, a) \in Job
         /\ Enrolled(j, a).given = j.given
         /\ Enrolled(j, a).hub = [of |-> Network[a], vpn |-> TRUE]
         /\ Enrolled(j, a).addr = a
<1>1. [of |-> Network[a], vpn |-> TRUE] \in Hub BY DEF Hub
<1> DEFINE h == [of |-> Network[a], vpn |-> TRUE]
           k == [j EXCEPT !.addr = a]
<1>2. k \in Job /\ k.given = j.given /\ k.addr = a BY DEF Job
<1>3. Enrolled(j, a) = [k EXCEPT !.hub = h] BY DEF Enrolled
<1>4. h \in Hub BY <1>1
<1> HIDE DEF k, h
<1>5. [k EXCEPT !.hub = h] \in Job /\ [k EXCEPT !.hub = h].given = k.given
      /\ [k EXCEPT !.hub = h].hub = h /\ [k EXCEPT !.hub = h].addr = k.addr
  BY <1>2, <1>4 DEF Job
<1> QED BY <1>2, <1>3, <1>5 DEF h

\* and what is left when an attempt fails
LEMMA DirectIs ==
  ASSUME NEW j \in Job, NEW attempt \in 0..MaxAttempts
  PROVE  /\ Direct(j, attempt) \in Job
         /\ Direct(j, attempt).given = j.given /\ Direct(j, attempt).command = j.command
         /\ Direct(j, attempt).hub = [of |-> j.hub.of, vpn |-> FALSE]
         /\ Direct(j, attempt).addr = None
<1> DEFINE h == [of |-> j.hub.of, vpn |-> FALSE]
           k == [j EXCEPT !.attempt = attempt, !.addr = None]
           m == [j EXCEPT !.attempt = attempt]
<1>1. h \in Hub BY DEF Hub, Job
<1>2. m \in Job /\ m.given = j.given /\ m.command = j.command BY DEF Job
<1>3. k = [m EXCEPT !.addr = None] OBVIOUS
<1>4. Direct(j, attempt) = [k EXCEPT !.hub = h] BY DEF Direct
<1> HIDE DEF k, m
<1>5. k \in Job /\ k.given = j.given /\ k.command = j.command /\ k.addr = None
  BY <1>2, <1>3 DEF Job
<1> HIDE DEF h
<1>6. [k EXCEPT !.hub = h] \in Job /\ [k EXCEPT !.hub = h].given = k.given
      /\ [k EXCEPT !.hub = h].command = k.command
      /\ [k EXCEPT !.hub = h].hub = h /\ [k EXCEPT !.hub = h].addr = k.addr
  BY <1>1, <1>5 DEF Job
<1> QED BY <1>4, <1>5, <1>6 DEF h

\* a failed attempt leads to another one, or on to the PID file, without an address
LEMMA AgainTo ==
  ASSUME TypeOK, NEW p \in Process, Again(p)
  PROVE  /\ pc' \in [Process -> Step] /\ job' \in [Process -> Job]
         /\ pc'[p] \in {"enroll", "pid"} /\ job'[p].addr = None
         /\ job'[p].given = job[p].given
         /\ job'[p].hub = [of |-> job[p].hub.of, vpn |-> FALSE]
         /\ \A q \in Process \ {p} : pc'[q] = pc[q] /\ job'[q] = job[q]
<1>0. {"enroll", "pid"} \subseteq Step BY DEF Step, Starting
<1>1. job[p] \in Job /\ job[p].attempt \in 0..MaxAttempts BY DEF TypeOK, Job
<1>2. PICK step \in {"enroll", "pid"}, attempt \in 0..MaxAttempts :
        Goto(p, step) /\ Sets(p, Direct(job[p], attempt))
  <2>1. job[p].attempt < MaxAttempts => job[p].attempt + 1 \in 0..MaxAttempts BY <1>1
  <2> QED BY <1>1, <2>1 DEF Again
<1> DEFINE j == Direct(job[p], attempt)
<1>3. /\ j \in Job /\ j.given = job[p].given /\ j.addr = None
      /\ j.hub = [of |-> job[p].hub.of, vpn |-> FALSE]
  BY <1>1, DirectIs
<1>4. Sets(p, j) BY <1>2
<1> HIDE DEF j
<1> QED BY <1>0, <1>2, <1>3, <1>4, SetsTo

----------------------------------------------------------------------------
(* What each step does to the place and the job of its process.             *)

\* the jobs of a process while it gets its hub, its address and its PID file, or runs
Begun == {"address", "enroll", "vpndown", "write", "up", "pid", "running"}

\* the fate of p's place and job in a step of its own, whatever the step is
Fate(p) ==
  /\ pc' \in [Process -> Step] /\ job' \in [Process -> Job]
  /\ \A q \in Process \ {p} : pc'[q] = pc[q] /\ job'[q] = job[q]

LEMMA BeginFate ==
  ASSUME TypeOK, NEW p \in Process, NEW command \in Commands \cup {ServiceCommand},
         NEW given \in Config, Begin(p, command, given)
  PROVE  /\ Fate(p)
         /\ pc'[p] \notin Begun \cup {"save", "probe"}
         /\ pc'[p] \in Starting \cup Cleaning => latest' = p
<1>1. First(command) \in Step /\ First(command) \notin Begun \cup {"save", "probe"}
      /\ (command \in {"stop", "install", "uninstall"} =>
            First(command) \notin Starting \cup Cleaning)
  BY DEF First, Step, Starting, Cleaning, Other, Begun, Commands, ServiceCommand
<1> DEFINE j == NewJob(command, given)
<1>2. j \in Job BY DEF NewJob, NoHub, Job, Hub
<1>3. Goto(p, First(command)) /\ Sets(p, j)
      /\ latest' = IF command \in {"stop", "install", "uninstall"} THEN latest ELSE p
  BY DEF Begin
<1> HIDE DEF j
<1>4. Fate(p) /\ pc'[p] = First(command) BY <1>1, <1>2, <1>3, SetsTo DEF Fate
<1> QED BY <1>1, <1>3, <1>4

\* every beginning is one
LEMMA Beginning ==
  ASSUME TypeOK, NEW p \in Process, Begins(p)
  PROVE  \E command \in Commands \cup {ServiceCommand}, given \in Config :
           Begin(p, command, given)
<1>1. NoConfig \in Config BY DEF NoConfig, Config
<1>2. CASE UserInit(p) BY <1>2, GivenAssumption DEF UserInit, Commands
<1>3. CASE \E command \in Commands \ {"init"} : UserRuns(p, command)
  BY <1>1, <1>3 DEF UserRuns
<1>4. CASE ServiceStarts(p) BY <1>1, <1>4 DEF ServiceStarts, TypeOK
<1> QED BY <1>2, <1>3, <1>4 DEF Begins
----------------------------------------------------------------------------
(* Type correctness.                                                        *)

LEMMA InitType == Init => TypeOK
<1>1. NoJob \in Job BY DEF NoJob, NewJob, NoConfig, NoHub, Job, Config, Hub
<1>2. "idle" \in Step /\ 0 \in 0..MaxDoubts BY DEF Step
<1> QED BY <1>1, <1>2 DEF Init, TypeOK

LEMMA CleansType == ASSUME TypeOK, NEW p \in Process, Cleans(p) PROVE TypeOK'
<1>0. {"down", "rmconf", "validate", "idle"} \subseteq Step BY DEF Step, Cleaning
<1>1. CASE RemoveDirs(p) BY <1>0, <1>1, MovesTo DEF RemoveDirs, TypeOK
<1>2. CASE Down(p) BY <1>0, <1>2, MovesTo DEF Down, WgQuickDown, TypeOK
<1>3. CASE RemoveConf(p)
  <2>1. (IF job[p].command = "init" THEN "validate" ELSE "idle") \in Step BY <1>0
  <2> QED BY <1>0, <1>3, <2>1, MovesTo DEF RemoveConf, RemovesConf, TypeOK
<1> QED BY <1>1, <1>2, <1>3 DEF Cleans

LEMMA ConfiguresType == ASSUME TypeOK, NEW p \in Process, Configures(p) PROVE TypeOK'
<1>0. {"save", "probe", "idle"} \subseteq Step BY DEF Step, Starting
<1>g. job[p] \in Job /\ job[p].given \in Config BY DEF TypeOK, Job
<1>1. CASE Validate(p)
  <2>1. (IF job[p].given.user = None THEN "idle" ELSE "save") \in Step BY <1>0
  <2> QED BY <1>1, <2>1, MovesTo DEF Validate, TypeOK
<1>2. CASE Save(p)
  <2>1. Cut(job[p].given) \subseteq Config \cup {None, Torn}
    <3>1. ASSUME NEW g \in Config PROVE [g EXCEPT !.api = FALSE] \in Config BY DEF Config
    <3>2. [user |-> None, api |-> FALSE] \in Config BY DEF Config
    <3> QED BY <1>g, <3>1, <3>2 DEF Cut, NoConfig
  <2>2. config' \in Config \cup {None, Torn} BY <1>2, <1>g, <2>1 DEF Save
  <2> QED BY <1>0, <1>2, <2>2, MovesTo DEF Save, TypeOK
<1>3. CASE Load(p)
  <2>1. CASE Loads(p) /\ Goto(p, "probe") /\ Sets(p, [job[p] EXCEPT !.given = config])
    <3>1. [job[p] EXCEPT !.given = config] \in Job BY <1>g, <2>1 DEF Loads, Job
    <3> QED BY <1>0, <1>3, <2>1, <3>1, SetsTo DEF Load, TypeOK
  <2>2. CASE Moves(p, "idle") BY <1>0, <1>3, <2>2, MovesTo DEF Load, TypeOK
  <2> QED BY <1>3, <2>1, <2>2 DEF Load
<1> QED BY <1>1, <1>2, <1>3 DEF Configures

LEMMA EnrollsType == ASSUME TypeOK, NEW p \in Process, Enrolls(p) PROVE TypeOK'
<1>0. {"vpndown", "write", "up", "pid"} \subseteq Step BY DEF Step, Starting
<1>g. job[p] \in Job /\ job[p].addr \in Address \cup {None} BY DEF TypeOK, Job
<1>1. CASE Enroll(p)
  <2>1. CASE Again(p) BY <1>1, <2>1, AgainTo DEF Enroll, TypeOK
  <2>2. ASSUME NEW a \in Address, Goto(p, "vpndown"), Sets(p, Enrolled(job[p], a))
        PROVE  TypeOK'
    <3>1. Enrolled(job[p], a) \in Job BY <1>g, EnrolledIs
    <3> QED BY <1>0, <1>1, <2>2, <3>1, SetsTo DEF Enroll, TypeOK
  <2> QED BY <1>1, <2>1, <2>2 DEF Enroll
<1>2. CASE VpnDown(p) BY <1>0, <1>2, MovesTo DEF VpnDown, WgQuickDown, TypeOK
<1>3. CASE WriteConf(p)
  <2>1. CASE Again(p) BY <1>3, <1>g, <2>1, AgainTo DEF WriteConf, Writes, TypeOK
  <2>2. CASE Moves(p, "up") BY <1>0, <1>3, <1>g, <2>2, MovesTo DEF WriteConf, Writes, TypeOK
  <2> QED BY <1>3, <2>1, <2>2 DEF WriteConf
<1>4. CASE Up(p)
  <2>0. iface' \in Address \cup {None} BY <1>4 DEF Up, WgQuickUp, TypeOK
  <2>1. CASE Again(p) BY <1>4, <2>0, <2>1, AgainTo DEF Up, TypeOK
  <2>2. CASE Moves(p, "pid") BY <1>0, <1>4, <2>0, <2>2, MovesTo DEF Up, TypeOK
  <2> QED BY <1>4, <2>1, <2>2 DEF Up
<1> QED BY <1>1, <1>2, <1>3, <1>4 DEF Enrolls

LEMMA StartsType == ASSUME TypeOK, NEW p \in Process, StartsWorker(p) PROVE TypeOK'
<1>0. {"idle", "address", "enroll", "pid", "running"} \subseteq Step BY DEF Step, Starting
<1>g. /\ job[p] \in Job /\ job[p].addr \in Address \cup {None}
      /\ job[p].given \in Config
  BY DEF TypeOK, Job
<1>1. CASE Probe(p)
  <2>0. doubts' \in 0..MaxDoubts BY <1>1 DEF Probe, TypeOK
  <2>1. CASE Moves(p, "idle") BY <1>0, <1>1, <2>0, <2>1, MovesTo DEF Probe, TypeOK
  <2>2. ASSUME NEW of \in User, NEW step \in {"address", "enroll"},
               Goto(p, step), Sets(p, StarterJob(job[p].given, of))
        PROVE  TypeOK'
    <3>1. StarterJob(job[p].given, of) \in Job BY <1>g, StarterJobIs
    <3> QED BY <1>0, <1>1, <2>0, <2>2, <3>1, SetsTo DEF Probe, TypeOK
  <2>3. job[p].given.user \in User \cup {None} BY <1>g DEF Config
  <2> QED BY <1>1, <2>1, <2>2, <2>3 DEF Probe
<1>2. CASE ReadAddress(p)
  <2>1. PICK found \in Address \cup {None} :
          Goto(p, "pid") /\ Sets(p, [job[p] EXCEPT !.addr = found])
    BY <1>2 DEF ReadAddress, TypeOK
  <2>2. [job[p] EXCEPT !.addr = found] \in Job BY <1>g DEF Job
  <2> QED BY <1>0, <1>2, <2>1, <2>2, SetsTo DEF ReadAddress, TypeOK
<1>3. CASE Enrolls(p) BY <1>3, EnrollsType
<1>4. CASE WritePid(p)
  <2>1. CASE Moves(p, "idle") BY <1>0, <1>4, <2>1, MovesTo DEF WritePid, WritesPid, TypeOK
  <2>2. CASE Goto(p, "running") /\ Sets(p, WorkerConfig(job[p]))
    <3>1. WorkerConfig(job[p]) \in Job BY <1>g, WorkerConfigIs
    <3> QED BY <1>0, <1>4, <2>2, <3>1, SetsTo DEF WritePid, WritesPid, TypeOK
  <2> QED BY <1>4, <2>1, <2>2 DEF WritePid
<1> QED BY <1>1, <1>2, <1>3, <1>4 DEF StartsWorker

LEMMA StopsType ==
  ASSUME TypeOK, NEW p \in Process, Stops(p) \/ Installs(p) \/ Exits(p)
  PROVE  TypeOK'
<1>0. {"idle", "told", "kill", "rmpid"} \subseteq Step BY DEF Step, Other
<1>6. CASE Exits(p) BY <1>0, <1>6, MovesTo DEF Exits, TypeOK
<1>g. job[p] \in Job BY DEF TypeOK
<1>h. NoJob \in Job BY DEF NoJob, NewJob, NoConfig, NoHub, Job, Config, Hub
<1>1. CASE ReadPid(p)
  <2>1. CASE Moves(p, "told") BY <1>0, <1>1, <2>1, MovesTo DEF ReadPid, TypeOK
  <2>2. CASE Moves(p, "idle") BY <1>0, <1>1, <2>2, MovesTo DEF ReadPid, TypeOK
  <2>3. CASE pidfile \in Process /\ Goto(p, "kill") /\ Sets(p, [job[p] EXCEPT !.target = pidfile])
    <3>1. [job[p] EXCEPT !.target = pidfile] \in Job BY <1>g, <2>3 DEF Job
    <3> QED BY <1>0, <1>1, <2>3, <3>1, SetsTo DEF ReadPid, TypeOK
  <2> QED BY <1>1, <2>1, <2>2, <2>3 DEF ReadPid
<1>2. CASE Kill(p)
  <2>1. [job[p] EXCEPT !.target = None] \in Job BY <1>g DEF Job
  <2>2. job' \in [Process -> Job] BY <1>2, <1>g, <1>h, <2>1 DEF Kill, TypeOK
  <2> QED BY <1>0, <1>2, <2>2 DEF Kill, TypeOK
<1>3. CASE RemovePid(p)
  <2>1. (IF pidfile = None THEN "idle" ELSE "told") \in Step BY <1>0
  <2> QED BY <1>0, <1>3, <2>1, MovesTo DEF RemovePid, TypeOK
<1>4. CASE WriteUnit(p) BY <1>0, <1>4, MovesTo DEF WriteUnit, TypeOK
<1>5. CASE RemoveUnit(p) BY <1>0, <1>5, MovesTo DEF RemoveUnit, TypeOK
<1> QED BY <1>1, <1>2, <1>3, <1>4, <1>5, <1>6 DEF Stops, Installs

LEMMA BeginsType == ASSUME TypeOK, NEW p \in Process, Begins(p) PROVE TypeOK'
<1>1. PICK command \in Commands \cup {ServiceCommand}, given \in Config : Begin(p, command, given)
  BY Beginning
<1>2. Fate(p) BY <1>1, BeginFate
<1>3. /\ latest' \in {latest, p}
      /\ doubts' \in 0..MaxDoubts
      /\ UNCHANGED <<config, conf, pidfile, iface, unit, calm>>
  BY <1>1 DEF Begin, TypeOK
<1> QED BY <1>2, <1>3 DEF Fate, TypeOK

LEMMA TypeStep == TypeOK /\ [Next]_vars => TypeOK'
<1> SUFFICES ASSUME TypeOK, [Next]_vars PROVE TypeOK'
  OBVIOUS
<1>1. ASSUME NEW p \in Process, Begins(p) PROVE TypeOK' BY <1>1, BeginsType
<1>2. ASSUME NEW p \in Process, Proceeds(p) PROVE TypeOK'
  BY <1>2, CleansType, ConfiguresType, StartsType, StopsType DEF Proceeds
<1>3. ASSUME NEW p \in Process, Dies(p) PROVE TypeOK'
  <2>1. "idle" \in Step BY DEF Step
  <2> QED BY <1>3, <2>1, MovesTo DEF Dies, TypeOK
<1>4. CASE Reboot
  <2>1. NoJob \in Job /\ "idle" \in Step BY DEF NoJob, NewJob, NoConfig, NoHub, Job, Config, Hub, Step
  <2> QED BY <1>4, <2>1 DEF Reboot, TypeOK
<1>5. CASE Calms BY <1>5 DEF Calms, TypeOK
<1>6. CASE UNCHANGED vars BY <1>6 DEF vars, TypeOK
<1> QED BY <1>1, <1>2, <1>3, <1>4, <1>5, <1>6 DEF Next

\* The variables have their types: above all, no worker enrols more than MaxAttempts
\* times (the loop of start_worker).
THEOREM TypeCorrect == Spec => []TypeOK
BY InitType, TypeStep, PTL DEF Spec
----------------------------------------------------------------------------
(* Workers run as they were configured.                                     *)

\* the hub a job connects to is the one it was given, and what an enrolment answered is of
\* that hub
OfItsHub(j) ==
  /\ j.given.user # None /\ j.hub.of = j.given.user
  /\ j.hub.vpn => j.addr \in Address /\ Network[j.addr] = j.hub.of

\* whoever has passed the checks of init or resume has a user and a hub, and the worker
\* is given this hub; between the answer and the interface it is the answer's
Configured ==
  \A p \in Process :
    /\ pc[p] \in {"save", "probe"} => job[p].given.user # None
    /\ pc[p] \in Begun => OfItsHub(job[p])
    /\ pc[p] \in {"vpndown", "write", "up"} => job[p].hub.vpn
    /\ pc[p] = "address" => ~job[p].hub.vpn

\* only p moves, and it keeps what it was given, or is not on its way to a worker
LEMMA ConfiguredFate ==
  ASSUME Configured, NEW p \in Process, Fate(p),
         pc'[p] \in {"save", "probe"} => job'[p].given.user # None,
         pc'[p] \in Begun => OfItsHub(job'[p]),
         pc'[p] \in {"vpndown", "write", "up"} => job'[p].hub.vpn,
         pc'[p] = "address" => ~job'[p].hub.vpn
  PROVE  Configured'
BY DEF Configured, Fate

\* an attempt keeps it
LEMMA ConfiguredAgain ==
  ASSUME TypeOK, Configured, NEW p \in Process, pc[p] \in Begun, Again(p)
  PROVE  Configured'
<1>1. /\ Fate(p) /\ job'[p].given = job[p].given
      /\ job'[p].hub = [of |-> job[p].hub.of, vpn |-> FALSE] /\ pc'[p] \in {"enroll", "pid"}
  BY AgainTo DEF Fate
<1>2. OfItsHub(job[p]) BY DEF Configured
<1>3. OfItsHub(job'[p]) BY <1>1, <1>2 DEF OfItsHub
<1> QED BY <1>1, <1>3, ConfiguredFate

\* and so does a step that leaves the job as it is
LEMMA ConfiguredMoves ==
  ASSUME TypeOK, Configured, NEW p \in Process, NEW step \in Step, Moves(p, step),
         step \in Begun => pc[p] \in Begun, step \notin {"save", "probe"},
         step \in {"vpndown", "write", "up"} => pc[p] \in {"vpndown", "write", "up"},
         step # "address"
  PROVE  Configured'
<1>1. Fate(p) /\ pc'[p] = step BY MovesTo DEF Fate
<1>2. CASE step \in Begun
  <2>1. job'[p] = job[p] BY <1>2, MovesTo DEF Begun
  <2> QED BY <1>1, <1>2, <2>1, ConfiguredFate DEF Configured
<1>3. CASE step \notin Begun BY <1>1, <1>3, ConfiguredFate DEF Begun
<1> QED BY <1>2, <1>3

LEMMA ConfiguredStarts ==
  ASSUME TypeOK, Configured, NEW p \in Process, Configures(p) \/ StartsWorker(p)
  PROVE  Configured'
<1>0. {"idle", "save", "probe"} \cup Begun \subseteq Step BY DEF Step, Starting, Begun
<1>g. job[p] \in Job /\ job[p].given \in Config BY DEF TypeOK, Job
<1>1. CASE Validate(p)
  <2>1. CASE job[p].given.user = None
    BY <1>0, <1>1, <2>1, ConfiguredMoves DEF Validate, Begun
  <2>2. CASE job[p].given.user # None
    <3>1. Moves(p, "save") BY <1>1, <2>2 DEF Validate
    <3>2. Fate(p) /\ pc'[p] = "save" /\ job'[p] = job[p] BY <1>0, <3>1, MovesTo DEF Fate
    <3> QED BY <2>2, <3>2, ConfiguredFate DEF Begun
  <2> QED BY <2>1, <2>2
<1>2. CASE Save(p)
  <2>1. CASE Moves(p, "probe")
    <3>1. Fate(p) /\ pc'[p] = "probe" /\ job'[p] = job[p] BY <1>0, <2>1, MovesTo DEF Fate
    <3> QED BY <1>2, <3>1, ConfiguredFate DEF Save, Configured, Begun
  <2>2. CASE Moves(p, "idle") BY <1>0, <2>2, ConfiguredMoves DEF Begun
  <2> QED BY <1>2, <2>1, <2>2 DEF Save
<1>3. CASE Load(p)
  <2>1. CASE Loads(p) /\ Goto(p, "probe") /\ Sets(p, [job[p] EXCEPT !.given = config])
    <3> DEFINE j == [job[p] EXCEPT !.given = config]
    <3>1. j \in Job /\ j.given = config /\ config.user # None
      BY <1>g, <2>1 DEF Loads, Job
    <3>a. Sets(p, j) BY <2>1
    <3> HIDE DEF j
    <3>2. Fate(p) /\ pc'[p] = "probe" /\ job'[p].given.user # None
      BY <1>0, <2>1, <3>1, <3>a, SetsTo DEF Fate
    <3> QED BY <3>2, ConfiguredFate DEF Begun
  <2>2. CASE Moves(p, "idle") BY <1>0, <2>2, ConfiguredMoves DEF Begun
  <2> QED BY <1>3, <2>1, <2>2 DEF Load
<1>4. CASE Probe(p)
  <2>1. CASE Moves(p, "idle") BY <1>0, <2>1, ConfiguredMoves DEF Begun
  <2>2. ASSUME NEW step \in {"address", "enroll"}, Goto(p, step),
               Sets(p, StarterJob(job[p].given, job[p].given.user))
        PROVE  Configured'
    <3> DEFINE j == StarterJob(job[p].given, job[p].given.user)
    <3>1. job[p].given.user \in User BY <1>g, <1>4 DEF Probe, Configured, Config
    <3>2. /\ j \in Job /\ j.given = job[p].given
          /\ j.hub = [of |-> job[p].given.user, vpn |-> FALSE]
      BY <1>g, <3>1, StarterJobIs
    <3>3. OfItsHub(j) /\ ~j.hub.vpn BY <1>4, <3>2 DEF OfItsHub, Probe, Configured
    <3>4. Sets(p, j) BY <2>2
    <3> HIDE DEF j
    <3>5. step \in Step BY <1>0 DEF Begun
    <3>6. Fate(p) /\ job'[p] = j /\ pc'[p] = step BY <2>2, <3>2, <3>4, <3>5, SetsTo DEF Fate
    <3> QED BY <3>3, <3>6, ConfiguredFate
  <2>3. job[p].given.user # None BY <1>4 DEF Probe, Configured
  <2> QED BY <1>4, <2>1, <2>2, <2>3 DEF Probe
<1>5. CASE ReadAddress(p)
  <2>1. PICK found \in Address \cup {None} :
          Goto(p, "pid") /\ Sets(p, [job[p] EXCEPT !.addr = found])
    BY <1>5 DEF ReadAddress, TypeOK
  <2>2. [job[p] EXCEPT !.addr = found] \in Job BY <1>g DEF Job
  <2>3. Fate(p) /\ pc'[p] = "pid" /\ job'[p] = [job[p] EXCEPT !.addr = found]
    BY <1>0, <2>1, <2>2, SetsTo DEF Fate, Begun
  <2>4. OfItsHub(job[p]) /\ ~job[p].hub.vpn BY <1>5 DEF ReadAddress, Configured, Begun
  <2>5. OfItsHub(job'[p]) BY <1>g, <2>3, <2>4 DEF OfItsHub, Job
  <2> QED BY <2>3, <2>5, ConfiguredFate
<1>6. CASE Enroll(p)
  <2>1. CASE Again(p) BY <1>6, <2>1, ConfiguredAgain DEF Enroll, Begun
  <2>2. ASSUME NEW a \in Address, Network[a] = job[p].given.user, Goto(p, "vpndown"),
               Sets(p, Enrolled(job[p], a))
        PROVE  Configured'
    <3> DEFINE j == Enrolled(job[p], a)
    <3>1. /\ j \in Job /\ j.given = job[p].given /\ j.addr = a
          /\ j.hub = [of |-> Network[a], vpn |-> TRUE]
      BY <1>g, EnrolledIs
    <3>2. job[p].given.user # None BY <1>6 DEF Enroll, Configured, Begun, OfItsHub
    <3>3. OfItsHub(j) BY <2>2, <3>1, <3>2 DEF OfItsHub
    <3>4. Sets(p, j) BY <2>2
    <3> HIDE DEF j
    <3>5. Fate(p) /\ job'[p] = j /\ pc'[p] = "vpndown"
      BY <1>0, <2>2, <3>1, <3>4, SetsTo DEF Fate, Begun
    <3> QED BY <3>1, <3>3, <3>5, ConfiguredFate
  <2> QED BY <1>6, <2>1, <2>2 DEF Enroll
<1>7. CASE VpnDown(p)
  BY <1>0, <1>7, ConfiguredMoves DEF VpnDown, WgQuickDown, Begun
<1>8. CASE WriteConf(p)
  <2>1. CASE Again(p) BY <1>8, <2>1, ConfiguredAgain DEF WriteConf, Begun
  <2>2. CASE Moves(p, "up") BY <1>0, <1>8, <2>2, ConfiguredMoves DEF WriteConf, Begun
  <2> QED BY <1>8, <2>1, <2>2 DEF WriteConf
<1>9. CASE Up(p)
  <2>1. CASE Again(p) BY <1>9, <2>1, ConfiguredAgain DEF Up, Begun
  <2>2. CASE Moves(p, "pid") BY <1>0, <1>9, <2>2, ConfiguredMoves DEF Up, Begun
  <2> QED BY <1>9, <2>1, <2>2 DEF Up
<1>10. CASE WritePid(p)
  <2>1. CASE Moves(p, "idle") BY <1>0, <2>1, ConfiguredMoves DEF Begun
  <2>2. CASE Goto(p, "running") /\ Sets(p, WorkerConfig(job[p]))
    <3>1. Goto(p, "running") => pc' = [pc EXCEPT ![p] = "running"] BY DEF Goto
    <3>2. pc' \in [Process -> Step] BY <1>0, <2>2, <3>1 DEF TypeOK, Begun
    <3>3. job' \in [Process -> Job] BY <1>10, StartsType DEF StartsWorker, TypeOK
    <3>4. job'[p] = WorkerConfig(job[p]) BY <2>2 DEF Sets, TypeOK
    <3>5. OfItsHub(WorkerConfig(job[p]))
      <4>1. OfItsHub(job[p]) BY <1>10 DEF WritePid, Configured, Begun
      <4> QED BY <1>g, <4>1, WorkerConfigIs DEF OfItsHub
    <3>6. Fate(p) /\ pc'[p] = "running" BY <1>0, <2>2, <3>1, <3>2, <3>3 DEF Fate, Sets, TypeOK
    <3> QED BY <3>4, <3>5, <3>6, ConfiguredFate
  <2> QED BY <1>10, <2>1, <2>2 DEF WritePid
<1> QED BY <1>1, <1>2, <1>3, <1>4, <1>5, <1>6, <1>7, <1>8, <1>9, <1>10
        DEF Configures, StartsWorker, Enrolls

\* all other steps lead away from a worker
LEMMA ConfiguredOther ==
  ASSUME TypeOK, Configured, NEW p \in Process,
         Cleans(p) \/ Stops(p) \/ Installs(p) \/ Exits(p) \/ Dies(p)
  PROVE  Configured'
<1>0. {"idle", "told", "down", "rmconf", "validate", "kill", "rmpid"} \subseteq Step
  BY DEF Step, Cleaning, Other
<1>1. CASE Kill(p)
  <2>1. \A q \in Process : pc'[q] \in {"rmpid", "idle"} \/ (pc'[q] = pc[q] /\ job'[q] = job[q])
    BY <1>1 DEF Kill, TypeOK
  <2> QED BY <2>1 DEF Configured, Begun
<1>2. ASSUME NEW step \in {"idle", "told", "down", "rmconf", "validate"}, Moves(p, step)
      PROVE  Configured'
  BY <1>0, <1>2, ConfiguredMoves DEF Begun
<1>3. ASSUME pidfile \in Process, Goto(p, "kill"), Sets(p, [job[p] EXCEPT !.target = pidfile])
      PROVE  Configured'
  <2>1. [job[p] EXCEPT !.target = pidfile] \in Job BY <1>3 DEF TypeOK, Job
  <2>2. Fate(p) /\ pc'[p] = "kill" BY <1>0, <1>3, <2>1, SetsTo DEF Fate
  <2> QED BY <2>2, ConfiguredFate DEF Begun
<1>4. CASE Cleans(p) BY <1>2, <1>4 DEF Cleans, RemoveDirs, Down, RemoveConf, WgQuickDown
<1>5. CASE Stops(p) BY <1>1, <1>2, <1>3, <1>5 DEF Stops, ReadPid, RemovePid
<1>6. CASE Installs(p) \/ Exits(p) \/ Dies(p)
  BY <1>2, <1>6 DEF Installs, WriteUnit, RemoveUnit, Exits, Dies
<1> QED BY <1>4, <1>5, <1>6

LEMMA ConfiguredStep == TypeOK /\ Configured /\ [Next]_vars => Configured'
<1> SUFFICES ASSUME TypeOK, Configured, [Next]_vars PROVE Configured'
  OBVIOUS
<1>1. ASSUME NEW p \in Process, Begins(p) PROVE Configured'
  <2>1. PICK command \in Commands \cup {ServiceCommand}, given \in Config : Begin(p, command, given)
    BY <1>1, Beginning
  <2> QED BY <2>1, BeginFate, ConfiguredFate DEF Begun
<1>2. ASSUME NEW p \in Process, Proceeds(p) \/ Dies(p) PROVE Configured'
  BY <1>2, ConfiguredStarts, ConfiguredOther DEF Proceeds
<1>3. CASE Reboot BY <1>3 DEF Reboot, Configured, Begun
<1>4. CASE Calms BY <1>4 DEF Calms, Configured
<1>5. CASE UNCHANGED vars BY <1>5 DEF vars, Configured
<1> QED BY <1>1, <1>2, <1>3, <1>4, <1>5 DEF Next

----------------------------------------------------------------------------
(* Workers announce the address of the interface.                           *)

\* what p relies on of the interface and its configuration
Sound(p) ==
  /\ pc[p] \in {"enroll", "vpndown", "write", "up"} => iface = None
  /\ pc[p] = "up" => conf = job[p].addr
  /\ pc[p] = "address" => iface # None
  /\ p = latest /\ pc[p] \in {"pid", "running"} /\ job[p].addr # None => iface = job[p].addr

\* as long as no command overlapped another one: one command is under way, the last
\* one if it touches the interface or its configuration, and these two agree
Quiet ==
  doubts = 0 =>
    /\ \A p, q \in Process : Active(p) /\ Active(q) => p = q
    /\ \A p \in Process : pc[p] \in Starting \cup Cleaning => p = latest
    /\ iface # None /\ conf # None => conf = iface
    /\ \A p \in Process : Sound(p)

\* a step of the one command on its way to a worker, or of a clean
LEMMA OwnStep ==
  ASSUME Quiet, NEW p \in Process, pc[p] \in Starting \cup Cleaning, Fate(p),
         UNCHANGED history,
         doubts = 0 => Sound(p)' /\ (iface' # None /\ conf' # None => conf' = iface')
  PROVE  Quiet'
<1> SUFFICES ASSUME doubts = 0 PROVE Quiet'
  BY DEF Quiet
<1>1. Active(p) /\ p = latest BY DEF Active, Quiet
<1>2. \A q \in Process \ {p} : ~Active(q) /\ ~Active(q)' BY <1>1 DEF Quiet, Fate, Active
<1>3. \A q \in Process \ {p} : Sound(q)'
  BY <1>1, <1>2 DEF Sound, Fate, Active, Starting
<1> QED BY <1>1, <1>2, <1>3 DEF Quiet, Active

\* a step that touches neither, and by which nobody comes nearer to a worker
LEMMA AwayStep ==
  ASSUME Quiet, UNCHANGED <<conf, iface, history>>,
         \A q \in Process : \/ pc'[q] = pc[q] /\ job'[q] = job[q]
                            \/ pc'[q] \notin Starting \cup Cleaning \cup {"running"},
         \A q \in Process : Active(q)' => Active(q)
  PROVE  Quiet'
<1> SUFFICES ASSUME doubts = 0 PROVE Quiet'
  BY DEF Quiet
<1>1. \A q \in Process : Sound(q)'
  BY DEF Quiet, Sound, Starting
<1> QED BY <1>1 DEF Quiet

\* a failed attempt
LEMMA QuietAgain ==
  ASSUME TypeOK, Quiet, NEW p \in Process, pc[p] \in Starting, Again(p), UNCHANGED history,
         doubts = 0 => iface' = None \/ (iface' = iface /\ conf' = conf)
  PROVE  doubts = 0 /\ iface' = None => Quiet'
<1>1. Fate(p) /\ pc'[p] \in {"enroll", "pid"} /\ job'[p].addr = None
  BY AgainTo DEF Fate
<1>2. doubts = 0 /\ iface' = None => Sound(p)' BY <1>1 DEF Sound
<1> QED BY <1>1, <1>2, OwnStep

LEMMA QuietCleans ==
  ASSUME TypeOK, Quiet, NEW p \in Process, Cleans(p) \/ Configures(p)
  PROVE  Quiet'
<1>0. {"idle", "down", "rmconf", "validate", "save", "probe"} \subseteq Step
  BY DEF Step, Cleaning, Starting
<1>1. pc[p] \in Starting \cup Cleaning
  BY DEF Cleans, Configures, RemoveDirs, Down, RemoveConf, Validate, Save, Load, Starting, Cleaning
<1>2. Fate(p) /\ pc'[p] \in {"idle", "down", "rmconf", "validate", "save", "probe"}
  <2>1. ASSUME NEW step \in {"idle", "down", "rmconf", "validate", "save", "probe"}, Moves(p, step)
        PROVE  Fate(p) /\ pc'[p] = step
    BY <1>0, <2>1, MovesTo DEF Fate
  <2>2. ASSUME Loads(p), Goto(p, "probe"), Sets(p, [job[p] EXCEPT !.given = config])
        PROVE  Fate(p) /\ pc'[p] = "probe"
    <3>1. [job[p] EXCEPT !.given = config] \in Job BY <2>2 DEF Loads, TypeOK, Job
    <3> QED BY <1>0, <2>2, <3>1, SetsTo DEF Fate
  <2>3. CASE Cleans(p) BY <2>1, <2>3 DEF Cleans, RemoveDirs, Down, RemoveConf, WgQuickDown
  <2>4. CASE Configures(p) BY <2>1, <2>2, <2>4 DEF Configures, Validate, Save, Load
  <2> QED BY <2>3, <2>4
<1>3. /\ UNCHANGED history
      /\ iface' \in {iface, None} /\ conf' \in {conf, None}
  BY DEF Cleans, Configures, RemoveDirs, Down, RemoveConf, RemovesConf, WgQuickDown, Validate, Save, Load
<1>4. Sound(p)' BY <1>2 DEF Sound
<1>5. doubts = 0 => (iface' # None /\ conf' # None => conf' = iface') BY <1>3 DEF Quiet
<1> QED BY <1>1, <1>2, <1>3, <1>4, <1>5, OwnStep

LEMMA QuietEnrolls ==
  ASSUME TypeOK, Quiet, NEW p \in Process, Enrolls(p)
  PROVE  Quiet'
<1>0. {"vpndown", "write", "up", "pid", "enroll"} \subseteq Step BY DEF Step, Starting
<1>1. pc[p] \in {"enroll", "vpndown", "write", "up"} /\ UNCHANGED history
  BY DEF Enrolls, Enroll, VpnDown, WgQuickDown, WriteConf, Up
<1> SUFFICES ASSUME doubts = 0 PROVE Quiet'
  BY <1>1 DEF Quiet
<1>2. pc[p] \in Starting /\ iface = None /\ Sound(p) BY <1>1 DEF Quiet, Sound, Starting
<1>g. job[p] \in Job BY DEF TypeOK
<1>3. CASE Enroll(p)
  <2>1. CASE Again(p) BY <1>1, <1>2, <1>3, <2>1, QuietAgain DEF Enroll
  <2>2. ASSUME NEW a \in Address, Goto(p, "vpndown"), Sets(p, Enrolled(job[p], a))
        PROVE  Quiet'
    <3>1. Enrolled(job[p], a) \in Job BY <1>g, EnrolledIs
    <3>2. Fate(p) /\ pc'[p] = "vpndown" BY <1>0, <2>2, <3>1, SetsTo DEF Fate
    <3>3. Sound(p)' BY <1>2, <1>3, <3>2 DEF Sound, Enroll
    <3> QED BY <1>1, <1>2, <1>3, <3>2, <3>3, OwnStep DEF Enroll
  <2> QED BY <1>3, <2>1, <2>2 DEF Enroll
<1>4. CASE VpnDown(p)
  <2>1. Fate(p) /\ pc'[p] = "write" BY <1>0, <1>4, MovesTo DEF VpnDown, WgQuickDown, Fate
  <2>2. iface' = None BY <1>2, <1>4 DEF VpnDown, WgQuickDown
  <2>3. Sound(p)' BY <2>1, <2>2 DEF Sound
  <2> QED BY <1>1, <1>2, <2>1, <2>2, <2>3, OwnStep
<1>5. CASE WriteConf(p)
  <2>0. iface' = None BY <1>2, <1>5 DEF WriteConf
  <2>1. CASE Again(p) BY <1>1, <1>2, <2>0, <2>1, QuietAgain
  <2>2. CASE Writes(p) /\ Moves(p, "up")
    <3>1. Fate(p) /\ pc'[p] = "up" /\ job'[p] = job[p] BY <1>0, <2>2, MovesTo DEF Fate
    <3>2. Sound(p)' BY <2>0, <2>2, <3>1 DEF Sound, Writes
    <3> QED BY <1>1, <1>2, <2>0, <3>1, <3>2, OwnStep
  <2> QED BY <1>5, <2>1, <2>2 DEF WriteConf
<1>6. CASE Up(p)
  <2>0. iface' \in {None, conf} /\ conf' = conf /\ conf = job[p].addr
    BY <1>2, <1>6 DEF Up, WgQuickUp, Sound
  <2>1. CASE ~UpSucceeded(p) /\ Again(p)
    BY <1>1, <1>2, <2>1, QuietAgain DEF UpSucceeded
  <2>2. CASE Moves(p, "pid") /\ UpSucceeded(p)
    <3>1. Fate(p) /\ pc'[p] = "pid" /\ job'[p] = job[p] BY <1>0, <2>2, MovesTo DEF Fate
    <3>2. iface' = conf /\ iface' = job'[p].addr BY <2>0, <2>2, <3>1 DEF UpSucceeded
    <3>3. Sound(p)' BY <3>1, <3>2 DEF Sound
    <3> QED BY <1>1, <1>2, <2>0, <3>1, <3>2, <3>3, OwnStep
  <2> QED BY <1>6, <2>1, <2>2 DEF Up
<1> QED BY <1>3, <1>4, <1>5, <1>6 DEF Enrolls

LEMMA QuietStarts ==
  ASSUME TypeOK, Quiet, NEW p \in Process, StartsWorker(p)
  PROVE  Quiet'
<1>0. {"idle", "address", "enroll", "pid"} \subseteq Step /\ "running" \in Step
  BY DEF Step, Starting
<1>g. job[p] \in Job BY DEF TypeOK
<1>1. CASE Probe(p)
  <2>d. UNCHANGED doubts \/ doubts' # 0 BY <1>1 DEF Probe, TypeOK
  <2> SUFFICES ASSUME UNCHANGED doubts PROVE Quiet'
    BY <2>d DEF Quiet
  <2>0. UNCHANGED history BY <1>1 DEF Probe
  <2>1. CASE Moves(p, "idle")
    <3>1. Fate(p) /\ pc'[p] = "idle" BY <1>0, <2>1, MovesTo DEF Fate
    <3> QED BY <1>1, <2>0, <3>1, OwnStep DEF Probe, Sound, Quiet, Starting
  <2>2. ASSUME NEW step \in {"address", "enroll"}, Goto(p, step), NEW j \in Job, Sets(p, j),
               step = IF iface # None THEN "address" ELSE "enroll"
        PROVE  Quiet'
    <3>1. Fate(p) /\ pc'[p] = step BY <1>0, <2>2, SetsTo DEF Fate
    <3>2. Sound(p)' BY <1>1, <2>0, <2>2, <3>1 DEF Probe, Sound
    <3> QED BY <1>1, <2>0, <3>1, <3>2, OwnStep DEF Probe, Quiet, Starting
  <2>3. \A j : Sets(p, j) => j \in Job \/ ~(job' \in [Process -> Job])
    BY DEF Sets, TypeOK
  <2>4. job' \in [Process -> Job] BY <1>1, StartsType DEF StartsWorker, TypeOK
  <2>5. \/ Moves(p, "idle")
        \/ \E j : /\ Goto(p, IF iface # None THEN "address" ELSE "enroll")
                 /\ Sets(p, j)
    BY <1>1, <2>0 DEF Probe, TypeOK
  <2> QED BY <2>1, <2>2, <2>3, <2>4, <2>5
<1>2. CASE ReadAddress(p)
  <2>1. PICK found \in IF conf = Torn THEN Address \cup {None} ELSE {conf} :
          Goto(p, "pid") /\ Sets(p, [job[p] EXCEPT !.addr = found])
    BY <1>2 DEF ReadAddress
  <2> DEFINE j == [job[p] EXCEPT !.addr = found]
  <2>2. j \in Job /\ j.addr = found BY <1>g, <2>1 DEF TypeOK, Job
  <2>3. Sets(p, j) BY <2>1
  <2> HIDE DEF j
  <2>4. Fate(p) /\ pc'[p] = "pid" /\ job'[p].addr = found
    BY <1>0, <2>1, <2>2, <2>3, SetsTo DEF Fate
  <2>5. doubts = 0 => iface # None /\ (conf # None => conf = iface)
    BY <1>2 DEF ReadAddress, Quiet, Sound
  <2>6. doubts = 0 => conf # Torn BY <2>5 DEF TypeOK
  <2>7. doubts = 0 => Sound(p)' BY <1>2, <2>1, <2>4, <2>5, <2>6 DEF Sound, ReadAddress
  <2> QED BY <1>2, <2>4, <2>5, <2>7, OwnStep DEF ReadAddress, Starting
<1>3. CASE Enrolls(p) BY <1>3, QuietEnrolls
<1>4. CASE WritePid(p)
  <2>1. CASE Moves(p, "idle")
    <3>1. Fate(p) /\ pc'[p] = "idle" BY <1>0, <2>1, MovesTo DEF Fate
    <3> QED BY <1>4, <3>1, OwnStep DEF WritePid, Sound, Quiet, Starting
  <2>2. CASE Goto(p, "running") /\ Sets(p, WorkerConfig(job[p]))
    <3>1. job' \in [Process -> Job] BY <1>4, StartsType DEF StartsWorker, TypeOK
    <3>2. Goto(p, "running") => pc' = [pc EXCEPT ![p] = "running"] BY DEF Goto
    <3>3. Fate(p) /\ pc'[p] = "running" BY <1>0, <2>2, <3>1, <3>2 DEF Fate, Sets, TypeOK
    <3>4. job'[p] = WorkerConfig(job[p]) BY <2>2 DEF Sets, TypeOK
    <3>5. job'[p].addr = job[p].addr BY <1>g, <3>4, WorkerConfigIs
    <3>6. doubts = 0 => Sound(p)' BY <1>4, <3>3, <3>5 DEF WritePid, Sound, Quiet
    <3> QED BY <1>4, <3>3, <3>6, OwnStep DEF WritePid, Quiet, Starting
  <2> QED BY <1>4, <2>1, <2>2 DEF WritePid
<1> QED BY <1>1, <1>2, <1>3, <1>4 DEF StartsWorker

LEMMA QuietOther ==
  ASSUME TypeOK, Quiet, NEW p \in Process, Stops(p) \/ Installs(p) \/ Exits(p) \/ Dies(p)
  PROVE  Quiet'
<1>0. {"idle", "told", "kill"} \subseteq Step BY DEF Step, Other
<1>1. UNCHANGED <<conf, iface, history>>
  BY DEF Stops, Installs, ReadPid, Kill, RemovePid, WriteUnit, RemoveUnit, Exits, Dies
<1>2. ASSUME Fate(p), pc'[p] = "idle" \/ (Active(p) /\ pc'[p] \in {"kill", "told"}) PROVE Quiet'
  <2>1. pc'[p] \notin Starting \cup Cleaning \cup {"running"} BY <1>2 DEF Starting, Cleaning
  <2>2. \A q \in Process : Active(q)' => Active(q)
    BY <1>2 DEF Fate, Active, Starting, Cleaning, Other
  <2> QED BY <1>1, <1>2, <2>1, <2>2, AwayStep DEF Fate
<1>3. ASSUME NEW step \in {"idle", "told"}, Moves(p, step), step = "told" => Active(p) PROVE Quiet'
  <2>1. Fate(p) /\ pc'[p] = step BY <1>0, <1>3, MovesTo DEF Fate
  <2> QED BY <1>2, <1>3, <2>1
<1>4. CASE Kill(p)
  <2>1. \A q \in Process : \/ pc'[q] = pc[q] /\ job'[q] = job[q]
                           \/ pc'[q] = "idle"
                           \/ q = p /\ pc'[q] = "rmpid"
    BY <1>4 DEF Kill, TypeOK
  <2>2. Active(p) BY <1>4 DEF Kill, Active, Other
  <2>3. \A q \in Process : \/ pc'[q] = pc[q] /\ job'[q] = job[q]
                           \/ pc'[q] \notin Starting \cup Cleaning \cup {"running"}
    BY <2>1 DEF Starting, Cleaning
  <2>4. \A q \in Process : Active(q)' => Active(q)
    BY <2>1, <2>2 DEF Active, Starting, Cleaning, Other
  <2> QED BY <1>1, <2>3, <2>4, AwayStep
<1>5. CASE ReadPid(p)
  <2>1. ASSUME pidfile \in Process, Goto(p, "kill"), Sets(p, [job[p] EXCEPT !.target = pidfile])
        PROVE  Quiet'
    <3>1. [job[p] EXCEPT !.target = pidfile] \in Job BY <2>1 DEF TypeOK, Job
    <3>2. Fate(p) /\ pc'[p] = "kill" BY <1>0, <2>1, <3>1, SetsTo DEF Fate
    <3>3. Active(p) BY <1>5 DEF ReadPid, Active, Other
    <3> QED BY <1>2, <3>2, <3>3
  <2> QED BY <1>3, <1>5, <2>1 DEF ReadPid, Active, Other
<1>6. CASE RemovePid(p) \/ Installs(p) \/ Exits(p) \/ Dies(p)
  BY <1>3, <1>6 DEF RemovePid, Installs, WriteUnit, RemoveUnit, Exits, Dies, Active, Other
<1> QED BY <1>4, <1>5, <1>6 DEF Stops

LEMMA QuietBegins ==
  ASSUME TypeOK, Quiet, NEW p \in Process, Begins(p)
  PROVE  Quiet'
<1>1. PICK command \in Commands \cup {ServiceCommand}, given \in Config : Begin(p, command, given)
  BY Beginning
<1>2. /\ Fate(p) /\ pc'[p] \notin Begun \cup {"save", "probe"}
      /\ pc'[p] \in Starting \cup Cleaning => latest' = p
  BY <1>1, BeginFate
<1>3. /\ ~Active(p) /\ UNCHANGED <<conf, iface>> /\ latest' \in {latest, p}
      /\ doubts' = IF \E q \in Process : Active(q) THEN doubts + 1 ELSE doubts
  BY <1>1 DEF Begin
<1> SUFFICES ASSUME doubts' = 0 PROVE Quiet'
  BY DEF Quiet
<1>4. doubts = 0 /\ \A q \in Process : ~Active(q) BY <1>3 DEF TypeOK
<1>5. \A q \in Process \ {p} : ~Active(q)' BY <1>2, <1>4 DEF Fate, Active
<1>6. Sound(p)' BY <1>2 DEF Sound, Begun
<1>7. \A q \in Process \ {p} : Sound(q)'
  BY <1>2, <1>3, <1>4 DEF Sound, Quiet, Fate, Active, Starting
<1> QED BY <1>2, <1>3, <1>4, <1>5, <1>6, <1>7 DEF Quiet, Active

LEMMA QuietStep == TypeOK /\ Quiet /\ [Next]_vars => Quiet'
<1> SUFFICES ASSUME TypeOK, Quiet, [Next]_vars PROVE Quiet'
  OBVIOUS
<1>1. ASSUME NEW p \in Process, Begins(p) PROVE Quiet' BY <1>1, QuietBegins
<1>2. ASSUME NEW p \in Process, Proceeds(p) \/ Dies(p) PROVE Quiet'
  BY <1>2, QuietCleans, QuietStarts, QuietOther DEF Proceeds
<1>3. CASE Reboot
  BY <1>3 DEF Reboot, Quiet, Sound, Active, Starting, Cleaning, Other
<1>4. CASE Calms BY <1>4 DEF Calms, Quiet, Sound, Active
<1>5. CASE UNCHANGED vars BY <1>5 DEF vars, Quiet, Sound, Active
<1> QED BY <1>1, <1>2, <1>3, <1>4, <1>5 DEF Next

\* As long as commands did not overlap and no interface was overlooked, the address that
\* the last worker announces is that of the interface: kills, failed steps, torn files and reboots included.
THEOREM WorkersAnnounceInterface == Spec => []AnnouncesInterface
<1>1. Init => Quiet BY DEF Init, Quiet, Sound, Active, Starting, Cleaning, Other
<1>2. Quiet => AnnouncesInterface BY DEF Quiet, Sound, AnnouncesInterface, Running
<1> QED BY <1>1, <1>2, QuietStep, TypeCorrect, PTL DEF Spec
----------------------------------------------------------------------------
(* What two hubs left behind does not mix.                                  *)

\* p replaces the saved configuration only when there is none of the VPN, starts a worker
\* for the saved hub, and has an address of that hub
Kept(p) ==
  /\ pc[p] \in {"validate", "save"} => conf = None
  /\ pc[p] \in ({"probe"} \cup Begun) \ {"running"} =>
       config \in Config /\ config.user = job[p].given.user
  /\ p = latest /\ pc[p] \in {"pid", "running"} /\ job[p].addr # None =>
       Network[job[p].addr] = job[p].hub.of

\* while the interface is up, its configuration is of the hub that is saved
Matched ==
  iface # None /\ conf \in Address /\ config \in Config /\ config.user # None =>
    Network[conf] = config.user

\* as long as no command overlapped another one and no interface was overlooked
Apart == doubts = 0 => Matched /\ \A p \in Process : Kept(p)

\* a step of the one command that is under way
LEMMA ApartFate ==
  ASSUME Quiet, Apart, NEW p \in Process, Active(p), Fate(p), UNCHANGED latest,
         doubts' = 0 => doubts = 0 /\ Kept(p)' /\ Matched'
  PROVE  Apart'
<1> SUFFICES ASSUME doubts' = 0 PROVE Apart'
  BY DEF Apart
<1>1. \A q \in Process \ {p} : ~Active(q) BY DEF Quiet
<1>2. \A q \in Process \ {p} : Kept(q)'
  BY <1>1 DEF Apart, Kept, Fate, Active, Starting, Cleaning, Begun
<1> QED BY <1>2 DEF Apart

\* a step that touches no file of these and leads nobody nearer to a worker
LEMMA ApartAway ==
  ASSUME Apart, UNCHANGED <<config, conf, iface, history>>,
         \A q \in Process : \/ pc'[q] = pc[q] /\ job'[q] = job[q]
                            \/ pc'[q] \notin Starting \cup Cleaning \cup {"running"}
  PROVE  Apart'
<1>1. \A q \in Process : Kept(q) => Kept(q)'
  BY DEF Kept, Starting, Cleaning, Begun
<1>2. Matched => Matched' BY DEF Matched
<1> QED BY <1>1, <1>2 DEF Apart

\* a process on its way to a worker that goes on with its job, or ends
LEMMA ApartMoves ==
  ASSUME TypeOK, Quiet, Apart, NEW p \in Process, pc[p] \in Starting, NEW step \in Step,
         Moves(p, step), UNCHANGED <<config, history>>,
         doubts = 0 => Matched',
         step = "idle" \/ (pc[p] \in Begun /\ step \in {"write", "up"})
  PROVE  Apart'
<1>1. Fate(p) /\ pc'[p] = step /\ (step # "idle" => job'[p] = job[p])
  BY MovesTo DEF Fate
<1>2. doubts = 0 => Kept(p)' BY <1>1 DEF Apart, Kept, Begun, Starting
<1> QED BY <1>1, <1>2, ApartFate DEF Active

\* a failed attempt
LEMMA ApartAgain ==
  ASSUME TypeOK, Quiet, Apart, NEW p \in Process, pc[p] \in Starting \cap Begun, Again(p),
         UNCHANGED <<config, history>>, doubts = 0 => Matched'
  PROVE  Apart'
<1>1. /\ Fate(p) /\ pc'[p] \in {"enroll", "pid"} /\ job'[p].addr = None
      /\ job'[p].given = job[p].given
  BY AgainTo DEF Fate
<1>2. doubts = 0 => Kept(p)' BY <1>1 DEF Apart, Kept, Begun, Starting
<1> QED BY <1>1, <1>2, ApartFate DEF Active

LEMMA ApartCleans ==
  ASSUME TypeOK, Quiet, Apart, NEW p \in Process, Cleans(p)
  PROVE  Apart'
<1>0. {"idle", "down", "rmconf", "validate"} \subseteq Step BY DEF Step, Cleaning
<1>1. pc[p] \in Cleaning /\ UNCHANGED history
  BY DEF Cleans, RemoveDirs, Down, WgQuickDown, RemoveConf, Cleaning
<1>2. PICK step \in {"idle", "down", "rmconf", "validate"} : Moves(p, step)
  BY DEF Cleans, RemoveDirs, Down, WgQuickDown, RemoveConf
<1>3. Fate(p) /\ pc'[p] = step BY <1>0, <1>2, MovesTo DEF Fate
<1>4. step = "validate" => conf' = None
  BY <1>2, <1>3 DEF Cleans, RemoveDirs, Down, WgQuickDown, RemoveConf, RemovesConf, Moves, Goto, TypeOK
<1>5. Kept(p)' BY <1>2, <1>3, <1>4 DEF Kept, Begun
<1>6. /\ config' \in {config, None} /\ conf' \in {conf, None} /\ iface' \in {iface, None}
  BY DEF Cleans, RemoveDirs, Down, WgQuickDown, RemoveConf, RemovesConf
<1>7. None \notin Address \cup Config BY ConfigAssumption
<1>8. doubts = 0 => Matched' BY <1>6, <1>7 DEF Apart, Matched
<1> QED BY <1>1, <1>3, <1>5, <1>8, ApartFate DEF Active

LEMMA ApartConfigures ==
  ASSUME TypeOK, Quiet, Apart, NEW p \in Process, Configures(p)
  PROVE  Apart'
<1>0. {"idle", "save", "probe"} \subseteq Step BY DEF Step, Starting
<1>1. Active(p) /\ UNCHANGED <<conf, iface, history>>
  BY DEF Configures, Validate, Save, Load, Active, Starting, Cleaning
<1>g. job[p] \in Job /\ job[p].given \in Config BY DEF TypeOK, Job
<1>2. CASE Validate(p)
  <2>1. PICK step \in {"idle", "save"} : Moves(p, step) BY <1>2 DEF Validate
  <2>2. Fate(p) /\ pc'[p] = step BY <1>0, <2>1, MovesTo DEF Fate
  <2>3. doubts = 0 => Kept(p)' BY <1>1, <1>2, <2>1, <2>2 DEF Validate, Apart, Kept, Begun
  <2>4. doubts = 0 => Matched' BY <1>1, <1>2 DEF Validate, Apart, Matched
  <2> QED BY <1>1, <2>2, <2>3, <2>4, ApartFate
<1>3. CASE Save(p)
  <2>1. doubts = 0 => conf = None BY <1>3 DEF Save, Apart, Kept
  <2>2. doubts = 0 => Matched' BY <1>1, <2>1 DEF Matched
  <2>3. CASE config' = job[p].given /\ Moves(p, "probe")
    <3>1. Fate(p) /\ pc'[p] = "probe" /\ job'[p] = job[p] BY <1>0, <2>3, MovesTo DEF Fate
    <3>2. Kept(p)' BY <1>g, <2>3, <3>1 DEF Kept
    <3> QED BY <1>1, <2>2, <3>1, <3>2, ApartFate
  <2>4. CASE Moves(p, "idle")
    <3>1. Fate(p) /\ pc'[p] = "idle" BY <1>0, <2>4, MovesTo DEF Fate
    <3>2. Kept(p)' BY <3>1 DEF Kept, Begun
    <3> QED BY <1>1, <2>2, <3>1, <3>2, ApartFate
  <2> QED BY <1>3, <2>3, <2>4 DEF Save
<1>4. CASE Load(p)
  <2>2. doubts = 0 => Matched' BY <1>1, <1>4 DEF Load, Apart, Matched
  <2>3. CASE Loads(p) /\ Goto(p, "probe") /\ Sets(p, [job[p] EXCEPT !.given = config])
    <3> DEFINE j == [job[p] EXCEPT !.given = config]
    <3>1. j \in Job /\ j.given = config /\ config \in Config BY <1>g, <2>3 DEF Loads, Job
    <3>2. Sets(p, j) BY <2>3
    <3> HIDE DEF j
    <3>3. Fate(p) /\ pc'[p] = "probe" /\ job'[p].given = config
      BY <1>0, <2>3, <3>1, <3>2, SetsTo DEF Fate
    <3>4. Kept(p)' BY <1>4, <3>1, <3>3 DEF Load, Kept
    <3> QED BY <1>1, <2>2, <3>3, <3>4, ApartFate
  <2>4. CASE Moves(p, "idle")
    <3>1. Fate(p) /\ pc'[p] = "idle" BY <1>0, <2>4, MovesTo DEF Fate
    <3>2. Kept(p)' BY <3>1 DEF Kept, Begun
    <3> QED BY <1>1, <2>2, <3>1, <3>2, ApartFate
  <2> QED BY <1>4, <2>3, <2>4 DEF Load
<1> QED BY <1>2, <1>3, <1>4 DEF Configures

LEMMA ApartEnrolls ==
  ASSUME TypeOK, Configured, Quiet, Apart, NEW p \in Process, Enrolls(p)
  PROVE  Apart'
<1>0. {"vpndown", "write", "up", "pid", "enroll"} \subseteq Step BY DEF Step, Starting
<1>1. /\ pc[p] \in {"enroll", "vpndown", "write", "up"}
      /\ UNCHANGED <<config, history>>
  BY DEF Enrolls, Enroll, VpnDown, WgQuickDown, WriteConf, Up
<1>2. pc[p] \in Starting \cap Begun /\ Active(p) BY <1>1 DEF Starting, Begun, Active
<1>3. doubts = 0 => iface = None BY <1>1 DEF Quiet, Sound
<1>g. job[p] \in Job /\ OfItsHub(job[p]) BY <1>2 DEF TypeOK, Configured
<1>4. CASE Enroll(p)
  <2>1. doubts = 0 => Matched' BY <1>3, <1>4 DEF Enroll, Matched
  <2>2. CASE Again(p) BY <1>1, <1>2, <2>1, <2>2, ApartAgain
  <2>3. ASSUME NEW a \in Address, Goto(p, "vpndown"), Sets(p, Enrolled(job[p], a))
        PROVE  Apart'
    <3>1. Enrolled(job[p], a) \in Job /\ Enrolled(job[p], a).given = job[p].given
      BY <1>g, EnrolledIs
    <3>2. Fate(p) /\ pc'[p] = "vpndown" /\ job'[p].given = job[p].given
      BY <1>0, <2>3, <3>1, SetsTo DEF Fate
    <3>3. doubts = 0 => Kept(p)' BY <1>1, <1>2, <3>2 DEF Apart, Kept, Begun
    <3> QED BY <1>1, <1>2, <2>1, <3>2, <3>3, ApartFate
  <2> QED BY <1>4, <2>2, <2>3 DEF Enroll
<1>5. CASE VpnDown(p)
  <2>1. doubts = 0 => Matched' BY <1>3, <1>5 DEF VpnDown, WgQuickDown, Matched
  <2> QED BY <1>0, <1>1, <1>2, <1>5, <2>1, ApartMoves DEF VpnDown, WgQuickDown
<1>6. CASE WriteConf(p)
  <2>1. doubts = 0 => Matched' BY <1>3, <1>6 DEF WriteConf, Matched
  <2>2. CASE Again(p) BY <1>1, <1>2, <2>1, <2>2, ApartAgain
  <2>3. CASE Moves(p, "up") BY <1>0, <1>1, <1>2, <2>1, <2>3, ApartMoves
  <2> QED BY <1>6, <2>2, <2>3 DEF WriteConf
<1>7. CASE Up(p)
  <2>1. job[p].hub.vpn /\ job[p].addr \in Address /\ Network[job[p].addr] = job[p].hub.of
    BY <1>7, <1>g DEF Up, Configured, OfItsHub
  <2>2. doubts = 0 => conf = job[p].addr /\ config.user = job[p].given.user
    BY <1>1, <1>7 DEF Up, Quiet, Sound, Apart, Kept, Begun
  <2>3. doubts = 0 => Matched'
    BY <1>1, <1>7, <1>g, <2>1, <2>2 DEF Up, Matched, OfItsHub
  <2>4. CASE Again(p) BY <1>1, <1>2, <2>3, <2>4, ApartAgain
  <2>5. CASE Moves(p, "pid")
    <3>1. Fate(p) /\ pc'[p] = "pid" /\ job'[p] = job[p] BY <1>0, <2>5, MovesTo DEF Fate
    <3>2. doubts = 0 => Kept(p)' BY <1>1, <1>2, <2>1, <3>1 DEF Apart, Kept, Begun
    <3> QED BY <1>1, <1>2, <2>3, <3>1, <3>2, ApartFate
  <2> QED BY <1>7, <2>4, <2>5 DEF Up
<1> QED BY <1>4, <1>5, <1>6, <1>7 DEF Enrolls

LEMMA ApartStarts ==
  ASSUME TypeOK, Configured, Quiet, Apart, NEW p \in Process, StartsWorker(p)
  PROVE  Apart'
<1>0. {"idle", "address", "enroll", "pid", "running"} \subseteq Step BY DEF Step, Starting
<1>g. job[p] \in Job /\ job[p].given \in Config BY DEF TypeOK, Job
<1>1. CASE Probe(p)
  <2>1. /\ Active(p) /\ UNCHANGED <<config, conf, iface, latest>>
        /\ doubts' = 0 => doubts = 0
    BY <1>1 DEF Probe, Active, Starting, TypeOK
  <2>2. doubts = 0 => Matched' BY <2>1 DEF Apart, Matched
  <2>3. CASE Moves(p, "idle")
    <3>1. Fate(p) /\ pc'[p] = "idle" BY <1>0, <2>3, MovesTo DEF Fate
    <3>2. Kept(p)' BY <3>1 DEF Kept, Begun
    <3> QED BY <2>1, <2>2, <3>1, <3>2, ApartFate
  <2>4. ASSUME NEW of \in User, NEW step \in {"address", "enroll"}, Goto(p, step),
               Sets(p, StarterJob(job[p].given, of))
        PROVE  Apart'
    <3>1. StarterJob(job[p].given, of) \in Job /\ StarterJob(job[p].given, of).given = job[p].given
      BY <1>g, StarterJobIs
    <3>2. Fate(p) /\ pc'[p] = step /\ job'[p].given = job[p].given
      BY <1>0, <2>4, <3>1, SetsTo DEF Fate
    <3>3. doubts = 0 => Kept(p)' BY <1>1, <2>1, <3>2 DEF Probe, Apart, Kept
    <3> QED BY <2>1, <2>2, <3>2, <3>3, ApartFate
  <2>5. job[p].given.user \in User \cup {None} BY <1>g DEF Config
  <2> QED BY <1>1, <2>3, <2>4, <2>5 DEF Probe
<1>2. CASE ReadAddress(p)
  <2>1. PICK found \in IF conf = Torn THEN Address \cup {None} ELSE {conf} :
          Goto(p, "pid") /\ Sets(p, [job[p] EXCEPT !.addr = found])
    BY <1>2 DEF ReadAddress
  <2> DEFINE j == [job[p] EXCEPT !.addr = found]
  <2>2. j \in Job /\ j.addr = found /\ j.given = job[p].given /\ j.hub = job[p].hub
    BY <1>g, <2>1 DEF TypeOK, Job
  <2>3. Sets(p, j) BY <2>1
  <2> HIDE DEF j
  <2>4. Fate(p) /\ pc'[p] = "pid" /\ job'[p] = j BY <1>0, <2>1, <2>2, <2>3, SetsTo DEF Fate
  <2>5. /\ Active(p) /\ pc[p] = "address" /\ UNCHANGED <<config, conf, iface, history>>
    BY <1>2 DEF ReadAddress, Active, Starting
  <2>6. OfItsHub(job[p]) BY <2>5 DEF Configured, Begun
  <2>7. doubts = 0 => /\ iface # None /\ conf # Torn
                      /\ config \in Config /\ config.user = job[p].given.user
    BY <2>5 DEF Quiet, Sound, Apart, Kept, Begun, TypeOK
  <2>8. doubts = 0 => (found # None => Network[found] = job[p].hub.of)
    BY <2>1, <2>6, <2>7 DEF Apart, Matched, OfItsHub, TypeOK
  <2>9. doubts = 0 => Kept(p)' BY <2>2, <2>4, <2>5, <2>7, <2>8 DEF Kept
  <2>10. doubts = 0 => Matched' BY <2>5 DEF Apart, Matched
  <2> QED BY <2>4, <2>5, <2>9, <2>10, ApartFate
<1>3. CASE Enrolls(p) BY <1>3, ApartEnrolls
<1>4. CASE WritePid(p)
  <2>1. Active(p) /\ pc[p] = "pid" /\ UNCHANGED <<config, conf, iface, history>>
    BY <1>4 DEF WritePid, Active, Starting
  <2>2. doubts = 0 => Matched' BY <2>1 DEF Apart, Matched
  <2>3. CASE Moves(p, "idle")
    <3>1. pc[p] \in Starting BY <2>1 DEF Starting
    <3> QED BY <1>0, <2>1, <2>2, <2>3, <3>1, ApartMoves
  <2>4. CASE Goto(p, "running") /\ Sets(p, WorkerConfig(job[p]))
    <3>1. WorkerConfig(job[p]) \in Job /\ WorkerConfig(job[p]).addr = job[p].addr
          /\ WorkerConfig(job[p]).hub = job[p].hub
      BY <1>g, WorkerConfigIs
    <3>2. Fate(p) /\ pc'[p] = "running" /\ job'[p] = WorkerConfig(job[p])
      BY <1>0, <2>4, <3>1, SetsTo DEF Fate
    <3>3. doubts = 0 => Kept(p)' BY <2>1, <3>1, <3>2 DEF Apart, Kept
    <3> QED BY <2>1, <2>2, <3>2, <3>3, ApartFate
  <2> QED BY <1>4, <2>3, <2>4 DEF WritePid
<1> QED BY <1>1, <1>2, <1>3, <1>4 DEF StartsWorker

LEMMA ApartOther ==
  ASSUME TypeOK, Apart, NEW p \in Process, Stops(p) \/ Installs(p) \/ Exits(p) \/ Dies(p)
  PROVE  Apart'
<1>1. UNCHANGED <<config, conf, iface, history>>
  BY DEF Stops, Installs, ReadPid, Kill, RemovePid, WriteUnit, RemoveUnit, Exits, Dies
<1>2. ASSUME NEW step \in {"idle", "told", "kill"}, Goto(p, step),
             \A q \in Process \ {p} : job'[q] = job[q]
      PROVE  Apart'
  <2>1. \A q \in Process : \/ pc'[q] = pc[q] /\ job'[q] = job[q]
                           \/ pc'[q] \notin Starting \cup Cleaning \cup {"running"}
    BY <1>2 DEF Goto, TypeOK, Starting, Cleaning
  <2> QED BY <1>1, <2>1, ApartAway
<1>3. ASSUME NEW step \in {"idle", "told"}, Moves(p, step) PROVE Apart'
  BY <1>2, <1>3 DEF Moves, Sets, TypeOK
<1>4. CASE Kill(p)
  <2>1. \A q \in Process : \/ pc'[q] = pc[q] /\ job'[q] = job[q]
                           \/ pc'[q] \in {"idle", "rmpid"}
    BY <1>4 DEF Kill, TypeOK
  <2>2. \A q \in Process : \/ pc'[q] = pc[q] /\ job'[q] = job[q]
                           \/ pc'[q] \notin Starting \cup Cleaning \cup {"running"}
    BY <2>1 DEF Starting, Cleaning
  <2> QED BY <1>1, <2>2, ApartAway
<1>5. CASE ReadPid(p) BY <1>2, <1>3, <1>5 DEF ReadPid, Sets, TypeOK
<1>6. CASE RemovePid(p) \/ Installs(p) \/ Exits(p) \/ Dies(p)
  BY <1>3, <1>6 DEF RemovePid, Installs, WriteUnit, RemoveUnit, Exits, Dies
<1> QED BY <1>4, <1>5, <1>6 DEF Stops

LEMMA ApartBegins ==
  ASSUME TypeOK, Quiet, Apart, NEW p \in Process, Begins(p)
  PROVE  Apart'
<1>1. PICK command \in Commands \cup {ServiceCommand}, given \in Config : Begin(p, command, given)
  BY Beginning
<1>2. Fate(p) /\ pc'[p] \notin Begun \cup {"save", "probe"} BY <1>1, BeginFate
<1>3. /\ ~Active(p) /\ ~Running(p) /\ UNCHANGED <<config, conf, iface>> /\ latest' \in {latest, p}
      /\ doubts' = IF \E q \in Process : Active(q) THEN doubts + 1 ELSE doubts
  BY <1>1 DEF Begin
<1>4. pc'[p] # "validate" BY <1>1 DEF Begin, Goto, First, Commands, ServiceCommand, TypeOK
<1> SUFFICES ASSUME doubts' = 0 PROVE Apart'
  BY DEF Apart
<1>5. doubts = 0 /\ \A q \in Process : ~Active(q) BY <1>3 DEF TypeOK
<1>6. Kept(p)' BY <1>2, <1>4 DEF Kept, Begun
<1>7. \A q \in Process \ {p} : Kept(q)'
  BY <1>2, <1>3, <1>5 DEF Kept, Apart, Fate, Active, Starting, Cleaning, Begun
<1> QED BY <1>3, <1>5, <1>6, <1>7 DEF Apart, Matched

LEMMA ApartStep == TypeOK /\ Configured /\ Quiet /\ Apart /\ [Next]_vars => Apart'
<1> SUFFICES ASSUME TypeOK, Configured, Quiet, Apart, [Next]_vars PROVE Apart'
  OBVIOUS
<1>1. ASSUME NEW p \in Process, Begins(p) PROVE Apart' BY <1>1, ApartBegins
<1>2. ASSUME NEW p \in Process, Proceeds(p) \/ Dies(p) PROVE Apart'
  BY <1>2, ApartCleans, ApartConfigures, ApartStarts, ApartOther DEF Proceeds
<1>3. CASE Reboot BY <1>3 DEF Reboot, Apart, Matched, Kept, Begun
<1>4. CASE Calms BY <1>4 DEF Calms, Apart, Matched, Kept
<1>5. CASE UNCHANGED vars BY <1>5 DEF vars, Apart, Matched, Kept
<1> QED BY <1>1, <1>2, <1>3, <1>4, <1>5 DEF Next

\* Every worker runs for the hub and the user of an init command that named both,
\* whatever was left of the configuration by commands that were killed or overlapped;
\* and as long as no command overlapped another one and no interface was overlooked,
\* the worker started last has an address of that hub, and an interface into its VPN if
\* it uses the address that the hub has there.
THEOREM WorkersRunAsConfigured == Spec => []RunsAsConfigured
<1>1. Init => Configured /\ Quiet /\ Apart
  BY DEF Init, Configured, Begun, Quiet, Sound, Active, Starting, Cleaning, Other, Apart, Matched, Kept
<1>2. TypeOK /\ Configured /\ Quiet /\ Apart => RunsAsConfigured
  <2> SUFFICES ASSUME TypeOK, Configured, Quiet, Apart, NEW p \in Process, Running(p)
               PROVE  /\ job[p].given.user # None /\ job[p].hub.of = job[p].given.user
                      /\ p = latest /\ doubts = 0 =>
                           /\ job[p].addr # None => Network[job[p].addr] = job[p].hub.of
                           /\ job[p].hub.vpn => iface # None /\ Network[iface] = job[p].hub.of
    BY DEF RunsAsConfigured
  <2>1. OfItsHub(job[p]) BY DEF Configured, Running, Begun
  <2>2. p = latest /\ doubts = 0 /\ job[p].addr # None => iface = job[p].addr
    BY DEF Quiet, Sound, Running
  <2>3. p = latest /\ doubts = 0 /\ job[p].addr # None => Network[job[p].addr] = job[p].hub.of
    BY DEF Apart, Kept, Running
  <2> QED BY <2>1, <2>2, <2>3 DEF OfItsHub
<1>3. Spec => [](TypeOK /\ Configured /\ Quiet /\ Apart)
  BY <1>1, InitType, TypeStep, ConfiguredStep, QuietStep, ApartStep, PTL DEF Spec
<1> QED BY <1>2, <1>3, PTL
----------------------------------------------------------------------------
(* What stop can promise.                                                    *)

LatestRuns == latest # None /\ Running(latest)

\* as long as no command overlapped another one: the PID file names the worker that was
\* started last while it runs, and a stop that has read the file has its number
Recorded ==
  doubts = 0 =>
    /\ LatestRuns => pidfile = latest
    /\ \A p \in Process : pc[p] = "kill" /\ LatestRuns => job[p].target = latest
    /\ \A p \in Process : pc[p] = "rmpid" => ~LatestRuns

\* p comes to a step that says nothing about the worker
Elsewhere(p) ==
  /\ \E step : step \notin {"kill", "rmpid", "running"} /\ Goto(p, step)
  /\ UNCHANGED job \/ \E j : Sets(p, j)

LEMMA MovesElsewhere ==
  ASSUME NEW p \in Process, NEW step, Moves(p, step), step \notin {"kill", "rmpid", "running"}
  PROVE  Elsewhere(p)
BY DEF Moves, Elsewhere

LEMMA AgainElsewhere ==
  ASSUME NEW p \in Process, Again(p)
  PROVE  Elsewhere(p)
BY DEF Again, Elsewhere

LEMMA RecordedElsewhere ==
  ASSUME TypeOK, Recorded, NEW p \in Process, Elsewhere(p), UNCHANGED <<pidfile, latest>>,
         UNCHANGED doubts \/ doubts' # 0
  PROVE  Recorded'
<1>1. PICK step : step \notin {"kill", "rmpid", "running"} /\ Goto(p, step) BY DEF Elsewhere
<1>2. pc'[p] = step /\ \A q \in Process \ {p} : pc'[q] = pc[q] /\ job'[q] = job[q]
  BY <1>1 DEF Elsewhere, Goto, Sets, TypeOK
<1>3. LatestRuns' => LatestRuns /\ latest \in Process \ {p}
  BY <1>1, <1>2 DEF LatestRuns, Running, TypeOK
<1> QED BY <1>1, <1>2, <1>3 DEF Recorded

LEMMA RecordedAway ==
  ASSUME TypeOK, Recorded, NEW p \in Process,
         \/ Cleans(p) \/ Configures(p) \/ Enrolls(p) \/ Probe(p) \/ ReadAddress(p)
         \/ Installs(p) \/ Exits(p) \/ Dies(p)
  PROVE  Recorded'
<1> USE MovesElsewhere, AgainElsewhere
<1>1. /\ UNCHANGED <<pidfile, latest>>
      /\ UNCHANGED doubts \/ doubts' # 0
  BY DEF Cleans, RemoveDirs, Down, WgQuickDown, RemoveConf, Configures, Validate, Save, Load, Enrolls,
         Enroll, VpnDown, WriteConf, Up, Probe, ReadAddress, Installs, WriteUnit, RemoveUnit, Exits,
         Dies, TypeOK
<1>2. CASE Cleans(p) \/ VpnDown(p)
  <2>1. Elsewhere(p)
    BY <1>2 DEF Cleans, RemoveDirs, Down, VpnDown, WgQuickDown, RemoveConf
  <2> QED BY <1>1, <2>1, RecordedElsewhere
<1>3. CASE Configures(p)
  <2>1. Elsewhere(p) BY <1>3 DEF Configures, Validate, Save, Load, Elsewhere
  <2> QED BY <1>1, <2>1, RecordedElsewhere
<1>4. CASE Enroll(p) \/ WriteConf(p) \/ Up(p)
  <2>1. Elsewhere(p) BY <1>4 DEF Enroll, WriteConf, Up, Elsewhere
  <2> QED BY <1>1, <2>1, RecordedElsewhere
<1>5. CASE Probe(p) \/ ReadAddress(p)
  <2>1. Elsewhere(p) BY <1>5 DEF Probe, ReadAddress, Elsewhere
  <2> QED BY <1>1, <2>1, RecordedElsewhere
<1>6. CASE Installs(p) \/ Exits(p) \/ Dies(p)
  <2>1. Elsewhere(p) BY <1>6 DEF Installs, WriteUnit, RemoveUnit, Exits, Dies
  <2> QED BY <1>1, <2>1, RecordedElsewhere
<1> QED BY <1>2, <1>3, <1>4, <1>5, <1>6 DEF Enrolls

\* the worker that starts is the last one, and no stop is under way
LEMMA RecordedStart ==
  ASSUME TypeOK, Quiet, Recorded, NEW p \in Process, WritePid(p)
  PROVE  Recorded'
<1> SUFFICES ASSUME doubts = 0 PROVE Recorded'
  BY DEF WritePid, Recorded
<1>1. pc[p] = "pid" /\ UNCHANGED history BY DEF WritePid
<1>2. Active(p) /\ p = latest /\ \A q \in Process \ {p} : ~Active(q)
  BY <1>1 DEF Active, Quiet, Starting
<1>3. \A q \in Process \ {p} : pc[q] \notin {"kill", "rmpid"} BY <1>2 DEF Active, Other
<1>4. CASE WritesPid(p) /\ Goto(p, "running")
  <2>1. pidfile' = p /\ pc'[p] = "running" /\ \A q \in Process \ {p} : pc'[q] = pc[q]
    BY <1>4 DEF WritesPid, Goto, TypeOK
  <2> QED BY <1>1, <1>2, <1>3, <2>1 DEF Recorded
<1>5. CASE Moves(p, "idle")
  <2>1. pc'[p] = "idle" /\ \A q \in Process \ {p} : pc'[q] = pc[q]
    BY <1>5 DEF Moves, Goto, TypeOK
  <2> QED BY <1>1, <1>2, <1>3, <2>1 DEF Recorded, LatestRuns, Running
<1> QED BY <1>4, <1>5 DEF WritePid

LEMMA RecordedStops ==
  ASSUME TypeOK, Recorded, NEW p \in Process, Stops(p)
  PROVE  Recorded'
<1>0. UNCHANGED history BY DEF Stops, ReadPid, Kill, RemovePid
<1> SUFFICES ASSUME doubts = 0 PROVE Recorded'
  BY <1>0 DEF Recorded
<1>1. CASE ReadPid(p)
  <2>1. CASE Moves(p, "told") \/ Moves(p, "idle")
    <3>1. Elsewhere(p) BY <2>1, MovesElsewhere
    <3> QED BY <1>0, <1>1, <3>1, RecordedElsewhere DEF ReadPid
  <2>2. CASE Goto(p, "kill") /\ Sets(p, [job[p] EXCEPT !.target = pidfile])
    <3>1. /\ pc'[p] = "kill" /\ job'[p].target = pidfile
          /\ \A q \in Process \ {p} : pc'[q] = pc[q] /\ job'[q] = job[q]
      BY <2>2 DEF Goto, Sets, TypeOK, Job
    <3>2. LatestRuns' => LatestRuns /\ latest # p
      BY <1>0, <3>1 DEF LatestRuns, Running, TypeOK
    <3> QED BY <1>0, <1>1, <3>1, <3>2 DEF Recorded, ReadPid
  <2> QED BY <1>1, <2>1, <2>2 DEF ReadPid
<1>2. CASE Kill(p)
  <2> DEFINE target == job[p].target
  <2>1. /\ pc[p] = "kill" /\ pidfile' = pidfile
        /\ pc' = [pc EXCEPT ![p] = "rmpid", ![target] = "idle"]
        /\ job' = [job EXCEPT ![p].target = None, ![target] = NoJob]
    BY <1>2 DEF Kill
  <2>2. /\ \A q \in Process \ {p, target} : pc'[q] = pc[q] /\ job'[q] = job[q]
        /\ target \in Process => pc'[target] = "idle"
        /\ pc'[p] \in {"rmpid", "idle"}
    BY <2>1 DEF TypeOK
  <2> HIDE DEF target
  <2>3. ~LatestRuns'
    <3> SUFFICES ASSUME LatestRuns' PROVE FALSE OBVIOUS
    <3>1. latest \in Process /\ pc'[latest] = "running" BY <1>0 DEF LatestRuns, Running, TypeOK
    <3>2. latest # p /\ latest # target BY <2>2, <3>1
    <3>3. LatestRuns BY <2>2, <3>1, <3>2 DEF LatestRuns, Running
    <3> QED BY <2>1, <3>2, <3>3 DEF Recorded, target
  <2> QED BY <2>3 DEF Recorded
<1>3. CASE RemovePid(p)
  <2>1. pc'[p] \in {"idle", "told"} /\ pc[p] = "rmpid"
        /\ \A q \in Process \ {p} : pc'[q] = pc[q] /\ job'[q] = job[q]
    BY <1>3 DEF RemovePid, Moves, Goto, Sets, TypeOK
  <2>2. ~LatestRuns BY <2>1 DEF Recorded
  <2>3. ~LatestRuns' BY <1>0, <2>1, <2>2 DEF LatestRuns, Running, TypeOK
  <2> QED BY <2>3 DEF Recorded
<1> QED BY <1>1, <1>2, <1>3 DEF Stops

LEMMA RecordedBegins ==
  ASSUME TypeOK, Recorded, NEW p \in Process, Begins(p)
  PROVE  Recorded'
<1>1. PICK command \in Commands \cup {ServiceCommand}, given \in Config : Begin(p, command, given)
  BY Beginning
<1>2. /\ Goto(p, First(command)) /\ Sets(p, NewJob(command, given))
      /\ latest' \in {latest, p} /\ UNCHANGED pidfile
      /\ doubts' = IF \E q \in Process : Active(q) THEN doubts + 1 ELSE doubts
  BY <1>1 DEF Begin
<1>3. First(command) \notin {"kill", "rmpid", "running"}
  BY DEF First, Commands, ServiceCommand
<1>4. pc'[p] = First(command) /\ \A q \in Process \ {p} : pc'[q] = pc[q] /\ job'[q] = job[q]
  BY <1>2 DEF Goto, Sets, TypeOK
<1>5. LatestRuns' => LatestRuns /\ latest' = latest /\ latest \in Process \ {p}
  BY <1>2, <1>3, <1>4 DEF LatestRuns, Running, TypeOK
<1>6. doubts' = 0 => doubts = 0 BY <1>2 DEF TypeOK
<1> QED BY <1>2, <1>3, <1>4, <1>5, <1>6 DEF Recorded

LEMMA RecordedStep == TypeOK /\ Quiet /\ Recorded /\ [Next]_vars => Recorded'
<1> SUFFICES ASSUME TypeOK, Quiet, Recorded, [Next]_vars PROVE Recorded'
  OBVIOUS
<1>1. ASSUME NEW p \in Process, Begins(p) PROVE Recorded' BY <1>1, RecordedBegins
<1>2. ASSUME NEW p \in Process, Proceeds(p) \/ Dies(p) PROVE Recorded'
  BY <1>2, RecordedAway, RecordedStart, RecordedStops DEF Proceeds, StartsWorker
<1>3. CASE Reboot BY <1>3 DEF Reboot, Recorded, LatestRuns
<1>4. CASE Calms BY <1>4 DEF Calms, Recorded, LatestRuns, Running
<1>5. CASE UNCHANGED vars BY <1>5 DEF vars, Recorded, LatestRuns, Running
<1> QED BY <1>1, <1>2, <1>3, <1>4, <1>5 DEF Next

\* only a stop says that none runs, or runs any more
LEMMA StopTells ==
  ASSUME TypeOK, NEW p \in Process, [Next]_vars, pc[p] # "told", pc'[p] = "told"
  PROVE  \/ ReadPid(p) /\ pidfile = None /\ UNCHANGED history
         \/ RemovePid(p) /\ UNCHANGED history
<1>1. ASSUME NEW q \in Process, Begins(q) PROVE FALSE
  <2>1. PICK command \in Commands \cup {ServiceCommand}, given \in Config : Begin(q, command, given)
    BY <1>1, Beginning
  <2>2. First(command) # "told" BY DEF First, Commands, ServiceCommand
  <2> QED BY <2>1, <2>2 DEF Begin, Goto, TypeOK
<1>2. ASSUME NEW q \in Process, NEW step, Goto(q, step), step # "told" PROVE FALSE
  BY <1>2 DEF Goto, TypeOK
<1>3. ASSUME NEW q \in Process, Again(q) PROVE FALSE BY <1>2, <1>3 DEF Again
<1>4. ASSUME NEW q \in Process, Cleans(q) \/ Configures(q) \/ Installs(q) \/ Exits(q) \/ Dies(q)
      PROVE  FALSE
  BY <1>2, <1>4 DEF Cleans, RemoveDirs, Down, WgQuickDown, RemoveConf, Configures, Validate, Save,
                    Load, Installs, WriteUnit, RemoveUnit, Exits, Dies, Moves
<1>5. ASSUME NEW q \in Process, StartsWorker(q) PROVE FALSE
  BY <1>2, <1>3, <1>5 DEF StartsWorker, Enrolls, Probe, ReadAddress, Enroll, VpnDown, WgQuickDown,
                          WriteConf, Up, WritePid, Moves
<1>6. ASSUME NEW q \in Process, Kill(q) PROVE FALSE BY <1>6 DEF Kill, TypeOK
<1>7. ASSUME NEW q \in Process, ReadPid(q) \/ RemovePid(q), q # p PROVE FALSE
  BY <1>7 DEF ReadPid, RemovePid, Moves, Goto, TypeOK
<1>8. ASSUME ReadPid(p) PROVE pidfile = None
  BY <1>2, <1>8 DEF ReadPid, Moves
<1>9. ReadPid(p) \/ RemovePid(p) => UNCHANGED history BY DEF ReadPid, RemovePid
<1>10. CASE Reboot \/ Calms \/ UNCHANGED vars BY <1>10 DEF Reboot, Calms, vars, TypeOK
<1> QED BY <1>1, <1>4, <1>5, <1>6, <1>7, <1>8, <1>9, <1>10 DEF Next, Proceeds, Stops

\* When a stop says that it stopped the worker or that none runs, the worker that was
\* started last does not run: for any number of processes, as long as commands did not
\* overlap since the boot, and whatever the PID file was left with before.
THEOREM StopsLeaveNone == Spec => StopLeavesNone
<1> DEFINE Tells == \A p \in Process : pc[p] # "told" /\ pc'[p] = "told" /\ doubts = 0
                                         /\ latest # None => ~Running(latest)'
<1>1. Init => Quiet /\ Recorded
  BY DEF Init, Quiet, Sound, Active, Starting, Cleaning, Other, Recorded, LatestRuns
<1>2. TypeOK /\ Recorded /\ [Next]_vars => [Tells]_vars
  <2> SUFFICES ASSUME TypeOK, Recorded, [Next]_vars, NEW p \in Process,
                      pc[p] # "told", pc'[p] = "told", doubts = 0, latest # None
               PROVE  ~Running(latest)'
    OBVIOUS
  <2>1. UNCHANGED history /\ ~LatestRuns
    <3>1. CASE ReadPid(p) /\ pidfile = None /\ UNCHANGED history
      BY <3>1 DEF Recorded, LatestRuns
    <3>2. CASE RemovePid(p) /\ UNCHANGED history
      BY <3>2 DEF Recorded, RemovePid
    <3> QED BY <3>1, <3>2, StopTells
  <2>2. \A q \in Process \ {p} : pc'[q] = pc[q]
    BY StopTells DEF ReadPid, RemovePid, Moves, Goto, TypeOK
  <2> QED BY <2>1, <2>2 DEF LatestRuns, Running, TypeOK
<1>3. Spec => [](TypeOK /\ Quiet /\ Recorded)
  BY <1>1, InitType, TypeStep, QuietStep, RecordedStep, PTL DEF Spec
<1> HIDE DEF Tells
<1>4. Spec => [][Tells]_vars BY <1>2, <1>3, PTL DEF Spec
<1> QED BY <1>4 DEF StopLeavesNone, Tells
=============================================================================
