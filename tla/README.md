# A verification development for akai-agent

akai-agent is the worker of a distributed inference network.  A worker connects to a
hub, is assigned a range of the layers of a model, downloads the model, serves the
range with an in-process Candle server and passes hidden states to the next worker.
This directory holds TLA+ models of the agent, TLC configurations that check them on
small instances, and proofs of the most important properties for every value of the
constants.

All line numbers are of the sources under `src/` of the repository
(`src/hub_worker.rs` there is `src/src/hub_worker.rs` in `PROJECT.json`).

## 1. The system: inventory

| component | state it keeps | operations | made correct by |
|---|---|---|---|
| hub loop and message handlers (`hub_worker.rs`, `types.rs`) | `PipelineState` behind an `RwLock`: assignment, hops, model, progress flags, loaded layers | one handler per `HubMessage` | flags, heartbeats and posts backed by a server that exists; no handler waits for ever |
| setup task (`hub_worker.rs` 397-642) | captured assignment and model, the file `model.gguf` | hash, download, start the server, publish | the worker becomes ready, also with several setups at once; nothing unfinished is published |
| Candle server (`candle_worker.rs`, `candle_server.rs`) | model in memory, the llama port | load, bind, answer HTTP | one server of the process owns the port, if no other process does |
| hub connection (`hub_worker.rs` 70-160) | read buffer, reconnect delay | connect, register, read, split lines | no message lost or split, delay bounded |
| inbound listener (`inbound.rs`) | none of its own, reads `PipelineState` | accept, read one message, relay or answer | a heartbeat goes round the pipeline once, a request reaches the last worker |
| tunnel (`tunnel.rs`) | map of connections, send queue | `NEW_CONN`, `DATA`, `CLOSE` frames both ways, reconnect | per connection bytes arrive in order; no deadlock on full queues; no frame for a later connection of the same id |
| command line (`cli.rs`, `config.rs`, `worker.rs`, `main.rs`) and service (`service/*`) | PID file, `config.toml`, `wg0.conf`, interface, installed unit | init (clean, configure, enroll, start), resume, stop, clean, install, uninstall, upgrade | a worker runs for the hub it was configured for, and announces the address its interface has; stop stops it; a resume recovers from whatever a killed command left |
| key pair (`auth.rs`), queue client (`queue_client.rs`) | two key files, session | load or create, sign, enroll, heartbeat | the key on disk is the key enrolled, also after a crash |
| provisioning (`rpc.rs`, `build.rs`) | servers and libraries in the data directory, source tree, `rpc_version` | check, remove, clone, build, copy, download, unpack, record | what is taken for installed belongs together; a call ends with a server when downloads work |
| rpc wire client (`rpc_client.rs`), glob matching (`rpc.rs` 35-51) | none | encode, decode, match | bounds |
| WireGuard (`wireguard/*`) | interface, config file, peers | install, configure, up, down, add peer | peers of the file and the interface agree |
| Petals child (`petals.rs`, `petals_health.py`, `pipeline_worker.py`) | child process | start, wait for health, stop | an exited child is noticed |
| GPU detection (`gpu.rs`), Llama numerics (`candle_llama.rs`) | files, command output | pure I/O or floating point | out of scope, see section 11 |

How they interact.  `akai-agent init` starts `run_hub_worker`, which spawns the inbound listener
and then, for ever, connects to the hub, registers and reads lines.  Each line is
decoded and its handler awaited before the next line is taken, so that the handlers of
one worker never overlap one another.  They do overlap with the setup tasks a
`HeartbeatResponse` spawns, with the inbound listener's tasks and with the Candle
servers; what these share is `PipelineState`, `model.gguf` and the llama port.
The commands are processes of their own; what they share are files and the interface.
At this commit `tunnel`, `queue_client`, `auth`, `wireguard`, `petals`, `rpc` and `build`
are not called from the command line (`build` only from `rpc`); they are components of
the program all the same.

`hub_worker.rs` is not well-formed Rust at this commit: the task spawned at line 397
is closed by a bare `}` at 642 and followed by a stray `Err(e)` arm of an earlier
version (644-646).  The evident structure is modelled: an `async move` block that ends
at line 642.

What is hard to test is listed in `PROJECT.json` under `hazards`, each at its line.

## 2. The worker process: modules and how they correspond to the code

    WorkerState          variables, types, initial state
      |-- SetupTask      the spawned task and the Candle server it starts
      |-- HubHandlers    handle_hub_message, one action per critical section
            \-- HubWorker      composition, fairness, properties, invariant
                  |-- MCHubWorker      small instances for TLC
                  |-- HubWorkerProofs  theorems
                  |-- LayerService     (INSTANCE) what the worker promises the hub
                  \-- RelayWorker      (INSTANCE) what Pipeline has of it

| variable | in the code |
|---|---|
| `place`, `model`, `flags` | `PipelineState`, split by what belongs together; `next_hop_stream`, `last_hop_connected`, `next_hop_connected` are never written and left out |
| `wlock` | the write guard a setup holds across `CandleWorker::start` (599-640), in three steps: it reads the assignment (`LockState`), awaits the load (`StartLocked`) and publishes (`PublishLocked`); every other critical section has no await that lets a writer in, and is one action |
| `hub` | where the handler under way is between two critical sections, and the hops it cloned |
| `sent` | the last message written to the hub or to a next hop |
| `pc`, `job`, `seen`, `fd` | each setup task: next step, captured assignment and model, hash computed, file opened |
| `file` | `model.gguf`: absent, whole or partial; the identity of the file (`inode`), who truncated it last and whose bytes went in, because tasks write to it concurrently and it may be removed under an open descriptor |
| `candle` | the server each setup started: loading is done in the setup, binding later by the spawned `run_server`, which finds the port free (`serving`), with another server of this process (`dead`) or with another process (`shut_out`, the fault `port`); a failed bind is only logged (`candle_worker.rs` 27-29) |

Names and contents: a file stands for its URL and its hash; a layer range is a pair of
numbers; hops and model names are model values.  `None` is both an absent `Option` and an
empty string, which the code treats alike.  The initial state has any leftover
`model.gguf`.  `Task` bounds how many setups are spawned; every other input may
recur for ever.

`LayerService` is the abstract specification: ranges get loaded, the range this process has behind the
port is fixed by the first of its servers that binds it, and a heartbeat claims only ranges that
were loaded.  `HubWorker` instantiates it with the ranges of the launched servers, the
range of the serving one and the range in the last heartbeat.

The heartbeats are those of the hub loop.  The inbound listener of the same process sends
one of its own (`inbound.rs` 195-211), with the layers of the message it got and whatever the state
of the setup: Pipeline has it, and nothing here is claimed of it.

`RelayWorker` is the other abstract specification, the worker Pipeline is made of: a place, one
flag for its setup, the message its hub loop is at with the hop that message goes by,
and the kind of the last message sent.  An assignment of other layers takes the
readiness back, a setup brings it up, a request is let in or turned away by it and goes
by the hop of that moment, and only a ready worker says it is active.  `HubWorker`
instantiates it with `rpc_server_started` for the readiness, and with the steps of a handler
taken together (`UnderWay`).  It holds for hubs whose messages agree with themselves
(`HubAgrees`): layers are assigned, and an entry of the worker in the pipeline of a
message comes with `reassign` and names the layers of the message; an entry that does
not changes the layers without a reset.

## 3. The tunnel

    Tunnel               reconnect loop, dispatcher, serve_conn, frames
      |-- TunnelPipe     (INSTANCE) every connection a pipe of its own
      |-- MCTunnel       small instances for TLC
      \-- TunnelProofs   theorems

| variable | in the code |
|---|---|
| `run`, `session`, `broken` | `TunnelClient::run`: where the loop is, the number of the tunnel in use, whether the TLS connection under it is gone |
| `conns`, `pending` | the map `conns`, and the chunk the dispatcher awaits room for with the map locked (238-248) |
| `task`, `addr`, `rx`, `chan`, `hand` | `serve_conn`: its state, the id and tunnel it was spawned for, its receiver, its channel of `Capacity` chunks, the chunk `down` is writing |
| `up`, `writer`, `frame`, `dropped`, `garbled` | the `up` half of `select!`, the mutex of the write half, the frame last begun on it; `dropped` and `garbled` record frames cut off and run into |
| `peer`, `sent`, `got` | the server, and the history of both ends |

A frame is begun and completed in two steps, because `write_all` may yield between
them; a dropped `up` leaves it incomplete.  A chunk stands for its connection and its
number.  Handshake, TLS, PEM parsing and the byte layout of frames are left out.

## 4. The connection to the hub

`HubConn` is `run_hub_worker` around the handlers; `HubConnProofs` has its theorems.  A line is sent in pieces, the last
of which has the newline; a read returns any part of what has come.  `run` is where
the loop is (`connect`, `sleep`, `register`, `read`, `lines`, or `ended` when the write
of Register fails and `?` ends the function), `delay` is `reconnect_delay_secs`.
The handler of a line is part of `TakeLine`: what happens in it is HubWorker's.

## 5. Pipelines of workers

    Pipeline             hub, hub loops and inbound tasks of several workers
      |-- MCPipeline     small instances for TLC
      \-- PipelineProofs theorems
            \-- PassProofs the theorem about requests passed in full

| variable | in the code |
|---|---|
| `place[w]` | `PipelineState`: layers, `next_hop`, `is_last` |
| `ready[w]` | `rpc_server_started`; the inside of a setup is HubWorker's.  `llama_server_started`, which a heartbeat asks for as well, is reset and published with it but taken down by a setup that downloads: a heartbeat that passes the hub loop of a ready worker may go unanswered |
| `loop[w]` | the hub loop of `w` awaits its own server, with the `next_hop` cloned at the start (655) |
| `line[w]` | messages of the hub that `w` has not read |
| `net` | messages between workers: each goes over a connection of its own, so that they overtake one another |
| `tasks` | `handle_inbound_connection` of an InferenceForward, before and after its forward pass |
| `plan`, `assigned`, `asked`, `answers` | the hub, as far as the workers can see it |
| `trail`, `laps` | history: who ran its layers for a request; whom a heartbeat passed |

This is the control of the relaying; the data is left out: the Candle server's answer has no
`hidden_states` (`candle_server.rs` 141), so that what is forwarded is empty at this
commit, and the servers behind the ports 50053 and 8080 are not part of the program.
The hub is not part of the repository: it sends requests and heartbeats to the first
worker of the pipeline assigned last, and its assignments have `reassign` set.
`disturbed` records the requests it assigns anew around, or sends before the workers
have learnt of its last assignment: `FullPass` is about the others.  Of the faults, `cut`
is the one read of 64 KiB that is taken for a whole message (`inbound.rs` 47), the
others are connections and servers that fail.

## 6. The command line and its files

    Host                 commands, files, interface, unit, machine
      |-- MCHost         small instance for TLC
      \-- HostProofs     theorems

| variable | in the code |
|---|---|
| `config`, `conf`, `pidfile` | `config.toml` (the hub with its user, and whether it has the hub's API URL), `wg0.conf` (by the address in it) and `akai-agent.pid`; `Torn` is a file whose writing was cut short |
| `iface` | the interface `wg0`, by its address; `wg-quick` is external, modelled from how `cli.rs` calls it |
| `unit` | `akai-agent.service`, by the command in its `ExecStart` |
| `pc`, `job` | the command each process runs: next step; what it was told or has read (`given`, `target`), the hub it will connect to (`hub`: whose, and whether by its address in the VPN), the VPN address it has (`addr`), the number of the enrolment (`attempt`) |
| `latest`, `doubts`, `calm` | history: the command begun last; how many began beside another one, or did not see an interface that was up (`vpn_connected` needs `/dev/net/tun` and `wg`); whether anything may still fail |

One action per call with an effect: `RemoveDirs`, `Down`, `RemoveConf`, `Validate`, `Save`
(`init`, `clean`), `Load`, `Probe`, `ReadAddress`, `Enroll`, `VpnDown`, `WriteConf`, `Up`,
`WritePid` (start), `ReadPid`, `Kill`, `RemovePid` (`stop`), `WriteUnit`, `RemoveUnit`.
Each may fail, a command may be killed before any of them (`Dies`), and `Reboot` takes
the processes, the interface and `/run`.  `Exits` is a command that has said all it had to.

A hub and the user there are one value.  The answer of an enrolment has a VPN address and
the hub's address in that VPN, which replaces the configured one (`cli.rs` 224, 253, 330,
373): `Enrolled` takes both from the answer, and `Direct` forgets them when the attempt
fails.  `Network` says which hub hands out which address; it is assumed that the API URL
of a configuration is that of its hub, so that the answer comes from there.  `Given` are
the configurations that `init` commands name: a hub and user with or without the API URL,
or too little for either.  What `clean` and `init` remove are directories of root: the
configuration of another user stays (`RemoveDirs`).  A process number is free
again when its process ends, so that a PID file may name a stranger.

## 7. Provisioning

    Provision            ensure_rpc_server, ensure_llama_server and the builds
      |-- MCProvision    small instance for TLC
      \-- ProvisionProofs  theorems

| variable | in the code |
|---|---|
| `host` | how it builds: on the host, in a container, in a container under sudo |
| `data`, `llama` | rpc-server and `lib/` in the data directory, each by the release or build it is from (`Torn`: cut short); whether a llama-server is there |
| `src`, `version` | the source tree (absent, clone cut short, whole); `rpc_version` in the configuration |
| `pc`, `call`, `at`, `got`, `lacks` | the call under way: next step, which server, next file to copy or entry to unpack, its origin, whether the archive lacks the server |
| `calm`, `written` | whether downloads, links and copies may still fail, or `has_vulkan` panic; history: what is there was last written as a whole, was recorded as well, or was written in part since |

`Archive` is the order of the entries in a release's archive, which no code fixes;
the proofs are for any order.  `Links` are the entries that are symlinks: they are made
after all files are unpacked, and that one cannot be made is only a warning (`rpc.rs`
241-247, 452-458).  What `ldd` says is a choice where a library is not in `lib/`
(`SaysMissing`): it may be found on the system or in the build tree, and `ldd` may not be
there to be run (`rpc.rs` 136-165).  On a machine without `nvidia-smi`, `vulkaninfo` and
`/sys/class/drm`, `has_vulkan` panics (`build.rs` 60), which ends the call instead of
failing the build (`VulkanPanics`).  The configuration does not need to exist, and is not
written then (`rpc.rs` 290-297); `init` and `clean` empty it between two calls, and
`clean` removes files, or some, or, where they are not under `/root`, none (`Forget`).
Only one call runs at a time: nothing runs two.

## 8. Runs, bounds, results

| run | instance | shows |
|---|---|---|
| `worker_safety` | 2 setups, 4 staged messages, every fault, the port held by another process among them | flags and posts are backed by a server of this worker unless another process has the port, the hub loop's heartbeats by loaded layers; a download publishes what is assigned; the worker implements `LayerService` and `RelayWorker` |
| `worker_ready` | 3 setups, one model, no fault | once the setups have run out the worker is ready, though they share `model.gguf` |
| `worker_ends` | 2 setups, loads fail, fair | every setup ends, every handler returns, and a setup leads to readiness unless a load failed |
| `worker_restart` | 2 setups | **violated**: after a changed assignment nothing restarts the services |
| `tunnel_safety` | 2 connections with one id, 2 tunnels, 3 chunks, capacity 1 | pipes, frames, capacity |
| `tunnel_live` | the same with 1 tunnel, 2 chunks, fair | no deadlock on the map, no orphans, no local end left open that gets no more of its data |
| `hubconn` | 2 connections, 4 pieces, 8 refusals, pauses 5 to 300 s, fair | lines whole, once, in order, none waits for another one; pauses grow |
| `hubconn_pause` | 2 connections | **violated**: the hub closes, and the worker connects again without a pause |
| `pipeline` | 3 workers, 3 pipelines, 2 assignments, 1 request, 1 heartbeat, every fault, fair | one answer at most; the last heartbeat proves the chain; a text was made by the whole pipeline, in order; no request is relayed for ever |
| `host` | 2 processes, 2 hubs with an address each, 2 attempts, 1 overlap or unseen interface, every failure, fair | a worker announces the interface's address, connects to the hub it was configured for with an address of that hub; stop leaves none; a resume gets its VPN again |
| `host_service` | the same | **violated**: the unit starts a command that does not exist |
| `provision` | 2 libraries, one of them a symlink, 2 releases, every kind of host and failure, `init` and `clean`, fair | what is accepted belongs together; a call that has to build or download ends with a server |

Why the bounds are enough.  A second setup is the first that can overlap another, a
third the first that can see the leftovers of two; file, port and flags are shared by
all, so that more setups repeat their pairs.  One id for two connections over
two tunnels is the reuse that `conns` could confuse, capacity 1 makes a channel full at
once.  Three workers and the pipelines `abc`, `cba`, `ca` have a reversal, a worker
that is left out with its old hops, and a worker that changes from middle to end.
Two processes are a worker and a command, or a command beside another one; a number
freed and used again is a stranger in the PID file.  Two hubs with an address each tell the enrolment
of one configuration from that of another, two attempts a retry from the last one; `doubts` are
counted because `AnnouncesInterface`, `StopLeavesNone` and a part of `RunsAsConfigured` are about
commands that did not overlap and saw the interface, while everything else is checked beyond.
Configurations without an API URL come from torn files.  One library before and one after the servers in an
archive, copied in another order by a build, leave every mixture of two releases and a
build that can be left.  Two pieces are a split line, four leave two lines in one read and a partial one
behind a reset.  What is proved holds without any of these bounds.

Deadlock is not checked in the `pipeline`, `hubconn` and `host` runs: a hub that has used
up its assignments and requests sends nothing more, a worker whose registration failed
ends, and when `MaxDoubts` is used up no command is begun.

Fairness.  Weak fairness of each task stands for the tokio runtime, which polls every
task that can go on.  It assumes in addition:
in HubWorker that a download ends, well or badly; in Tunnel that a local end takes what
is written to it or closes; in Pipeline that the servers behind the ports answer
or fail (`RequestsEnd`), while setups need not end and the hub owes nothing; in HubConn that handlers return,
which `LoopReturns` is about.  In Host and Provision a command or call that was begun goes on,
step by step, and nobody has to begin one.  Their `calm` may come at any time and need not:
from then on nothing is killed and the network answers, and `Recovers` says what is then
made of whatever was left behind; in Host it comes when there are no `doubts`, in Provision it
includes that `has_vulkan` does not panic.  No fairness is assumed of a network peer.

### Disagreements with the text of the repository

- `RestartsWithNewLayers`: the comment at `hub_worker.rs` 339 says that services are killed
  "so they restart with new layer params".  `ready_for_inference` survives the reset, the
  next setup takes it for a running service and returns, and the flags that were reset
  stay down.
- `PausesAfterClose`: the message at `hub_worker.rs` 110 announces a pause.  The loop
  breaks straight into the next connect, and an accepted connection resets the delay.

- `ServiceRunsCommand`: `README.md` 39 and the unit of `systemd.rs` 97 have `akai-agent start`;
  `cli.rs` 13-40 has no such command, so that the service is rejected at every start and
  started again by `Restart=always`.

### What does not hold, and is claimed nowhere

A worker that is ready has a server (not if another process holds the llama port: the failed
bind is logged and the flag stays up; `ReadyHasServer` and `PostsHaveServer` except this case);
the path without a download publishes the layers assigned at that moment (it read them when it was
spawned); the range served is the range reported (not with two setups); readiness without an
announced hash, or across two models; frames are never cut off (a local end that
closes drops `up` within one); one local end cannot hold up the others (the
dispatcher waits for room with the map locked); a request passes the whole pipeline it
was sent to (not if the hub reassigns meanwhile); a heartbeat from the inbound listener comes
from a worker that is ready, or names layers it has loaded; every request is answered; a worker outlives a failed
registration.

Of the command line: `stop` signals nobody but the worker (a PID file outlives a worker
that crashed, and the number may be a stranger's); `stop` reaches every worker (a second
start overwrites the file); an `init` that is rejected changes nothing (it cleans before
it validates, `cli.rs` 50 and 99); a worker that is not the latest announces the interface
(a later `init` or `clean` takes it down under it), or serves the hub configured last (it goes on
for the one it was started with); two enrolments at once agree.

Of the tunnel: the server is told when a local connection ended (no CLOSE after a refused
or failed local end, `tunnel.rs` 268 and 303, nor when the cleanup of an earlier connection removed
the entry at 315), so that it may go on sending what is dropped.  `SentArrivesOrEnds` is about
the client's side.

Of provisioning: files cut short are noticed (`has_missing_libs` goes by names, so that a
killed unpacking may leave something that is accepted; `written` is `"partial"` then); a library
that is missing is noticed (not if `ldd` cannot be run, so that a server whose symlinks or
libraries are gone may be taken); a clone cut short is repaired (its directory is taken for a
clone, and every later build fails); a build that fails is always followed by a download
(not if `has_vulkan` panics); a download of llama-server leaves rpc-server its own libraries
(they are shared, and written again by either); what a container built is whole
(`build.rs` 537-566 never sees a failure of its script, and 594-596 copy rpc-server onto
itself when not under sudo, which empties it); `rpc_version` is that of the server (it may be
empty); what is installed as llama-server is one (`rpc.rs` 431 takes `llama-cli` too).

The properties above are stated so as to leave these out by name.

## 9. Proofs

| module | theorem | for every value of the constants |
|---|---|---|
| `HubWorkerProofs` | `TypeCorrect`, `FlagsAreBacked`, `LoopHeartbeatsAreTrue`, `ReadyWorkerHasServer`, `PostsFindServer`, `DownloadsPublishAssignment`, `WorkerImplementsService` | any number of setups, messages, faults, a port held by another process among them |
| | `WorkerImplementsRelay` | the same, of a hub with `HubAgrees` |
| | `SettledWorkerIsReady` | any number of setups, any file found, faults of neighbours, of the local server and of the port; a hub that stays with one model and names its hash |
| `HubConnProofs` | `TypeCorrect`, `LinesStayIntact`, `BackoffDoubles` | any pauses, any number of connections, attempts and pieces |
| `TunnelProofs` | `TypeCorrect`, `FramesStayIntact`, `TunnelImplementsPipes` | any number of connections, ids, tunnels, chunks, any capacity |
| `PipelineProofs` | `TypeCorrect`, `LapsProveChain`, `AnsweredAtMostOnce` | any workers, pipelines, requests, heartbeats, assignments, faults |
| `PassProofs` | `RequestsPassInFull` | the same |
| `HostProofs` | `TypeCorrect`, `WorkersRunAsConfigured`, `WorkersAnnounceInterface`, `StopsLeaveNone` | any processes, hubs, networks, addresses, attempts, doubts |
| `ProvisionProofs` | `TypeCorrect`, `AcceptedServersMatch` | any libraries, symlinks, releases, orders of archive and copies |

None of the invariants checked is inductive as it stands.

- **HubWorker**: `SetupInv`.  `FlagsBacked` speaks of a server somewhere; that it survives
  needs to know what a task is about to publish (`PublishBacked`), that it starts one
  server only (`StartsOnce`), that a server which lost the port to another of this process gave way
  to one that still has it (`PortHeld`), that the lock is with the task that starts under it and the
  assignment as that task read it (`LockHeld`, which is what `DownloadsPublishAssignment` rests on), and
  that what a handler read before an await still holds after it (`HandlerBacked`).
  `SettledReady` says nothing until the setups have run out; what is kept until then is that
  a setup is on its way to make the worker ready (`ReadyOrOnTheWay`, `MakesReady`): it will look at the file,
  is about to replace it, was the last to truncate it, or has it whole before it.  A setup that takes the
  file from such a one is one itself (`OthersPassOn`), and without a fault it goes on
  (`SetupGoesOn`); `OnlyModel` is what makes whole files of all that they write.
  `ImplementsRelay` needs that a setup is only spawned with layers assigned, and that what the
  handler of a heartbeat read is still so when it reports (`RelayInv`).
- **HubConn**: `StreamInv` says that what has been taken, what is in `read_buf` and what is on its
  way make up what the hub said on this connection, with what has been taken ending behind a
  newline, and `NumberInv` that a number of a line changes behind newlines only; so the next line
  drained is all the pieces of its number.  `PauseInv` gives the pause for each number of
  attempts refused.  `Doublings` is a recursive function: that it is well defined, and is
  doubled from one number to the next, is proved by induction, as the least element
  of the set of numbers for which it fails (`LeastElement`, `InductionOnSet`), because the induction
  theorems of the library take a predicate as a parameter.
- **Tunnel**: `FrameInv` says that on a working tunnel whoever finds the write half free
  finds the last frame complete, unless it was dropped; `PipeInv` counts the chunks of a
  connection through receiver, hand and channel (`InOrder`, `UpToDate`), for which the map
  has to lead to the connection the server means (`EntryIsPeer`).
- **Pipeline**: `RouteInv` says that a heartbeat has passed all workers before the one it
  is at; the hop is then the next one, and at the last worker all have been passed.
  `CopyInv` says that a request is in one place only (`OneEach`, `OnePlace`), and in none
  before it is asked or after it is answered.  A step keeps it for the requests it
  leaves alone (`SingleKept`), and takes the one it moves out of its place (`TakenFacts`,
  `PostedFacts`, `SentFacts`, `TaskFacts`) and puts it into one other or none.
  `PlaceInv` says that every member of the pipeline assigned last has its place in it, or
  has the assignment in its line with nothing behind it that would send it elsewhere; once
  the hub's lines are settled the places are those of the plan.  `PassInv` then keeps every
  request that no assignment disturbs at the worker that is next, with those before it
  passed; it needs `CopyInv`, as a second copy would run layers a second time.
- **Host**: `Configured` follows the hub and user from the configuration through the job and
  the answer of the enrolment to the worker, and says of a configuration file that it names
  one user or none, torn or not.  `Quiet` is about the latest command: without doubts no
  other command is under way, so that what it has found out, file and interface still
  agree when it goes on (`QuietAgain` for a failed attempt, `QuietBegins` for the command
  that takes over).  `Apart` says that, without doubts, the VPN configuration of an interface that is up
  is of the hub that is saved (`Matched`), that `init` replaces the saved configuration only when
  there is none of the VPN, and that an address in hand is of the hub in hand (`Kept`).  `Recorded` says that the PID file names the worker started last
  while it runs, that a stop which has read the file has its number, and that one which is
  about to remove the file has ended it.
- **Provision**: `WriteInv`.  `Settled` says that all that is there is of one origin unless a
  writing was not completed, and the version of that origin or empty if it was recorded: this
  survives removals, `init` and `clean`.  `SoFar` counts what a copy or an unpacking has put in
  place, links left out, and `Recordable` says that it is all there, but for links, when it is
  recorded.

Assumed are only the named assumptions on the constants: `None` is none of the values,
a file cut short none of the whole ones, a VPN address is of one hub and a configuration with an API
URL names a user, symlinks are libraries, bounds are natural numbers, the pipelines of the hub are sequences without repetition, an
archive and a build have all libraries.

All invariants, action properties and refinements that the passing runs check are
theorems.  Only model-checked are the liveness properties (`EverySetupEnds`, `LoopReturns`,
`SetupLeadsToReady`, `WholeLinesTaken`, `RequestsEnd`, `Recovers` of Host and Provision,
`DispatcherReturns`, `OrphansEnd`, `SentArrivesOrEnds`): arguments from fairness need ENABLED, which the
prover does not support.

`SettledWorkerIsReady` and `WorkerImplementsRelay` have hypotheses about the hub, which is not part of
the repository, `StaysWith` and `HubAgrees`, and the first one that no setup fails (`SetupsWork`:
neighbours, the local server and the port may).  The runs `worker_ready` and `worker_safety` are
instances that satisfy them.

## 10. Plan

1. HubWorker, 2. Tunnel, 3. Pipeline, 4. HubConn, 5. Host, 6. Provision: done, as above.

What is worth doing next: a Pipeline whose workers take the heartbeat in the three steps
of `RelayWorker` (`Adopt`, `Beat`, `Relay`; Pipeline's `TakeLap` is all three, the loop of the worker
taking nothing in between); the safety that the liveness properties rest on.  When
`auth`, `wireguard` or `petals` get a caller: the two key files and a crash between their
writes, the interface and its peers, the child process.

## 11. Not modelled

- `candle_llama.rs` is floating point: loading is a step that succeeds or fails.  The HTTP
  handlers of `candle_server.rs` and its model slot are abstracted to a server that
  answers or fails.
- `gpu.rs` parses the output of tools and keeps no state; what depends on it in `build.rs`
  is compiler flags.
- `queue_client.rs` makes one signed request per call and has no caller; `auth.rs` has no
  other caller, and writes two files once; `wireguard/*` has no caller, `cli.rs` drives the
  interface itself; nothing starts a Petals server (`petals.rs` and its Python files).
- `rpc_client.rs` encodes one request and decodes one response: a call that fails is the fault
  `rpc` of Pipeline.
- Of `inbound.rs` the `InferenceRequest` of a neighbour: no worker sends one, and its handler
  touches no state.
- Of `cli.rs` `upgrade`, which runs a package manager; of `service/*` launchd and Windows, which write other
  files for the same commands.
- Of `rpc.rs` `needs_update` (a comparison), the matching of names, and the spawning of the servers,
  which nothing calls.
- The CI workflow is not part of the program.
