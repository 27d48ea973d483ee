# Warpyard: a verification model

Warpyard leases virtual machines on one Proxmox host. Users ask for servers through a
dashboard, a REST API and an MCP server; every lifecycle action becomes a row in a job table
that one worker process works off; a reconciler compares the database with the hypervisor every
two minutes. The dashboard's console is a VNC client in the browser, noVNC, which the repository
carries and serves. This directory holds TLA+ modules of the parts where the order of steps decides
what happens, the TLC configurations that check them on small instances, and proofs checked by
TLAPS for every instance size. `PROJECT.json` maps each definition to the lines it models.

## The system

| Component | Source | State | Operations | Made hard by |
|---|---|---|---|---|
| Instance state machine | `app/states.py` | `Instance.status` | `transition`, `can_enqueue` | writers that check a status they loaded earlier |
| Job queue | `app/jobs/queue.py` | the `jobs` table | `enqueue`, `claim`, `succeed`, `fail`, `requeue_stale` | check and insert are separate statements; retries, backoff, recovery |
| Worker | `app/jobs/worker.py` | the job it runs | `run_once`, `main` | it may die between any two steps; every exception is a retry |
| Handlers | `app/jobs/handlers.py` | VM, `vmid`, IP, routes, readiness rows | one per verb | several commits and Proxmox calls each; tasks posted and not awaited |
| Reconciler | `app/reconciler.py` | the rows of its session | `reconcile` | loads once, asks later, writes at the end |
| Requests | `app/service.py`, `app/web.py`, `app/routes/` | - | `server_action`, `create_server`, `resize_server`, ... | concurrent threads, no lock on the job table |
| Proxmox | external (`app/proxmox.py`) | VMs, running tasks | power, clone, delete, restore, config | tasks run later, fail, or time out |
| Allocation and limits | `app/ipam.py`, `app/service.py` | address pool, vmids, ports, quotas | `allocate`, `release`, `_pick_vmid`, quota checks | check then insert; reuse after destroy |
| Edge sync | `app/routes/edge.py`, `edge/warpyard-edge-agent.py` | routing table, files, units, last hash | `routes`, `sync`, `sync_l4`, reload | crashes between writing and reloading |
| Nightly scheduler | `app/service.py`, `app/jobs/worker.py` | `last_backup_at`, `last_auto_restart_at` | `schedule_due_*`, `recheck_pending_domains` | ticks, windows, busy servers, players |
| Custom domains | `app/service.py`, `app/dns_check.py` | `http_routes` | `add_domain`, `remove_domain` | uniqueness, DNS that changes |
| OAuth, invites, resets, console tickets | `app/oauth.py`, `app/web.py`, `app/console.py` | single-use codes | issue, redeem | two redemptions of one code |
| Private network firewall | `app/jobs/handlers.py` | peer lists in Proxmox | `sync_owner_firewalls` | best effort, computed from rows read earlier |
| Rate limiter, player cache | `app/ratelimit.py`, `app/gamequery.py` | in-memory windows | `allow`, `players_for_slug` | threads, expiry |
| Monitoring, mail, metrics, pages | the rest of `app/` | - | - | little state of their own |
| Console: transport | `core/websock.js` | receive and send queue, channel | `attach`, `_recvMessage`, `rQshift*`, `sQpush*`, `flush` | queues compacted, grown and reset in place |
| Console: display | `core/display.js` | two canvases, viewport, damage, render queue | `resize`, `viewportChange*`, drawing calls, `flip`, `flush` | images that load late; damage that is forgotten |
| Console: handshake | `core/rfb.js`, `core/ra2.js` | connection state, place in the negotiation | `_initMsg`, `sendCredentials`, `disconnect` | any cut of the stream, prompts, promises, a timer |
| Console: session | `core/rfb.js`, `core/decoders/` | place in the stream, `_FBU`, `_flushing` | `_normalMsg`, `decodeRect` of each encoding | any cut of the stream; who asks for the next update |
| Console: pointer | `core/rfb.js`, `core/input/gesturehandler.js` | touches, gestures, buttons, three timers | mouse, wheel and touch handlers | touches and timers in any order |
| Console: keyboard | `core/rfb.js`, `core/input/keyboard.js` | keys down, a pending AltGr, Caps Lock | `_handleKeyDown`, `_handleKeyUp`, `_allKeysUp` | releases browsers leave out, presses they make up |
| Charts | `app/static/wycharts.js` | the points on screen | `load`, `setPeriod` | a request under way |

They interact through the database: requests insert rows that the worker claims, handlers and
the reconciler both write `Instance.status`, the edge agent and the scheduler read what they
leave. The console's parts call each other in one thread, between callbacks of the browser: bytes
wake the handshake or the session, which read them from the transport and draw on the display, and
stop while it is behind; keys and touches become messages in the send queue. (`core/` is
`app/static/novnc/core/`.) What makes each part correct:

* **Queue and worker**: every row settles; none is left running without a worker; a settled row
  is never touched again; a server has one active request; a job's effect is recorded once.
* **Handlers**: statuses follow the transition table; a server is in flight only while a job
  answers for it, and not for ever; a VM never runs before its address is pinned; a disk is lost
  only under a status that says so; a destroyed server holds nothing.
* **Reconciler**: repairs converge; they disturb no job; a destroyed server stays destroyed; an
  owner is only told of stops that nobody asked for.
* **Allocation**: an address, vmid, name or port has one live owner; limits hold.
* **Edge**: the edge serves what the table says, in the end; a destroyed server's name and ports
  are withdrawn before they serve someone else.
* **Scheduler**: one restart a night, whatever fails or dies; no backup and no restart lost for
  ever.
* **Single-use codes**: one redemption, before expiry.
* **Transport**: the bytes read are the bytes sent, in order, whatever the messages they come in.
* **Display**: calls act in their order; what is on screen is what was drawn, or about to be.
* **Handshake, session**: the client is in step with the server wherever the stream is cut, never
  hangs, tells the page once, and never stops asking for updates.
* **Pointer, keyboard**: the server holds down what the user does, and no gesture leaves anything to
  the next.

## The modules

| Module | Models | Notes |
|---|---|---|
| `InstanceStates` | `app/states.py` | constants only: the tables |
| `StatusMachine` | what users are promised about a status | abstract; `Lifecycle` implements it |
| `JobQueue` | `app/jobs/queue.py` | the table and its operations on rows |
| `Lifecycle` | requests, worker, handlers, Proxmox | composes the above |
| `Reconciler` | `app/reconciler.py` beside `Lifecycle` | extends it |
| `MCLifecycle`, `MCReconciler` | the same for TLC | symmetry of threads; the verbs of `reconciler` |
| `RouteTable` | the routing table and what a poll of it answers | handlers, gates, custom domains, DNS |
| `EdgeSync` | the edge agent, its files and units, Caddy | extends `RouteTable` |
| `Provisioning` | names, quotas, vmids, addresses, backup groups | its own, simpler queue |
| `Scheduler` | backups, restarts, their settings, the worker's tick | its own queue, with jobs of one step |
| `ByteStream` | what a reader of a socket is promised | abstract; `Websock` implements it |
| `Websock` | `core/websock.js` | |
| `Canvas` | a row of pixels, rectangles of it | operators only |
| `Display` | `core/display.js` | extends `Canvas` |
| `Handshake` | the connection states and `_initMsg` of `core/rfb.js`, `core/ra2.js` | with the server's side of the protocol |
| `Session` | `_normalMsg` of `core/rfb.js`, the decoders | likewise |
| `Gestures` | `core/input/gesturehandler.js` | |
| `Pointer` | mouse, wheel and gesture handlers of `core/rfb.js` | extends `Gestures`, which calls it |
| `MCPointer` | the same for TLC | symmetry of fingers |
| `Keyboard` | `core/input/keyboard.js`, key and LED handlers of `core/rfb.js` | |
| `LifecycleProofs` | theorems about `Lifecycle`, alone and beside `Reconciler` | checked by TLAPS, like the following |
| `ProvisioningProofs` | theorems about `Provisioning` | |
| `EdgeProofs` | theorems about `RouteTable` and `EdgeSync` | |
| `SchedulerProofs` | theorems about `Scheduler` | |
| `WebsockProofs` | theorems about `Websock`, `ByteStream` | |
| `HandshakeProofs` | theorems about `Handshake` | |
| `RfbProofs` | theorems about `Gestures`, `Pointer` and `Session` | two parts of `rfb.js` that share no state |
| `ConsoleProofs` | theorems about `Keyboard` and `Display` | two components that share no name |

A definition called a variant (`... Unstamped`, `... Alone`) is a plausible mistake in the one it
precedes. Nothing uses it: `PROJECT.json` says which property finds it. Every module
states its type invariant; those of `Lifecycle`, `Reconciler`, `Provisioning`, `Scheduler`, `Session`,
`Keyboard` and `Display` are proved as they stand, and no run spends a property on one.

### How `Lifecycle` corresponds to the code

`jobs` is the table in id order, a row's `due` is "`run_after` has passed", `poll` the probe count
in a readiness job's payload, and `applied` counts the `succeeded` events its handler committed.
`status` and `held` are the `Instance` row (`held`: a vmid, an IP address, a backup exists). `vm`
is the VM behind the vmid: absent, off, on, or *raw* from its clone or restore until NIC and
ipfilter are set, and *exposed* when a raw VM is powered on. `tasks` are power tasks Proxmox has
accepted and not run yet.

A handler is cut at every commit and every Proxmox call; `worker.pc` is the place and
`worker.seen` the status its ORM session holds. A commit expires the session, so the row is
loaded again at the next access: a commit and that reload are one step here, and a run in which
the row changes between the two is one where it changes just before the commit. `transition()` is
checked against `seen`, while the step writes the row, as the UPDATE does. Requests are three
steps: load and check the verb, query for an active job, insert. `Raise` is any exception of a
handler: a Proxmox error, a task that failed or timed out, a transition that is not allowed. It is
not enabled at the two places that cannot raise: the readiness probe, which touches no API, and
the step after the last commit, since `sync_owner_firewalls` suppresses Proxmox errors. A clone
that fails half way is a `Raise` before `configure` with a raw VM left behind.

`PowerAct` only posts a task (`handlers.py:396`); the status is settled by `PowerExit` while the
task may still be waiting. A VM that is being deleted or restored is locked, so tasks waiting for
it fail. `PowerDrift` is what happens behind the control plane's back.

In the reconciler, `RecLoad` is the pool listing and the SELECT of every live row (merged: no
database write falls between them that the loaded statuses would not equally miss), `RecCheck`
the job query of one server, which also flushes the UPDATEs decided so far and so locks those
rows, `RecAsk` the VM query and the decision, `RecCommit` the commit and the mails after it.
`Unlocked` makes writers of a locked row wait.

Left out of `Lifecycle` and `Reconciler`: the `suspend`, `unsuspend` and `snapshot` verbs, which have table
entries but no handler and no request; `requeue_stale` inside the running worker, whose threshold
leaves the only running row alone; the content of payloads; events, error texts and log lines.

### How `RouteTable` and `EdgeSync` correspond to the code

`route` is `http_routes` by hostname, `server` the columns of `instances` the edge is told about.
`Publish` stands for the whole of `instance_create`, since nothing of a server is in the table
before its last commits; `Withdraw` is the last commit of `instance_destroy`, with all deletes.
`AddDomain` decides between active and pending by `dns`, which `DnsChange` flips at any time;
`Recheck` is the worker's tick, one commit for every pending domain that points at the edge.
`HttpRoutes` and `L4Forwards` are the two queries of `GET /edge/routes`. A server keeps its
address as long as it lives, so the upstream of its public port is fixed and a forward is named
by its server.

`agent.pc` is the place in a poll: `fetch` between the two queries, `routes` and `layer4` in
`_sync_dir`, one step per file unlinked or written, stale files first; `reload`, reached when a
file changed in this poll; then `forwards`, where a stale unit is disabled, removed and its port
closed and a missing one is written, its port opened and the unit enabled, each a step.
`last_hash` is kept as the state it is the hash of. `Crash` is a death of the process anywhere in
a poll, after which systemd starts one that remembers nothing; `PollError` an exception, after
which the same process sleeps with the hash it had; `ReloadFails` a reload whose exit code nobody
reads. `caddy.by` tells whether Caddy last read the files at the agent's word or at a restart of
its own. Certificates and the members' gate itself (`edge/warpyard-authorizer`) are not modelled.

### How `Provisioning` corresponds to the code

`row` has the columns of `instances` that allocation reads and writes. The queue is a set of
pending jobs with an atomic guard of one per server; `Lifecycle` shows what the real guard lets
through. `Sizes` stands for vCPUs and disk at once, which are checked the same way. `NameFree` is
the disjunction of the two checks in use: the dashboard, API and MCP compare labels of live rows,
the internal API hostnames of rows. A creation is checked in one step and inserted in another.

The worker's steps are the commits and Proxmox calls of `instance_create` up to the start, and
of `instance_destroy`. `worker.ip` is the address `ipam.allocate` has flushed and not committed;
`Fault` (an exception or a death, followed by a retry or by the end of the attempts) drops it.
`CommitAddress` is the commit that meets the unique constraint on hostnames, `NameLost` the other
outcome. `group` holds, for each vmid, the servers with a backup in its PBS group.
`RequestResize` has no quota check: the API and the MCP server reach `resize_server` directly, and
what the dashboard's form lets through is a subset. Rebuild and restore allocate nothing and are
left out, and so are the edge's ports, which are computed from the server's id.

### How `Scheduler` corresponds to the code

Time is an hour of the day, and an age in a row is how many hours ago it was stamped. `tick` is the
place of the worker's periodic tick (`worker.py:74`): the rows `schedule_due_backups` loaded, then
those of `schedule_due_restarts`, queued one by one and committed together; requests, edits of the
settings and players come and go between those steps. `HoldRestart` is an answer of the player
query that counts somebody; `QueueRestart` is possible with players too, since a query that fails,
is not supported or comes from the cache of 30 s lets the restart through. Jobs are those of
`Lifecycle` with their steps merged: claimed oldest first, they succeed or fail, at the latest in
the hour after the one they began in (`vzdump` is given 3600 s), and are retried. `Pass` is the
clock; a worker that runs no job claims one, or ticks, within the hour. `reboots` and `excused` are
history: restarts scheduled since the last time of the schedule, and whether a job in the way, a
failure, a server that was down or a window without a tick excuses a missing backup.

### How the console's modules correspond to the code

The page makes one `RFB` object with the ticket's password as credentials and
`scaleViewport = true`; it answers `credentialsrequired`, may disconnect, and never sets
`viewOnly`, `dragViewport`, `clipViewport` or `resizeSession`, nor approves a server key. JavaScript
runs one callback at a time: every action below is one, or one turn of a loop inside one (`turn`
tells that the loop runs).

*`Websock`.* Bytes are numbered by arrival, so that a byte out of place shows. `RecvInPlace` covers
the three ways `_recvMessage` finds room without a new buffer, with the reset when all was read and
the compaction; `RecvExpanded` a larger buffer; `RecvLost` the error, after which the size the code
believes in is not the buffer's. `ReadFrame` stands for `rQwait` and the `rQshift` calls behind it.
`Attach`, `Opened`, `PeerCloses`, `Closed`, `Close` are the channel's states.

*`Display`.* One row of pixels (the other axis is handled alike). A drawing call either acts or, while
the queue is not empty, is queued; `Load` is an image's `load` event, which takes up the queue
again. `Flip` copies the damaged part to the visible canvas, or queues that. Colours distinguish
what was drawn; `Stray` is the colour of pixels whose memory had other content by the time they were
drawn. Scaling only sets CSS sizes.

*`Handshake`.* The stream is a sequence of *cells*. A message is its head, which says what it is and
how many cells follow, and those; `Deliver` moves any number of cells, so the parser meets every cut.
The server is the other half of the protocol: it sends what the client's last message calls for, and
accepts or refuses. `InitMsg` is one call of `_initMsg` in its current state; `Ra2Step` the promises
of `ra2.js`, `ArdComputed` that of Apple's scheme, `ResumeAuthentication` the timer that calls the
parser again. `garbled` says that a read found anything but the message the server sent there.

*`Session`.* The stream is cut into *units*, what the code takes off the queue at once when all of it
is there: the head of an update, of a rectangle, a line of Raw, a tile of Hextile, a control byte, a
length, a block of data. `Wants` is the unit the parser looks for, computed from what it keeps
(`_FBU` and the decoders' fields, `dec`); `Waits` leaves with too little. The zlib streams are kept
as whether they are as reset, at both ends. `server` asks and counts: an update is sent for a
request, or by itself under continuous updates, with at least one rectangle or an end mark.

*`Gestures` and `Pointer`.* `state` is the set of gestures still possible where the code has a mask;
`tracked` the touches with their ages in three steps (fresh, slow, old) that the two limits of the
handler tell apart; whether a touch moved beyond the threshold, and which way two of them went, are
choices. Gesture events are dispatched synchronously, so `Pointer` handles what `Gestures` pushed in
the same step. `told` is the button mask of the last pointer event sent.

*`Keyboard`.* The user presses and releases keys; which key events the browser makes of that differs:
Windows tells of a Control before AltGr and of one release for two Shifts, macOS of none beside Cmd.
`list` is `_keyDownList`, `armed` the pending AltGr. The server keeps a set of symbols it takes for
pressed and its Caps Lock, of which it tells by LED messages that are on their way for a while.

## The runs

| Run | Question | Properties |
|---|---|---|
| `lifecycle` | one server, every verb, a retry, a crash of the worker anywhere, a power change; does everything end, with a fair worker | `NoLimbo`, `NoStrandedRow`, `NeverExposed`, `RefinesStatusMachine`, `QueueDrains`, `RefinesFairStatusMachine` |
| `lifecycle_races` | two request threads that may both pass the enqueue guard, with the same faults | `DestroyedReleasesAll`, `AppliedOnceUncrashed`, `DiskLostInTheOpen`, `SettledStays` |
| `reconciler` | two servers, stop, resize and destroy, power changes, passes with stale answers | `DestroyedForGood`, `DriftRepaired` |
| `scheduler` | days of four hours, players, settings that change, jobs that are late, fail or die | `OncePerNight`, `BackupsKeepPace`, `NightlyRestarts` |
| `edge` | two servers, a name, a custom domain, an agent that dies once | `OneWayIn`, `EdgeFollowsUndisturbed`, `FilesFollow` |
| `provisioning` | three servers that share labels, two vmids and addresses, two later requests, one fault | `OneHolder`, `PinnedIsOwn`, `AllocationsStick` |
| `websock` | messages of any length, reads of any length, a queue at its limits | `SentAsPushed`, `ImplementsStream` |
| `display` | drawing, moving and resizing while images load | `StaleIsDamaged`, `DrawsInOrder`, `FlushEnds` |
| `handshake` | every version and security type, cut anywhere, accepted or refused, given up or timed out | `ReadsInStep`, `EventsInOrder`, `Settles` |
| `session` | every encoding, cut anywhere, with the display behind | `KeepsStep`, `NothingLeft`, `NeverStarves`, `FlushResumes` |
| `pointer` | four fingers and a mouse, before, during and after a connection | `NeverThrows`, `RestsWhenLifted`, `HeldByUser`, `EndsAreTold` |
| `keyboard` | three platforms, loss of focus, Caps Lock turned over elsewhere | `ReleasesWhatItPressed`, `NoneStuck`, `TurnedOverOnce` |

**Bounds.** `MaxRequests` is the number of rows inserted by requests (creation included),
`MaxCrashes`, `MaxDrifts` and `MaxAborts` the number of worker crashes, power changes and aborted
passes, `MaxAttempts` and `ReadyMax` the code's limits (5 and 40), small enough to be reached. Two
requests are what it takes for one to meet the leavings of another; two attempts for a retry and
an exhaustion; one crash falls at every step of every handler; two probes, in `lifecycle`, for a
chain and its end. Jobs of different servers share only the worker, so one server suffices but for
the reconciler, whose passes go over several. `lifecycle_races` takes one verb of each kind, a power
verb, one that loses the disk and the end of a server; `reconciler` verbs that settle a status before
the power follows, that boot, and that end in no VM. The theorems below are about every verb and any
number of each.

In `scheduler`, four hours are the fewest with a time before the backup window, one after it, and a
last hour of the day to choose from; a backup has to be three of the four hours old, as 20 of 24. Two
changes switch a schedule on and then disturb it; two attempts and one crash as above. Servers share
nothing but the worker, whose time is bounded by the hour each, so there is one.

In `edge`, `MaxChanges` counts changes of the table and of DNS: three publish a server, gate it and
change it again, or hand its address on, while one poll is under way; `MaxCrashes` and
`MaxFailures` count deaths of the agent, and failed polls, failed reloads and Caddy restarts
together. In `provisioning`, two vmids and addresses for three servers make the pools run out and
be reused; `MaxSize` is below what all rows ask for, so the quota bites; `MaxFaults` are exceptions
and deaths of the worker and unanswered calls of PBS, `MaxOps` requests after creation.

In `websock`, the receive queue starts at 4 bytes and may grow to 6, a new buffer has room for twice
its content (8 times in the code) and the send queue holds 3: eight bytes in messages of up to four
reset, compact, grow and overflow it. In `display`, framebuffer and viewport are up to two columns
wide, which is enough to move, to clip and to show a column twice; two draws are what order needs,
four changes move the viewport back and forth between them, three actions fill the queue. In
`session`, two rectangles make a next one, two of Tight's four streams another one, and `Window`
bounds what the server sends ahead. In `pointer`, four fingers are one more than any gesture has; one
mouse button is enough to meet the buttons of gestures. In `keyboard`, three keys at once are two
Shifts and a letter, or AltGr and its Control with another. Deadlock is not checked: with requests
and crashes bounded a system may come to rest, and a connection ends.

**Fairness.** The worker loop never stops by itself and systemd restarts it
(`deploy/provision-cp.sh`, `Restart=always`); a row's `run_after` passes because time does; the
reconciler's timer fires every two minutes; in `RecFairness` Proxmox also gets round to the tasks
it accepted. In `SchedSpec` a tick under way goes on (weakly fair), jobs are claimed and end between
the ticks, and hours pass (strongly fair, since each is disabled for a moment by the others). In
`EdgeFairSpec` the agent polls for ever (`edge/systemd/warpyard-edge-agent.service`,
`Restart=always`) and the worker's tick runs the recheck of pending domains. In the console the
browser runs the callbacks that are due, delivers bytes, opens sockets, decodes images and resolves
promises: `DispFairSpec`, `HsSpec` and `SessSpec` say so one by one; a socket the client closes may
never be closed by the other end, which is what the timer of a disconnection is for. Users, players,
crashes, guests, DNS and, in `lifecycle`, Proxmox promise nothing. `websock`, `pointer` and
`keyboard` check safety only.

## What the runs show

* The no-limbo promise of `docs/VERBS.md` holds: whatever raises or crashes, and even when two
  requests slip past the guard together, a server in flight has an unsettled job; the job's row
  settles in the end and the server leaves its in-flight status.
* The statuses implement the transition table although every handler checks it against a loaded
  value: the worker is the only writer while it is busy. The reconciler breaks that argument,
  which is the second disjunct of `DestroyedForGood`.
* A VM never runs unpinned; a destroyed server keeps neither VM nor allocation; a disk is lost
  only under rebuilding, restoring or destroying.
* Effects are applied once as long as the worker does not die between a handler's last commit and
  `succeed()`. Two active jobs of one server do no worse than make one of them fail.
* A destroyed server comes back in one way only: a pass decided on its repair before the VM was gone
  and commits after it.
* Left to itself the reconciler brings status and power into agreement, also after a pass that wrote
  a stale answer or was aborted.
* A nightly restart is queued once a night and again every night, whatever holds it up. A backup that
  was late, and therefore too young at the next window, is made up for one window later.
* The files and forwards at the edge come to match the table even if the agent dies between two of
  them, and no reload leaves a host with two ways in, although a host moves from one directory to
  the other in two steps. Left undisturbed, the agent brings Caddy in step too. The promises except
  polls that raise and reloads that fail: after a failed poll the remembered hash may match again
  while the files do not, and a failed reload is remembered as applied. Caddy restarted in the middle
  of a poll may read both snippets of a host, which is why `OneWayIn` speaks of reloads only.
* Vmids, addresses and names have one holder through every retry, and a VM runs only with the
  address its row holds, although it is pinned before that address is committed: the commit comes
  before the start, and a second attempt pins again. Two creations of one name leave the loser
  without an address.
* The receive queue is a byte stream (`ByteStream`) through resets, compaction and growth; bytes are
  lost only when more wait than the limit allows.
* Drawing calls act in the order they were made although images load late; whatever is on screen and
  stale is damaged; a flush ends unless an image of the wrong size stops the queue.
* No cut of the stream makes the handshake, a rectangle or a decoder read the wrong bytes, but for
  one place in RA2; the page is told of one connect and one disconnect; nothing hangs; the client
  never stops asking for updates.
* A gesture that begins ends once, and no finger leaves anything to the next gesture; the server
  holds no button or key down that the user does not, with the exceptions `NoneStuck` names.

## Known divergences

Met while modelling: the code on the left does something else than a document, comment or plain
intention. The model does what the code does, and the properties are stated around them; of the
first, `DestroyedForGood` without its second disjunct gives the trace.

| Where | What | Against |
|---|---|---|
| `app/reconciler.py:62` | a pass that asked for the VM before a destroy deleted it commits its repair, `stopped` or `running`, over `destroying` or `destroyed`. So under `RecSpec` a disk can go behind `stopped` (TLC breaks `DiskLostInTheOpen` in 12 states), by a move no row of the state table has | `docs/VERBS.md:21` |
| `app/reconciler.py:62` | likewise over the `error` of a rebuild that failed before it had pinned the new VM: a start is then allowed again and powers on a VM without its address filter. `NeverExposed` is stated for the control plane without the reconciler; under `RecSpec` TLC needs 27 states to break it | `docs/ARCHITECTURE.md:49` |
| `app/jobs/worker.py:38` | a worker killed between a handler's last commit and `succeed()` applies the job twice: a rebuild wipes the disk again, a stop fails from `stopped` until the server is in `error` (`handlers.py:317`) | `docs/VERBS.md:41`, "resumes rather than double-applies" |
| `app/jobs/queue.py:41` | two requests may both pass the query for an active job | `jobs/queue.py:38`, `docs/VERBS.md:45` |
| `app/reconciler.py:76` | a stop the owner asked for is reported as unexpected when the guest shuts down slowly | comment at `:73` |
| `edge/warpyard-edge-agent.py:220` | a death between the last write and the reload loses the reload: the successor finds nothing to write and stores the hash | `app/service.py:614` |
| `app/service.py:300` | a resize through the API or MCP never looks at the quota | `app/web.py:1132`, `docs/ARCHITECTURE.md:86` |
| `app/jobs/handlers.py:423` | a backup taken with nightly backups off outlives its server and is shown to the next with its vmid | comment at `:421` |
| `app/jobs/handlers.py:246` | a resize starts a server that was stopped | `docs/VERBS.md:31`, "prior state" |
| `app/service.py:464` | a restart held for players past midnight UTC is dropped, since its time is then the next day's | `:445`, "simply stays due" |
| `app/service.py:470` | a restart at 23:59 is due for one minute, and ticks are two minutes apart or more | `:449` |
| `app/jobs/queue.py:24` | a backup may run for an hour, so 300 s is not "well above any real job duration"; with one worker nothing follows | comment at `:23` |
| `core/input/gesturehandler.js:408` | the pinch timer leaves its id behind: the next single tap is taken for a gesture not yet decided and is swallowed | comment at `:267` |
| `core/input/gesturehandler.js` | a second finger, or a long press, that comes after the first finger's time is out; a pinch decided by the timer while one finger is up begins and is never used | - |
| `core/input/keyboard.js:258` | a focus lost inside AltGr's 100 ms: the timer presses Control after everything was released | comment at `:274` |
| `core/display.js:389` | a raw rectangle that waits is copied from byte 0 of the buffer it is a view of | - |
| `core/display.js:500` | an image of the wrong size stops the render queue for good | - |
| `core/websock.js:211` | `sQpushBytes` of more than the room there is passes a length where `subarray` takes an end | - |
| `core/websock.js:326` | the size of the receive queue is changed before the error is thrown | - |
| `core/ra2.js:201` | waits for the 2 bytes of a length and reads what follows it | - |
| `core/rfb.js:1451` | the number of security types is read without `rQwait` | - |
| `core/rfb.js:2503` | an update of no rectangles that meets a pending frame is dropped and the next is never asked for; `Session`'s server sends at least one | - |
| `app/static/wycharts.js:223` | a change of the period during a request shows the old period's points under the new labels | - |

## What is proved

Every theorem is about the specification with its constants left open, from the assumptions named in
the modules: counts that are numbers, sets of codes or buttons that are among those the code knows.
The runs above are the small instances on which the same properties are model-checked. An invariant below is called inductive when every initial state has it and every step
keeps it; the proof has one lemma per action, and lemmas for what actions share.

### The control plane

`LifecycleProofs`, for any number of servers, threads, attempts, probes, requests, crashes and drifts
and for every verb:

| Theorem | Statement |
|---|---|
| `TypeCorrect`, `ServersNeverInLimbo`, `RowsNeverStranded` | `Spec => []TypeOK`, `[]NoLimbo`, `[]NoStrandedRow` |
| `SettledRowsStay`, `ImplementsStatusMachine` | `Spec => SettledStays`, `Spec => Contract!Spec` |
| `AppliedOnceAlways` | `Spec => []AppliedOnceUncrashed` |
| `SafetyAlways`, `NeverExposedAlways`, `DestroyedReleasesAlways` | `Spec => []SafetyInv`, `[]NeverExposed`, `[]DestroyedReleasesAll` |
| `DiskLostOnlyInTheOpen` | `Spec => DiskLostInTheOpen` |
| `RecInvAlways`, `DestroyedForGoodAlways` | `RecSpec => []RecInv`, `RecSpec => DestroyedForGood` |
| `BesideAlways`, `NoLimboBeside`, `NoStrandedRowBeside` | `RecSpec => []BesideInv`, `[]NoLimbo`, `[]NoStrandedRow` |
| `SettledRowsStayBeside`, `AppliedOnceBeside` | `RecSpec => SettledStays`, `[]AppliedOnceUncrashed` |
| `DestroyedReleasesBeside` | `RecSpec => []DestroyedReleasesAll` |

`NoLimbo` is not inductive: a state in which the last active job of a server in flight is a
readiness probe for a status the server has left, or a power job at its exit with the server
already elsewhere, satisfies it, and the next step does not. The invariant proved, `Inv`, is
`TypeOK`, that every row and request belongs to a server that exists (`RowsExist`), that a busy
worker holds a row in state running whose server has exactly the status it loaded, at a place its
verb has (`BusyInv`), `NoStrandedRow`, and that each in-flight status has an unsettled row of a
verb that passes through it (`LimboInv`: `booting` is answered for by an `await_ready` row,
`provisioning` by `create`, and so on). Four lemmas carry what the actions share: rows that are
untouched, a server that moves within its own job, one whose job ends, one whose job gives up. The
refinement follows from `BusyInv`: with `seen` equal to the row, a transition allowed on the loaded
status is one allowed on the row.

That effects are applied once needs `AppliedInv`: a row whose success is recorded has succeeded, or
its worker stands at `succeed` with nothing else left to do. `NeverExposed`, `DestroyedReleasesAll` and
`DiskLostInTheOpen` need to know what the VM is at each place of the worker, which is `SafetyInv`: what is true of
each server whoever works on it (`ServersOk`: an absent or raw VM has no power task waiting, and a
status that says so), that a verb other than rebuild and destroy is only asked of a server that has its
address (`RequestsOk`), that a create job is alone with its probes (`CreateOk`), and what a handler
has established when it reaches a step (`PlaceOk`).

Beside the reconciler `BusyInv` is false, since a pass writes over the status a handler has loaded. Two
things are left. `RecInv`: a worker inside a job of a destroyed server has loaded that it is destroyed. No
handler leaves `destroyed`, so only the commit of a pass does; that is `DestroyedForGood`. And `BesideInv`,
which is `Inv` with a weaker `BusyInv`: the worker's server has the status it loaded, or is
`running` or `stopped`. A pass writes nothing else, and neither is in flight, so the row of a handler that was
overtaken answers for nobody and nobody has to answer for its server until the handler writes again,
which it does with a row at hand (its own at the first commit, the readiness job at the last). Where loaded
and stored status agree `BesideInv` is `Inv` and `Inv`'s proof serves; the new lemmas are about the states in
which they do not (`Overtaken`). What the table goes through does not depend on the status at all
(`InHand`), so `SettledStays` and `AppliedOnceUncrashed` hold in both systems by the same lemmas.
`DestroyedReleasesAll` survives with less than `SafetyInv` (`ReleasesInv`): a VM has its vmid, a handler clones
for a vmid it has picked and releases a VM that is gone, and every other step on a VM asks for the vmid or the
VM, which a destroyed server, and a row that a late commit brings back, has not. Only the steps of create do
not ask; that they never meet a destroyed server is `CreateOk`, proved for both systems from what they share
(`Ordered`).

`ProvisioningProofs`, for any number of servers (named by numbers, as ids are), users, labels, vmids,
addresses, quotas, requests and faults: `AllocationTypes` (`[]ProvTypeOK`), `OneHolderAlways`
(`[]OneHolder`), `PinnedIsOwnAlways` (`[]PinnedIsOwn`), `AllocationsAlwaysStick` (`AllocationsStick`).
`OneHolder` speaks of rows; it is kept because a server has one job at most and a live one (`JobInv`),
a VM of the pool is that of a row (`HolderInv`), and the worker has in hand, between pinning
an address and committing it, an address no other row holds (`CreateInv`), and between deleting a VM and
releasing its vmid nothing behind it (`DestroyInv`). That the least free vmid is a free vmid is proved from the
well-foundedness of finite sets under inclusion, which needs no induction scheme.

`EdgeProofs`, for any number of servers, hosts, changes, deaths and failures: `RoutesAlwaysLive` (a route
leads to a server that lives; it is what the answers of a poll rest on) and `OneWayInAlways` (`[]OneWayIn`). `OneWayIn` says what
Caddy was loaded with; the invariant says how the files get there: past a directory, its files are those of
the answer the agent works on (`FilesInv`), and one answer gives a host one way in.

`SchedulerProofs`, for any number of servers, any length of the day, backup window, cooldown and
restart times the assumptions allow: `ScheduleTypes` (`[]SchedTypeOK`), `OncePerNightAlways`
(`[]OncePerNight`), `BackupsAlwaysKeepPace` (`[]BackupsKeepPace`). Both count hours. `RestartInv` adds that a server restarted since its
time came was stamped since (`Since`, the hours since the clock last showed an hour) and is in no list of
the tick in progress; `BackupInv` bounds the age of a backup at every hour, not only at the window, and follows a
server through a tick: loaded, queued, or young.

### The console

| Module | Theorem | Statement |
|---|---|---|
| `WebsockProofs` | `SentAsPushedAlways`, `QueueImplementsStream` | `WsSpec => []SentAsPushed`, `WsSpec => ImplementsStream` |
| `HandshakeProofs` | `EventsAlwaysInOrder` | `HsSpec => []EventsInOrder` |
| | `HandshakeInvariant`, `ReadsAlwaysInStep` | `HsSpec => []HandshakeInv`, `[]ReadsInStep` |
| `RfbProofs` | `GestureSafe`, `PointerNeverThrows`, `PointerRests` | `PtrSpec => [](GestureInv /\ ~thrown)`, `[]NeverThrows`, `[]RestsWhenLifted` |
| | `PointerEndsAreTold`, `PointerHeldByUser` | `PtrSpec => EndsAreTold`, `[]HeldByUser` |
| | `SessInvariant`, `SessTypes` | `SessSpec => []SessInv`, `[]SessTypeOK` |
| | `InStepAlways`, `ReadsAll`, `AsksOn` | `SessSpec => []KeepsStep`, `[]NothingLeft`, `[]NeverStarves` |
| `ConsoleProofs` | `KeyInvariant`, `KeyboardTypes`, `ReleasesWhatItPressedAlways` | `KeySpec => []KeyInv`, `[]KeyTypeOK`, `[]ReleasesWhatItPressed` |
| | `NoneStuckAlways`, `TurnedOverOnceAlways` | `KeySpec => []NoneStuck`, `[]TurnedOverOnce` |
| | `DisplayInvariant`, `DisplayTypes` | `DispSpec => []DispInv`, `[]DispTypeOK` |
| | `StaleIsDamagedAlways`, `DrawsInOrderAlways` | `DispSpec => []StaleIsDamaged`, `DispSpec => DrawsInOrder` |

*Transport*, for queues, messages and pushes of any size. The send queue holds exactly the bytes that
follow those on the wire (`Queued`), until a push longer than the room there is. The receive queue
stays within its buffer (`RecvInv`), also after an error has left the size the code believes in at the
limit; the unread bytes are a window of the buffer, and each of the ways `_recvMessage` finds room
takes the window of one buffer to that of the next, which is a step of `ByteStream`.

*Handshake*, for any versions, schemes and credentials. `Told` says what the page has been told in every
state of the connection. `HandshakeInv` is that the unread cells and those on their way are together the
start of a message sequence that is due at the parser's state (`InStep`, `Due`), beside types (`Typed`) and what a state
has not come to yet (`Passed`). A message that is there as a whole is then the one the parser reads; RA2,
which reads past a message, is excepted in the property and in the invariant.

*Pointer*, for any finite set of fingers and any buttons. None of the gesture properties is inductive: that a
handler without touches rests says nothing of the step before, in which the last touch still counts.
`GestureInv` says of every state that each finger on screen is ignored or an active touch and not both
(`Accounted`), what a handler without touches holds (`Rested`), that the number of touches rules out
the gestures that have another number (`Narrowed`), and that a pending timer has something left to
decide (`Timed`). For the buttons, `HeldInv` adds that a button that is down is held by the user or owed
to the gesture there is.

*Session*, for any of the encodings the model knows, any Tight streams, updates of any number of rectangles up to
the bound and any number of cells under way. `KeepsStep` speaks of a reader that stands still between
two units; nothing in it says what the rest of the stream means to a reader that stands elsewhere. What is read and
not taken, followed by what is on its way, is therefore a *path*: a state of the parser for every
cell, each reached from the one before by reading that cell, from where the parser is (`Current`) to a state
in which the rectangles left, the zlib streams and the requests are what the server takes them to be
(`AtServer`). `Sound` says that there is such a path. Everything the server sends makes it longer, for which
each kind of rectangle has a lemma that follows its decoder from the header to the end; a unit that is taken
is the path's first step; delivery moves a border within it. `SessInv` adds the types
(`SessTyped`), that continuous updates are on for both sides or for none (`Told`), and that nothing
was taken for what it is not. What has to be read again is no exception: until a unit is there as a whole, the parser does not
move along the path. A unit that is there and wanted is read unless the display is waited for, which is
`NothingLeft`; and a path without cells is a parser in the server's own state, which is `NeverStarves`.

*Keyboard*, for any keys of the three platforms, any number held, any number of LED messages on
their way. `KeyInv` is that the server takes for pressed what the list says (`Good`), which keys may be
down while the window is away or AltGr is undecided (`Downs`), and what the LED messages under way will say of
the lock (`Locked`).

*Display*, for any rectangles, sizes and moves and a queue of any length. `DispInv` is that the canvases
have their sizes, the viewport lies on the framebuffer, every column that looks otherwise than the hidden
canvas is damaged (`Sound`), and that the queue holds drawing actions (`Queued`). `DrawsInOrder`
compares the pictures the queue comes to before and after a step; `Final`, which is defined by recursion, is
reasoned about by a smallest counterexample: two functions that unfold alike cannot differ first anywhere.

### What is only model-checked

* Liveness, which is out of the prover's reach: `QueueDrains`, `RefinesFairStatusMachine`, `DriftRepaired`,
  `NightlyRestarts`, `EdgeFollowsUndisturbed`, `FilesFollow`, `FlushEnds`, `Settles`, `FlushResumes`.
* No safety property of the runs. `NeverExposed`, `DiskLostInTheOpen` and `RefinesStatusMachine` are proved for
  the control plane without the reconciler; beside it they are false (see *Known divergences*).

## The plan

Done: the queue with worker, handlers and requests, the reconciler beside them, the scheduler, the
edge with its table and custom domains, allocation, and the console from its socket to its keys.
Next, in this order:

1. Proofs. Done: every safety invariant and action property of the runs, and beside the reconciler each of
   `Lifecycle`'s that is true there. What is left is liveness, which TLC checks.
2. `PeerFirewall`: the peer lists in Proxmox against the rows they were computed from, written by
   the worker and by request threads.
3. `SingleUse`: OAuth codes, invites, console tickets and reset links as redeemable codes.
4. `RateLimit` and the player cache: windows and threads.
5. An abstract `Registry`, each resource with one owner, which `Provisioning` implements; the port
   arithmetic of `instance_create` as a lemma.

Runs are few and kept to one per question: where a new module's question resembles an old one, the
runs are merged.

## Not modelled

* Rendering, mail formatting, metrics, favicons, and the API and MCP wrappers over `app/service.py`,
  which add no state; deployment scripts and guest images; database migrations; the wire protocols of
  game servers.
* Of the console: the tables of keys and symbols (`keysymdef.js`, `keysym.js`, `domkeytable.js`,
  `vkeys.js`, `xtscancodes.js`), whose content is all there is to them; the arithmetic of the
  cryptography and of zlib, one step each in `Handshake` and `Session`; pixels, cursor images,
  clipboard text and the charts; features the page never switches on.
* Codes and tickets, the rate limiter, the firewall of private networks and monitoring: planned
  above, or too little state for an order of steps to matter.

`PROJECT.json` lists every part with its status and reason.
