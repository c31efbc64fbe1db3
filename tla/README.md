# Maison: a TLA+ verification project

Maison is a home server: one Rust process (`backend/`, axum on tokio's multi-threaded
runtime) that drives lamps, feeders, plugs, blasters, televisions and a rabbit over five
radios and protocols, decides who may do so, and keeps its own state in small JSON files;
and a web app (`web/`) that shows it. This directory models the parts of the backend whose
correctness depends on what order things happen in, checks them with TLC on small instances,
and proves what can be proved with TLAPS for instances of any size.

All paths below are relative to the repository's root; `backend/src/` is left out where it is
clear.

## 1. Inventory

### Parts, their state, their operations

| Part | Code | State | Operations | Modelled in |
|---|---|---|---|---|
| Accounts | `people.rs` | `auth.json`: people, passkeys, invitations | redeem, invite, revoke, add/remove a passkey, remove a person, end sessions | `People`, `Auth` |
| Sessions | `auth.rs`, `routes/auth.rs` | access tokens (JWT, stateless), refresh tokens `live`/`spent` in `sessions.json` | refresh (rotate), logout, logout everywhere, replay detection | `Auth` |
| Ceremonies | `passkey.rs`, `routes/passkeys.rs` | WebAuthn ceremonies between start and finish, attempt limiter | start/finish of sign-in, of registration by session, by invitation; caps, limits, whose address counts | `Auth`, `SignInLimits` |
| State files | `store.rs` | `<file>`, `<file>.lock`, temporaries | locked read-modify-write, atomic replace | `StateFile`, `AtomicFile` |
| State in memory and on disk | `json_config.rs`, `scenes.rs`, `lamps.rs`, `auth.rs`, `tuya/cache.rs` | a value behind an async lock, and its file | change + save on a blocking thread | `SavedState` |
| The cached book | `people.rs` | the book, with the stamp of the file it was read from | read, edit | `PeopleCache` |
| Tuya devices | `tuya/mod.rs`, `tuya/worker.rs` | worker handle, `Link`, last data points | connect, disconnect, send, read; worker, supervisor | `TuyaWorker` |
| Hue lamps (BLE) | `hue/` | one record per lamp, blacklist | scan, connect, release, poll, commands, adapter events | `HueLamp` |
| Zigbee driver | `zigbee/driver.rs`, `zigbee/error.rs` | lifecycle, command queue, error count, the pipeline to the dongle | send, serve, rebuild, back off, supervise | `ZigbeeDriver` |
| Zigbee lamps | `zigbee/commands.rs`, `availability.rs`, `callbacks.rs`, `device.rs` | one record per lamp, what was last asked of it, the check under way | commands, pings, restores, presses, announces | `ZigbeeLamps` |
| Zigbee devices | `zigbee/callbacks.rs`, `discovery.rs`, `remotes.rs`, `zigbee/mod.rs` | node ids, interviews, classification, the manager's copy and `zigbee-lamps.json` | join, announce, interview, classify, publish, sync | `ZigbeeDevices` |
| Infrared keys, scenes | `ir.rs`, `scenes.rs`, `routes/ir.rs` | keymap, per-key queues, pressed keys | event, drain, run, test, set and remove bindings and scenes | `IrKeys` |
| Blaster and climate | `broadlink.rs` | operation lock, codes, what the air conditioner was last told | learn, send, record | `Blaster` |
| Android TV box | `androidtv.rs`, `atvremote.rs`, `adb.rs` | address, pairing, a kept session and a kept ADB connection | pair, keys, shell, install, change of address | `AndroidTv`, `AtvSession`, `AdbLink` |
| Philips TV | `tv.rs` | the gate and its last request | power, status, keys, route to the box | `PhilipsTv` |
| Meross plugs | `meross.rs` | on, online, when last seen | list, status, switch, flip, other calls | `MerossPlug` |
| Tempo | `tempo/` | seasons in memory and on disk, weather, last answers | today, calendar, forecast; RTE's rule | `Tempo`, `TempoRules` |
| Byte formats | `broadlink_ir.rs`, `philips_ir.rs`, `mitsubishi_ir.rs`, `zigbee/zcl.rs`, `hue/ble.rs`, `atvremote.rs`, `adb.rs`, `tuya/feeder.rs` | none | write, read | `Infrared`, `Climate`, `LampFrames`, `Wire` |
| Nabaztag, sun, Matter routes | `nabaztag.rs`, `sun.rs`, `routes/matter.rs` | little | one exchange per operation | no |
| Web app | `web/src` | live store of polled state, optimistic changes | poll, toggle, sign in | no |

### How they interact

* Every HTTP request is a tokio task. `TimeoutLayer` (`lib.rs`) and a client that hangs up
  both *drop* the task at whatever `.await` it is at: locks it holds are released, what it had
  not started never happens, and what it handed to a blocking thread goes on alone. Every
  module whose handlers can be left half-way has this as an action (`Cancel`, `Dropped`, `Leave`,
  `ScanDropped`, `ForgetDropped`, `CommandDropped`).
* The service and the command line (`maison-backend invite`) are two processes that edit
  `auth.json`; only the OS lock on `auth.json.lock` is between them.
* The book is read on *every* authenticated request, so it is cached, and the cache is
  refreshed by looking at the file's modification time and length.
* A Tuya device is owned by a worker task. Requests reach it through a handle in `runtime`
  (an `RwLock`) and learn about it through a `watch` channel; a supervisor task waits for the
  worker to end and replaces it after a panic, by the same `connect_device` a request calls.
* The Zigbee dongle is owned by one driver task. Callers look at its lifecycle, wait for room in
  a queue of 32, then for a reply, each with a time limit; the queue outlives the pipeline and
  the driver's panics.
* A Hue lamp is a record in a map. Five kinds of task change it, one short lock at a time, and
  between two of their steps any other may have released, removed or replaced it.
* Inside the Zigbee driver one event loop does everything in turn: commands, callbacks, steps of
  the availability check. Only a restore sweep lets callbacks in between two lamps. What the
  driver knows reaches the manager through a `watch` channel, and from there its file.
* A key press runs on its key's own task and ends in the blaster, the television, a plug, a lamp
  or a scene; a scene run from the web does the same inside a request. The blaster is one lock,
  and the threads behind it cannot be stopped.
* The Android box is reached by two kept connections, each behind a lock that is held across a
  connect, while its address may change and the requests that use it may be dropped.
* A Tempo request holds one lock while it asks its sources; the others meanwhile are served
  today's last answer.

### What is hard

Handlers that await between a check and the change it was for; two tabs that refresh with the
same cookie; a request dropped while its write is under way; a power cut between `write` and
`rename`; a second process; a worker that finishes late, after someone else owns the device;
a supervisor whose check is stale by the time it acts. `PROJECT.json` lists these under
`hazards`, each at the line where it bites, with the properties that would catch it going
wrong, or why none can be stated.

## 2. Modules

| Module | What it is |
|---|---|
| `People` | the book, and each `edit` closure of `people.rs` as an operator from book to book |
| `Auth` | extends `People`: handlers, tokens, ceremonies, clock, restarts |
| `MCAuth` | instances of `Auth` (who owns which passkey; symmetry) |
| `AtomicFile` | what a state file promises: a content, changed in one step, that a power cut takes back at most to a version since the last hardening |
| `StateFile` | `store.rs` step by step; `Atomic` says it implements `AtomicFile` |
| `StorageProofs` | the proofs about `StateFile`, `SavedState`, `PeopleCache` and `SignInLimits` |
| `AuthProofs` | the proofs about `Auth` and `People` |
| `SavedState` | memory and file under the three disciplines in use |
| `PeopleCache` | `People::read` and `People::edit` with the stamp |
| `TuyaWorker` | connect, disconnect, worker, supervisor of one device |
| `ZigbeeDriver` | callers, command queue, pipeline, supervisor of the Zigbee dongle |
| `LinksProofs` | the proofs about `ZigbeeDriver` and `TuyaWorker` |
| `HueLamp` | one Bluetooth lamp: scans, connecting, poll, commands, blacklist |
| `HueLampProofs` | the proofs about `HueLamp` |
| `SignInLimits` | ceremonies kept and evicted, the two attempt limiters, whose address counts |
| `ZigbeeLamps` | the driver's lamps: commands, availability, restores, presses |
| `ZigbeeDevices` | which device is which: ids, joins, interviews, remotes, the manager's copy and its file |
| `ZigbeeProofs` | the proofs about `ZigbeeLamps` and `ZigbeeDevices` |
| `Filter` | a sequence without some of its elements (`retain`, `filter`), by their positions |
| `Blaster` | one infrared blaster and what the house believes of the air conditioner |
| `IrKeys` | extends `Blaster`: keys, their queues, scenes, tests from the web |
| `IrKeysProofs` | the proofs about `Blaster` and `IrKeys` |
| `AndroidTv` | the box's manager: slots, back-off, pairing, install, change of address |
| `AtvSession` | one Remote v2 session with its two tasks |
| `AdbLink` | the kept ADB connection with its streams |
| `PhilipsTv` | the set behind its gate, and power over infrared |
| `MerossPlug` | one plug, the calls that cross over it and the state they share |
| `TelevisionProofs` | the proofs about the five modules above |
| `Tempo` | the Tempo service: its lock, sources, answers, files |
| `TempoRules` | the calendar and RTE's rule, as operators |
| `TempoProofs` | the proofs about `Tempo` and `TempoRules` |
| `Infrared`, `Climate`, `LampFrames`, `Wire` | the byte formats, as operators |
| `MCAuth`, `MCStorage`, `MCLinks`, `MCHueLamp`, `MCIrKeys`, `MCTelevision`, `MCZigbeeLamps`, `MCValues`, `MCTempo` | instances |

Components that share no state are instantiated side by side in one MC module: a variable `part`
is chosen at the start and only that part moves, so the runs stay few and each part is explored
as if alone. Components that do interact are composed: `Auth` over `People`, `IrKeys` over
`Blaster`, `StateFile` over `AtomicFile` by refinement.

`Auth` takes each edit of the book and each operation of the refresh store as one step. That
is what `StateFile` (an edit under the lock is atomic), `SavedState` (the refresh store's
mutex) and `PeopleCache` (a read is never older than the request) show of the layers below.

### Auth and People

State: `book` is `auth.json`; `sess[t]` is what the pair of tokens drawn as `t` says (the
refresh entry and the claims of the access token issued with it); `live` and `spent` are the
two maps of `RefreshTokenStore`; `cers` the ceremonies in memory; `req[r]` a request in flight
with `pc`, what it does next, and what its local variables hold; `now` the clock. `proofs`,
`ended` and `caught` are history: who used a passkey when, which families of tokens were told
they are over, and which of those had a rotation in flight at that moment.

A handler is cut where it awaits a shared store. `POST /refresh` is `RefreshTake` (or
`RefreshReplayed`, `RefreshUnknown`), then `RefreshPerson`, then `OpenSession`; between them
anything else may happen. `at` is the clock a handler read *before* queueing for a lock, as in
the code. Sign-in is `LoginStart`, `LoginFinish`, `LoginUsed`, `OpenSession`; registration
`InviteStart`/`AddStart`, `InvitePut`/`AddPut`, `RegisterFinish`, then `Redeem` or `Plant`;
removing a passkey `UnkeyStart`, `Unkey`, `End`, `Drop`, `Reopen`; removing a person
`EvictStart`, `Evict`, `Drop`; invitations `InviteByName`/`InviteBack`/`CliInvite`,
`InviteName`, `NewInvite`, `RevokeStart`, `Revoke`.

Left out: names, labels, cookies, hashing of tokens, the JWT's signature and WebAuthn's
cryptography (a credential that answers a ceremony is the one it claims to be). The JWT's
leeway is inside `AccessLife`. The clock never goes back. `Restart` takes the refresh file to
be what memory held; when it is not is `SavedState`'s subject. The constant `Kind` limits what
the clients of an instance send, so that each run spends its states on one question.

### StateFile and AtomicFile

A file's content is the set of edits in it. `file` is what the directory names; `past` what it
may still name on disk, because it was replaced since the directory's last fsync. One action
per system call: `Open`, `Lock`, `Read` (or `ReadUnchanged`), `Write`, `Sync`, `Rename`,
`DirSync` (or `DirSyncFails`, which the code ignores), `Answer`; `Fail` at any of them, `Kill`
of a process, and `PowerCut`, which finds any file the directory may name and, of one that was
not synced, possibly only a part.

### SavedState

Three disciplines, chosen at the start and kept: `disk` (saved, then kept: `JsonConfig`,
scenes, keymap), `memory` (kept, then saved, an error logged: refresh tokens, climate),
`snapshot` (changed elsewhere, then a copy saved under the store's lock unless it equals the
last one: the lamp files). A write in `flying` is on a blocking thread; `Cancel` drops the
task that waits for it and orphans the write.

### PeopleCache

A version of the file is a number. A stamp is the number of the version it was read from:
this assumes that two versions never share both modification time and length, which holds as
long as the file system's timestamps are finer than the time of a locked edit with its fsync.
`job` is an edit on its blocking thread, which survives the task that asked for it.

### TuyaWorker

`handle` is `RuntimeDeviceState.worker`, `link` the watch channel's value. `connect_device`
takes the write lock and copies the link (`ConnectStart`), then decides and changes it
(`ConnectClaim`): the worker changes the link without that lock, so these are two steps. The
worker's `run[u]` goes through connecting, serving, closing, back-off; every change it makes
to the link goes through `OwnLink` (`update_own_link`). `Stops` is the worker noticing that its
handle was dropped, at any await. `Panic` leaves a supervisor that sleeps, checks the handle
under the read lock (`SupCheck`), and calls `connect_device` (`SupConnect`, `SupClaim`). Left
out: the retry count (it only sets the length of the back-off), commands and data points.

### ZigbeeDriver

`drv` is where the one task is: opening the pipeline, serving (in `select!`), running a command,
leaving a broken pipeline (`broken`, until `TearDown` has said so in `life`), backing off, or,
after a panic, in its supervisor (`crashed`, `draining`, `resting`). `life` is
`Shared.lifecycle`, which `SendCheck` reads before anything is queued; the caller may enter the
queue much later (`Enqueue`), after a drain or a rebuild. `GiveUp` closes the reply channel and
leaves the command where it is; `Take` skips it. A command ends in one of five ways, by what
`DriverError::link` says of it. `synced` is false once a time limit
may have cut an exchange with the dongle half-way; `lapsed` remembers that the limit's end was
only logged (`CutAndLogged`): the availability check's and its restore sweep's
(`AvailabilityTimesOut`), a drained callback's after a Touchlink join (`RunOk`, from
`touchlink.rs:126`) or while a network forms (`BringUp`, from `network.rs:387`). An error of the
transport is no cut exchange: a command's ends the pipeline (`RunBroken`), a chore's is logged. A slot of `Req` stands for any
number of calls, one after the other: it is used again once nothing of it is queued. A panic
drops the command being run, whose caller hears at once. Left out: what commands do, the first
discovery, the network's state, shutdown.

### HueLamp

`lamp` is one `LampRuntime` and `known` whether it is in the map: every later write is a
`get_mut` that may find nothing (`Set`). A scan goes from `seen` (past the blacklist) to `queued`
(in `connect_queue`), then through `connect_lamp`: the claim, the link, the reads and the
listener, the end. Two scans can be under way, the periodic one and a request's; only the
request's can be dropped (`ScanDropped`), and its claim `connecting` then stays. `blacklist_lamp`
is three steps, called by a request (`Forget...`) or by a scan whose attempt failed once too
often. The adapter's events arrive late, in order. `raced` and `dropped` are history: which of
the known ways out the lamp took.

Left out: the lamp's light, name and addresses, `reachable` and `last_seen` (shown, never
tested), renaming, the saves. `near` is one Boolean for powered, in reach and answering: a lamp
that is near answers. A command's look at the record and its write are one step, since what it
does after depends on the write alone. A listener that a dropped scan had spawned and not yet
stored goes on unseen in the code; here it does not.

### SignInLimits

`kept` is the map of `Ceremonies`, oldest first, with ages in ticks instead of instants; `failed`
and `started` are the two `Limiter`s, an entry past its window being as good as none. An address
is a host of a home (an IPv4 address, or an IPv6 /64): `AddressKey` keeps the home. A visit has a
list of things to do (`Errands`), each check and each count a step of its own, since the code
takes the limiter's lock once to ask and once more to count. People come through the tunnel,
which tells the truth about them, or directly, saying what they like; requests from the Pi
itself are not enumerated. Left out: what is verified (that is `Auth`), the pruning of a map of
ten thousand addresses, the seconds a refusal names.

### ZigbeeLamps

`world` is the lamps themselves and `rec` the driver's records; `air` what is under way between
them, handled in any order; `avail` the availability check with its queue and its attempt;
`loop` and `sweep` the restore sweep and the copies it works from. Commands
(`SetPower`, `SetBrightness`, `SetTone`), presses, reports, failed deliveries, announces, the
steps of the check and of the sweep are the actions; `Flip` is the wall switch, `Quiet` a lamp
not heard for its time limit. `asked`, `noticed`, `excused` and `stale` are history. Excluded: an
answer to a check's last ping that comes after the next check began. A ping is `Pinged`, `Refused`
by the dongle (the lamp is given up, and its news swept) or `CutOff` by the command's time limit
(`availability.rs:78-80`: the check starts over and tells nobody).

Three limits are built into the properties. A lamp is pinged only once its interview is done
(`availability.rs:131`), and an interview is retried so many times only (`discovery.rs:26,100`): one
announced, switched off until its interview `RanOut`, and switched on again with that announce lost
stays on and is not shown, until it announces itself again or speaks unasked. `Reachability` excepts
such a lamp; one that is cut off meanwhile is shown out of reach, its interview not being done. And
what is pressed between the sweep's copy and a lamp's turn is undone (`stale`), though
`device.rs:104` says "What the user last asked of a lamp, sent again when it comes back after a
power cut."; a lamp that is off then is not touched.

### ZigbeeDevices

What one device causes arrives in order, devices overtake each other. `recs` is
`joined_devices`: `Ensure` finds a record by EUI64 first, by node id second. A node id is given
again only when what its last holder sent was handled. An announce is for the device that joined,
but the record whose classification it drops is looked up by node id (`discovery.rs:167`), and may
be a departed device's that no leave was heard of: the device announced then keeps what it was
taken for, although the comment says "a classification it had is dropped, so it is interviewed
afresh" (`discovery.rs:159`). `misread` remembers such devices, and `RecordsFit` does not promise
the type of one. The manager's half is `shared`, `news`,
`lamps` and `file`: publish, take in, save, and a failed save that marks the channel as changed. A
driver that panics starts over from the devices known at boot (`driver.rs:295`), so `RecordsFit`
and `LastPressWins` are stated for behaviours without a panic. A device with a light and a
utility endpoint is exempt from `RecordsFit`: once it is classified as a remote its ZDO frames
are dropped (`callbacks.rs:212`), and the light endpoint that `discovery.rs:234-237` counts on to
correct it is never looked at.

### Blaster and IrKeys

`Blaster` is one operation lock and the threads behind it: a caller waits, its thread sends or
learns, the climate's state is recorded after the lock is let go. A learning that
times out leaves its thread running and the lock with a task that waits for it
(`LearnTimesOut`); a call that is dropped leaves its thread running and the lock free (`Abandon`).
A thread that fails may have sent its frame and lost only the answer (`ThreadFails`): the unit
heard it, the error leaves before the record, and the belief is astray from there.
`ac` and `climate` are the air conditioner and what the house believes of it, `astray` is the
history of why they may differ. `IrKeys` adds the key events,
one channel and one task per key, bindings and scenes that may change under a press, panics of a
job, and requests that run the same actions. Left out: lamps, plugs and television behind a
switch are one Boolean (the infrared code a television's power button sends through the same blaster
is `PhilipsTv`'s), the clock (a press after another is a phantom or not), repeats' timing.

### AndroidTv, AtvSession, AdbLink

Three views of one box. `AndroidTv` is the manager: two slots and a pending pairing, each behind
a lock held across a connect; a task is the list of its calls; a change of address is several
steps, between which a task that read the old address may still store what it made (`strays`
remembers). `AtvSession` is one session: the reader, the task that writes, the two bounded
channels, the TV's pings and silences. `AdbLink` is the kept connection: a dropped call leaves a
stream open on it, or half a message (`skew`), and streams are told apart by local id.

### PhilipsTv

`Probe` reads power from one TCP connect and, if it is answered, from `powerstate`, which lags
and may answer neither on nor standby, read as standby (`HitEnds`, from `power_from_answer`,
`tv.rs:685-688`); every request passes the gate (`Locks`, `Hits`, `HitEnds`) that spaces them. Time is in ticks.
`excuse` remembers why a reading was wrong: the connect was lost, the set had not joined the
network, `powerstate` lagged or answered neither.

### MerossPlug

A call is its exchanges: a status asks three times and then writes what the first said; a list
reads the plug and answers from the state all calls share; a switch asks `ToggleX`, and `Toggle`
of a plug that refuses it; a key's flip reads and then orders. `was` is what the plug was since a
call, or one it met, began. A list whose own reading failed promises nothing of on or off: a call
that learns nothing (`seen(None)`) may have marked the plug online meanwhile.

### Tempo and TempoRules

A season's history is the set of its known days, since a day has one colour for good. A request
goes from one await to the next: its turn (the lock, or today's last answer), the sources, the
weather, the save, the answer; it may be dropped at any of them, and then a save it had handed
over lands at once or never. Midnight, a quarter of an hour and a publication may come between
any two steps. Left out: EDF's announced quotas, tariffs, the consumption and its statistics,
tokens, what the rabbit shows. `TempoRules` is RTE's rule as operators, with thresholds and
consumption in thousandths; `MCTempo` decides whole seasons day by day, with consumption at,
above and far from each threshold. The code keeps last season's quotas in a simulation that
passes 1 September, and answers a past season from memory, complete or not, when it has one
(`tempo/mod.rs:566`, whose comment says "its file once complete, else asked"): shown, but no
property is about them.

### Infrared, Climate, LampFrames, Wire, and MCValues

Each format's writer and reader as operators over sequences of bytes, tokens or durations.
`MCValues` sends every input of a set through them over a line that may cut it anywhere, and
compares with a second definition that says what was meant (`Meant`, `Said`, `PlanSeen`,
`SundayAfterMoon`). The side that is not in the repository (a lamp, a television) writes or reads
as its protocol says. Rounding of `f32` is rounding of integers; numbers of 64 bits are their
digits in base 128.

## 3. Runs

| Run | Instance | What it shows |
|---|---|---|
| `auth_sessions` | 1 person, 4 tokens, 2 requests, clock 0..2 | rotations, replays, sign-outs and restarts: one heir per sign-in, what was signed out stays so unless a rotation of that family was in flight |
| `auth_keys` | 1 person with 2 of 3 passkeys, 3 tokens, 2 requests | adding and removing passkeys: never the last one, sessions say the truth about the last passkey proof |
| `auth_invites` | 2 people, 3 credentials, 2 invitations, 2 ceremonies | an invitation registers one passkey, and that passkey signs its person in, with people removed, invited back and invitations revoked meanwhile |
| `auth_last_admin` | violation | two admins remove each other |
| `storage` | 2 processes and 3 edits; 2 tasks, 3 changes, each discipline; 2 tasks, 1 command line, 3 versions; 2 visits from 2 homes of 2 hosts | a file is never torn, what was made safe survives, and `StateFile` implements `AtomicFile`; what was answered Ok is kept; nobody is answered from an older book; nobody is refused or pushed out for what another home did, and a window counts no more than the limit and what is in flight |
| `saved_late` | violation | an orphaned write lands after a newer one |
| `links` | 3 callers, queue of 2, 2 errors, 1 attempt, 1 panic; 2 callers, 3 workers, 1 panic | dongle: no abandoned command runs, Ready means someone serves, an exchange cut by a time limit ends the pipeline (but where the limit's end is only logged), a plugged dongle is served again and who waits is answered. Tuya: one session, "connected" is true, a disconnect holds, a device that answers is connected again and waits end |
| `hue_lamp` | 2 scans, 2 failures, 2 late events, 1 request to forget | a forgotten lamp returns only through a scan that was past the blacklist, a connection that is gone is found out, a lamp in reach is connected again, or ended forgotten, claimed by a dropped scan, or connected without characteristics |
| `remote` | 1 key with 2 tasks in turn, 1 request, queue of 1, 1 drop, 1 panic | one thread at a time on the blaster, unless a drop left one; the belief about the air conditioner is true or astray in a known way; a toggle flips; a press is run or lost with its task |
| `television` | per part: 2 shells of 2 chunks; 2 tasks and 2 addresses; 3 keys, 2 pings; 2 callers; 2 callers and 4 calls of a plug | a shell's answer is its own; what is kept belongs to the configured box; keys arrive in order, sessions end; the power button sees the set; nobody is told of a plug what it was not |
| `zigbee_lamps` | 1 lamp in every state, 2 lamps after a power cut; 2 devices, 3 node ids | a lamp comes back as asked, is shown as it is in the end, unless its interview ran out; records fit their devices, the file follows, the last press wins |
| `values_tempo` | the inputs of `MCValues`; 2 seasons day by day; 2 requests over 4 days and 2 seasons | every format reads back, whole or cut; quotas are placed; an answer is for the day it was asked on; what was shown is kept |

Bounds. Two requests are enough for every race here: each property relates two actors, or one
actor and the past. Two to four tokens are a sign-in, its rotation, a replay and one more; three
credentials are two of one person and one for an invitation. The clock needs one tick per lifetime
it must exceed. Three workers are the first, its replacement after a panic, and one started by a
request meanwhile; `Spare` keeps the bound on workers from stopping a supervisor, which would make
the liveness properties vacuous or false. Three callers and a queue of two are one running, two
queued or one that waits for room; two errors and one attempt are the smallest limits that can be
approached and passed (5 and 10 in the code, which only compares). For a Hue lamp two failures are
one that counts and one that blacklists (3 in the code), two late events a rise and a fall of the
link not yet heard of; one request to forget races two scans. A cap of three ceremonies with two
per home lets one home fill its share and both together the whole; one attempt per window is the
smallest limit that two visits pass together. One lamp meets every state of its own; two are what
a sweep needs to be overtaken between them. Its wall switch is flipped three times: on, off and on again
is what lets an interview run out while it is off and leave it on. Two devices and three node ids let an id change hands
and be taken back. A queue of one (4 in the code) is full at once; two tasks of a key are the one
that panics and its successor. Three keys over channels of two and one fill both. Two addresses
are the old box and the new one. Four calls of a plug are two that cross, and one before and
after. The box accepts this host from the start or not yet, so that a session is both opened and
found open; a plain call to the set is two requests. In `storage`, `links`, `television`,
`zigbee_lamps` and `values_tempo` several machines share a run, so TLC's per-action counts stop at
the run's own disjuncts; its expression counts show every branch taken, except `StateFile.Read` of
a torn file (`NeverTorn`) and, in `remote`, the discovery that finds another's result under the
lock, which takes a second web request. The Tempo instance has two days on each side of the turn
of a season; `Events` bounds the requests and the faults together.

Deadlock is checked in `storage`, `links` and `hue_lamp`, whose machines go on for ever. The
others come to an end: ids are drawn once, calls and faults are bounded, a format is read once.
Symmetry is used over ids that the code draws at random and over requests, tasks and edits; never
in a run with a liveness property.

Every property of a passing run has a mutant in `PROJECT.json`: a definition of the model
changed the way a plausible bug would change the code, with which TLC finds the property
violated.

### Fairness

`TuyaWorker`: tokio polls every task that can go on: weak fairness of each
worker's own steps, of a request between its look and its claim and of a supervisor's claim.
Tokio's `RwLock` is a fair queue, so whoever waits for it gets it in the end although others
take it meanwhile: strong fairness of `SupCheck` and `SupConnect`. The device (`Answers`,
`SessionBreaks`), panics and requests are never obliged to happen.

`ZigbeeDriver`: every step of the driver and its supervisor ends by a time limit or a sleep: weak
fairness of `Works`. `select!` picks at random among its ready branches, so a command is taken in
the end although ticks compete with it and the link may break before it is: strong fairness of
`Take`. Tokio's channel gives room to whoever waits longest: strong fairness of `Enqueue`. Nobody
is obliged to give up, to plug the dongle in or to ask.

`HueLamp`: the periodic scan, the poll and the event loop run for ever (`crate::every`): weak
fairness of each. A scan asked for and a removal go on unless they are dropped. The lamp,
notifications, commands and drops are never obliged to happen.

`IrKeys`: a key's task is polled (weak fairness of `Take` and of its actions) and the blaster's
lock is a fair queue (strong fairness of its calls); a thread ends by its own time limit (weak
fairness of `Threads`). Key events, requests, drops and panics are free.

`AtvSession`: the two tasks are polled as long as they can go on, and the silence's time limit
runs out: weak fairness of `Serve`. The TV and the callers owe nothing.

`ZigbeeLamps`: the event loop goes on as long as it can (weak fairness of `Driver`, which includes
what is in the air being handled), and a lamp that stays away is silent for its time limit in the
end (weak fairness of `Quiet`). Switches, commands and presses are free.

### What the violations say

Each is a sentence of the repository that the code does not quite keep (`findings` quotes it):
"the last admin cannot lock the house" and two admins; "the last write is always the newest
state" and a dropped request. Some properties of passing runs state such a limit themselves:
`SignOutHolds` (a rotation in flight when its family is signed out outlives it),
`InSyncUnlessLapsed` (`driver.rs:32-34` says "a desynchronised EZSP channel is never reused"; the
time limits of the availability check and of its restore sweep, of the callbacks drained after a
Touchlink join and of those drained while a network forms are only logged, and a pipeline they
cut in an exchange is used again),
`DisconnectHolds` (a disconnect between a supervisor's check and its connect is undone),
`TakenBackOnlyByRace` (a scan past the blacklist takes a forgotten lamp back), `ConnectsOrStuck`
(a dropped scan's claim, and a late "connected" on a released lamp, are never cleared by anything
in reach), `ComesBackAsAsked` (a press between a sweep's copy and a lamp's turn is undone), `Reachability` (a
lamp left on whose interview ran out may never be shown),
`RecordsFit` (an announce that drops another device's classification, by a node id both had,
leaves the announced one's), `PictureIsTrue` (two sends may record in the other order, and a send that
is heard and whose answer is lost is never recorded), `TogglesSeeTheSet` (`powerstate` may answer
neither on nor standby, and the code that says it must not have "a toggle switch on a set that is
on" reads standby), `FollowsAddress` (what read the old address before a change may be stored after it).

## 4. Proofs

TLC checks an instance; `tlapm` checks the following for every value of the constants. Each
module of proofs extends the module it is about, states one invariant that is inductive, proves
it action by action, and draws the properties from it.

| Module | Theorems | About |
|---|---|---|
| `AuthProofs` | `ThOneHeir`, `ThSignOutHolds`, `ThAuthIsProof`, `ThKeysNeverRunOut`, `ThInviteOnce` (and `ThTypeOK`) | `Auth` over `People`: any people, credentials, invitations, tokens, ceremonies, requests, lifetimes |
| `StorageProofs` | `ThNeverTorn`, `ThNoLostUpdate`, `ThSafeSurvives`, `ThAtomic` | `StateFile`, and that it implements `AtomicFile`: any processes and edits |
| | `ThAckedIsKept`, `ThReadsAreFresh`, `ThLimitsAreOwn` | `SavedState` under each discipline, `PeopleCache`, `SignInLimits`: any tasks, changes, versions, visits, homes, caps, limits |
| `LinksProofs` | `ThReadyMeansServing`, `ThInSyncUnlessLapsed`, `ThNoSurprise` | `ZigbeeDriver`: any callers, queue and limits |
| | `ThOneSession`, `ThDisconnectHolds` | `TuyaWorker`: any callers; any number of workers, supervisors and panics |
| `ZigbeeProofs` | `ThAnyHouse`, `ThComesBackAsAsked` | `ZigbeeLamps`: any number of lamps, levels, commands and switches of the wall |
| | `ThRecordsFit`, `ThKeptWhenSettled`, `ThLastPressWins` | `ZigbeeDevices`: any devices, node ids, moves, presses and failed saves; the last one with one dimmer |
| `HueLampProofs` | `ThTakenBackOnlyByRace` | `HueLamp`: any limits |
| `IrKeysProofs` | `ThAlone`, `ThPictureIsTrue`, `ThTogglesFlip` | `IrKeys` over `Blaster`: any keys, bindings, scenes, codes, requests |
| `TelevisionProofs` | `ThAnswersAreOwn`, `ThFollowsAddress`, `ThKeysInOrder`, `ThTogglesSeeTheSet`, `ThToldAsItWas` | `AdbLink`, `AndroidTv`, `AtvSession`, `PhilipsTv`, `MerossPlug`: any users, boxes, keys, callers and calls |
| `TempoProofs` | `ThAnsweredForToday`, `ThShownIsKept` | `Tempo`: any requests, days and faults |
| | `ThQuotasPlaced` | `TempoRules`: any seasons of 2014 to 3000, any consumption |

### The invariants, and why the properties need them

`AuthProofs`. `TypeInv` says what a request carries at each place. `BookInv` carries
`KeysNeverRunOut` and `InviteOnce`: an invitation has one unspent form per person (`OneUnspent`), a
passkey that came from one names it as spent (`Rooted`), and a request or a ceremony that is about
to redeem one still names the person it was made for, under the handle they have (`Redeemable`):
without that, the last step of a registration that began before the person was removed and invited
again would be free to plant a passkey nobody can sign in with. The families' part says that the
tokens of one sign-in name each other, that one of them at most is live or being rotated, and that a
family told it is over has a live token only through a rotation under way at that moment.

`StorageProofs`, the file. Whoever is past `Lock` holds the lock, so edits do not overlap (`Overlapless`); a
temporary file about to be renamed contains what it replaces, whole, and is synced by then
(`Prepared`); an edit past its rename is in the file (`InPlace`); nothing the directory may name is
torn or unsynced, or lacks what was made safe (`Durable`). The refinement maps `Rename` to `Commit`,
`DirSync` to `Harden`, `PowerCut` to `Cut`, and everything else to a stutter.

`StorageProofs`, the rest. `KeptInv`: whoever is between the lock and the answer holds the lock; a write on a
blocking thread is its task's own copy, unless its task was dropped; a copy holds all that was
answered. `BookInv`: whoever holds the OS lock has the file it read, and the cache is never older
than the file was when its stamp was taken. `LimitsInv`: a window's count and the visits let through
but not yet counted stay below the limit and the visits at once, which bounds by how much the check
before the count can overshoot. `CrowdInv`: no more ceremonies are kept than the cap. An address that
has as many as it may loses its oldest first, after which the list is shorter than the cap (`Least`:
it has an oldest; `PickedList`: a list without one is shorter), so the second eviction, which may
hit another address, never follows (`ThLimitsAreOwn`).

`LinksProofs`, Tuya. Whoever is between its look at the link and its claim holds the lock, and the link
still names the worker it saw, or none since that one went (`LookedAt`); the link names the handle's
worker as long as it lives (`HandleInv`). Hence a claim never starts a second worker beside a live
one. The bound on workers is not used: `born` may be any number.

`LinksProofs`, the dongle. `LinkInv` adds that a pipeline in use is below the error limit. `QueueInv`: a
command queued or running has a caller who waits or gave up, and is there once. Without "once" the
end of one command would free the slot of another; without "waits or gave up" the head of the queue
could be a slot in another use.

`HueLampProofs`. `Gone`: no scan has seen the lamp and not yet kept it; otherwise `ScanKeeps` would
bring it back without the race that `Extended` recorded. Every other step is `Harmless`.

`IrKeysProofs`. The lock is held for the one thread that is nobody's orphan (`LockInv`); a caller
about to record what the air conditioner heard last is marked fresh only while that is so
(`FreshInv`); a channel's task is the only one that runs its key's actions (`ChanInv`), and a toggle
that has read the state and not yet sent its order knows whether another came in between
(`RunInv`).

`TelevisionProofs`. One invariant per part. The set: a code a power call is to send is justified by
its reading (`Justified`). The plug: all calls in flight met the same states since the first of them
began, so what one may be told any may (`AllMet`). The session: one opening message is under way at a
time, and the keys in the two channels are exactly those between what the TV did and what was
accepted, in order (`KeysFit`). The manager: each slot may name another box only while its own drop
is still pending in a change of address, or by a task that is known to have read the old one
(`RemoteFits`, `DeviceFits`, `PendingFits`, `LateFits`), and a back-off of a paired box is older than
the pairing (`PairedFits`). The ADB connection: for each shell that talks, what was read of its
stream, what is on the line either way and what the box has yet to print are together its command's
output, in one of the phases `Asked`, `Refused`, `Opened`, `Printing`; and the counter is ahead of
every stream, so that what a dropped shell left on the line is never taken for a new one's.

`ZigbeeProofs`, the lamps. `LampInv`: a record wants what was asked last (`WantsAsked`); the check
has a ping waited for at the head of its queue (`CheckFits`), and a sweep has each lamp once, still to be
restored, with the tone it wants, while its brightness may be stale (`SweepFits`); a lamp that counts
as restored, and that no press overtook, is on and as asked, or the failure of what it was sent is on
its way (`Fulfilled`). The last is what makes it safe to count a lamp as restored before it answers.
`ThAnyHouse` states the result of the module by itself, for any number of lamps.

`ZigbeeProofs`, the devices. `Listed`: no node id is named by two devices, neither by where they are
nor by what they sent and nobody handled (`Boxes`); no two records share a device or a node id; and a
device of which no move is under way is listed where it is, as what it is once interviewed, unless it
was `misread`. A join may take another's record over only by a node id that the other no longer has,
which is why the invariant speaks of the network and of the messages under way and not only of the
records. `KeptInv`: what is published and no news is in the file. `PressInv`: the last action is the
one pressed before those still under way; two dimmers' presses overtake each other, so
`ThLastPressWins` assumes one (`OneDimmer`).

`TempoProofs`, the service. `RequestsInv`: only the lock's holder is past `waiting`, and the day it
answers for is no earlier than the one it came on. `KeptInv`: the memory of a season is its file,
except while the holder writes it; what a request has read, and the last answers, are in the files.

`TempoProofs`, the rule. `SeasonInv`: what is left to place fits the days left, red ones that may be
red by 31 March and white ones of after it, and there are no more reds in a row than days since
Sunday, so that five in a row never forbid the red that must be placed. One day keeps it: the rule
forces a colour exactly when its days left are as many as its stock. It needs the calendar: that a
season's days are of that season and that none after March is red (`SeasonDays`, from `YearIs` and
`MonthIs`, proved by arithmetic on days). That a season starts with room is `SeasonAssumption`, which
TLC evaluates for the run's seasons, counting days.

### Assumptions

Every proof rests on the named assumptions of the modules it extends, which TLC evaluates in every
run:

* `Nil`, where a variable may hold "nobody", is none of the values it may hold otherwise
  (`PeopleAssumption`, `NilAssumption`, `NilSessAssumption`, `AuthAssumption`, `BlasterAssumption`,
  `RemoteAssumption`, `StateFileAssumption`, `StorageAssumption`, `LinksAssumption`,
  `ZigbeeDriverAssumption`, `TelevisionAssumption`, `ZigbeeAssumption`, `DeviceAssumption`,
  `TempoAssumption`): the code has `Option`, or a tag, for each.
* Limits, lifetimes and bounds are numbers, and those the code has as at least one (the room of a
  queue, the errors that break a link, attempts per window, the window, ceremonies in all and per
  address, an invitation's life) are
  not zero: they are constants of the code.
* Names of different things differ: a command line is no task of the service (two processes), a
  caller is no number of a worker, "thread" is no caller, a learnt code is not "on" or "off", a key's
  channel is no request (`StorageAssumption`, `LinksAssumption`, `BlasterAssumption`,
  `RemoteAssumption`).
* `AuthAssumption`: the handle of somebody new is named for its ceremony, which the code draws at
  random and keeps; a credential has one owner. `StorageAssumption`: visits at once are finitely
  many. `DeviceAssumption`: devices are finitely many, with a node id for each. `SeasonAssumption`:
  seasons are of the years 2014 (the first RTE serves) to 3000 and start with room for their quotas.
  `TelevisionAssumption`: `Chunks` is a number; a status makes one request or more.

### What is only model-checked, and why

* Liveness, out of this prover's reach: `Recovers`, `RadioServes`, `GhostsFade`, `ConnectsOrStuck`,
  `KeysServed`, `SessionEnds`, `Reachability`.
* `ReadsBack`: what a reader makes of a sequence of bytes is by recursion or folding over it, and
  induction over data is out of reach. `Infrared`, `LampFrames` and `Wire` are run on every input of
  `MCValues`, whole and cut.
* `SeasonAssumption`'s counting of days, year by year.
* Behaviours with a driver's panic, of `RecordsFit` and `LastPressWins`: the driver starts over from
  the devices known at boot, and nothing is promised of them.
* `ThNoLostUpdate` is proved but not run: on the run's instance `Atomic` implies it.

Writing the proofs changed the model. Cases of `Ask`, `TimerOf`, `Reads` and `MCValues`
that overlapped are now exclusive: TLC takes the first that holds, a proof any. And `PairedIsUsed`
excuses only a change of address that is about to clear the back-off: the weaker form, which excused
every change, held for less than the code promises. The proof about the devices found the announce
that drops another's classification (`misread`). Filtering by recursion gave way to `Filter`, in
`ZigbeeLamps`, `ZigbeeDevices` and `SignInLimits`.

## 5. Not modelled, and why

* Tuya's data points: conversions to JSON, and a picture that races by design (a session merges
  into a copy, `worker.rs:243`; a fetch is recorded after the worker went on, `mod.rs:434`) and
  that the device repeats. After a command the code reads and drops one batch of answers
  (`worker.rs:345`, whose comment says the session reads the echo afterwards). Nothing acts on
  these values, so there is no property to state.
* The Zigbee network's set-up and Touchlink: one radio procedure each, run by the one driver task.
* The Tempo forecast's statistics: floating point. Tariffs and quotas are tables.
* Nabaztag, sun: datagrams and solar equations. `matter/` is referred to but not in the tree.
* Route files of devices: JSON adapters without state. Tools under `bin/`: single runs.
* The web app: it shows what the backend answers.

## 6. Plan

1. `ZigbeeDevices` with devices of two endpoints, once `callbacks.rs` looks at a remote's second
   descriptor, and without `misread`, once `discovery.rs` looks at the announced device's record.
2. `ReadsBack` in parts that need no induction: one field, one record, one command of each format.
