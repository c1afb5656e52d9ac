# nosebleed in TLA+

nosebleed streams one emulator session to browsers: a Rust server runs a
libretro core on a thread of its own, publishes its frames and sound, takes
players' input over WebSocket or WebRTC, and keeps a "virtual arcade" where
players queue for the two seats of a machine. Around it are a browser player
library and a web application that runs one such server per machine. This
directory holds TLA+
specifications of its parts, the TLC configurations that check them on small
instances, and TLAPS proofs for every value of the constants. Every definition
is taken from the source (paths below are under `apps/nosebleed/src/` unless
they say otherwise); `PROJECT.json` maps each to its lines.

    tlc -workers 2 -config ArcadeSafety.cfg MCArcade
    tlapm ArcadeProofs.tla

## 1. Inventory

### Components

| Component | Source | State it keeps | Operations | Here |
|---|---|---|---|---|
| Arcade front desk | `arcade.rs` | machines (two seats, two lines, one seat call, a cached status), cooldowns, the ticket counter, daily scores; all behind one mutex | overview, join_queue, leave_queue, claim_seat, end_round, each after housekeeping | `Arcade` |
| Input sessions | `server.rs` (InputSessionRegistry, input_session, webrtc_session), `input.rs` (sources) | port leases; sources in the hub; live peer connections; one lock each | open, offer, message, close, clean up, expire | `InputSessions` |
| Session manager | `session.rs`, `main.rs` | the active runtime, the last exit; every runtime's thread, shutdown flag and command queue | start, stop, status, request_*, shutdown_and_join | `SessionManager` |
| Libretro runtime | `libretro.rs` | a process-wide callback context and core options, the core, save RAM, save states | the life of a game, the frame loop, callbacks, commands | life cycle in `SessionManager`, files, options and load attempts in `LibretroCore`, callbacks in `MediaPipeline` |
| Hardware rendering | `hw_render.rs` | an EGL context and its GBM objects | create, make current, drop | `LibretroCore` |
| Mock core, frame store, dispatcher | `core.rs`, `frame.rs` | the latest frame and its sequence | publish, wait_for_next, dispatch | `MediaPipeline`; mock life cycle in `SessionManager` |
| Audio bus | `audio.rs` | samples pending, a sequence, a broadcast channel | push | `MediaPipeline` |
| GStreamer backend | `gstreamer_backend.rs` | two pipelines, their feeders and ways out, counters | start, feed, drain, stop | `MediaPipeline` |
| Input hub | `input.rs` | per source and port: buttons, axes, age; pulses | apply_update, pulse_button, merged_for_port, remove_source | `InputHub` (sources and leases together in `InputSessions`) |
| Media configuration | `media.rs` | none after start | choose encoders | not modelled |
| Authentication | `auth.rs` | none | validate claims | a guard in `InputSessions` |
| Wire protocol | `protocol.rs` | none | encode and decode packets | by meaning |
| Arcade server | `packages/joel-nosebleed-arcade/src/server/` | a second front desk, one runtime process per machine, a pair of sockets per connection | joins, claims, spawns, exits, upgrades, shutdown | `ArcadeServer` |
| Player SDK | `packages/player-sdk/src/index.ts` | sockets or a peer connection, a reconnect timer | connect, disconnect, reconnect, fall back | `PlayerSdk` |
| Pages and client | `static/*.html`, `client/*.tsx` | what is drawn | polling, heartbeat | timers only |

### How they interact

HTTP workers call the session manager and the arcade; input connections check
the registry, write the hub and queue commands with the session manager; the
runtime's thread reads the hub and the commands and writes the frame store and
the audio bus, which dispatcher and feeders read. The manager's lock is never
held across a join, the registry's and the hub's never together, the arcade's
during a whole handler. What two runtimes share is global: the callback context,
the core options and the core's library itself. The web application talks to
each server as a browser would: it probes `/healthz` and pipes each browser's
WebSocket into one of its own.

### What is hard

 * **Arcade.** Every handler reads the clock *before* it waits for the mutex, so
   it may judge deadlines by an old time. There is no timer: no-shows are swept
   by the next request of anybody. One `called` slot serves two sides. Tickets
   leave lines from the middle (leave), from the head (claim, no-show), and the
   cached status is rewritten by four handlers. Correct means: one place per
   player, calls that name the head of a line and an empty seat, seats given in
   ticket order, winner stays, cooldowns only for no-shows and kept.
 * **Input sessions.** The owner is checked under one lock and input applied
   under another; a cleanup is two critical sections, runs once, and may be
   begun by a peer state change, by the closing of any announced channel or by
   the guard of the handler, while other channels of the peer stay usable;
   messages may be handled after it. Correct means: a window belongs to
   the connection that ended, nobody loses a port to somebody else's ending, and
   input left behind stops counting.
 * **Session manager.** start, stop and the reaping in status look at the
   manager, unlock, join a thread, and lock again. Correct means: no emulator
   thread is lost, shutdown ends them all, no call hangs, a game finds its core
   and callbacks ready.
 * **Media.** Readers see the latest picture only, and look at the watch channel
   twice per turn; sound is numbered under a lock and sent outside it, and a
   time stamp is made by unsigned arithmetic that may not reach its end; the pixel
   format passes through three numberings, and pictures have two publishers.
   Correct means: what is skipped or lost is accounted for, in order, and
   announced as what it is.
 * **Input hub.** Its clients speak over channels that lose and reorder, and a
   message may name some of the buttons only. A held
   button must not drop out, a released one must not stick, and the merge must
   not depend on the order of a map.
 * **Libretro core.** Files are written while the game runs and never at its
   end; a read, a write or an EGL call may fail at each step; options and
   contexts are process-wide. Correct means: bounded loss, no silent step back,
   nothing inherited from the session before.
 * **Player SDK.** Handlers of replaced sockets stay attached, answers come after
   disconnect, a timer may be pending. Correct means: nothing leaks, no silence
   while it should reconnect, silence after disconnect.
 * **Arcade server.** A child may die between any two lines of start and
   shutdown, either half of a connection in any state of the other, and the
   server itself by an exception nobody catches.

The complete list, each at its line, is `hazards` in `PROJECT.json`.

## 2. Modules

| Module | What it is |
|---|---|
| `Arcade` | the front desk |
| `PlayerLifecycle` | abstract: what the arcade promises a player (away, waiting, seated, cooling) |
| `ArcadeLifecycle` | the refinement mapping from the tables to a player's place |
| `ArcadeProofs` | theorems about `Arcade`, and that it implements `PlayerLifecycle` |
| `InputSessions`, `InputSessionsProofs` | leases and connections; their theorems |
| `SessionManager`, `SessionManagerProofs` | calls and runtimes; their theorems |
| `MediaPipeline`, `MediaPipelineProofs` | pictures and sound from the callbacks to the tracks; their theorems |
| `InputHub`, `InputHubProofs` | clients, their channels and the merged gamepad; their theorems |
| `LibretroCore`, `LibretroCoreProofs` | files, options and hardware contexts over many sessions; their theorems |
| `PlayerSdk`, `PlayerSdkProofs` | the browser player's connections; their theorems |
| `ArcadeServer`, `ArcadeServerProofs` | the web application's desk, processes and gateway; their theorems |
| `MC*` | constants for TLC |

### Arcade

`machines` is `ArcadeService.machines`: per machine the seats, the two lines,
`called` and the cached `status`. A handler holds the mutex throughout, so it is
one action, and its first part is `housekeeping`: `Swept(lag)` and
`CooldownAfter(lag)` sweep *all* machines, and every action, those that then
refuse the request too, starts from them. A deadline is kept relative to the
wall clock (`Tick` lowers it) and a handler carries the age `lag` of its clock
reading, so `d + lag <= 0` is the code's `expires <= now`. `leave_queue`,
`claim_seat` and `end_round` name any machine and any ticket, handed out or not,
as a request may. Names are mapped to keys by `KeyOf` (trimming and lower case
make several spellings one player, a blank name none). Scores are kept per day,
machine and player as `update_scores` writes them, and the day a handler uses
may be yesterday's. Left out: display names, queue lengths and estimates of the
views, and round ids, which nothing reads.

### InputSessions

`per_port` is the registry, `hub` the age of a source's entry per port (what
`merged_for_port` looks at), `conn` how far a connection is, `cleanup` the
`AtomicBool` and the two critical sections of `cleanup_input_source`, `pending`
a message whose checks have passed and that is not applied yet. A WebSocket's
task reads, applies and cleans up in order; a WebRTC connection's message,
state and channel handlers are tasks of their own, so its cleanup may overtake a
pending message. A source id is a fresh UUID: a reconnect is another member of
`Source`. `Rtc`, `Announced` (the client opens "input" channels itself, whose end the
server sees) and `Watcher` (no input handler) say what kind of connection a
source is. A WebRTC connection has the negotiated channel 0 besides: when an
announced one closes, `cleanup_once` is spent, yet messages go on arriving while
the peer is up. A text message is accepted by the lease, a binary one and
`insert_coin` by the claims only, as in the code; so after that cleanup text is
refused for good (the source has no lease any more, and only a new connection
gets one), and binary input still re-creates the source in the hub, where
nothing but the stale timeout ends it. `reserve_ports` takes what the claims
list from whoever has it.

### SessionManager

A call is a record: which operation, where it stands between two unlocks, and
the runtime it holds, which is the `JoinHandle` it took. `reap` /
`reap_joined`, `start_take` / `signal` / `joined` / `spawn_runtime` / `publish`
are the critical sections and the steps between them. Main first starts the
boot session with `force_restart`, then serves; after ctrl-c it waits for the
HTTP requests in flight (not for input connections, which are upgraded) and
takes the active runtime. A runtime goes through the phases of
`run_libretro_unsafe`; `context` and `core` are what all runtimes share. All
sessions run the same core, which is the case that can go wrong: `dlopen` of one
path twice gives one library. `Starter` says which workers may be asked for a
start: one starter and two are different questions. With one starter and other
workers that stop, look and reap, a start can still overlap a *stop* that joins a
runtime it has taken; the history variable `overlapped` keeps the runtimes that
were spawned so, and the ones then in other hands.

### MediaPipeline

An emulator thread goes through its callbacks (`wire`, `set_pixel_format` or the
default, `video_refresh`, `push_samples` / `read_rate` / `send`); the dispatcher
is `dispatcher_loop` / `wait_for_next_returns` / `dispatch`, the locks and
condition variable of `frame.rs` in between; `video_changed` and `feed_video`
are the two looks of `feed_video_appsrc` at the watch channel. A picture is its
sequence, the format it is labelled with, the one its bytes are in, and the
pitch of its rows in bytes per pixel of its width: `repack_video_payload` pushes
any picture whose rows are long enough for the label. `video_refresh` is the
software publisher, `read_hw_framebuffer` the one that reads RGBA back from the
GPU. A chunk of sound is its sequence, its producer, its rate and time stamp.
The offset of a chunk numbered before the first one fed wraps, its nanoseconds
saturate at u64::MAX, and `gst::ClockTime::from_nseconds`, which reserves that
value for "none", panics: the feeder task ends, with nothing to say so. (That panic is the gstreamer
crate's, not this repository's.) GStreamer either hands a buffer on, drops
it, or refuses it. `emits` lets one behaviour use pictures or sound: the halves
share only the callback context.

### InputHub

`pad` is what a player holds, `flight` the messages under way, `per_port` and
`transient_buttons` the hub. A message carries the buttons and axes it names and
`apply_update` writes those over what the hub holds: clients in `Full` name all
of them (the player page), others only what changed since they last sent. A
message is lost, or arrives within `MaxDelay`; on a WebSocket (`Ordered`) it
arrives at once. A client that is neither `Full` nor `Ordered` is not `Reliable`:
a release it loses is not repaired. `merged_buttons` and `merged_axis` are the
merge for every order in which the map may be read, `after_reading` the loop
over one of them. A source stands for one connection, whose name is fresh, so it
never comes back. Time is in units of 100 ms, or of 50 ms where the documented
250 ms heartbeat is asked about; axis words are short, with the same asymmetric
ends as an i16.

### LibretroCore

One session after another, with a crash of the process allowed anywhere.
`restore_sram_from_disk`, `sync_*`, `sync_save_ram_to_disk` / `write_ends` /
`write_fails`, `save_state`, `load_state` are the file operations; a write that
does not end leaves an empty or torn file. Bytes are of a game and hold so much
of its progress: `Worth(g, content)` is 0 for the bytes of any other game, and
for torn ones, so that a file two games share is seen to lose what the first one
had. `parted` (history) says how a session's RAM came not to continue its file:
the file could not be read, a state was loaded, or a load was refused. File names
are sequences of their parts between dots, since `file_stem` and
`with_extension` work on these.
`attempt`, `set_hw_render`, `hw_create_fails`, `retro_load_game_retry` follow
the two load attempts and what each acquires and releases.

### PlayerSdk

`sockets` and `peers` keep every connection the player ever made, `ws` and
`rtcPeer` are the ones its fields name, `calls` the `connect()`s that wait for
the signaling answer. One browser event is one action, with the handler it runs.

### ArcadeServer

Node runs a handler up to its next await, so handlers are actions. `runtimes`
holds a record and, beside it, the child process (`child`): the record learns of
an exit by `exit_event`, later. `startRecord` / `answer_healthz` /
`probeHealthz` are the part before the await, the answer, and the part after.
`sockets` holds both halves of each gateway connection; `upstream_closes` and
`client_closes` stand for close and error alike. `stage` is `index.ts`'s
shutdown, or `crashed`: `listen_fails` (an 'error' event without a handler),
`upgrade_throws` (`new URL` on what is none) and `input_throws` (the type of the
JSON value null) are the exceptions that nobody catches, each of which ends the
server and none of its children. A failed `startAll` (index.ts:178) is left out:
it turns every failure to spawn into an error of its record. So is what a
restarted server meets, the ports still held by the runtimes of the one before.

## 3. Runs

| Run | Bounds | Shows |
|---|---|---|
| `ArcadeSafety` | 2 machines, 3 players (one with two spellings), 4 tickets, lag 1 | calls, lines, seats and shown statuses agree (`DeskIsConsistent`); one place per player; cooldowns keep out; nobody overtakes (`SeatsGoInTicketOrder`), the winner keeps the seat, cooldowns hit no-shows only, and a called ticket never just vanishes |
| `ArcadeLifecycle` | 2 machines, 2 players, 4 tickets, 2 scores, 1 midnight | the refinement `ImplementsLifecycle`; `CallsEnd`: a seat call always ends; the global score table is the best of the machine tables |
| `SessionsSafety` | 2 players, 2 ports, a WebSocket and a WebRTC tab of one player, a WebRTC tab of the other; a window of 2 ticks, a tick longer than the stale timeout | whose window runs, who loses a port to what, that a window lasts unless a reservation takes the port; `GhostInputFades`: input that outlived its cleanup stops counting for good |
| `ManagerConcurrent` | 2 workers of which one starts; 2 runtimes, 1 command | ownership of the runtimes at every unlock, complete shutdown; only a stop overlaps a start (`OnlyAStopIsOverlapped`); sessions nothing overlapped find core and callbacks ready at each frame (`CoreIsReady`), and their end is reported, whoever joined them (`ExitIsReported`); `CallsReturn`, `CommandsAreServed` |
| `MediaPipeline` | 2 emulators (rates 24 and 48, two formats, one that may render by GL, one with padded rows), 3 pictures, 9 samples in chunks of 2, channel of 2 | order, duplicates and the drop counter (`FramesAreAccountedFor`), formats (`PicturesAreRight`), every chunk in one place (`AudioIsAccountedFor`) |
| `PipelineLiveness` | as above with 2 pictures and no sound | `LatestFrameIsFed` |
| `InputHub` | 2 sources (whole gamepads on a lossy channel, changes only on an ordered one), 2 buttons, 2 axes; 100 ms units | `GhostsArePruned`, `HoldIsNotInterrupted`, `ReleasesAreHeard`; `StrongestStickWins` for sticks and triggers a little and far out |
| `LibretroCore` | 2 games whose names share a stem, 2 kinds of option, one hardware core, interval 2, progress 3 | `LossIsBounded`, `SavesOnlyImprove`, `SessionsAreSeparate` |
| `PlayerSdk` | every configuration; 4 connections of 2 sockets, 3 peers | `NothingIsLeaked`, `NeverGivesUp`, `DisconnectIsFinal` |
| `ArcadeServer` | 2 machines, 3 viewers at one of them, 4 tickets, 1 connection | `SeatsAreCalled`, `ProcessesAreAccountedFor`, `HalvesEndTogether`, `ShutdownEnds` |

Two more runs compare the code with a sentence about it and end in a
counterexample (`docs/` is `apps/nosebleed/docs/`):

| Run | The sentence | What happens |
|---|---|---|
| `SessionsOldTab` | docs/public-service.md:119: one owner per port | the binary path checks claims only, so a player who lost the port still presses its buttons |
| `ManagerTwoStarts` | docs/public-service.md:104: 409 when a session runs | two starts both see an empty manager; the second overwrites the first one's runtime, which nobody can stop any more |

Further configurations are kept beside these to be run by hand; they are not
in `PROJECT.json`. Three are other instances of the same questions, and pass:
`ManagerSuccession` (three runtimes, so that a session follows one that was
overlapped), `HubMerge` (three sources, sticks to the end of the range) and
`HubHeartbeats` (50 ms units: the documented heartbeat of 250 ms, no message
lost or more than 50 ms late). The others each check one property that a sentence
of the repository asks for and the code does not keep, and end in a counterexample:

| Configuration | The sentence | What happens |
|---|---|---|
| `SessionsTakeover` | docs/public-service.md:121-122: in the reconnect window only the same player gets the port | `reserve_ports` (server.rs:1311) gives it to whoever connects with claims for it |
| `ManagerOverlap` | libretro.rs:1086: retro_run needs an initialised core and a loaded game | a start that overlaps a stop runs frames while the old runtime deinitialises the core they share (session.rs:160) |
| `PipelineHardware` | docs/public-service.md:171: the header names the payload's format | pictures read back from the GPU are RGBA, labelled XRGB8888 (libretro.rs:1189) |
| `PipelineDefaultFormat` | the same | a core that keeps libretro's default 0RGB1555 is labelled XRGB8888; with rows padded enough it is pushed as BGRx |
| `PipelineBurst` | gstreamer_backend.rs:371: chunks that come in bursts can be scheduled | of two overlapping emulators the chunk numbered first is sent second; the feeder panics on its time stamp and the status stays "playing" |
| `HubLateHeartbeat` | docs/public-service.md:261: a heartbeat every 250 ms will do | one message 100 ms late, and the time-out of 300 ms releases what is held |
| `HubPartial` | docs/public-service.md:133, 261: messages may name some buttons, heartbeats repair | a release that is lost stays pressed as long as heartbeats do not name it |
| `HubCoin` | input.rs:448 (test): a pulse expires | it refreshes an old press of its source, which outlives it |
| `HubFullLeft` | input.rs:419: axes range over -1..1 | -1.0 becomes i16::MIN, whose abs() wraps, and is read as centred |
| `CoreSharedFile` | libretro.rs:941: saves survive across sessions | two games with one battery file read and overwrite each other's |
| `CoreUnreadFile` | the same | after a failed restore the first sync writes fresh RAM over the good file |

### Observations

Met while modelling; each is in the model or beside it and has no run of its own.

 * Arcade: with one `called` slot for two sides, after a leave or a no-show only
   the called side is called again and the other side's line may wait at an
   empty seat (docs/virtual-arcade-blueprint.md:11 says a seat that opens is offered). `end_round`
   sets PostRound and overwrites it before it unlocks; `Backfill` writes the
   final status only. `end_round` names a machine and a side but no round, so a
   request that comes twice or late counts against the pair that sits by then
   (`WinnerStays` is about the request's winner, whoever that is).
 * Input: a WebRTC handler dropped between the reservation (server.rs:577) and its
   guard (839) leaves its lease connected for ever (`setup_dropped`); the port stays
   takeable. A stick at -1.0 panics in a debug build, where abs() does not wrap. A
   coin pulse is unseen on a port with no source. The sequence in a message is
   never looked at. The player SDK forwards what it is given and has no heartbeat
   of its own.
 * Sessions: a content path with a null byte leaves `run_libretro_unsafe` between
   retro_init and retro_deinit (libretro.rs:854).
 * Saves: `save_snapshot_path` drops what follows the last dot of the *stem*, so
   "Quest. 2.nes" and "Quest. 3.n64" share "Quest.srm". The
   loop does not sync when it ends (up to 5 s are lost); `fs::write` truncates
   first.
 * Options: `core_option_defaults` is one map for the process and nothing clears
   it between sessions (libretro.rs:604): a core that declares no options, or has
   not yet, is answered with those of the last core that did.
 * Hardware: a load retry by path alone drops the old context and un-currents
   the new one; each create leaves its render node's descriptor open
   (hw_render.rs:146); cores with the legacy options interface get no overrides.
 * Media: the position of a chunk is its offset times the *present* rate's chunk
   length, so it can go back when the rate rises (gstreamer_backend.rs:369); a
   0RGB1555 picture without padding is too short for its label XRGB8888 and is
   silently not pushed and not counted; what the way out
   refuses later is counted as dropped frames too.
 * Player SDK: a socket that is replaced keeps its close handler. Once one of
   several sockets is lost, replacing the others schedules the next reconnect,
   and the player reconnects every delay for ever, over healthy sockets. With
   "auto", a `disconnect()` during `connect()` is followed by the fall-back to
   WebSockets; with "webrtc", one failed signaling ends reconnection. The SDK
   expects video and audio data channels that the Rust server never feeds.
 * Arcade server: no claim timeout, no restart of a dead runtime; a SIGTERM
   during `startAll` can orphan the machines spawned after `stopAll`; a machine is
   "online" without a process if its exit is handled before the probe's answer,
   and one that becomes healthy after 12 s stays in error. Three exceptions end
   the server at once and leave every runtime alive with its port: a taken
   arcade port (index.ts:146), a request target that is no URL
   (websocketGateway.ts:22) and the JSON value null from a seated viewer (113).
   Shutdown waits as long as any
   browser stays connected, and a second signal is ignored.

### Bounds

`MaxTicket`, `MaxDay`, `MaxLag`, `MaxRuntimes`, `MaxCommands`, `MaxFrames`,
`MaxSamples`, `MaxProgress`, `MaxSockets` and `MaxPeers` are the only bounds on
counters, each a guard on the *arrival* of a request and never on a call in
progress. Four tickets let a player join, be called, miss, cool down, join again
and sit opposite another one, twice. Two ports and three connections let one
reservation take over part of another. Two runtimes are the boot session and its
replacement. Three pictures let one be skipped between two that are fed, nine
samples leave a rest in the bus and overflow a channel of two. Four connections
let the player lose one, reconnect, and meet the late close of the first. What
holds for any numbers is proved where section 4 says so.

`InputHub` takes its network as an assumption: a message comes within
`MaxDelay` or not at all, and `Losses` says how many in a row
`HoldIsNotInterrupted` and `ReleasesAreHeard` forgive; the run has the
page's 100 ms timer with late and lost messages, and the theorems say what other
timers need.
`ArcadeServer` has an action constraint: the
desk shares nothing with processes and connections but the listening server and
who sits, so desk steps are explored where all machines are online and nobody is
connected, and the rest where no ticket was handed out or one viewer has sat
down. The theorems need no such split.

Deadlock is checked for the arcade and the input sessions; the other instances
really stop (a shut-down main or server, bounds used up).

### Fairness

 * Arcade: the clock runs and `overview` is called again and again, because an
   open `static/arcade.html` polls it every 1500 ms (line 737). No player has to
   act.
 * Input sessions: the clock runs and a handler that has begun runs to its end; no
   peer has to send or close.
 * Manager: every call that can go on does, and so does every runtime thread.
   No request has to arrive.
 * Media: main starts the pipelines, and the dispatcher thread and the picture
   feeder run. No core has to draw.
 * Arcade server: Node goes on with what it has begun; a child told to end does,
   since it is killed after 2 s (runtimeManager.ts:166); a closing handshake ends,
   since the ws library times it out. `ShutdownEnds` further assumes that the
   browsers leave, and says so in its antecedent.

## 4. Proofs

Every invariant and every action property a passing run checks, and the
refinement, is also a theorem: for any machines, players, ports, connections,
threads, games, gamepads and bounds, from the `ASSUME`s of the modules and the
hypotheses named below.

 * **`ArcadeProofs`, the state.** `DeskOK` (types, `CalledMachineOK`, the derived
   status of each machine) is inductive: each helper that rewrites one machine
   (`Enqueue`, `Drop`, `TakeSeat`, `Backfill`, `Sweep`) is shown to keep a good
   machine good and to return a sub-line of the old one; each action then
   follows. `PlacesInv` adds ticket order and uniqueness across machines, one
   place per player, and cooldowns. None is inductive alone: a sweep may put a
   player on cooldown only because that player's one ticket is the one it
   removes, and this needs unique tickets and `CallIsHeadOfLine`. The age of the
   clock readings is any number: an old reading only makes a handler judge
   deadlines as still ahead. Gives `TypeCorrect`, `DeskConsistent`,
   `TicketOrder`, `OnePlace`, `CooldownsKeepOut`.
 * **`ArcadeProofs`, the step.** `StepShape` brings every step into one of two
   shapes: `Quiet` (deadlines come nearer) or housekeeping followed by at most
   one join, leave, claim or end of round. A handful of facts per shape says
   which seats, lines and cooldowns it touches, and from them and `PlacesInv`
   follow `NobodyOvertakes`, `WinnersStay`, `CooldownsAreEarned` and
   `CalledTicketsAreAccountedFor`. `DeskImplementsLifecycle` is the refinement:
   `SweepMoves` and `StepMoves` say which players the sweep and the request move,
   and `StepImplementsLifecycle` that each moves along an edge of
   `PlayerLifecycle`, one at most onto a seat. `GlobalBestIsRight` is about the
   two score tables only: `Recorded` keeps the one the best of the other.
 * **`InputSessionsProofs`.** The invariant adds that a cleanup never runs before
   the connection is silent or gone, or one of its announced channels closed; the
   two action properties follow from it and from what each registry operation
   does to one lease. `WindowsAreKept` has the reservation of a port by a new
   connection, of any player, as the one way to end a window early: that is the
   code, and not the documentation (`SessionsTakeover`).
 * **`SessionManagerProofs`.** `HandleInv`: every runtime's handle is in at most
   one place (the manager or one call), for any callers. `OwnerInv` adds, for a
   *single* starter, that the slot is empty while a start is past its take;
   gives `NoRuntimeIsLost` and `ShutdownIsComplete`. With two starters both are
   false, which is the counterexample of `ManagerTwoStarts`. `SuccessionInv` adds,
   for a single starter and any number of other callers, that a live runtime
   not in the slot is in some call's hands, that context and core are what the
   phase of a session nothing overlapped needs, and where the end of the session
   started last is or will be written; gives `StartsWaitForTheirPredecessor`,
   `CoreIsReadyForFrames` and `ExitsAreReported`.
 * **`MediaPipelineProofs`.** Three invariants on top of the types. `FormatInv`
   follows a picture's label through store, dispatcher and channel, and the
   callback context back to the emulator that wrote it and to whether its core
   has `told` its format, up to the moment two
   emulators overlap. `OrderInv` and `Counted` relate the counter to the sequences
   fed: `FramesAreAccountedFor` alone does not say why a picture cannot be fed a
   third time, which is that after a repeat the feeder has seen the channel's
   last version. `AudioInv` parts the chunks cut so far among the emulators, the
   channel, the feeder and the lost, and keeps each part behind the one cut
   before it; the time stamps follow (`StampInv`), and that without overlap no
   chunk comes before the base, so that the feeder ends by a failed push only
   (`EndInv`). `NoChunkIsLostOrRepeated` assumes `NoWrap`,
   that the sound of a session is shorter than 2^64 ns (584 years).
 * **`LibretroCoreProofs`.** `Inv` says what the thread holds at each point, that
   RAM that continues its file is never worth less than it (`RamIsNewest`), that
   what is unsaved was made since the last sync was due (`UnsavedIsRecent`), and
   that all hardware objects are the last load attempt's. `NothingLost` says of
   every step but the end of a write that it loses nothing, `LossStep` how the
   end of one may. That two games may share a battery file is part of it: it is keyed
   by paths, and a save state's path is never a battery's (`PathFacts`).
 * **`InputHubProofs`.** The merge is a loop over the sources in some order; what
   it returns is proved for any number of sources by the least turn at which the
   claim would fail (`LoopKeepsStrongest`), and that it returns anything in the
   same way (`LoopEnds`), so `StrongestIsRead` holds for every order; i16::MIN
   counts as centred in it, as in the code.
   `PressesAreDated` bounds the time since a press was held by the age of the
   message or entry that tells of it, for sources that are `Reliable`.
   `SteadyIsKnown` is the argument for
   `HeldIsRead` and `ReleasesReach`: a message that tells of another gamepad is
   older than its last
   move, and what the last message that was not lost told is either in the hub
   or on its way, behind one whose age is bounded too. On an ordered channel,
   where messages may name the changes only, it is that nothing is on its way and
   hub and gamepad agree. `HeldIsRead` needs
   `TriggersPullOneWay` (index.html:1402 clamps triggers to 0..1; another
   client's at -0.9 would win the merge and hide one pulled less far) and
   `NetworkIsGood`: `Keepalive * (Losses + 1) + MaxDelay <= Stale`, which at the
   page's 100 ms is one loss in a row and 100 ms, and at the documented 250 ms no
   loss and 50 ms; what comes of more is `HubLateHeartbeat`.
 * **`PlayerSdkProofs`.** The properties are proved together with
   `TypeOK`, as each needs the others: that a player is never silent rests on
   the current sockets being the only live ones, and that rests on `ws` and
   `rtcPeer` naming connections that were made and not closed by the player.
   `StaysDisconnected` adds that a stopped player has no timer and no peer, and
   goes through the steps to find the one that opens a socket while it is
   stopped: the fall-back of a call that was pending.
 * **`ArcadeServerProofs`.** Desk and runtimes have an invariant each. The desk's
   adds to `SeatsAreCalled` that the tickets of a line are unique, without which
   a leave could remove the call and not the entry. The runtimes' (`RecordOK`)
   says what a record may claim of a child not yet started, being probed, or
   ended, and that `stopAll` awaits every live child of a machine `startAll` had
   reached. `NoProcessIsLost` is about serving and the orderly exit; an
   exception that ends the server stops no child, and it says so.

Assumptions on constants that a proof needed and the code gives: there is a
machine (`arcade.rs:221` creates one at least), a chunk of sound lasts
(`sanitize_sample_rate` keeps rates between 8 and 384 kHz), sources are finitely
many, and a gamepad's state names every axis.

Proved and therefore not model-checked again: the `TypeOK` of `Arcade`,
`InputSessions`, `SessionManager`, `InputHub`, `LibretroCore`, `PlayerSdk` and
`ArcadeServer`, `TicketsInOrder`, `WsLeavesNothing`, `ActiveIsNotBeingStopped`.

Only model-checked: liveness (`CallsEnd`, `GhostInputFades`, `CallsReturn`,
`CommandsAreServed`, `LatestFrameIsFed`, `HalvesEndTogether`, `ShutdownEnds`),
which the prover does not reach: it has no rule for `ENABLED` and fairness.

## 5. Plan

The modules are complete as far as section 6 says, and what the prover reaches
of the checked properties is proved. Left are the safety halves of the liveness
properties, which would make them easier to believe beyond the instances: that
no call of the manager waits for a runtime nobody told to stop (`CallsReturn`),
that no half of a connection waits for one already closed (`HalvesEndTogether`),
and that a pending seat call's deadline only comes nearer (`CallsEnd`).

## 6. Not modelled

 * `media.rs`: a choice of encoders and pipeline strings from configuration and
   probes, made once.
 * `auth.rs`: a check per request without state; what claims allow is a guard of
   `InputSessions`. Signatures (JWT) are cryptography.
 * `protocol.rs`: byte layouts; the meaning of the fields is in `InputHub` and
   `MediaPipeline`.
 * Frame pacing, content download and caching, and the environment calls that
   only report a value (`libretro.rs`); the picture the mock core paints.
 * `/ws/video` and `/ws/audio` of `server.rs`, which forward from the stores and
   keep nothing; views and status pages.
 * Scores, names and round numbers of `arcadeState.ts`: nothing reads them but
   the views. The Rust desk's score tables are modelled.
 * Decoding, drawing and sound of the SDK, and its reassembly of RTC chunks: the
   server in this repository sends none.
 * Pages, the React client, scripts and CI: rendering and tooling. The arcade
   page appears as the polling of `FairSpec`, the player page as the heartbeat of
   `InputHub`.
 * GStreamer, EGL, the WebRTC and WebSocket stacks and the cores themselves:
   libraries, present only as the events they cause.
