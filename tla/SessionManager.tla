-------------------------- MODULE SessionManager --------------------------
(***************************************************************************)
(* The session manager (session.rs) and the emulator runtimes it starts    *)
(* (libretro.rs, core.rs).                                                 *)
(*                                                                         *)
(* HTTP worker threads call start, stop and status; input connections call *)
(* request_reset, request_save_state and request_load_state; the main      *)
(* thread makes the first start before it serves and shutdown_and_join     *)
(* after it has stopped serving.  Every call holds the manager's lock for  *)
(* short sections only and joins the runtime it took out of the manager    *)
(* between two of them, so calls interleave at each unlock.                *)
(*                                                                         *)
(* A runtime is a thread of its own.  A libretro runtime shares two things *)
(* with every other one: the process-wide callback context and, since a    *)
(* core loaded twice from one path is one library, the core's own state.   *)
(* All sessions of the model run the same core.                            *)
(***************************************************************************)
EXTENDS Naturals, Sequences, FiniteSets

CONSTANTS Thread,       \* the workers that serve requests
          Starter,      \* those of them that may be asked for a start
          Main,         \* the main thread
          Command,      \* RuntimeCommand
          MaxRuntimes,  \* bound: runtimes started in one behaviour
          MaxCommands   \* bound: commands waiting in one runtime's queue

ASSUME ManagerAssumption ==
    /\ Starter \subseteq Thread
    /\ Main \notin Thread
    /\ MaxRuntimes \in Nat \ {0}
    /\ MaxCommands \in Nat

VARIABLES active,    \* ManagerState.active
          last_exit, \* ManagerState.last_exit
          runtimes,  \* every runtime, by the order in which it was spawned
          context,   \* the callback context holds the stores and the hub
          core,      \* what the shared core library has been told last
          calls,     \* where every thread is in its call
          stage,     \* where main is
          overlapped \* history: the runtimes spawned while another call had
                     \* a runtime in hand, and the runtimes in its hands

vars == <<active, last_exit, runtimes, context, core, calls, stage, overlapped>>

-----------------------------------------------------------------------------
(* State. *)

Runtime == 1..MaxRuntimes
NoRuntime == 0
NoExit == "none"
Exit == {"stopped", "failed"}
Callers == Thread \cup {Main}

\* unborn, not yet at the callback context, context set, retro_init called,
\* in the loop, out of the loop, retro_deinit called, returned
Phase == {"unborn", "starting", "wired", "inited", "running",
          "leaving", "deinited", "finished"}

RuntimeState == [mode: {"mock", "libretro"}, phase: Phase, shutdown: BOOLEAN,
                 commands: Seq(Command), exit: Exit \cup {NoExit}]

Unborn == [mode |-> "mock", phase |-> "unborn", shutdown |-> FALSE,
           commands |-> <<>>, exit |-> NoExit]

Op == {"start", "stop", "status", "request", "shutdown"}
At == {"idle", "reap", "reaped", "work", "signal", "join", "prepare", "publish"}

Call == [op: Op, at: At, held: Runtime \cup {NoRuntime}, force: BOOLEAN]

Idle == [op |-> "status", at |-> "idle", held |-> NoRuntime, force |-> FALSE]

IsIdle(t) == calls[t].at = "idle"
Live(r) == runtimes[r].phase \notin {"unborn", "finished"}
Finished(r) == runtimes[r].phase = "finished"
Held(r) == \E t \in Callers : calls[t].held = r

TypeOK ==
    /\ active \in Runtime \cup {NoRuntime}
    /\ last_exit \in Exit \cup {NoExit}
    /\ runtimes \in [Runtime -> RuntimeState]
    /\ context \in BOOLEAN
    /\ core \in {"down", "up", "loaded"}
    /\ calls \in [Callers -> Call]
    /\ stage \in {"booting", "serving", "draining", "ended"}
    /\ overlapped \subseteq Runtime
    \* a runtime knows how it ended exactly when it has ended
    /\ \A r \in Runtime : runtimes[r].exit # NoExit <=>
                            runtimes[r].phase \in {"deinited", "finished"}

\* main makes the first start, with force_restart, before the server exists.
Init ==
    /\ active = NoRuntime
    /\ last_exit = NoExit
    /\ runtimes = [r \in Runtime |-> Unborn]
    /\ context = FALSE
    /\ core = "down"
    /\ calls = [t \in Callers |->
                  IF t = Main
                  THEN [op |-> "start", at |-> "reap", held |-> NoRuntime,
                        force |-> TRUE]
                  ELSE Idle]
    /\ stage = "booting"
    /\ overlapped = {}

-----------------------------------------------------------------------------
(* The steps of a call. *)

\* Thread t goes on at a, holding the runtime r.
Goes(t, a, r) == calls' = [calls EXCEPT ![t].at = a, ![t].held = r]
Returns(t) == calls' = [calls EXCEPT ![t] = Idle]

Spawned == {r \in Runtime : runtimes[r].phase # "unborn"}

\* The bounds.  A call that has arrived is never held up by them.
Starting == {t \in Callers : calls[t].op = "start" /\ calls[t].at \notin {"idle", "publish"}}
RoomForRuntime == Cardinality(Spawned) + Cardinality(Starting) < MaxRuntimes
RoomForCommand == \A r \in Runtime : Len(runtimes[r].commands) < MaxCommands

\* A request reaches a worker.  While main drains the server only the input
\* connections, which it does not wait for, are still served.
call(t, op, force) ==
    /\ IsIdle(t)
    /\ \/ stage = "serving"
       \/ stage = "draining" /\ op = "request"
    /\ op = "start" => t \in Starter /\ RoomForRuntime
    /\ op = "request" => RoomForCommand
    /\ calls' = [calls EXCEPT ![t] = [op |-> op, at |-> "reap",
                                      held |-> NoRuntime, force |-> force]]
    /\ UNCHANGED <<active, last_exit, runtimes, context, core, stage, overlapped>>

\* First section of reap_finished_runtime: take a runtime that has returned.
reap(t) ==
    /\ calls[t].at = "reap"
    /\ IF active # NoRuntime /\ Finished(active)
       THEN Goes(t, "reaped", active) /\ active' = NoRuntime
       ELSE Goes(t, "work", NoRuntime) /\ UNCHANGED active
    /\ UNCHANGED <<last_exit, runtimes, context, core, stage, overlapped>>

\* The join returns at once; the second section records how it ended.
reap_joined(t) ==
    /\ calls[t].at = "reaped"
    /\ last_exit' = runtimes[calls[t].held].exit
    /\ runtimes' = [runtimes EXCEPT ![calls[t].held].shutdown = TRUE]
    /\ Goes(t, "work", NoRuntime)
    /\ UNCHANGED <<active, context, core, stage, overlapped>>

\* start without force_restart while a session is active
start_refused(t) ==
    /\ calls[t].at = "work" /\ calls[t].op = "start"
    /\ active # NoRuntime /\ ~calls[t].force
    /\ Returns(t)
    /\ UNCHANGED <<active, last_exit, runtimes, context, core, stage, overlapped>>

\* Replacing the old runtime without stopping it (mutant)
start_detaches(t) ==
    /\ calls[t].at = "work" /\ calls[t].op = "start"
    /\ active = NoRuntime \/ calls[t].force
    /\ Goes(t, "prepare", NoRuntime)
    /\ active' = NoRuntime
    /\ UNCHANGED <<last_exit, runtimes, context, core, stage, overlapped>>

start_take(t) ==
    /\ calls[t].at = "work" /\ calls[t].op = "start"
    /\ active = NoRuntime \/ calls[t].force
    /\ Goes(t, IF active = NoRuntime THEN "prepare" ELSE "signal", active)
    /\ active' = NoRuntime
    /\ UNCHANGED <<last_exit, runtimes, context, core, stage, overlapped>>

\* stop with nothing active answers through status(), which reaps again
stop_take(t) ==
    /\ calls[t].at = "work" /\ calls[t].op = "stop"
    /\ IF active = NoRuntime
       THEN calls' = [calls EXCEPT ![t].op = "status", ![t].at = "reap"]
       ELSE Goes(t, "signal", active)
    /\ active' = NoRuntime
    /\ UNCHANGED <<last_exit, runtimes, context, core, stage, overlapped>>

status(t) ==
    /\ calls[t].at = "work" /\ calls[t].op = "status"
    /\ Returns(t)
    /\ UNCHANGED <<active, last_exit, runtimes, context, core, stage, overlapped>>

\* request_reset, request_save_state and request_load_state: the command is
\* queued under the manager's lock, or refused when nothing is active.
request(t) ==
    /\ calls[t].at = "work" /\ calls[t].op = "request"
    /\ IF active = NoRuntime
       THEN UNCHANGED runtimes
       ELSE \E c \in Command :
              runtimes' = [runtimes EXCEPT ![active].commands = Append(@, c)]
    /\ Returns(t)
    /\ UNCHANGED <<active, last_exit, context, core, stage, overlapped>>

\* A signal that does not reach the runtime (mutant)
signal_nothing(t) ==
    /\ calls[t].at = "signal"
    /\ Goes(t, "join", calls[t].held)
    /\ UNCHANGED <<active, last_exit, runtimes, context, core, stage, overlapped>>

\* join_runtime, first half: ask the runtime to stop.
signal(t) ==
    /\ calls[t].at = "signal"
    /\ runtimes' = [runtimes EXCEPT ![calls[t].held].shutdown = TRUE]
    /\ Goes(t, "join", calls[t].held)
    /\ UNCHANGED <<active, last_exit, context, core, stage, overlapped>>

\* Waiting for the shutdown flag instead of the thread (mutant)
joined_early(t) ==
    /\ calls[t].at = "join" /\ runtimes[calls[t].held].shutdown
    /\ last_exit' = IF calls[t].op = "shutdown" THEN last_exit ELSE "stopped"
    /\ IF calls[t].op = "start" THEN Goes(t, "prepare", NoRuntime) ELSE Returns(t)
    /\ stage' = IF calls[t].op = "shutdown" THEN "ended" ELSE stage
    /\ UNCHANGED <<active, runtimes, context, core, overlapped>>

\* join_runtime, second half, and the section that records the exit;
\* shutdown_and_join records nothing.
joined(t) ==
    /\ calls[t].at = "join" /\ Finished(calls[t].held)
    /\ last_exit' = IF calls[t].op = "shutdown" THEN last_exit
                    ELSE runtimes[calls[t].held].exit
    /\ IF calls[t].op = "start" THEN Goes(t, "prepare", NoRuntime) ELSE Returns(t)
    /\ stage' = IF calls[t].op = "shutdown" THEN "ended" ELSE stage
    /\ UNCHANGED <<active, runtimes, context, core, overlapped>>

\* prepare_session_workspace fails: start returns the error with whatever
\* was active already stopped.  At boot the process exits instead.
prepare_fails(t) ==
    /\ calls[t].at = "prepare" /\ t # Main
    /\ Returns(t)
    /\ UNCHANGED <<active, last_exit, runtimes, context, core, stage, overlapped>>

InOtherHands(t) == {calls[u].held : u \in Callers \ {t}} \ {NoRuntime}

spawn_runtime(t) ==
    /\ calls[t].at = "prepare"
    /\ \E r \in Runtime, m \in {"mock", "libretro"} :
         /\ runtimes[r].phase = "unborn"
         /\ \A q \in Runtime : runtimes[q].phase = "unborn" => r <= q
         /\ runtimes' = [runtimes EXCEPT ![r].phase = "starting", ![r].mode = m]
         /\ Goes(t, "publish", r)
         /\ overlapped' = IF InOtherHands(t) = {} THEN overlapped
                          ELSE overlapped \cup InOtherHands(t) \cup {r}
    /\ UNCHANGED <<active, last_exit, context, core, stage>>

\* Keeping the exit of the runtime before (mutant)
publish_keeps_exit(t) ==
    /\ calls[t].at = "publish"
    /\ active' = calls[t].held
    /\ Returns(t)
    /\ stage' = IF t = Main THEN "serving" ELSE stage
    /\ UNCHANGED <<last_exit, runtimes, context, core, overlapped>>

\* Last section of start: the new runtime replaces whatever is there.
publish(t) ==
    /\ calls[t].at = "publish"
    /\ active' = calls[t].held
    /\ last_exit' = NoExit
    /\ Returns(t)
    /\ stage' = IF t = Main THEN "serving" ELSE stage
    /\ UNCHANGED <<runtimes, context, core, overlapped>>

-----------------------------------------------------------------------------
(* Main after ctrl-c. *)

drain ==
    /\ stage = "serving"
    /\ stage' = "draining"
    /\ UNCHANGED <<active, last_exit, runtimes, context, core, calls, overlapped>>

\* Not waiting for the requests in flight (mutant)
shutdown_at_once ==
    /\ stage = "draining" /\ IsIdle(Main)
    /\ IF active = NoRuntime
       THEN stage' = "ended" /\ UNCHANGED calls
       ELSE /\ calls' = [calls EXCEPT ![Main] = [op |-> "shutdown", at |-> "signal",
                                                 held |-> active, force |-> FALSE]]
            /\ UNCHANGED stage
    /\ active' = NoRuntime
    /\ UNCHANGED <<last_exit, runtimes, context, core, overlapped>>

\* The server has answered every HTTP request in flight; only then does main
\* take the active runtime.
shutdown_and_join ==
    /\ stage = "draining" /\ IsIdle(Main)
    /\ \A t \in Thread : IsIdle(t) \/ calls[t].op = "request"
    /\ IF active = NoRuntime
       THEN stage' = "ended" /\ UNCHANGED calls
       ELSE /\ calls' = [calls EXCEPT ![Main] = [op |-> "shutdown", at |-> "signal",
                                                 held |-> active, force |-> FALSE]]
            /\ UNCHANGED stage
    /\ active' = NoRuntime
    /\ UNCHANGED <<last_exit, runtimes, context, core, overlapped>>

-----------------------------------------------------------------------------
(* A runtime. *)

Moves(r, p) == runtimes' = [runtimes EXCEPT ![r].phase = p]
Ends(r, exit) ==
    runtimes' = [runtimes EXCEPT ![r].phase = "finished", ![r].exit = exit]
Is(r, mode, phase) == runtimes[r].mode = mode /\ runtimes[r].phase = phase
OnlyRuntimes == UNCHANGED <<active, last_exit, calls, stage, overlapped>>

\* The library or one of its required symbols does not load.
load_library_fails(r) ==
    /\ Is(r, "libretro", "starting")
    /\ Ends(r, "failed")
    /\ OnlyRuntimes /\ UNCHANGED <<context, core>>

set_callback_context(r) ==
    /\ Is(r, "libretro", "starting")
    /\ Moves(r, "wired")
    /\ context' = TRUE
    /\ OnlyRuntimes /\ UNCHANGED core

\* retro_init.  A core that is up already is left as it is.
retro_init(r) ==
    /\ Is(r, "libretro", "wired")
    /\ Moves(r, "inited")
    /\ core' = IF core = "down" THEN "up" ELSE core
    /\ OnlyRuntimes /\ UNCHANGED context

\* A content path with a null byte makes run_libretro return at once, without
\* retro_deinit and with the callback context still set.
content_path_refused(r) ==
    /\ Is(r, "libretro", "inited")
    /\ Ends(r, "failed")
    /\ OnlyRuntimes /\ UNCHANGED <<context, core>>

retro_load_game(r) ==
    /\ Is(r, "libretro", "inited")
    /\ Moves(r, "running")
    /\ core' = "loaded"
    /\ OnlyRuntimes /\ UNCHANGED context

\* The core rejects the content: retro_deinit, then the way every runtime ends.
retro_load_game_fails(r) ==
    /\ Is(r, "libretro", "inited")
    /\ runtimes' = [runtimes EXCEPT ![r].phase = "deinited", ![r].exit = "failed"]
    /\ core' = "down"
    /\ OnlyRuntimes /\ UNCHANGED context

\* Carrying the commands out without taking them (mutant)
run_frame_peeks(r) ==
    /\ Is(r, "libretro", "running") /\ ~runtimes[r].shutdown
    /\ UNCHANGED vars

\* One pass of the loop: carry out every command that waits, run a frame.
run_frame(r) ==
    /\ Is(r, "libretro", "running") /\ ~runtimes[r].shutdown
    /\ runtimes' = [runtimes EXCEPT ![r].commands = <<>>]
    /\ OnlyRuntimes /\ UNCHANGED <<context, core>>

leave_loop(r) ==
    /\ Is(r, "libretro", "running") /\ runtimes[r].shutdown
    /\ Moves(r, "leaving")
    /\ OnlyRuntimes /\ UNCHANGED <<context, core>>

\* retro_unload_game and retro_deinit
retro_deinit(r) ==
    /\ Is(r, "libretro", "leaving")
    /\ runtimes' = [runtimes EXCEPT ![r].phase = "deinited", ![r].exit = "stopped"]
    /\ core' = "down"
    /\ OnlyRuntimes /\ UNCHANGED context

clear_callback_context(r) ==
    /\ Is(r, "libretro", "deinited")
    /\ Moves(r, "finished")
    /\ context' = FALSE
    /\ OnlyRuntimes /\ UNCHANGED core

\* The mock core: a loop that looks at the shutdown flag only.
mock_runs(r) ==
    /\ Is(r, "mock", "starting") /\ ~runtimes[r].shutdown
    /\ Moves(r, "running")
    /\ OnlyRuntimes /\ UNCHANGED <<context, core>>

mock_returns(r) ==
    /\ runtimes[r].mode = "mock" /\ runtimes[r].phase \in {"starting", "running"}
    /\ runtimes[r].shutdown
    /\ Ends(r, "stopped")
    /\ OnlyRuntimes /\ UNCHANGED <<context, core>>

-----------------------------------------------------------------------------

\* What a thread does without waiting for a new request.
CallStep(t) ==
    \/ reap(t) \/ reap_joined(t)
    \/ start_refused(t) \/ start_take(t) \/ stop_take(t) \/ status(t) \/ request(t)
    \/ signal(t) \/ joined(t)
    \/ prepare_fails(t) \/ spawn_runtime(t) \/ publish(t)

RuntimeStep(r) ==
    \/ load_library_fails(r) \/ set_callback_context(r) \/ retro_init(r)
    \/ content_path_refused(r) \/ retro_load_game(r) \/ retro_load_game_fails(r)
    \/ run_frame(r) \/ leave_loop(r) \/ retro_deinit(r) \/ clear_callback_context(r)
    \/ mock_runs(r) \/ mock_returns(r)

Arrives(t) ==
    \/ \E force \in BOOLEAN : call(t, "start", force)
    \/ \E op \in {"stop", "status", "request"} : call(t, op, FALSE)

Next ==
    \/ \E t \in Thread : Arrives(t)
    \/ \E t \in Callers : CallStep(t)
    \/ \E r \in Runtime : RuntimeStep(r)
    \/ drain
    \/ shutdown_and_join

Spec == Init /\ [][Next]_vars

\* Threads are scheduled: a call that can go on does, and so does a runtime.
\* Nothing makes a request arrive or the operator press ctrl-c.
FairSpec ==
    /\ Spec
    /\ \A t \in Callers : WF_vars(CallStep(t))
    /\ \A r \in Runtime : WF_vars(RuntimeStep(r))

-----------------------------------------------------------------------------
(* Properties under every interleaving. *)

\* What status reports as running is a session nobody has asked to stop: no
\* thread holds the active runtime and its shutdown flag is down
\* (session.rs:107-110, 160-164, 233-240: every way to a join takes the runtime
\* out of the manager first).
ActiveIsNotBeingStopped ==
    active # NoRuntime => ~runtimes[active].shutdown /\ ~Held(active)

\* With one thread that starts sessions, and any number that stop, look and
\* send commands, no runtime is lost: while its thread lives, the manager has
\* it or a call in progress does (session.rs:132 overwrites nothing).
EveryRuntimeHasAnOwner ==
    \A r \in Runtime : Live(r) => active = r \/ Held(r)

\* Once main has shut the manager down no emulator thread is left running
\* (main.rs:166-170 with the graceful shutdown of server.rs:263-265).
ShutdownEndsEverything ==
    stage = "ended" => \A r \in Runtime : ~Live(r)

-----------------------------------------------------------------------------
(* Properties of a manager with one thread that starts sessions, and any    *)
(* number that stop, look and send commands meanwhile.                      *)

\* A start waits for the session it replaces (session.rs:112-121): an emulator
\* that still lives when the next one is spawned is one that a stop took and
\* is waiting for (session.rs:160-164).
OnlyAStopIsOverlapped ==
    [][\A r, q \in Runtime :
         runtimes[r].phase = "unborn" /\ runtimes'[r].phase # "unborn" /\ Live(q)
             => \E t \in Callers : calls[t].op = "stop" /\ calls[t].held = q]_vars

\* libretro.rs:1086: "retro_run executes one frame of the loaded game. Requires
\* the core to have been initialized (retro_init) and a game loaded"; and the
\* callbacks of the frame find the stores and the hub (libretro.rs:799-807).
\* It is so for every session that no stop in progress overlapped, whatever
\* sessions before it failed, and wherever they failed.
CoreIsReady ==
    \A r \in Runtime \ overlapped :
        Is(r, "libretro", "running") => core = "loaded" /\ context

\* Between two calls, either the session started last is the active one and
\* nothing is said of an exit, or nothing is active and last_exit says how that
\* session ended (session.rs:115, 140, 169, 246), whichever of the calls that
\* were in progress together reaped or joined it; unless the session was
\* started while another call had not yet recorded the end of the one before.
ExitIsReported ==
    LET latest == Cardinality(Spawned)
    IN  stage = "serving" /\ latest \notin overlapped /\ (\A t \in Callers : IsIdle(t)) =>
          \/ active = latest /\ last_exit = NoExit
          \/ active = NoRuntime /\ last_exit = runtimes[latest].exit

-----------------------------------------------------------------------------
(* Liveness. *)

\* No call waits for ever: whatever it joins has been told to stop and does
\* (session.rs:327-334, libretro.rs:1015, core.rs:84).
CallsReturn ==
    \A t \in Callers : ~IsIdle(t) ~> IsIdle(t)

\* A command accepted for a game is carried out unless the game ends
\* (session.rs:181-212, libretro.rs:1016).
CommandsAreServed ==
    \A r \in Runtime :
        (Is(r, "libretro", "running") /\ runtimes[r].commands # <<>>)
            ~> (runtimes[r].commands = <<>> \/ ~Is(r, "libretro", "running"))

-----------------------------------------------------------------------------
(* What the documents and comments say and the code does not do. *)

\* docs/public-service.md:104: "When a session is already running and
\* force_restart is false, server returns 409 Conflict."  A start without
\* force_restart that is accepted replaces nothing.
RefusedWhileRunning ==
    [][\A t \in Callers :
         (calls[t].at = "publish" /\ ~calls[t].force /\ calls'[t].at = "idle")
             => active = NoRuntime]_vars

\* libretro.rs:1086: "retro_run executes one frame of the loaded game. Requires
\* the core to have been initialized (retro_init) and a game loaded": of every
\* session, also one that overlaps a stop.
FramesOfALoadedGame ==
    \A r \in Runtime : Is(r, "libretro", "running") => core = "loaded"
======================================================================
