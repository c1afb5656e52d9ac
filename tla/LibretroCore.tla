---------------------------- MODULE LibretroCore ----------------------------
(***************************************************************************)
(* What one session of a libretro core leaves to the next (libretro.rs,    *)
(* hw_render.rs): its files (battery RAM and save states) and the process- *)
(* wide core options, callback context and hardware-rendering resources.   *)
(*                                                                         *)
(* Sessions follow one another (SessionManager models what happens when    *)
(* they overlap); the process may crash between any two steps and start    *)
(* again.  Battery RAM is the game its bytes come from and the progress    *)
(* of that game they hold: to any other game they are not a save, nor are  *)
(* the bytes of a torn file.  Time is counted in frames.  The core, EGL,   *)
(* GBM and the file system are external: each call may fail where the code *)
(* looks at its result, and a write that does not end leaves an empty or a *)
(* torn file.  Not here: the render node's descriptor, which create leaves *)
(* open every time, and a content path with a NUL byte, which              *)
(* SessionManager has.                                                     *)
(***************************************************************************)
EXTENDS Integers, Sequences, FiniteSets

CONSTANTS Game,
          FileName,   \* of each game's content: its parts between the dots
          Preloads,   \* games whose core does not need the full path
          UsesHw,     \* games whose core asks for hardware rendering
          OptionsApi, \* how each core declares its options: "legacy", "definitions" or "none"
          Serializes, \* games whose core can save its state
          Declares,   \* the options each core declares: [game -> [key -> default]]
          Overrides,  \* options the program insists on: [key -> value]
          Slot,       \* slots named in commands
          Interval,   \* save_sync_interval in frames
          MaxProgress \* bound: progress made in a game

ASSUME CoreAssumption ==
  /\ \A g \in Game : Len(FileName[g]) > 0
  /\ Slot \subseteq Nat /\ Interval \in Nat \ {0} /\ MaxProgress \in Nat

VARIABLES at,       \* where the emulator thread is
          game,     \* the game of the session
          ram,      \* the core's battery RAM
          due,      \* frames since the last sync was due
          target,   \* the file being written
          files,    \* save directory: path -> content
          options,  \* core_option_defaults
          declared, \* history: this session's core has declared its options
          hw,       \* the callback context's hw_context: 0, or the attempt that made it
          live,     \* EGL and GBM objects in use: <<kind, attempt>>
          current,  \* the attempt whose EGL context is current on the thread, or 0
          before,   \* history: what the file being written held until then
          parted    \* history: what has parted the RAM from its battery file since
                    \* the session began or last wrote it: the restore failed ("unread"),
                    \* a state was loaded ("loaded") or a write failed ("refused")

vars == <<at, game, ram, due, target, files, options, declared, hw, live, current, before, parted>>
core == <<options, declared>>
hardware == <<hw, live, current>>
disk == <<files, before>>
-----------------------------------------------------------------------------
(* Paths. *)

Front(parts) == SubSeq(parts, 1, Len(parts) - 1)

\* Path::file_stem: the name without its last part, if it has several.
file_stem(name) == IF Len(name) > 1 THEN Front(name) ELSE name

\* with_extension replaces what follows the last dot of the STEM, if it has one.
save_snapshot_path(g) == <<"srm", file_stem(file_stem(FileName[g]))>>

\* Slot 0 is slot 1.
state_snapshot_path(g, slot) == <<"state", file_stem(FileName[g]), IF slot = 0 THEN 1 ELSE slot>>

BatteryPaths == {save_snapshot_path(g) : g \in Game}
Paths == BatteryPaths \cup {state_snapshot_path(g, n) : g \in Serializes, n \in Slot}

\* Contents of a file; RAM is like Data.
Absent == [kind |-> "absent", of |-> "nobody", progress |-> 0]
Empty == [Absent EXCEPT !.kind = "empty"]
Data(g, n) == [kind |-> "data", of |-> g, progress |-> n]
Torn(content) == [content EXCEPT !.kind = "torn"]
Readable(content) == content.kind \in {"data", "torn"}

\* The progress of a game that bytes are a whole save of.
Worth(g, content) == IF content.kind = "data" /\ content.of = g THEN content.progress ELSE 0
-----------------------------------------------------------------------------
Init ==
  /\ at = "out" /\ game \in Game /\ ram = Absent /\ due = 0 /\ target = <<>>
  /\ files = [p \in Paths |-> Absent]
  /\ options = << >> /\ declared = FALSE
  /\ hw = 0 /\ live = {} /\ current = 0
  /\ before = Absent /\ parted = {}

start(g) ==
  /\ at = "out"
  /\ at' = "loading" /\ game' = g /\ ram' = Data(g, 0)
  /\ UNCHANGED <<due, target, core, hardware, disk, parted>>

\* The end of a session, whatever ends it; what the process keeps is left to the action.
ends == at' = "out" /\ ram' = Absent /\ due' = 0 /\ target' = <<>> /\ declared' = FALSE
          /\ before' = Absent /\ parted' = {}
-----------------------------------------------------------------------------
(* Core options: one map for the process.                                  *)

Loading == at \in {"loading", "retrying"}

\* What set_core_option_default keeps for a key.
set_core_option_default(key, default) == IF key \in DOMAIN Overrides THEN Overrides[key] ELSE default

Own == DOMAIN Declares[game]
Keys == UNION {DOMAIN Declares[g] : g \in Game}

\* The answer to GET_VARIABLE, if there is one.
get_variable(key) == IF key \in DOMAIN options THEN {options[key]} ELSE {}

collect_core_option_definitions ==
  /\ Loading /\ OptionsApi[game] = "definitions"
  /\ options' = [k \in Own |-> set_core_option_default(k, Declares[game][k])]
  /\ declared' = TRUE
  /\ UNCHANGED <<at, game, ram, due, target, hardware, disk, parted>>

\* The old interface: no override applies.
collect_legacy_core_options ==
  /\ Loading /\ OptionsApi[game] = "legacy"
  /\ options' = [k \in Own |-> Declares[game][k]]
  /\ declared' = TRUE
  /\ UNCHANGED <<at, game, ram, due, target, hardware, disk, parted>>
-----------------------------------------------------------------------------
(* Hardware rendering.                                                     *)

\* The calls of HwRenderContext::create in order, and what each one acquires.
Calls == <<"open", "gbm_create_device", "gbm_surface_create", "eglGetDisplay", "eglInitialize",
           "eglBindAPI", "eglChooseConfig", "eglCreateContext", "eglCreatePbufferSurface",
           "eglMakeCurrent">>

Acquires(call) ==
  CASE call = "gbm_create_device" -> {"device"}
    [] call = "gbm_surface_create" -> {"gbm_surface"}
    [] call = "eglInitialize" -> {"display"}
    [] call = "eglCreateContext" -> {"context"}
    [] call = "eglCreatePbufferSurface" -> {"surface"}
    [] OTHER -> {}

Objects == UNION {Acquires(Calls[i]) : i \in DOMAIN Calls}
AcquiredBefore(n) == UNION {Acquires(Calls[i]) : i \in 1..(n - 1)}

cleanup_gbm == {"gbm_surface", "device"}

\* eglTerminate takes the display's contexts and surfaces with it.
cleanup_all == {"display", "context", "surface"} \cup cleanup_gbm

cleanup_all_with_ctx == {"context"} \cup cleanup_all

\* What is released when the n-th call fails.
Released(n) ==
  CASE Calls[n] \in {"open", "gbm_create_device"} -> {}
    [] Calls[n] = "gbm_surface_create" -> {"device"}
    [] Calls[n] = "eglGetDisplay" -> cleanup_gbm
    [] Calls[n] \in {"eglInitialize", "eglBindAPI", "eglChooseConfig", "eglCreateContext"} -> cleanup_all
    [] OTHER -> cleanup_all_with_ctx

\* What is live once the context of attempt i is dropped.
WithoutContext(i) == live \ {<<k, i>> : k \in cleanup_all_with_ctx}

attempt == IF at = "retrying" THEN 2 ELSE 1

\* SET_HW_RENDER, the n-th call failing.  The core is told so.
hw_create_fails(n) ==
  /\ Loading /\ game \in UsesHw /\ hw # attempt
  /\ live' = live \cup {<<k, attempt>> : k \in AcquiredBefore(n) \ Released(n)}
  /\ UNCHANGED <<at, game, ram, due, target, core, hw, current, disk, parted>>

\* SET_HW_RENDER: the new context is current; storing it drops the old one,
\* whose drop makes no context current.
set_hw_render ==
  /\ Loading /\ game \in UsesHw /\ hw # attempt
  /\ hw' = attempt
  /\ live' = (IF hw = 0 THEN live ELSE WithoutContext(hw))
               \cup {<<k, attempt>> : k \in AcquiredBefore(Len(Calls) + 1)}
  /\ current' = IF hw = 0 THEN attempt ELSE 0
  /\ UNCHANGED <<at, game, ram, due, target, core, disk, parted>>

\* Mutant: the context is not taken back.
keeps_hw_context == UNCHANGED hardware

\* clear_callback_context (a core that calls context_destroy in deinit has
\* dropped the context a moment before).
clear_callback_context ==
  /\ hw' = 0
  /\ live' = IF hw = 0 THEN live ELSE WithoutContext(hw)
  /\ current' = 0
-----------------------------------------------------------------------------
(* Loading and running.                                                    *)

\* Refused with preloaded content: once more with the path only.  (If reading
\* the content to preload failed, the first refusal is the last.)
retro_load_game_retry ==
  /\ at = "loading" /\ game \in Preloads
  /\ at' = "retrying"
  /\ UNCHANGED <<game, ram, due, target, core, hardware, disk, parted>>

retro_load_game_fails ==
  /\ Loading
  /\ ends
  /\ clear_callback_context
  /\ UNCHANGED <<game, options, files>>

\* Mutant: the battery RAM is not filled from the file.
restore_nothing ==
  /\ Loading
  /\ at' = "loop"
  /\ UNCHANGED <<game, ram, due, target, core, hardware, disk, parted>>

\* The game is loaded and its battery RAM filled from the file, if there is
\* one, it can be read and it is not empty; whose bytes they are is not asked.
restore_sram_from_disk ==
  /\ Loading
  /\ at' = "loop"
  /\ LET content == files[save_snapshot_path(game)] IN
     \/ /\ ram' = IF Readable(content) THEN content ELSE ram
        /\ UNCHANGED parted
     \/ /\ content.kind # "absent"  \* fs::read fails
        /\ ram' = ram /\ parted' = {"unread"}
  /\ UNCHANGED <<game, due, target, core, hardware, disk>>

\* Commands of one turn of the loop.
save_state(slot) ==
  /\ at = "loop" /\ game \in Serializes
  /\ at' = "writing" /\ target' = state_snapshot_path(game, slot)
  /\ before' = files[target'] /\ files' = [files EXCEPT ![target'] = Empty]
  /\ UNCHANGED <<game, ram, due, core, hardware, parted>>

\* A state holds the battery RAM of its moment.
load_state(slot) ==
  /\ at = "loop" /\ game \in Serializes
  /\ LET content == files[state_snapshot_path(game, slot)] IN
     /\ Readable(content)
     /\ ram' = content
  /\ parted' = parted \cup {"loaded"}
  /\ UNCHANGED <<at, game, due, target, core, hardware, disk>>

\* A frame; the game may write to its battery RAM, and begins anew where that
\* holds no save of its own.
retro_run(progress) ==
  /\ at = "loop" /\ Worth(game, ram) + progress <= MaxProgress
  /\ at' = "synced?" /\ due' = due + 1
  /\ ram' = IF progress = 0 THEN ram ELSE Data(game, Worth(game, ram) + progress)
  /\ UNCHANGED <<game, target, core, hardware, disk, parted>>

\* Mutant: one frame too late.
sync_late ==
  /\ at = "synced?" /\ due < Interval + 1
  /\ at' = "loop"
  /\ UNCHANGED <<game, ram, due, target, core, hardware, disk, parted>>

sync_not_due ==
  /\ at = "synced?" /\ due < Interval
  /\ at' = "loop"
  /\ UNCHANGED <<game, ram, due, target, core, hardware, disk, parted>>

\* The file already holds what is in RAM.
sync_unchanged ==
  /\ at = "synced?" /\ due >= Interval /\ files[save_snapshot_path(game)] = ram
  /\ at' = "loop" /\ due' = 0
  /\ UNCHANGED <<game, ram, target, core, hardware, disk, parted>>

\* The directory or the file cannot be opened: the error is logged.
sync_refused ==
  /\ at = "synced?" /\ due >= Interval
  /\ at' = "loop" /\ due' = 0 /\ parted' = parted \cup {"refused"}
  /\ UNCHANGED <<game, ram, target, core, hardware, disk>>

\* The file differs (or cannot be read).  fs::write truncates it first.
sync_save_ram_to_disk ==
  /\ at = "synced?" /\ due >= Interval
  /\ at' = "writing" /\ target' = save_snapshot_path(game) /\ due' = 0
  /\ before' = files[target'] /\ files' = [files EXCEPT ![target'] = Empty]
  /\ UNCHANGED <<game, ram, core, hardware, parted>>

OfBattery == target \in BatteryPaths

write_ends ==
  /\ at = "writing"
  /\ at' = "loop" /\ target' = <<>> /\ before' = Absent
  /\ files' = [files EXCEPT ![target] = ram]
  /\ parted' = IF OfBattery THEN {} ELSE parted
  /\ UNCHANGED <<game, ram, due, core, hardware>>

\* The disk is full, say: the error is logged, and the file is what it is.
write_fails(content) ==
  /\ at = "writing"
  /\ at' = "loop" /\ target' = <<>> /\ before' = Absent
  /\ files' = [files EXCEPT ![target] = content]
  /\ parted' = IF OfBattery THEN parted \cup {"refused"} ELSE parted
  /\ UNCHANGED <<game, ram, due, core, hardware>>

\* retro_unload_game, retro_deinit and the end of the thread: no last sync.
leave_loop ==
  /\ at = "loop"
  /\ ends
  /\ clear_callback_context
  /\ UNCHANGED <<game, options, files>>

\* The process dies and is started again.
crash(content) ==
  /\ at # "out"
  /\ ends
  /\ files' = IF at = "writing" THEN [files EXCEPT ![target] = content] ELSE files
  /\ options' = << >>
  /\ hw' = 0 /\ live' = {} /\ current' = 0
  /\ UNCHANGED game

Load == collect_core_option_definitions \/ collect_legacy_core_options
          \/ set_hw_render \/ (\E n \in DOMAIN Calls : hw_create_fails(n))
          \/ retro_load_game_retry \/ retro_load_game_fails \/ restore_sram_from_disk

Run == (\E n \in {0, 1} : retro_run(n)) \/ sync_not_due \/ sync_unchanged \/ sync_refused
         \/ sync_save_ram_to_disk \/ (\E n \in Slot : save_state(n) \/ load_state(n)) \/ leave_loop

Partial == {Empty, Torn(ram)}

Next ==
  \/ \E g \in Game : start(g)
  \/ Load \/ Run \/ write_ends
  \/ \E content \in Partial : write_fails(content) \/ crash(content)

Spec == Init /\ [][Next]_vars
-----------------------------------------------------------------------------
Content == {Absent, Empty} \cup [kind : {"data", "torn"}, of : Game, progress : 0..MaxProgress]

TypeOK ==
  /\ at \in {"out", "loading", "retrying", "loop", "synced?", "writing"}
  /\ game \in Game /\ ram \in Content /\ due \in 0..Interval
  /\ files \in [Paths -> Content]
  /\ (at = "writing") = (target # <<>>)
  /\ declared \in BOOLEAN /\ hw \in 0..2 /\ current \in 0..2
  /\ live \subseteq Objects \X {1, 2}
  /\ before \in Content /\ parted \subseteq {"unread", "loaded", "refused"}

Running == at \in {"loop", "synced?", "writing"}

\* What the battery file of a game holds of its progress: while the file is
\* being written, what it held before.
Saved(g) ==
  LET path == save_snapshot_path(g)
  IN  Worth(g, IF target = path THEN before ELSE files[path])

(* Between two writes a crash or a stop costs at most one sync interval of
   progress: the battery file is never further behind the RAM, but for a failed
   read or write or a loaded state, and from the next full write on not even then. *)
LossIsBounded ==
  at \in {"loop", "synced?"} /\ parted = {} => Worth(game, ram) - Saved(game) <= Interval

\* A step in which the battery file of game g comes to hold less of its progress.
Loses(g) == Saved(g)' < Saved(g)

\* The write that is under way is cut short: by an error or by a crash.
CutShort == files'[target] # ram

(* A game's battery file loses progress only as a write of it ends, over any
   number of sessions, stops and crashes, and then in one of these ways, none of
   which the code prevents: the write was cut short (fs::write truncates first);
   the session is of another game with the same file name; or the session's RAM
   does not continue the file, because restoring it failed, which is only logged,
   or because a state was loaded. *)
SavesOnlyImprove ==
  [][\A g \in Game : Loses(g) =>
       /\ at = "writing" /\ target = save_snapshot_path(g)
       /\ \/ CutShort
          \/ game # g
          \/ parted \cap {"unread", "loaded"} # {}]_vars

(* "Cartridge battery saves survive across sessions" (libretro.rs:941).  They do
   not survive a session of another game that shares the file: nothing was cut
   short, nothing failed, no state was loaded. *)
SavesSurviveOtherGames == [][\A g \in Game : Loses(g) => CutShort \/ parted # {}]_vars

(* The same sentence: they do not survive a session that could not read them,
   with no other game about and no write cut short. *)
SavesSurviveAFailedRead ==
  [][\A g \in Game : Loses(g) => CutShort \/ game # g \/ "loaded" \in parted]_vars

(* A session sees no hardware context of the one before it: there is none between
   sessions, nor in one of a core that does not ask for it, and the context of a
   first attempt to load is the one current on the thread.  However creating a
   context fails, and however a session ends, the EGL and GBM objects acquired for
   it are released.  A core that has declared options reads no other's; one that
   has not still finds those of the last core that did, whatever session that was. *)
SessionsAreSeparate ==
  /\ hw # 0 => at # "out" /\ game \in UsesHw
  /\ declared => \A key \in Keys \ Own : get_variable(key) = {}
  /\ hw = 1 => current = 1
  /\ \A r \in live : hw = r[2]
=============================================================================
