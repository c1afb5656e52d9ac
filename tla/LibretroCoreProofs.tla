------------------------- MODULE LibretroCoreProofs -------------------------
(* Theorems about LibretroCore, for any games, file names (two games may   *)
(* share a battery file), option tables, slots, sync intervals and cores:  *)
(* sessions are separate, in which ways a save may be lost and that there  *)
(* is no other, and that what a stop or a crash costs is bounded by the    *)
(* sync interval.                                                          *)
EXTENDS LibretroCore, TLAPS

-----------------------------------------------------------------------------
(* The inductive invariant.                                                *)

\* Battery RAM of a game, whole or as a torn file left it.
RamData == [kind : {"data", "torn"}, of : Game, progress : 0 .. MaxProgress]

Battery == save_snapshot_path(game)

Partings == {"unread", "loaded", "refused"}

StatePathsOf(g) == {state_snapshot_path(g, n) : n \in Slot}

\* Where the thread is, and what it then holds.
PlaceOK ==
  /\ at = "out" => ram = Absent /\ ~declared /\ hw = 0
  /\ ~Running => due = 0 /\ parted = {}
  /\ Loading => ram = Data(game, 0)
  /\ Running => ram \in RamData
  /\ at # "synced?" => due < Interval
  /\ at = "writing" => \/ target = Battery
                       \/ game \in Serializes /\ target \in StatePathsOf(game)

\* RAM that continues the battery file is never behind what that held of the game.
RamIsNewest ==
  Running /\ parted \cap {"unread", "loaded"} = {} => Worth(game, ram) >= Saved(game)

\* What is not in the battery file yet was made since the last sync was due.
UnsavedIsRecent ==
  Running /\ target # Battery /\ parted = {} => Worth(game, ram) - Saved(game) <= due

\* The options of a session that has declared some are the core's own, and
\* the hardware context is the last attempt's, the only owner of objects.
SessionOK ==
  /\ declared => DOMAIN options = Own
  /\ hw # 0 => game \in UsesHw
  /\ at = "loading" => hw # 2
  /\ hw = 1 => current = 1
  /\ \A r \in live : hw = r[2]

Inv == TypeOK /\ PlaceOK /\ RamIsNewest /\ UnsavedIsRecent /\ SessionOK

-----------------------------------------------------------------------------
(* Paths, contents and hardware objects.                                   *)

\* A save state is never written over a battery file.
LEMMA PathFacts ==
  /\ \A g \in Game : save_snapshot_path(g) \in BatteryPaths
  /\ BatteryPaths \subseteq Paths
  /\ \A g \in Serializes, n \in Slot : state_snapshot_path(g, n) \in Paths \ BatteryPaths
  /\ <<>> \notin Paths
<1>1. \A g \in Game : save_snapshot_path(g) \in BatteryPaths
  BY DEF BatteryPaths
<1>2. BatteryPaths \subseteq Paths
  BY DEF Paths
<1>3. \A g \in Serializes, n \in Slot : state_snapshot_path(g, n) \in Paths
  BY DEF Paths
<1>4. \A g, n : \A b \in BatteryPaths : state_snapshot_path(g, n) # b
  BY DEF state_snapshot_path, BatteryPaths, save_snapshot_path
<1>5. <<>> \notin Paths
  BY DEF Paths, BatteryPaths, save_snapshot_path, state_snapshot_path
<1> QED
  BY <1>1, <1>2, <1>3, <1>4, <1>5

\* What a file or the RAM may hold, and what it is worth to a game.
LEMMA ContentFacts ==
  /\ Absent \in Content /\ Empty \in Content
  /\ \A g \in Game, n \in 0 .. MaxProgress : Data(g, n) \in RamData /\ Worth(g, Data(g, n)) = n
  /\ RamData \subseteq Content
  /\ \A c \in RamData : Torn(c) \in RamData
  /\ \A g \in Game : /\ Worth(g, Empty) = 0
                     /\ \A c \in RamData : Worth(g, Torn(c)) = 0
  /\ \A c \in Content : /\ Readable(c) => c \in RamData
                        /\ \A g \in Game : /\ Worth(g, c) \in 0 .. MaxProgress
                                           /\ ~Readable(c) => Worth(g, c) = 0
<1>1. MaxProgress \in Nat /\ 0 \in 0 .. MaxProgress
  BY CoreAssumption
<1>2. Absent \in Content /\ Empty \in Content /\ Empty.kind = "empty"
  BY DEF Content, Absent, Empty
<1>3. \A g \in Game, n \in 0 .. MaxProgress : Data(g, n) \in RamData /\ Worth(g, Data(g, n)) = n
  BY DEF RamData, Data, Worth
<1>4. RamData \subseteq Content
  BY DEF RamData, Content
<1>5. \A c \in RamData : Torn(c) \in RamData /\ Torn(c).kind = "torn"
  BY DEF RamData, Torn
<1>6. \A c \in Content : c \in RamData \/ ~Readable(c)
  BY DEF Content, RamData, Absent, Empty, Readable
<1>7. \A c \in RamData : Readable(c) /\ c.progress \in 0 .. MaxProgress
  BY DEF RamData, Readable
<1>8. \A g \in Game : /\ Worth(g, Empty) = 0
                      /\ \A c \in RamData : Worth(g, Torn(c)) = 0
  BY <1>2, <1>5 DEF Worth
<1>9. \A c \in Content, g \in Game : /\ Worth(g, c) \in 0 .. MaxProgress
                                     /\ ~Readable(c) => Worth(g, c) = 0
  BY <1>1, <1>6, <1>7 DEF Worth, Readable
<1>10. \A c \in Content : /\ Readable(c) => c \in RamData
                          /\ \A g \in Game : /\ Worth(g, c) \in 0 .. MaxProgress
                                             /\ ~Readable(c) => Worth(g, c) = 0
  BY <1>6, <1>9
<1> QED
  BY <1>2, <1>3, <1>4, <1>5, <1>8, <1>10

\* Whichever call of create fails, everything acquired before it is released,
\* and dropping a context releases everything there is.
LEMMA ReleaseFacts ==
  /\ DOMAIN Calls = 1 .. 10 /\ Len(Calls) = 10
  /\ \A n \in DOMAIN Calls : AcquiredBefore(n) \subseteq Released(n)
  /\ Objects = AcquiredBefore(Len(Calls) + 1)
  /\ Objects \subseteq cleanup_all_with_ctx
<1>1. DOMAIN Calls = 1 .. 10 /\ Len(Calls) = 10
  BY DEF Calls
<1>2. /\ Calls[1] = "open" /\ Calls[2] = "gbm_create_device" /\ Calls[3] = "gbm_surface_create"
      /\ Calls[4] = "eglGetDisplay" /\ Calls[5] = "eglInitialize" /\ Calls[6] = "eglBindAPI"
      /\ Calls[7] = "eglChooseConfig" /\ Calls[8] = "eglCreateContext"
      /\ Calls[9] = "eglCreatePbufferSurface" /\ Calls[10] = "eglMakeCurrent"
  BY DEF Calls
<1> HIDE DEF Calls
<1>3. /\ Acquires(Calls[1]) = {} /\ Acquires(Calls[2]) = {"device"}
      /\ Acquires(Calls[3]) = {"gbm_surface"} /\ Acquires(Calls[4]) = {}
      /\ Acquires(Calls[5]) = {"display"} /\ Acquires(Calls[6]) = {}
      /\ Acquires(Calls[7]) = {} /\ Acquires(Calls[8]) = {"context"}
      /\ Acquires(Calls[9]) = {"surface"} /\ Acquires(Calls[10]) = {}
  BY <1>2 DEF Acquires
<1>4. ASSUME NEW n \in 1 .. 10, NEW k \in AcquiredBefore(n)
      PROVE  k \in Released(n)
  <2>1. PICK i \in 1 .. (n - 1) : k \in Acquires(Calls[i])
    BY <1>4 DEF AcquiredBefore
  <2>2. /\ k = "device" => i = 2
        /\ k = "gbm_surface" => i = 3
        /\ k = "display" => i = 5
        /\ k = "context" => i = 8
        /\ k = "surface" => i = 9
        /\ k \in {"device", "gbm_surface", "display", "context", "surface"}
    BY <1>3, <2>1
  <2>3. i < n /\ i \in 1 .. 10
    BY <2>1
  <2>4. \/ n \in {1, 2} /\ Released(n) = {}
        \/ n = 3 /\ Released(n) = {"device"}
        \/ n = 4 /\ Released(n) = cleanup_gbm
        \/ n \in 5 .. 8 /\ Released(n) = cleanup_all
        \/ n \in 9 .. 10 /\ Released(n) = cleanup_all_with_ctx
    BY <1>2 DEF Released
  <2> QED
    BY <2>2, <2>3, <2>4 DEF cleanup_gbm, cleanup_all, cleanup_all_with_ctx
<1>5. Objects = AcquiredBefore(11)
  BY <1>1 DEF Objects, AcquiredBefore
<1>6. Objects \subseteq cleanup_all_with_ctx
  <2> SUFFICES ASSUME NEW i \in 1 .. 10, NEW k \in Acquires(Calls[i])
               PROVE  k \in cleanup_all_with_ctx
    BY <1>1 DEF Objects
  <2> QED
    BY <1>3 DEF cleanup_gbm, cleanup_all, cleanup_all_with_ctx
<1> QED
  BY <1>1, <1>4, <1>5, <1>6

-----------------------------------------------------------------------------
(* The invariant holds at first and is kept by every action.               *)

LEMMA Start == Init => Inv
<1> SUFFICES ASSUME Init
             PROVE  Inv
  OBVIOUS
<1> USE DEF Init
<1>1. MaxProgress \in Nat /\ Interval \in Nat \ {0}
  BY CoreAssumption
<1>2. TypeOK
  <2>1. Absent \in Content /\ 0 \in 0 .. MaxProgress /\ 0 \in 0 .. Interval
    BY <1>1, ContentFacts
  <2>2. /\ at = "out" /\ game \in Game /\ ram \in Content /\ due \in 0 .. Interval
        /\ files \in [Paths -> Content] /\ before \in Content
    BY <2>1
  <2>3. (at = "writing") = (target # <<>>)
    OBVIOUS
  <2>4. live \subseteq Objects \X {1, 2}
    OBVIOUS
  <2>5. hw \in 0 .. 2 /\ current \in 0 .. 2
    OBVIOUS
  <2>6. declared \in BOOLEAN /\ parted \subseteq Partings
    OBVIOUS
  <2> HIDE DEF Init
  <2> QED
    BY <2>1, <2>2, <2>3, <2>4, <2>5, <2>6 DEF TypeOK, Partings
<1>3. ~Running /\ ~Loading
  BY DEF Running, Loading
<1>4. PlaceOK
  BY <1>1, <1>3 DEF PlaceOK
<1>5. SessionOK
  BY DEF SessionOK
<1> QED
  BY <1>2, <1>3, <1>4, <1>5 DEF Inv, RamIsNewest, UnsavedIsRecent

\* What every step of the proof starts from.
LEMMA InvFacts ==
  ASSUME Inv
  PROVE  /\ MaxProgress \in Nat /\ Interval \in Nat \ {0}
         /\ game \in Game /\ ram \in Content /\ Worth(game, ram) \in 0 .. MaxProgress
         /\ before \in Content /\ parted \subseteq Partings
         /\ Battery \in BatteryPaths
         /\ files \in [Paths -> Content]
         /\ \A g \in Game : Saved(g) \in 0 .. MaxProgress
         /\ at # "writing" => target = <<>> /\ \A p \in Paths : target # p
         /\ at = "writing" => target \in Paths /\ (target # Battery => target \notin BatteryPaths)
<1>1. MaxProgress \in Nat /\ Interval \in Nat \ {0}
  BY CoreAssumption
<1>2. TypeOK /\ PlaceOK
  BY DEF Inv
<1>3. /\ game \in Game /\ ram \in Content /\ Battery \in BatteryPaths
      /\ before \in Content /\ parted \subseteq Partings
  BY <1>2, PathFacts DEF TypeOK, Battery, Partings
<1>4. files \in [Paths -> Content] /\ \A p \in Paths : files[p] \in Content
  BY <1>2 DEF TypeOK
<1>5. ASSUME NEW g \in Game
      PROVE  Saved(g) \in 0 .. MaxProgress
  BY <1>3, <1>4, PathFacts, ContentFacts DEF Saved
<1>6. at # "writing" => target = <<>> /\ \A p \in Paths : target # p
  BY <1>2, PathFacts DEF TypeOK
<1>7. at = "writing" => target \in Paths /\ (target # Battery => target \notin BatteryPaths)
  BY <1>2, <1>3, PathFacts DEF PlaceOK, StatePathsOf
<1> QED
  BY <1>1, <1>3, <1>4, <1>5, <1>6, <1>7, ContentFacts

\* Where what a battery file holds of a game is read off.
LEMMA SavedOf ==
  ASSUME Inv
  PROVE  /\ \A g \in Game : /\ target # save_snapshot_path(g) =>
                                  Saved(g) = Worth(g, files[save_snapshot_path(g)])
                            /\ target = save_snapshot_path(g) => Saved(g) = Worth(g, before)
         /\ at # "writing" =>
              \A g \in Game : Saved(g) = Worth(g, files[save_snapshot_path(g)])
BY InvFacts, PathFacts DEF Saved

\* The end of a session: only the files are kept.
LEMMA EndKeeps ==
  ASSUME Inv, ends, game' = game,
         hw' = 0, live' = {}, current' = 0,
         files' \in [Paths -> Content]
  PROVE  Inv'
<1> USE DEF ends
<1>1. TypeOK'
  <2>1. Absent \in Content /\ game \in Game /\ 0 \in 0 .. Interval
    BY InvFacts, ContentFacts
  <2>2. at' = "out" /\ ram' \in Content /\ due' \in 0 .. Interval /\ before' \in Content
    BY <2>1
  <2>3. (at' = "writing") = (target' # <<>>)
    OBVIOUS
  <2>4. live' \subseteq Objects \X {1, 2}
    OBVIOUS
  <2>5. hw' \in 0 .. 2 /\ current' \in 0 .. 2
    OBVIOUS
  <2>6. declared' \in BOOLEAN /\ parted' \subseteq Partings
    OBVIOUS
  <2> HIDE DEF ends
  <2> QED
    BY <2>1, <2>2, <2>3, <2>4, <2>5, <2>6 DEF TypeOK, Partings
<1>2. ~Running' /\ ~Loading'
  BY DEF Running, Loading
<1>3. PlaceOK'
  BY <1>2, InvFacts DEF PlaceOK
<1>4. SessionOK'
  BY DEF SessionOK
<1> QED
  BY <1>1, <1>2, <1>3, <1>4 DEF Inv, RamIsNewest, UnsavedIsRecent

\* Dropping the context of the session leaves nothing.
LEMMA ContextDrop ==
  ASSUME TypeOK, SessionOK
  PROVE  /\ hw = 0 => live = {}
         /\ WithoutContext(hw) = {}
<1>1. hw = 0 => live = {}
  BY DEF TypeOK, SessionOK
<1>2. \A r \in live : r[1] \in cleanup_all_with_ctx /\ r = <<r[1], hw>>
  BY ReleaseFacts DEF TypeOK, SessionOK
<1> QED
  BY <1>1, <1>2 DEF WithoutContext

LEMMA StartStep ==
  ASSUME Inv, NEW g \in Game, start(g)
  PROVE  Inv'
<1> USE DEF start, core, hardware, disk
<1>1. TypeOK /\ PlaceOK /\ SessionOK
  BY DEF Inv
<1>2. Data(g, 0) \in Content
  BY CoreAssumption, ContentFacts
<1>3. TypeOK'
  BY <1>1, <1>2 DEF TypeOK
<1>4. ~Running' /\ Loading' /\ ~Running
  BY DEF Running, Loading
<1>5. PlaceOK'
  BY <1>1, <1>4 DEF PlaceOK
<1>6. SessionOK'
  BY <1>1 DEF PlaceOK, SessionOK
<1> QED
  BY <1>3, <1>4, <1>5, <1>6 DEF Inv, RamIsNewest, UnsavedIsRecent

\* While loading: whatever touches neither the files nor the RAM.
LEMMA LoadingKeeps ==
  ASSUME Inv, Loading, Loading',
         UNCHANGED <<game, ram, due, target, disk, parted>>,
         declared' \in BOOLEAN, hw' \in 0 .. 2, current' \in 0 .. 2,
         live' \subseteq Objects \X {1, 2},
         SessionOK'
  PROVE  Inv'
<1>1. TypeOK /\ PlaceOK
  BY DEF Inv
<1>2. {at, at'} \subseteq {"loading", "retrying"} /\ ~Running /\ ~Running'
  BY DEF Loading, Running
<1>3. TypeOK'
  BY <1>1, <1>2 DEF TypeOK, disk
<1>4. PlaceOK'
  <2>1. ram = Data(game, 0) /\ due = 0 /\ parted = {} /\ due < Interval
    BY <1>1, <1>2 DEF PlaceOK
  <2>2. ram' = Data(game', 0)
    BY <2>1
  <2> QED
    BY <1>2, <2>1, <2>2 DEF PlaceOK
<1> QED
  BY <1>2, <1>3, <1>4 DEF Inv, RamIsNewest, UnsavedIsRecent

LEMMA DeclareStep ==
  ASSUME Inv, collect_core_option_definitions \/ collect_legacy_core_options
  PROVE  Inv'
<1>1. /\ Loading /\ declared' = TRUE /\ DOMAIN options' = Own
      /\ UNCHANGED <<at, game, ram, due, target, hardware, disk, parted>>
  BY DEF collect_core_option_definitions, collect_legacy_core_options
<1>2. Loading' /\ Own' = Own
  BY <1>1 DEF Loading, Own
<1>3. TypeOK /\ SessionOK
  BY DEF Inv
<1>4. SessionOK'
  BY <1>1, <1>2, <1>3 DEF SessionOK, hardware
<1> QED
  BY <1>1, <1>2, <1>3, <1>4, LoadingKeeps DEF TypeOK, hardware, disk

\* Whichever call fails, nothing stays acquired.
LEMMA CreateFailsStep ==
  ASSUME Inv, NEW n \in DOMAIN Calls, hw_create_fails(n)
  PROVE  Inv'
<1>1. AcquiredBefore(n) \ Released(n) = {}
  BY ReleaseFacts
<1>2. Loading /\ UNCHANGED <<at, game, ram, due, target, core, hardware, disk, parted>>
  BY <1>1 DEF hw_create_fails, hardware
<1>3. Loading'
  BY <1>2 DEF Loading
<1>4. TypeOK /\ SessionOK
  BY DEF Inv
<1>5. SessionOK'
  BY <1>2, <1>4 DEF SessionOK, core, hardware, Own
<1> QED
  BY <1>2, <1>3, <1>4, <1>5, LoadingKeeps DEF TypeOK, core, hardware, disk

\* The first attempt finds no context and makes its own current; the second
\* drops the first's.
LEMMA SetHwRenderStep ==
  ASSUME Inv, set_hw_render
  PROVE  Inv'
<1>1. /\ Loading /\ game \in UsesHw /\ hw # attempt /\ hw' = attempt
      /\ UNCHANGED <<at, game, ram, due, target, core, disk, parted>>
  BY DEF set_hw_render
<1>2. Loading'
  BY <1>1 DEF Loading
<1>3. TypeOK /\ SessionOK
  BY DEF Inv
<1>4. attempt \in {1, 2} /\ (attempt = 1 => hw = 0) /\ (at = "loading" => attempt = 1)
  BY <1>1, <1>3 DEF attempt, Loading, SessionOK, TypeOK
<1>5. live' = {<<k, attempt>> : k \in Objects}
  BY <1>3, ContextDrop, ReleaseFacts DEF set_hw_render
<1>6. live' \subseteq Objects \X {1, 2} /\ \A r \in live' : r[2] = attempt
  BY <1>4, <1>5
<1>7. current' \in 0 .. 2 /\ (attempt = 1 => current' = 1)
  BY <1>4 DEF set_hw_render
<1>8. SessionOK'
  BY <1>1, <1>3, <1>4, <1>6, <1>7 DEF SessionOK, core, Own
<1>9. hw' \in 0 .. 2 /\ declared' \in BOOLEAN
  BY <1>1, <1>3, <1>4 DEF TypeOK, core
<1> QED
  BY <1>1, <1>2, <1>6, <1>7, <1>8, <1>9, LoadingKeeps DEF disk

LEMMA RetryStep ==
  ASSUME Inv, retro_load_game_retry
  PROVE  Inv'
<1>1. /\ at = "loading" /\ at' = "retrying"
      /\ UNCHANGED <<game, ram, due, target, core, hardware, disk, parted>>
  BY DEF retro_load_game_retry
<1>2. Loading /\ Loading'
  BY <1>1 DEF Loading
<1>3. TypeOK /\ SessionOK
  BY DEF Inv
<1>4. SessionOK'
  BY <1>1, <1>3 DEF SessionOK, core, hardware, Own
<1> QED
  BY <1>1, <1>2, <1>3, <1>4, LoadingKeeps DEF TypeOK, core, hardware, disk

\* A stop, or a game that does not load: files are left alone.
LEMMA StopStep ==
  ASSUME Inv, retro_load_game_fails \/ leave_loop
  PROVE  Inv'
<1>1. ends /\ clear_callback_context /\ UNCHANGED <<game, options, files>>
  BY DEF retro_load_game_fails, leave_loop
<1>2. TypeOK /\ SessionOK
  BY DEF Inv
<1>3. hw' = 0 /\ live' = {} /\ current' = 0
  BY <1>1, <1>2, ContextDrop DEF clear_callback_context
<1> QED
  BY <1>1, <1>3, InvFacts, EndKeeps

-----------------------------------------------------------------------------
(* From the end of loading on, only the files, the RAM and the clock move. *)

LEMMA RunningKeeps ==
  ASSUME Inv, Loading \/ Running, Running',
         UNCHANGED <<game, options, declared, hw, live, current>>
  PROVE  SessionOK'
<1>1. SessionOK /\ at' # "loading"
  BY DEF Inv, Running
<1> QED
  BY <1>1 DEF SessionOK, Own

\* Running: the battery RAM, the clock and the files after the step.
LEMMA RunningTyped ==
  ASSUME Inv, Loading \/ Running, at' \in {"loop", "synced?"}, target' = <<>>,
         UNCHANGED <<game, options, declared, hw, live, current>>,
         ram' \in RamData, due' \in 0 .. Interval,
         at' = "loop" => due' < Interval,
         files' \in [Paths -> Content], before' \in Content, parted' \subseteq Partings
  PROVE  TypeOK' /\ PlaceOK' /\ SessionOK' /\ Running' /\ Battery' = Battery
<1>1. Running' /\ ~Loading'
  BY DEF Running, Loading
<1>2. TypeOK'
  BY ContentFacts DEF Inv, TypeOK, Partings
<1>3. PlaceOK'
  BY <1>1 DEF PlaceOK
<1> QED
  BY <1>1, <1>2, <1>3, RunningKeeps DEF core, hardware, Battery

\* Whatever leaves the files alone leaves what they hold of each game.
LEMMA DiskKeeps ==
  ASSUME UNCHANGED <<target, disk>>
  PROVE  \A g \in Game : UNCHANGED Saved(g)
BY DEF disk, Saved

\* Once no write is under way, what a battery file holds is what is in it.
LEMMA SavedAfter ==
  ASSUME Inv, target' = <<>>
  PROVE  \A g \in Game : Saved(g)' = Worth(g, files'[save_snapshot_path(g)])
<1>1. \A g \in Game : target' # save_snapshot_path(g)
  BY PathFacts
<1> QED
  BY <1>1 DEF Saved

\* The game starts with what its battery file holds, or with nothing when
\* the file cannot be used; only a failed read leaves the file ahead of the RAM.
LEMMA RestoreStep ==
  ASSUME Inv, restore_sram_from_disk
  PROVE  Inv'
<1> DEFINE content == files[Battery]
<1>1. /\ Loading /\ at' = "loop" /\ UNCHANGED <<game, due, target, core, hardware, disk>>
      /\ \/ ram' = (IF Readable(content) THEN content ELSE ram) /\ UNCHANGED parted
         \/ ram' = ram /\ parted' = {"unread"}
  BY DEF restore_sram_from_disk, Battery
<1>2. TypeOK /\ PlaceOK
  BY DEF Inv
<1>3. at # "writing" /\ ~Running
  BY <1>1 DEF Loading, Running
<1>4. game \in Game /\ 0 \in 0 .. MaxProgress
  BY InvFacts
<1>5. ram = Data(game, 0) /\ due = 0 /\ due < Interval
  BY <1>1, <1>2, <1>3, InvFacts DEF PlaceOK
<1>6. ram \in RamData /\ Worth(game, ram) = 0
  BY <1>4, <1>5, ContentFacts
<1>7. content \in Content /\ Saved(game) = Worth(game, content) /\ Saved(game) \in Nat
  BY <1>3, <1>4, SavedOf, InvFacts, PathFacts DEF Battery
<1>8. ram' \in RamData /\ (parted' = parted => Worth(game, ram') = Saved(game) \/ parted' = {"unread"})
  BY <1>1, <1>4, <1>6, <1>7, ContentFacts
<1>9. parted' \subseteq Partings
  BY <1>1, InvFacts DEF Partings
<1>10. TypeOK' /\ PlaceOK' /\ SessionOK' /\ Running' /\ Battery' = Battery
  <2>1. target' = <<>> /\ files' \in [Paths -> Content] /\ before' \in Content /\ due' \in 0 .. Interval
    BY <1>1, <1>3, <1>5, InvFacts DEF disk
  <2> QED
    BY <1>1, <1>5, <1>8, <1>9, <2>1, RunningTyped DEF core, hardware
<1>11. Saved(game)' = Saved(game)
  BY <1>1, <1>4, DiskKeeps DEF disk
<1>12. RamIsNewest' /\ UnsavedIsRecent'
  BY <1>1, <1>5, <1>7, <1>8, <1>11 DEF RamIsNewest, UnsavedIsRecent
<1> QED
  BY <1>10, <1>12 DEF Inv

\* A frame may add a step of progress, and takes a frame.
LEMMA FrameStep ==
  ASSUME Inv, NEW n \in {0, 1}, retro_run(n)
  PROVE  Inv'
<1>1. /\ at = "loop" /\ Worth(game, ram) + n <= MaxProgress
      /\ at' = "synced?" /\ due' = due + 1
      /\ ram' = IF n = 0 THEN ram ELSE Data(game, Worth(game, ram) + n)
      /\ UNCHANGED <<game, target, core, hardware, disk, parted>>
  BY DEF retro_run
<1>2. TypeOK /\ PlaceOK /\ RamIsNewest /\ UnsavedIsRecent
  BY DEF Inv
<1>3. Running /\ ram \in RamData /\ due < Interval /\ due \in Nat
  BY <1>1, <1>2, InvFacts DEF Running, PlaceOK, TypeOK
<1>4. Worth(game, ram) + n \in 0 .. MaxProgress /\ Worth(game, ram) \in Nat
  BY <1>1, InvFacts
<1>5. ram' \in RamData /\ Worth(game, ram') = Worth(game, ram) + n
  BY <1>1, <1>3, <1>4, InvFacts, ContentFacts
<1>6. target = <<>> /\ target # Battery
  BY <1>1, InvFacts, PathFacts
<1>7. TypeOK' /\ PlaceOK' /\ SessionOK' /\ Running' /\ Battery' = Battery
  <2>1. due' \in 0 .. Interval /\ files' \in [Paths -> Content] /\ before' \in Content
    BY <1>1, <1>3, InvFacts DEF disk
  <2> QED
    BY <1>1, <1>3, <1>5, <1>6, <2>1, InvFacts, RunningTyped DEF core, hardware
<1>8. Saved(game)' = Saved(game) /\ Saved(game) \in Nat
  BY <1>1, InvFacts, DiskKeeps DEF disk
<1>9. RamIsNewest'
  BY <1>1, <1>2, <1>3, <1>4, <1>5, <1>8 DEF RamIsNewest
<1>10. UnsavedIsRecent'
  BY <1>1, <1>2, <1>3, <1>4, <1>5, <1>6, <1>8 DEF UnsavedIsRecent
<1> QED
  BY <1>7, <1>9, <1>10 DEF Inv

\* The sync after a frame, when nothing is written.
LEMMA NoSaveStep ==
  ASSUME Inv, sync_not_due \/ sync_unchanged \/ sync_refused
  PROVE  Inv'
<1>1. /\ at = "synced?" /\ at' = "loop"
      /\ UNCHANGED <<game, ram, target, core, hardware, disk>>
      /\ \/ due < Interval /\ UNCHANGED <<due, parted>>
         \/ due' = 0 /\ files[Battery] = ram /\ UNCHANGED parted
         \/ due' = 0 /\ parted' = parted \cup {"refused"}
  BY DEF sync_not_due, sync_unchanged, sync_refused, Battery
<1>2. TypeOK /\ PlaceOK /\ RamIsNewest /\ UnsavedIsRecent
  BY DEF Inv
<1>3. Running /\ ram \in RamData /\ game \in Game
  BY <1>1, <1>2, InvFacts DEF Running, PlaceOK
<1>4. target = <<>> /\ target # Battery
  BY <1>1, InvFacts, PathFacts
<1>5. due' \in 0 .. Interval /\ due' < Interval
  <2>1. due \in 0 .. Interval /\ Interval \in Nat \ {0}
    BY <1>2, InvFacts DEF TypeOK
  <2> QED
    BY <1>1, <2>1
<1>6. parted' \subseteq Partings
  BY <1>1, InvFacts DEF Partings
<1>7. TypeOK' /\ PlaceOK' /\ SessionOK' /\ Running' /\ Battery' = Battery
  <2>1. files' \in [Paths -> Content] /\ before' \in Content
    BY <1>1, InvFacts DEF disk
  <2> QED
    BY <1>1, <1>3, <1>4, <1>5, <1>6, <2>1, RunningTyped DEF core, hardware
<1>8. /\ Saved(game)' = Saved(game) /\ Saved(game) \in Nat
      /\ Saved(game) = Worth(game, files[Battery])
  BY <1>1, <1>3, InvFacts, DiskKeeps, SavedOf DEF disk, Battery
<1>9. RamIsNewest'
  <2>1. parted' \cap {"unread", "loaded"} = parted \cap {"unread", "loaded"}
    BY <1>1
  <2> QED
    BY <1>1, <1>2, <1>3, <1>8, <2>1 DEF RamIsNewest
<1>10. UnsavedIsRecent'
  <2>1. Worth(game, ram) \in Nat
    BY InvFacts
  <2> QED
    BY <1>1, <1>2, <1>3, <1>4, <1>8, <2>1 DEF UnsavedIsRecent
<1> QED
  BY <1>7, <1>9, <1>10 DEF Inv

\* A write begins: the file is truncated first, which does not count yet.
LEMMA OpenKeeps ==
  ASSUME Inv, at \in {"loop", "synced?"}, target' \in Paths,
         before' = files[target'],
         files' = [files EXCEPT ![target'] = Empty]
  PROVE  \A g \in Game : Saved(g)' = Saved(g)
<1> SUFFICES ASSUME NEW g \in Game
             PROVE  Saved(g)' = Saved(g)
  OBVIOUS
<1> DEFINE path == save_snapshot_path(g)
<1>1. Saved(g) = Worth(g, files[path])
  BY SavedOf
<1>2. path \in Paths /\ (path # target' => files'[path] = files[path])
  BY PathFacts, InvFacts
<1>3. Saved(g)' = Worth(g, IF target' = path THEN before' ELSE files'[path])
  BY DEF Saved
<1> QED
  BY <1>1, <1>2, <1>3

LEMMA OpensFile ==
  ASSUME Inv, at \in {"loop", "synced?"}, at' = "writing",
         target' \in Paths,
         \/ target' = Battery
         \/ game \in Serializes /\ target' \in StatePathsOf(game),
         before' = files[target'],
         files' = [files EXCEPT ![target'] = Empty],
         due' \in 0 .. Interval, due' < Interval,
         target' # Battery => due' = due,
         UNCHANGED <<game, ram, core, hardware, parted>>
  PROVE  Inv'
<1>1. TypeOK /\ PlaceOK /\ RamIsNewest /\ UnsavedIsRecent
  BY DEF Inv
<1>2. Running /\ Running' /\ ram \in RamData /\ ~Loading'
  BY <1>1 DEF Running, PlaceOK, Loading
<1>3. /\ target # Battery /\ target' # <<>> /\ before' \in Content
      /\ files' \in [Paths -> Content]
  BY InvFacts, PathFacts, ContentFacts
<1>4. TypeOK'
  BY <1>1, <1>3 DEF TypeOK, core, hardware
<1>5. Battery' = Battery /\ game \in Game
  BY InvFacts DEF Battery
<1>6. PlaceOK'
  BY <1>2, <1>5 DEF PlaceOK, StatePathsOf
<1>7. SessionOK'
  BY <1>2, RunningKeeps DEF core, hardware
<1>8. Saved(game)' = Saved(game)
  BY <1>5, OpenKeeps
<1>9. RamIsNewest'
  BY <1>1, <1>2, <1>8 DEF RamIsNewest
<1>10. UnsavedIsRecent'
  BY <1>1, <1>2, <1>3, <1>5, <1>8 DEF UnsavedIsRecent
<1> QED
  BY <1>4, <1>6, <1>7, <1>9, <1>10 DEF Inv

LEMMA SyncSaveStep ==
  ASSUME Inv, sync_save_ram_to_disk
  PROVE  Inv'
<1>1. /\ at = "synced?" /\ at' = "writing" /\ target' = Battery /\ due' = 0
      /\ before' = files[target'] /\ files' = [files EXCEPT ![target'] = Empty]
      /\ UNCHANGED <<game, ram, core, hardware, parted>>
  BY DEF sync_save_ram_to_disk, Battery
<1>2. target' \in Paths /\ 0 \in 0 .. Interval /\ 0 < Interval
  BY <1>1, InvFacts, PathFacts
<1> QED
  BY <1>1, <1>2, OpensFile

LEMMA SaveStateStep ==
  ASSUME Inv, NEW slot \in Slot, save_state(slot)
  PROVE  Inv'
<1>1. /\ at = "loop" /\ game \in Serializes /\ at' = "writing"
      /\ target' = state_snapshot_path(game, slot)
      /\ before' = files[target'] /\ files' = [files EXCEPT ![target'] = Empty]
      /\ UNCHANGED <<game, ram, due, core, hardware, parted>>
  BY DEF save_state
<1>2. target' \in Paths /\ target' \in StatePathsOf(game)
  BY <1>1, PathFacts DEF StatePathsOf
<1>3. due \in 0 .. Interval /\ due < Interval
  BY <1>1 DEF Inv, TypeOK, PlaceOK
<1> QED
  BY <1>1, <1>2, <1>3, OpensFile

\* After a loaded state nothing is promised until the next full write.
LEMMA LoadStateStep ==
  ASSUME Inv, NEW slot \in Slot, load_state(slot)
  PROVE  Inv'
<1>1. /\ at = "loop" /\ game \in Serializes
      /\ Readable(files[state_snapshot_path(game, slot)])
      /\ ram' = files[state_snapshot_path(game, slot)]
      /\ parted' = parted \cup {"loaded"}
      /\ UNCHANGED <<at, game, due, target, core, hardware, disk>>
  BY DEF load_state
<1>2. Running /\ due \in 0 .. Interval /\ due < Interval
  BY <1>1 DEF Running, Inv, PlaceOK, TypeOK
<1>3. ram' \in RamData
  BY <1>1, InvFacts, ContentFacts, PathFacts
<1>4. /\ target' = <<>> /\ files' \in [Paths -> Content] /\ before' \in Content
      /\ parted' \subseteq Partings
  BY <1>1, InvFacts DEF disk, Partings
<1>5. TypeOK' /\ PlaceOK' /\ SessionOK' /\ Running'
  BY <1>1, <1>2, <1>3, <1>4, RunningTyped DEF core, hardware
<1>6. RamIsNewest' /\ UnsavedIsRecent'
  BY <1>1 DEF RamIsNewest, UnsavedIsRecent
<1> QED
  BY <1>5, <1>6 DEF Inv

\* What the end of a write, good or bad, does to the files.
LEMMA WriteLeaves ==
  ASSUME Inv, at = "writing", target' = <<>>, NEW content \in Content,
         files' = [files EXCEPT ![target] = content]
  PROVE  /\ files' \in [Paths -> Content] /\ files'[target] = content
         /\ \A g \in Game :
              /\ target # save_snapshot_path(g) => Saved(g)' = Saved(g)
              /\ target = save_snapshot_path(g) => Saved(g)' = Worth(g, content)
<1>1. /\ files' \in [Paths -> Content]
      /\ \A p \in Paths : files'[p] = IF p = target THEN content ELSE files[p]
  BY InvFacts
<1>2. files'[target] = content
  BY <1>1, InvFacts
<1>3. ASSUME NEW g \in Game
      PROVE  /\ target # save_snapshot_path(g) => Saved(g)' = Saved(g)
             /\ target = save_snapshot_path(g) => Saved(g)' = Worth(g, content)
  <2>1. save_snapshot_path(g) \in Paths
    BY PathFacts
  <2>2. Saved(g)' = Worth(g, files'[save_snapshot_path(g)])
    BY SavedAfter
  <2>3. CASE target = save_snapshot_path(g)
    BY <1>2, <2>2, <2>3
  <2>4. CASE target # save_snapshot_path(g)
    <3>1. files'[save_snapshot_path(g)] = files[save_snapshot_path(g)]
      BY <1>1, <2>1, <2>4
    <3>2. Saved(g) = Worth(g, files[save_snapshot_path(g)])
      BY <2>4, SavedOf
    <3> QED
      BY <2>2, <2>4, <3>1, <3>2
  <2> QED
    BY <2>3, <2>4
<1> QED
  BY <1>1, <1>2, <1>3

\* A whole battery file holds the RAM.
LEMMA WriteEndsStep ==
  ASSUME Inv, write_ends
  PROVE  Inv'
<1>1. /\ at = "writing" /\ at' = "loop" /\ target' = <<>> /\ before' = Absent
      /\ files' = [files EXCEPT ![target] = ram]
      /\ parted' = IF OfBattery THEN {} ELSE parted
      /\ UNCHANGED <<game, ram, due, core, hardware>>
  BY DEF write_ends
<1>2. TypeOK /\ PlaceOK /\ RamIsNewest /\ UnsavedIsRecent
  BY DEF Inv
<1>3. /\ Running /\ ram \in RamData /\ ram \in Content /\ game \in Game
      /\ due \in 0 .. Interval /\ due < Interval
  BY <1>1, <1>2, InvFacts DEF Running, PlaceOK, TypeOK
<1>4. OfBattery <=> target = Battery
  BY <1>1, InvFacts DEF OfBattery
<1>5. /\ files' \in [Paths -> Content]
      /\ target # Battery => Saved(game)' = Saved(game)
      /\ target = Battery => Saved(game)' = Worth(game, ram)
  BY <1>1, <1>3, WriteLeaves DEF Battery
<1>6. parted' \subseteq Partings /\ before' \in Content
  BY <1>1, InvFacts, ContentFacts
<1>7. TypeOK' /\ PlaceOK' /\ SessionOK' /\ Running'
  BY <1>1, <1>3, <1>5, <1>6, RunningTyped DEF core, hardware
<1>8. Worth(game, ram) \in Nat /\ due \in Nat
  BY <1>3, InvFacts
<1>9. CASE target = Battery
  BY <1>1, <1>5, <1>7, <1>8, <1>9 DEF Inv, RamIsNewest, UnsavedIsRecent
<1>10. CASE target # Battery
  <2>1. parted' = parted
    BY <1>1, <1>4, <1>10
  <2> QED
    BY <1>1, <1>2, <1>3, <1>5, <1>7, <1>10, <2>1 DEF Inv, RamIsNewest, UnsavedIsRecent
<1> QED
  BY <1>9, <1>10

\* What a write that does not end leaves is no save.
LEMMA PartialFacts ==
  ASSUME Inv, Running
  PROVE  /\ Partial \subseteq Content
         /\ \A content \in Partial : Worth(game, content) = 0
<1>1. ram \in RamData /\ game \in Game
  BY InvFacts DEF Inv, PlaceOK
<1> QED
  BY <1>1, ContentFacts DEF Partial

LEMMA WriteFailsStep ==
  ASSUME Inv, NEW content \in Partial, write_fails(content)
  PROVE  Inv'
<1>1. /\ at = "writing" /\ at' = "loop" /\ target' = <<>> /\ before' = Absent
      /\ files' = [files EXCEPT ![target] = content]
      /\ parted' = IF OfBattery THEN parted \cup {"refused"} ELSE parted
      /\ UNCHANGED <<game, ram, due, core, hardware>>
  BY DEF write_fails
<1>2. TypeOK /\ PlaceOK /\ RamIsNewest /\ UnsavedIsRecent
  BY DEF Inv
<1>3. Running /\ ram \in RamData /\ game \in Game /\ due \in 0 .. Interval /\ due < Interval
  BY <1>1, <1>2, InvFacts DEF Running, PlaceOK, TypeOK
<1>4. content \in Content /\ Worth(game, content) = 0
  BY <1>3, PartialFacts
<1>5. OfBattery <=> target = Battery
  BY <1>1, InvFacts DEF OfBattery
<1>6. /\ files' \in [Paths -> Content]
      /\ target # Battery => Saved(game)' = Saved(game)
      /\ target = Battery => Saved(game)' = 0
  BY <1>1, <1>3, <1>4, WriteLeaves DEF Battery
<1>7. parted' \subseteq Partings /\ before' \in Content
  BY <1>1, InvFacts, ContentFacts DEF Partings
<1>8. TypeOK' /\ PlaceOK' /\ SessionOK' /\ Running' /\ Battery' = Battery
  BY <1>1, <1>3, <1>6, <1>7, RunningTyped DEF core, hardware
<1>9. Worth(game, ram) \in Nat
  BY InvFacts
<1>10. CASE target = Battery
  <2>1. Worth(game, ram) >= Saved(game)'
    BY <1>6, <1>9, <1>10
  <2>2. parted' # {}
    BY <1>1, <1>5, <1>10
  <2> QED
    BY <1>1, <1>8, <2>1, <2>2 DEF Inv, RamIsNewest, UnsavedIsRecent
<1>11. CASE target # Battery
  <2>1. parted' = parted
    BY <1>1, <1>5, <1>11
  <2> QED
    BY <1>1, <1>2, <1>3, <1>6, <1>8, <1>11, <2>1 DEF Inv, RamIsNewest, UnsavedIsRecent
<1> QED
  BY <1>10, <1>11

LEMMA CrashStep ==
  ASSUME Inv, NEW content \in Partial, crash(content)
  PROVE  Inv'
<1>1. /\ ends /\ game' = game /\ hw' = 0 /\ live' = {} /\ current' = 0
      /\ files' = IF at = "writing" THEN [files EXCEPT ![target] = content] ELSE files
  BY DEF crash
<1>2. files' \in [Paths -> Content]
  <2>1. at = "writing" => content \in Content
    BY PartialFacts DEF Running
  <2> QED
    BY <1>1, <2>1, InvFacts
<1> QED
  BY <1>1, <1>2, EndKeeps

LEMMA StutterStep ==
  ASSUME Inv, UNCHANGED vars
  PROVE  Inv'
<1> USE DEF vars, core, hardware, disk
<1>1. TypeOK' /\ Battery' = Battery /\ Running' = Running /\ Loading' = Loading
  BY DEF Inv, TypeOK, Battery, Running, Loading
<1>2. PlaceOK'
  BY <1>1 DEF Inv, PlaceOK, StatePathsOf
<1>3. Saved(game)' = Saved(game)
  BY DEF Saved
<1>4. RamIsNewest' /\ UnsavedIsRecent'
  BY <1>1, <1>3 DEF Inv, RamIsNewest, UnsavedIsRecent
<1>5. SessionOK'
  BY DEF Inv, SessionOK, Own
<1> QED
  BY <1>1, <1>2, <1>4, <1>5 DEF Inv

LEMMA Step == Inv /\ [Next]_vars => Inv'
<1> SUFFICES ASSUME Inv, [Next]_vars
             PROVE  Inv'
  OBVIOUS
<1>1. CASE \E g \in Game : start(g)
  BY <1>1, StartStep
<1>2. CASE Load
  BY <1>2, DeclareStep, SetHwRenderStep, CreateFailsStep, RetryStep, StopStep, RestoreStep DEF Load
<1>3. CASE Run
  BY <1>3, FrameStep, NoSaveStep, SyncSaveStep, SaveStateStep, LoadStateStep, StopStep DEF Run
<1>4. CASE write_ends
  BY <1>4, WriteEndsStep
<1>5. CASE \E content \in Partial : write_fails(content) \/ crash(content)
  BY <1>5, WriteFailsStep, CrashStep
<1>6. CASE UNCHANGED vars
  BY <1>6, StutterStep
<1> QED
  BY <1>1, <1>2, <1>3, <1>4, <1>5, <1>6 DEF Next

LEMMA Invariant == Spec => []Inv
<1>1. Init => Inv
  BY Start
<1>2. Inv /\ [Next]_vars => Inv'
  BY Step
<1> QED
  BY <1>1, <1>2, PTL DEF Spec
-----------------------------------------------------------------------------
(* In which steps a save is lost.                                          *)

\* While nothing is being written no file changes, and what is being written
\* counts once the write is over.
LEMMA NothingLost ==
  ASSUME Inv, at # "writing", Next
  PROVE  \A g \in Game : Saved(g)' = Saved(g)
<1>1. CASE UNCHANGED <<target, disk>>
  BY <1>1, DiskKeeps
<1>2. CASE target' = <<>> /\ UNCHANGED files
  BY <1>2, SavedOf, SavedAfter
<1>3. CASE /\ at \in {"loop", "synced?"} /\ target' \in Paths
           /\ before' = files[target'] /\ files' = [files EXCEPT ![target'] = Empty]
  BY <1>3, OpenKeeps
<1>4. CASE \E g \in Game : start(g)
  BY <1>1, <1>4 DEF start
<1>5. CASE Load
  <2>1. CASE retro_load_game_fails
    BY <1>2, <2>1 DEF retro_load_game_fails, ends
  <2>2. CASE collect_core_option_definitions \/ collect_legacy_core_options
    BY <1>1, <2>2 DEF collect_core_option_definitions, collect_legacy_core_options
  <2>3. CASE set_hw_render \/ \E n \in DOMAIN Calls : hw_create_fails(n)
    BY <1>1, <2>3 DEF set_hw_render, hw_create_fails
  <2>4. CASE retro_load_game_retry \/ restore_sram_from_disk
    BY <1>1, <2>4 DEF retro_load_game_retry, restore_sram_from_disk
  <2> QED
    BY <1>5, <2>1, <2>2, <2>3, <2>4 DEF Load
<1>6. CASE Run
  <2>1. CASE leave_loop
    BY <1>2, <2>1 DEF leave_loop, ends
  <2>2. CASE sync_save_ram_to_disk
    <3>1. target' \in Paths
      BY <2>2, InvFacts, PathFacts DEF sync_save_ram_to_disk, Battery
    <3> QED
      BY <1>3, <2>2, <3>1 DEF sync_save_ram_to_disk
  <2>3. ASSUME NEW n \in Slot, save_state(n)
        PROVE  \A g \in Game : Saved(g)' = Saved(g)
    <3>1. target' \in Paths
      BY <2>3, PathFacts DEF save_state
    <3> QED
      BY <1>3, <2>3, <3>1 DEF save_state
  <2>4. CASE (\E n \in Slot : load_state(n)) \/ \E n \in {0, 1} : retro_run(n)
    BY <1>1, <2>4 DEF load_state, retro_run
  <2>5. CASE sync_not_due \/ sync_unchanged \/ sync_refused
    BY <1>1, <2>5 DEF sync_not_due, sync_unchanged, sync_refused
  <2> QED
    BY <1>6, <2>1, <2>2, <2>3, <2>4, <2>5 DEF Run
<1>7. CASE \E content \in Partial : crash(content)
  BY <1>2, <1>7 DEF crash, ends
<1> QED
  BY <1>4, <1>5, <1>6, <1>7 DEF Next, write_ends, write_fails

\* At the end of a write: whole, it holds the RAM, which is not behind the file
\* where it continues it.
LEMMA LossStep ==
  ASSUME Inv, Next, NEW g \in Game, Loses(g)
  PROVE  /\ at = "writing" /\ target = save_snapshot_path(g)
         /\ \/ CutShort
            \/ game # g
            \/ parted \cap {"unread", "loaded"} # {}
<1>1. Saved(g) \in Nat /\ Saved(g)' < Saved(g)
  BY InvFacts DEF Loses
<1>2. at = "writing"
  BY <1>1, NothingLost
<1>3. PICK content \in Content : target' = <<>> /\ files' = [files EXCEPT ![target] = content]
  <2>1. Partial \subseteq Content /\ ram \in Content
    BY <1>2, PartialFacts, InvFacts DEF Running
  <2>2. write_ends \/ \E c \in Partial : write_fails(c) \/ crash(c)
    BY <1>2 DEF Next, start, Load, Run, Loading, collect_core_option_definitions,
         collect_legacy_core_options, set_hw_render, hw_create_fails, retro_load_game_retry,
         retro_load_game_fails, restore_sram_from_disk, retro_run, sync_not_due, sync_unchanged,
         sync_refused, sync_save_ram_to_disk, save_state, load_state, leave_loop
  <2> QED
    BY <1>2, <2>1, <2>2 DEF write_ends, write_fails, crash, ends
<1>4. /\ files'[target] = content
      /\ target # save_snapshot_path(g) => Saved(g)' = Saved(g)
      /\ target = save_snapshot_path(g) => Saved(g)' = Worth(g, content)
  BY <1>2, <1>3, WriteLeaves
<1>5. target = save_snapshot_path(g)
  BY <1>1, <1>4
<1>6. ASSUME ~CutShort, game = g, parted \cap {"unread", "loaded"} = {}
      PROVE  FALSE
  <2>1. Worth(g, ram) >= Saved(g) /\ Worth(g, ram) \in Nat
    BY <1>2, <1>6, InvFacts DEF Inv, RamIsNewest, Running
  <2>2. Saved(g)' = Worth(g, ram)
    BY <1>4, <1>5, <1>6 DEF CutShort
  <2> QED
    BY <1>1, <2>1, <2>2
<1> QED
  BY <1>2, <1>5, <1>6
-----------------------------------------------------------------------------

\* Whatever the core and the file system do, the state is well formed: at most
\* two attempts, a clock that stays within the sync interval, files that hold
\* nothing or the RAM of some game.
THEOREM TypeCorrect == Spec => []TypeOK
<1>1. Inv => TypeOK
  BY DEF Inv
<1> QED
  BY <1>1, Invariant, PTL

\* A game's battery file loses progress only at the end of a write of it, and
\* only if that was cut short, came from the session of another game that
\* shares the file, or from RAM that does not continue the file (a failed
\* restore, a loaded state); over any number of sessions, stops and crashes.
THEOREM BatteryFilesOnlyImprove == Spec => SavesOnlyImprove
<1>1. Inv /\ [Next]_vars =>
        [\A g \in Game : Loses(g) =>
           /\ at = "writing" /\ target = save_snapshot_path(g)
           /\ \/ CutShort
              \/ game # g
              \/ parted \cap {"unread", "loaded"} # {}]_vars
  BY LossStep
<1> QED
  BY <1>1, Invariant, PTL DEF Spec, SavesOnlyImprove

\* A crash or a stop between two writes costs at most one sync interval.
THEOREM ProgressLostIsBounded == Spec => []LossIsBounded
<1>1. Inv => LossIsBounded
  <2> SUFFICES ASSUME Inv, at \in {"loop", "synced?"}, parted = {}
               PROVE  Worth(game, ram) - Saved(game) <= Interval
    BY DEF LossIsBounded
  <2>1. Running /\ target # Battery
    BY InvFacts, PathFacts DEF Running
  <2>2. Worth(game, ram) - Saved(game) <= due
    BY <2>1 DEF Inv, UnsavedIsRecent
  <2>3. due \in 0 .. Interval /\ Interval \in Nat
    BY InvFacts DEF Inv, TypeOK
  <2>4. Worth(game, ram) \in Nat /\ Saved(game) \in Nat
    BY InvFacts
  <2> QED
    BY <2>2, <2>3, <2>4
<1> QED
  BY <1>1, Invariant, PTL

\* A session sees no context and no EGL or GBM object of the one before it in
\* the process, however that one ended and wherever creating its context
\* failed, and no option of another core once its own has declared some.
THEOREM NothingIsLeftBehind == Spec => []SessionsAreSeparate
<1>1. Inv => SessionsAreSeparate
  <2> SUFFICES ASSUME Inv
               PROVE  SessionsAreSeparate
    OBVIOUS
  <2>1. hw # 0 => at # "out" /\ game \in UsesHw
    BY DEF Inv, PlaceOK, SessionOK
  <2>2. declared => \A key \in Keys \ Own : get_variable(key) = {}
    BY DEF Inv, SessionOK, get_variable
  <2>3. (hw = 1 => current = 1) /\ \A r \in live : hw = r[2]
    BY DEF Inv, SessionOK
  <2> QED
    BY <2>1, <2>2, <2>3 DEF SessionsAreSeparate
<1> QED
  BY <1>1, Invariant, PTL
=============================================================================
