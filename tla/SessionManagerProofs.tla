----------------------- MODULE SessionManagerProofs -----------------------
(***************************************************************************)
(* Proofs about SessionManager, for any number of threads, runtimes and    *)
(* commands.                                                               *)
(*                                                                         *)
(* The invariant says where every JoinHandle is.  Its first part holds for *)
(* any callers; the second, that no runtime is lost, needs one starter:    *)
(* the second of two concurrent starts overwrites the first one's runtime. *)
(* The third says which sessions have the core and the context to          *)
(* themselves, and how the end of the newest is reported.                  *)
(***************************************************************************)
EXTENDS SessionManager, FiniteSetTheorems, TLAPS

\* A thread holds a runtime exactly at these points of its call.
Holding == {"reaped", "signal", "join", "publish"}

\* Which calls pass through which points, and what is known of the runtime.
CallOK(t) ==
    /\ calls[t].held # NoRuntime <=> calls[t].at \in Holding
    /\ calls[t].at \in {"prepare", "publish"} => calls[t].op = "start"
    /\ calls[t].at \in {"signal", "join"} => calls[t].op \in {"start", "stop", "shutdown"}
    /\ calls[t].at \in {"reap", "reaped", "work"} => calls[t].op # "shutdown"
    /\ calls[t].at = "reaped" => Finished(calls[t].held)
    /\ calls[t].at = "publish" => ~runtimes[calls[t].held].shutdown
    /\ calls[t].held # NoRuntime =>
         runtimes[calls[t].held].phase # "unborn" /\ calls[t].held # active

OneHolder ==
    \A t, u \in Callers : calls[t].held = calls[u].held /\ t # u
                              => calls[t].held = NoRuntime

ActiveOK ==
    active # NoRuntime => /\ ~runtimes[active].shutdown
                          /\ runtimes[active].phase # "unborn"

UnbornOK == \A r \in Runtime : runtimes[r].phase = "unborn" => ~runtimes[r].shutdown

HandleInv ==
    /\ TypeOK
    /\ \A t \in Callers : CallOK(t)
    /\ OneHolder
    /\ ActiveOK
    /\ UnbornOK

\* Main holds no handle but the boot session's when the process starts.
THEOREM HandlesInit == Init => HandleInv
<1> SUFFICES ASSUME Init PROVE HandleInv
  OBVIOUS
<1> USE DEF Init
<1>1. TypeOK
  <2>1. runtimes \in [Runtime -> RuntimeState]
    <3>1. <<>> \in Seq(Command)
      OBVIOUS
    <3> QED BY <3>1 DEF RuntimeState, Unborn, Phase, Exit, NoExit
  <2>2. calls \in [Callers -> Call]
    BY DEF Call, Idle, Op, At, Callers
  <2> QED BY <2>1, <2>2 DEF TypeOK, Unborn, NoExit, Exit
<1>2. \A t \in Callers : CallOK(t)
  BY DEF CallOK, Idle, Holding, Callers
<1>3. OneHolder
  BY DEF OneHolder, Idle
<1>4. ActiveOK /\ UnbornOK
  BY DEF ActiveOK, UnbornOK, Unborn
<1> QED BY <1>1, <1>2, <1>3, <1>4 DEF HandleInv

-----------------------------------------------------------------------------
(* The steps of the callers. *)

\* A thread that goes on changes its own call only.
LEMMA CallMoves ==
    ASSUME calls \in [Callers -> Call], NEW t \in Callers, NEW a \in At,
           NEW r \in Runtime \cup {NoRuntime}, Goes(t, a, r)
    PROVE  /\ calls' \in [Callers -> Call]
           /\ calls'[t].at = a /\ calls'[t].held = r
           /\ calls'[t].op = calls[t].op /\ calls'[t].force = calls[t].force
           /\ \A u \in Callers \ {t} : calls'[u] = calls[u]
BY DEF Goes, Call

LEMMA CallReturns ==
    ASSUME calls \in [Callers -> Call], NEW t \in Callers, Returns(t)
    PROVE  /\ calls' \in [Callers -> Call]
           /\ calls'[t].at = "idle" /\ calls'[t].held = NoRuntime
           /\ calls'[t].op = "status" /\ ~calls'[t].force
           /\ \A u \in Callers \ {t} : calls'[u] = calls[u]
BY DEF Returns, Idle, Call, At, Op

\* A runtime nobody else holds may be held by one more thread.
LEMMA StillOneHolder ==
    ASSUME HandleInv, NEW t \in Callers,
           \A u \in Callers \ {t} : calls'[u] = calls[u],
           calls'[t].held # NoRuntime
               => \A u \in Callers \ {t} : calls[u].held # calls'[t].held
    PROVE  OneHolder'
BY DEF HandleInv, OneHolder

\* What a step says of one runtime leaves the others alone.
LEMMA RuntimeChanges ==
    ASSUME runtimes \in [Runtime -> RuntimeState], NEW r \in Runtime,
           NEW v \in RuntimeState, runtimes' = [runtimes EXCEPT ![r] = v]
    PROVE  /\ runtimes' \in [Runtime -> RuntimeState]
           /\ runtimes'[r] = v
           /\ \A q \in Runtime \ {r} : runtimes'[q] = runtimes[q]
OBVIOUS

LEMMA ReapKeeps ==
    ASSUME HandleInv, NEW t \in Callers, reap(t)
    PROVE  HandleInv'
<1>1. /\ active \in Runtime \cup {NoRuntime} /\ calls \in [Callers -> Call]
      /\ CallOK(t) /\ ActiveOK /\ calls[t].at = "reap"
  BY DEF HandleInv, TypeOK, reap
<1>2. {"reaped", "work"} \subseteq At
  BY DEF At
<1>3. CASE active # NoRuntime /\ Finished(active)
  <2>1. Goes(t, "reaped", active) /\ active' = NoRuntime
    BY <1>3 DEF reap
  <2>2. /\ calls' \in [Callers -> Call]
        /\ calls'[t].at = "reaped" /\ calls'[t].held = active
        /\ calls'[t].op = calls[t].op
        /\ \A u \in Callers \ {t} : calls'[u] = calls[u]
    BY <1>1, <1>2, <2>1, CallMoves
  <2>3. \A u \in Callers \ {t} : calls[u].held # active
    BY <1>3 DEF HandleInv, CallOK
  <2>4. OneHolder'
    BY <2>2, <2>3, StillOneHolder
  <2>5. \A u \in Callers : CallOK(u)'
    <3>1. CallOK(t)'
      BY <1>1, <1>3, <2>1, <2>2 DEF CallOK, Holding, ActiveOK, Finished, reap
    <3>2. \A u \in Callers \ {t} : CallOK(u)'
      BY <2>1, <2>2 DEF HandleInv, CallOK, Holding, Finished, reap
    <3> QED BY <3>1, <3>2
  <2>6. TypeOK'
    BY <2>1, <2>2 DEF HandleInv, TypeOK, reap
  <2>7. ActiveOK' /\ UnbornOK'
    BY <2>1 DEF HandleInv, ActiveOK, UnbornOK, reap
  <2> QED BY <2>4, <2>5, <2>6, <2>7 DEF HandleInv
<1>4. CASE ~(active # NoRuntime /\ Finished(active))
  <2>1. Goes(t, "work", NoRuntime) /\ active' = active
    BY <1>4 DEF reap
  <2>2. /\ calls' \in [Callers -> Call]
        /\ calls'[t].at = "work" /\ calls'[t].held = NoRuntime
        /\ calls'[t].op = calls[t].op
        /\ \A u \in Callers \ {t} : calls'[u] = calls[u]
    BY <1>1, <1>2, <2>1, CallMoves
  <2>3. OneHolder'
    BY <2>2, StillOneHolder
  <2>4. \A u \in Callers : CallOK(u)'
    BY <1>1, <2>1, <2>2 DEF HandleInv, CallOK, Holding, Finished, reap
  <2>5. TypeOK'
    BY <2>1, <2>2 DEF HandleInv, TypeOK, reap
  <2>6. ActiveOK' /\ UnbornOK'
    BY <2>1 DEF HandleInv, ActiveOK, UnbornOK, reap
  <2> QED BY <2>3, <2>4, <2>5, <2>6 DEF HandleInv
<1> QED BY <1>3, <1>4

LEMMA StartTakeKeeps ==
    ASSUME HandleInv, NEW t \in Callers, start_take(t)
    PROVE  HandleInv'
<1> DEFINE a == IF active = NoRuntime THEN "prepare" ELSE "signal"
<1>1. /\ active \in Runtime \cup {NoRuntime} /\ calls \in [Callers -> Call]
      /\ CallOK(t) /\ ActiveOK /\ calls[t].at = "work" /\ calls[t].op = "start"
      /\ Goes(t, a, active) /\ active' = NoRuntime /\ runtimes' = runtimes
  BY DEF HandleInv, TypeOK, start_take
<1>2. a \in At
  BY DEF At
<1>3. /\ calls' \in [Callers -> Call]
      /\ calls'[t].at = a /\ calls'[t].held = active /\ calls'[t].op = "start"
      /\ \A u \in Callers \ {t} : calls'[u] = calls[u]
  BY <1>1, <1>2, CallMoves
<1>4. active # NoRuntime => \A u \in Callers \ {t} : calls[u].held # active
  BY DEF HandleInv, CallOK
<1>5. OneHolder'
  BY <1>3, <1>4, StillOneHolder
<1>6. CallOK(t)'
  BY <1>1, <1>3 DEF CallOK, Holding, ActiveOK, Finished
<1>7. \A u \in Callers \ {t} : CallOK(u)'
  BY <1>1, <1>3 DEF HandleInv, CallOK, Holding, Finished
<1>8. TypeOK'
  BY <1>1, <1>3 DEF HandleInv, TypeOK, start_take
<1>9. ActiveOK' /\ UnbornOK'
  BY <1>1 DEF HandleInv, ActiveOK, UnbornOK
<1> QED BY <1>5, <1>6, <1>7, <1>8, <1>9 DEF HandleInv

LEMMA RequestKeeps ==
    ASSUME HandleInv, NEW t \in Callers, request(t)
    PROVE  HandleInv'
<1>1. /\ active \in Runtime \cup {NoRuntime} /\ calls \in [Callers -> Call]
      /\ runtimes \in [Runtime -> RuntimeState]
      /\ CallOK(t) /\ calls[t].at = "work" /\ Returns(t) /\ active' = active
  BY DEF HandleInv, TypeOK, request
<1>2. /\ calls' \in [Callers -> Call]
      /\ calls'[t].at = "idle" /\ calls'[t].held = NoRuntime
      /\ \A u \in Callers \ {t} : calls'[u] = calls[u]
  BY <1>1, CallReturns
<1>3. /\ runtimes' \in [Runtime -> RuntimeState]
      /\ \A r \in Runtime : /\ runtimes'[r].phase = runtimes[r].phase
                            /\ runtimes'[r].shutdown = runtimes[r].shutdown
                            /\ runtimes'[r].exit = runtimes[r].exit
  <2>1. CASE active = NoRuntime
    BY <1>1, <2>1 DEF request
  <2>2. CASE active # NoRuntime
    <3>1. PICK c \in Command :
            runtimes' = [runtimes EXCEPT ![active].commands = Append(@, c)]
      BY <2>2 DEF request
    <3>2. Append(runtimes[active].commands, c) \in Seq(Command)
      BY <1>1, <2>2 DEF RuntimeState
    <3> QED BY <1>1, <2>2, <3>1, <3>2 DEF RuntimeState
  <2> QED BY <2>1, <2>2
<1>4. OneHolder'
  BY <1>2, StillOneHolder
<1>5. CallOK(t)'
  BY <1>2 DEF CallOK, Holding
<1>6. \A u \in Callers \ {t} : CallOK(u)'
  <2> SUFFICES ASSUME NEW u \in Callers \ {t} PROVE CallOK(u)'
    OBVIOUS
  <2>1. calls'[u] = calls[u] /\ calls[u].held \in Runtime \cup {NoRuntime} /\ CallOK(u)
    BY <1>1, <1>2 DEF HandleInv, Call
  <2> QED BY <1>1, <1>3, <2>1 DEF CallOK, Holding, Finished, NoRuntime, Runtime
<1>7. TypeOK'
  BY <1>1, <1>2, <1>3 DEF HandleInv, TypeOK, request
<1>8. ActiveOK' /\ UnbornOK'
  BY <1>1, <1>3 DEF HandleInv, ActiveOK, UnbornOK
<1> QED BY <1>4, <1>5, <1>6, <1>7, <1>8 DEF HandleInv

LEMMA SignalKeeps ==
    ASSUME HandleInv, NEW t \in Callers, signal(t)
    PROVE  HandleInv'
<1> DEFINE r == calls[t].held
<1>1. /\ calls \in [Callers -> Call] /\ runtimes \in [Runtime -> RuntimeState]
      /\ CallOK(t) /\ calls[t].at = "signal" /\ active' = active
      /\ Goes(t, "join", r) /\ r \in Runtime \cup {NoRuntime}
      /\ runtimes' = [runtimes EXCEPT ![r].shutdown = TRUE]
  BY DEF HandleInv, TypeOK, signal, Call
<1>2. r \in Runtime /\ r # NoRuntime /\ r # active /\ runtimes[r].phase # "unborn"
  BY <1>1 DEF CallOK, Holding
<1>3. "join" \in At
  BY DEF At
<1>4. /\ calls' \in [Callers -> Call]
      /\ calls'[t].at = "join" /\ calls'[t].held = r /\ calls'[t].op = calls[t].op
      /\ \A u \in Callers \ {t} : calls'[u] = calls[u]
  BY <1>1, <1>3, CallMoves
<1>5. /\ runtimes' \in [Runtime -> RuntimeState]
      /\ \A q \in Runtime : /\ runtimes'[q].phase = runtimes[q].phase
                            /\ runtimes'[q].exit = runtimes[q].exit
                            /\ q # r => runtimes'[q].shutdown = runtimes[q].shutdown
  BY ZenonT(30), <1>1, <1>2 DEF RuntimeState
<1>6. \A u \in Callers \ {t} : calls[u].held # r
  BY <1>2 DEF HandleInv, OneHolder
<1>7. OneHolder'
  BY <1>4, <1>6, StillOneHolder
<1>8. CallOK(t)'
  BY <1>1, <1>2, <1>4, <1>5 DEF CallOK, Holding, Finished
<1>9. \A u \in Callers \ {t} : CallOK(u)'
  <2> SUFFICES ASSUME NEW u \in Callers \ {t} PROVE CallOK(u)'
    OBVIOUS
  <2>1. /\ calls'[u] = calls[u] /\ calls[u].held \in Runtime \cup {NoRuntime}
        /\ CallOK(u) /\ calls[u].held # r
    BY <1>1, <1>4, <1>6 DEF HandleInv, Call
  <2> QED BY <1>1, <1>5, <2>1 DEF CallOK, Holding, Finished
<1>10. TypeOK'
  BY <1>1, <1>4, <1>5 DEF HandleInv, TypeOK, signal
<1>11. ActiveOK' /\ UnbornOK'
  BY <1>1, <1>2, <1>5 DEF HandleInv, ActiveOK, UnbornOK, TypeOK
<1> QED BY <1>7, <1>8, <1>9, <1>10, <1>11 DEF HandleInv

LEMMA JoinedKeeps ==
    ASSUME HandleInv, NEW t \in Callers, joined(t)
    PROVE  HandleInv'
<1>1. /\ calls \in [Callers -> Call] /\ CallOK(t) /\ calls[t].at = "join"
      /\ active' = active /\ runtimes' = runtimes
      /\ runtimes \in [Runtime -> RuntimeState] /\ calls[t].held \in Runtime
  BY DEF HandleInv, TypeOK, joined, Call, CallOK, Holding
<1>2. "prepare" \in At
  BY DEF At
<1>3. /\ calls' \in [Callers -> Call]
      /\ calls'[t].held = NoRuntime
      /\ calls'[t].at \in {"prepare", "idle"}
      /\ calls'[t].at = "prepare" => calls'[t].op = "start"
      /\ \A u \in Callers \ {t} : calls'[u] = calls[u]
  <2>1. CASE calls[t].op = "start"
    BY <1>1, <1>2, <2>1, CallMoves DEF joined
  <2>2. CASE calls[t].op # "start"
    BY <1>1, <2>2, CallReturns DEF joined
  <2> QED BY <2>1, <2>2
<1>4. OneHolder'
  BY <1>3, StillOneHolder
<1>5. CallOK(t)'
  BY <1>3 DEF CallOK, Holding
<1>6. \A u \in Callers \ {t} : CallOK(u)'
  BY <1>1, <1>3 DEF HandleInv, CallOK, Holding, Finished
<1>7. TypeOK'
  BY <1>1, <1>3 DEF HandleInv, TypeOK, joined, RuntimeState
<1>8. ActiveOK' /\ UnbornOK'
  BY <1>1 DEF HandleInv, ActiveOK, UnbornOK
<1> QED BY <1>4, <1>5, <1>6, <1>7, <1>8 DEF HandleInv

LEMMA SpawnKeeps ==
    ASSUME HandleInv, NEW t \in Callers, spawn_runtime(t)
    PROVE  HandleInv'
<1>1. /\ calls \in [Callers -> Call] /\ runtimes \in [Runtime -> RuntimeState]
      /\ CallOK(t) /\ calls[t].at = "prepare" /\ active' = active
  BY DEF HandleInv, TypeOK, spawn_runtime
<1>2. PICK r \in Runtime, m \in {"mock", "libretro"} :
        /\ runtimes[r].phase = "unborn"
        /\ runtimes' = [runtimes EXCEPT ![r].phase = "starting", ![r].mode = m]
        /\ Goes(t, "publish", r)
  BY DEF spawn_runtime
<1>3. "publish" \in At
  BY DEF At
<1>4. /\ calls' \in [Callers -> Call]
      /\ calls'[t].at = "publish" /\ calls'[t].held = r /\ calls'[t].op = calls[t].op
      /\ \A u \in Callers \ {t} : calls'[u] = calls[u]
  BY <1>1, <1>2, <1>3, CallMoves
<1>5. /\ runtimes' \in [Runtime -> RuntimeState]
      /\ runtimes'[r].phase = "starting"
      /\ \A q \in Runtime : /\ runtimes'[q].shutdown = runtimes[q].shutdown
                            /\ runtimes'[q].exit = runtimes[q].exit
                            /\ q # r => runtimes'[q].phase = runtimes[q].phase
  BY ZenonT(30), <1>1, <1>2 DEF RuntimeState, Phase
<1>6. r # NoRuntime /\ r # active /\ ~runtimes[r].shutdown /\ runtimes[r].exit = NoExit
  BY <1>2 DEF HandleInv, ActiveOK, UnbornOK, TypeOK, Runtime, NoRuntime
<1>7. \A u \in Callers \ {t} : calls[u].held # r
  BY <1>2, <1>6 DEF HandleInv, CallOK
<1>8. OneHolder'
  BY <1>4, <1>7, StillOneHolder
<1>9. CallOK(t)'
  BY <1>1, <1>4, <1>5, <1>6 DEF CallOK, Holding, Finished
<1>10. \A u \in Callers \ {t} : CallOK(u)'
  <2> SUFFICES ASSUME NEW u \in Callers \ {t} PROVE CallOK(u)'
    OBVIOUS
  <2>1. /\ calls'[u] = calls[u] /\ calls[u].held \in Runtime \cup {NoRuntime}
        /\ CallOK(u) /\ calls[u].held # r
    BY <1>1, <1>4, <1>7 DEF HandleInv, Call
  <2> QED BY <1>1, <1>5, <2>1 DEF CallOK, Holding, Finished
<1>11. TypeOK'
  <2>1. overlapped' \subseteq Runtime
    <3>1. InOtherHands(t) \subseteq Runtime /\ overlapped \subseteq Runtime
      BY <1>1 DEF InOtherHands, Call, HandleInv, TypeOK
    <3> QED BY <3>1 DEF spawn_runtime
  <2> QED BY <1>1, <1>4, <1>5, <1>6, <2>1 DEF HandleInv, TypeOK, spawn_runtime
<1>12. ActiveOK' /\ UnbornOK'
  BY <1>1, <1>5, <1>6 DEF HandleInv, ActiveOK, UnbornOK, TypeOK
<1> QED BY <1>8, <1>9, <1>10, <1>11, <1>12 DEF HandleInv

\* The calls that touch no runtime, and the record of a reaped one.
LEMMA OtherCallsKeep ==
    ASSUME HandleInv, NEW t \in Callers,
           \/ reap_joined(t) \/ start_refused(t) \/ stop_take(t) \/ status(t)
           \/ prepare_fails(t) \/ publish(t)
    PROVE  HandleInv'
<1> USE DEF HandleInv, TypeOK, CallOK, OneHolder, ActiveOK, UnbornOK, Holding,
            Goes, Returns, Idle, Finished, Call, At, Op, RuntimeState, Phase,
            Exit, NoExit, NoRuntime
<1>1. CASE reap_joined(t)
  BY <1>1, SMTT(60) DEF reap_joined
<1>2. CASE start_refused(t)
  BY <1>2, SMTT(60) DEF start_refused
<1>3. CASE stop_take(t)
  BY <1>3, SMTT(60) DEF stop_take
<1>4. CASE status(t)
  BY <1>4, SMTT(60) DEF status
<1>5. CASE prepare_fails(t)
  BY <1>5, SMTT(60) DEF prepare_fails
<1>6. CASE publish(t)
  BY <1>6, SMTT(60) DEF publish
<1> QED BY <1>1, <1>2, <1>3, <1>4, <1>5, <1>6

-----------------------------------------------------------------------------
(* The other steps. *)

LEMMA ArrivalKeeps ==
    ASSUME HandleInv, NEW t \in Thread, Arrives(t)
    PROVE  HandleInv'
<1>1. PICK op \in {"start", "stop", "status", "request"}, force \in BOOLEAN :
        call(t, op, force)
  BY DEF Arrives
<1>2. t \in Callers /\ calls \in [Callers -> Call]
  BY DEF Callers, HandleInv, TypeOK
<1>3. /\ calls' \in [Callers -> Call]
      /\ calls'[t].at = "reap" /\ calls'[t].held = NoRuntime /\ calls'[t].op = op
      /\ \A u \in Callers \ {t} : calls'[u] = calls[u]
  BY <1>1, <1>2 DEF call, Call, At, Op
<1>4. OneHolder'
  BY <1>2, <1>3, StillOneHolder
<1>5. \A u \in Callers : CallOK(u)'
  BY <1>1, <1>3 DEF HandleInv, CallOK, Holding, Finished, call
<1>6. TypeOK'
  BY <1>1, <1>3 DEF HandleInv, TypeOK, call
<1>7. ActiveOK' /\ UnbornOK'
  BY <1>1 DEF HandleInv, ActiveOK, UnbornOK, call
<1> QED BY <1>4, <1>5, <1>6, <1>7 DEF HandleInv

LEMMA ShutdownKeeps ==
    ASSUME HandleInv, shutdown_and_join
    PROVE  HandleInv'
<1>1. /\ Main \in Callers /\ calls \in [Callers -> Call] /\ calls[Main].at = "idle"
      /\ active \in Runtime \cup {NoRuntime} /\ active' = NoRuntime
      /\ runtimes' = runtimes /\ ActiveOK
  BY DEF Callers, HandleInv, TypeOK, shutdown_and_join, IsIdle
<1>2. CASE active = NoRuntime
  BY <1>1, <1>2 DEF shutdown_and_join, HandleInv, TypeOK, CallOK, OneHolder,
                    ActiveOK, UnbornOK, Finished
<1>3. CASE active # NoRuntime
  <2> DEFINE c == [op |-> "shutdown", at |-> "signal", held |-> active, force |-> FALSE]
  <2>a. c \in Call
    BY <1>1 DEF Call, At, Op
  <2>b. calls' = [calls EXCEPT ![Main] = c]
    BY <1>3 DEF shutdown_and_join
  <2>1. /\ calls' \in [Callers -> Call]
        /\ calls'[Main].at = "signal" /\ calls'[Main].held = active
        /\ calls'[Main].op = "shutdown"
        /\ \A u \in Callers \ {Main} : calls'[u] = calls[u]
    BY <1>1, <2>a, <2>b
  <2>2. \A u \in Callers \ {Main} : calls[u].held # active
    BY <1>3 DEF HandleInv, CallOK
  <2>3. OneHolder'
    BY <1>1, <2>1, <2>2, StillOneHolder
  <2>4. CallOK(Main)'
    BY <1>1, <1>3, <2>1 DEF CallOK, Holding, ActiveOK
  <2>5. \A u \in Callers \ {Main} : CallOK(u)'
    BY <1>1, <2>1 DEF HandleInv, CallOK, Holding, Finished
  <2>6. TypeOK'
    BY <1>1, <2>1 DEF HandleInv, TypeOK, shutdown_and_join
  <2>7. ActiveOK' /\ UnbornOK'
    BY <1>1 DEF HandleInv, ActiveOK, UnbornOK
  <2> QED BY <2>3, <2>4, <2>5, <2>6, <2>7 DEF HandleInv
<1> QED BY <1>2, <1>3

\* A runtime's own step changes no flag and no handle; a runtime that has
\* returned stays so, and one that has not been spawned does nothing.
LEMMA RuntimeFacts ==
    ASSUME HandleInv, NEW r \in Runtime, RuntimeStep(r)
    PROVE  /\ UNCHANGED <<active, last_exit, calls, stage, overlapped>>
           /\ runtimes' \in [Runtime -> RuntimeState]
           /\ context' \in BOOLEAN /\ core' \in {"down", "up", "loaded"}
           /\ \A q \in Runtime :
                /\ runtimes'[q].shutdown = runtimes[q].shutdown
                /\ runtimes'[q].phase = "unborn" <=> runtimes[q].phase = "unborn"
                /\ Finished(q) => Finished(q)'
                /\ runtimes'[q].exit # NoExit <=>
                      runtimes'[q].phase \in {"deinited", "finished"}
<1> USE DEF HandleInv, TypeOK, OnlyRuntimes, Is, Moves, Ends, Finished,
            RuntimeState, Phase, Exit, NoExit
<1>1. <<>> \in Seq(Command)
  OBVIOUS
<1>2. CASE load_library_fails(r)
  BY SMTT(30), <1>2 DEF load_library_fails
<1>3. CASE set_callback_context(r)
  BY <1>3 DEF set_callback_context
<1>4. CASE retro_init(r)
  BY SMTT(30), <1>4 DEF retro_init
<1>5. CASE content_path_refused(r)
  BY SMTT(30), <1>5 DEF content_path_refused
<1>6. CASE retro_load_game(r)
  BY <1>6 DEF retro_load_game
<1>7. CASE retro_load_game_fails(r)
  BY <1>7 DEF retro_load_game_fails
<1>8. CASE run_frame(r)
  BY ZenonT(30), <1>1, <1>8 DEF run_frame
<1>9. CASE leave_loop(r)
  BY <1>9 DEF leave_loop
<1>10. CASE retro_deinit(r)
  BY SMTT(30), <1>10 DEF retro_deinit
<1>11. CASE clear_callback_context(r)
  BY ZenonT(30), <1>11 DEF clear_callback_context
<1>12. CASE mock_runs(r)
  BY <1>12 DEF mock_runs
<1>13. CASE mock_returns(r)
  <2> DEFINE v == [runtimes[r] EXCEPT !.phase = "finished", !.exit = "stopped"]
  <2>1. /\ runtimes' = [runtimes EXCEPT ![r] = v]
        /\ UNCHANGED <<active, last_exit, calls, stage, context, core, overlapped>>
    BY <1>13 DEF mock_returns
  <2>2. runtimes[r].phase \in {"starting", "running"}
    BY <1>13 DEF mock_returns
  <2>3. /\ v \in RuntimeState
        /\ v.phase = "finished" /\ v.exit = "stopped"
        /\ v.shutdown = runtimes[r].shutdown
    BY ZenonT(30)
  <2>4. /\ runtimes' \in [Runtime -> RuntimeState] /\ runtimes'[r] = v
        /\ \A q \in Runtime \ {r} : runtimes'[q] = runtimes[q]
    BY <2>1, <2>3, RuntimeChanges
  <2> HIDE DEF v
  <2> QED BY <2>1, <2>2, <2>3, <2>4
<1> QED BY <1>2, <1>3, <1>4, <1>5, <1>6, <1>7, <1>8, <1>9, <1>10, <1>11, <1>12,
           <1>13 DEF RuntimeStep

LEMMA RuntimeKeeps ==
    ASSUME HandleInv, NEW r \in Runtime, RuntimeStep(r)
    PROVE  HandleInv'
<1>1. /\ UNCHANGED <<active, last_exit, calls, stage, overlapped>>
      /\ runtimes' \in [Runtime -> RuntimeState]
      /\ context' \in BOOLEAN /\ core' \in {"down", "up", "loaded"}
      /\ \A q \in Runtime :
           /\ runtimes'[q].shutdown = runtimes[q].shutdown
           /\ runtimes'[q].phase = "unborn" <=> runtimes[q].phase = "unborn"
           /\ Finished(q) => Finished(q)'
           /\ runtimes'[q].exit # NoExit <=>
                 runtimes'[q].phase \in {"deinited", "finished"}
  BY RuntimeFacts
<1>2. TypeOK'
  BY <1>1 DEF HandleInv, TypeOK
<1>3. \A t \in Callers : CallOK(t)'
  <2> SUFFICES ASSUME NEW t \in Callers PROVE CallOK(t)'
    OBVIOUS
  <2>1. CallOK(t) /\ calls[t].held \in Runtime \cup {NoRuntime}
    BY DEF HandleInv, TypeOK, Call
  <2> QED BY <1>1, <2>1 DEF CallOK, Holding
<1>4. OneHolder' /\ ActiveOK' /\ UnbornOK'
  BY <1>1 DEF HandleInv, OneHolder, ActiveOK, UnbornOK, TypeOK
<1> QED BY <1>2, <1>3, <1>4 DEF HandleInv

-----------------------------------------------------------------------------

LEMMA CallKeeps ==
    ASSUME HandleInv, NEW t \in Callers, CallStep(t)
    PROVE  HandleInv'
BY ReapKeeps, StartTakeKeeps, RequestKeeps, SignalKeeps, JoinedKeeps, SpawnKeeps,
   OtherCallsKeep DEF CallStep

LEMMA NextKeeps ==
    ASSUME HandleInv, [Next]_vars
    PROVE  HandleInv'
<1>1. CASE \E t \in Thread : Arrives(t)
  BY <1>1, ArrivalKeeps
<1>2. CASE \E t \in Callers : CallStep(t)
  BY <1>2, CallKeeps
<1>3. CASE \E r \in Runtime : RuntimeStep(r)
  BY <1>3, RuntimeKeeps
<1>4. CASE drain
  BY <1>4 DEF drain, HandleInv, TypeOK, CallOK, OneHolder, ActiveOK, UnbornOK, Finished
<1>5. CASE shutdown_and_join
  BY <1>5, ShutdownKeeps
<1>6. CASE UNCHANGED vars
  BY <1>6 DEF vars, HandleInv, TypeOK, CallOK, OneHolder, ActiveOK, UnbornOK, Finished
<1> QED BY <1>1, <1>2, <1>3, <1>4, <1>5, <1>6 DEF Next

\* Every JoinHandle is in one place, in every reachable state, whatever calls
\* come in and however they interleave.
THEOREM HandlesInvariant == Spec => []HandleInv
<1>1. Init => HandleInv
  BY HandlesInit
<1>2. HandleInv /\ [Next]_vars => HandleInv'
  BY NextKeeps
<1> QED BY <1>1, <1>2, PTL DEF Spec

\* The variables keep their types, and a runtime has an exit exactly once it
\* has ended.
THEOREM ManagerTypes == Spec => []TypeOK
<1>1. HandleInv => TypeOK
  BY DEF HandleInv
<1> QED BY <1>1, HandlesInvariant, PTL

\* The session that status reports is one nobody has asked to stop.
THEOREM ActiveIsAlive == Spec => []ActiveIsNotBeingStopped
<1>1. HandleInv => ActiveIsNotBeingStopped
  BY DEF HandleInv, ActiveIsNotBeingStopped, ActiveOK, CallOK, Held
<1> QED BY <1>1, HandlesInvariant, PTL

-----------------------------------------------------------------------------
(* With one starter no runtime is lost. *)

Quiet == \A t \in Thread : IsIdle(t) \/ calls[t].op = "request"

\* When main works and what the workers may then be doing.
StageOK ==
    /\ stage = "booting" => \A t \in Thread : IsIdle(t)
    /\ ~IsIdle(Main) =>
         \/ calls[Main].op = "start" /\ stage = "booting"
         \/ calls[Main].op = "shutdown" /\ stage = "draining" /\ active = NoRuntime /\ Quiet
    /\ stage = "ended" => Quiet /\ active = NoRuntime
    /\ \A t \in Thread : ~IsIdle(t) =>
         /\ calls[t].op # "shutdown"
         /\ calls[t].op = "start" => t \in Starter

\* A start past its first section has seen, or made, the manager empty.
Committed(t) ==
    \/ calls[t].at \in {"prepare", "publish"}
    \/ calls[t].at \in {"signal", "join"} /\ calls[t].op = "start"

StartOK == \A t \in Callers : Committed(t) => active = NoRuntime

OwnerInv ==
    /\ HandleInv
    /\ StageOK
    /\ StartOK
    /\ EveryRuntimeHasAnOwner
    /\ ShutdownEndsEverything

\* Thread t alone moves: the premises of the next lemmas.
OnlyCall(t) == \A u \in Callers \ {t} : calls'[u] = calls[u]
SamePhases == \A r \in Runtime : runtimes'[r].phase = runtimes[r].phase

LEMMA MainAndThreads == Main \in Callers /\ Thread \subseteq Callers /\ Main \notin Thread
BY ManagerAssumption DEF Callers

\* Handing the active runtime to the call, or giving up one that has returned,
\* loses nothing.
LEMMA OwnersKept ==
    ASSUME OwnerInv, NEW t \in Callers, OnlyCall(t), SamePhases,
           active' = active \/ (active' = NoRuntime /\ calls'[t].held = active),
           \/ calls[t].held = NoRuntime
           \/ calls'[t].held = calls[t].held
           \/ Finished(calls[t].held)
    PROVE  EveryRuntimeHasAnOwner'
<1> SUFFICES ASSUME NEW r \in Runtime, Live(r)'
             PROVE  active' = r \/ \E u \in Callers : calls'[u].held = r
  BY DEF EveryRuntimeHasAnOwner, Held
<1>1. Live(r) /\ ~Finished(r) /\ r # NoRuntime
  BY DEF SamePhases, Live, Finished, Runtime, NoRuntime
<1>2. CASE active = r
  BY <1>2
<1>3. CASE active # r
  <2>1. PICK u \in Callers : calls[u].held = r
    BY <1>1, <1>3 DEF OwnerInv, EveryRuntimeHasAnOwner, Held
  <2>2. CASE u = t
    BY <1>1, <2>1, <2>2
  <2>3. CASE u # t
    BY <2>1, <2>3 DEF OnlyCall
  <2> QED BY <2>2, <2>3
<1> QED BY <1>2, <1>3

\* A call that goes on, or returns, keeps its kind.
LEMMA StageKept ==
    ASSUME OwnerInv, NEW t \in Callers, OnlyCall(t), stage' = stage,
           active' = active \/ active' = NoRuntime, ~IsIdle(t),
           \/ calls'[t].at = "idle"
           \/ calls'[t].op = calls[t].op
           \/ calls[t].op = "stop" /\ calls'[t].op = "status"
    PROVE  StageOK'
<1>1. CASE t = Main
  BY <1>1, MainAndThreads DEF OwnerInv, StageOK, IsIdle, Quiet, OnlyCall
<1>2. CASE t # Main
  BY <1>2, MainAndThreads DEF OwnerInv, StageOK, IsIdle, Quiet, OnlyCall, Callers
<1> QED BY <1>1, <1>2

LEMMA StartKept ==
    ASSUME OwnerInv, NEW t \in Callers, OnlyCall(t),
           active' = active \/ active' = NoRuntime,
           Committed(t)' => Committed(t) \/ active' = NoRuntime
    PROVE  StartOK'
BY DEF OwnerInv, StartOK, Committed, OnlyCall

LEMMA EndKept ==
    ASSUME OwnerInv, SamePhases, stage' = stage
    PROVE  ShutdownEndsEverything'
BY DEF OwnerInv, ShutdownEndsEverything, SamePhases, Live

\* The calls that neither spawn nor publish, and do not end main.
LEMMA MostCallsKeepOwners ==
    ASSUME OwnerInv, NEW t \in Callers,
           \/ reap(t) \/ reap_joined(t) \/ start_refused(t) \/ start_take(t)
           \/ stop_take(t) \/ status(t) \/ request(t) \/ signal(t) \/ prepare_fails(t)
           \/ joined(t) /\ calls[t].op # "shutdown"
    PROVE  OwnerInv'
<1>1. HandleInv' /\ CallOK(t) /\ calls \in [Callers -> Call]
      /\ runtimes \in [Runtime -> RuntimeState]
      /\ active \in Runtime \cup {NoRuntime} /\ calls[t].held \in Runtime \cup {NoRuntime}
  BY CallKeeps DEF OwnerInv, HandleInv, TypeOK, CallStep, Call
<1>2. stage' = stage /\ ~IsIdle(t)
  BY DEF reap, reap_joined, start_refused, start_take, stop_take, status, request,
         signal, prepare_fails, joined, IsIdle
<1>3. OnlyCall(t)
  BY <1>1 DEF reap, reap_joined, start_refused, start_take, stop_take, status, request,
              signal, prepare_fails, joined, Goes, Returns, OnlyCall
<1>4. SamePhases
  <2>1. CASE runtimes' = runtimes
    BY <2>1 DEF SamePhases
  <2>2. CASE reap_joined(t) \/ signal(t)
    <3>1. runtimes' = [runtimes EXCEPT ![calls[t].held].shutdown = TRUE]
      BY <2>2 DEF reap_joined, signal
    <3> QED BY <1>1, <3>1 DEF SamePhases, RuntimeState
  <2>3. CASE request(t) /\ active # NoRuntime
    <3>1. PICK c \in Command :
            runtimes' = [runtimes EXCEPT ![active].commands = Append(@, c)]
      BY <2>3 DEF request
    <3> QED BY <1>1, <3>1 DEF SamePhases, RuntimeState
  <2> QED BY <2>1, <2>2, <2>3 DEF reap, start_refused, start_take, stop_take, status,
                                  request, prepare_fails, joined
<1>5. active' = active \/ (active' = NoRuntime /\ calls'[t].held = active)
  BY <1>1 DEF reap, reap_joined, start_refused, start_take, stop_take, status, request,
              signal, prepare_fails, joined, Goes, Call
<1>6. \/ calls[t].held = NoRuntime
      \/ calls'[t].held = calls[t].held
      \/ Finished(calls[t].held)
  BY <1>1 DEF reap, reap_joined, start_refused, start_take, stop_take, status, request,
              signal, prepare_fails, joined, Goes, Call, CallOK, Holding
<1>7. \/ calls'[t].at = "idle"
      \/ calls'[t].op = calls[t].op
      \/ calls[t].op = "stop" /\ calls'[t].op = "status"
  BY <1>1 DEF reap, reap_joined, start_refused, start_take, stop_take, status, request,
              signal, prepare_fails, joined, Goes, Returns, Idle, Call
<1>8. Committed(t)' => Committed(t) \/ active' = NoRuntime
  BY <1>1 DEF reap, reap_joined, start_refused, start_take, stop_take, status, request,
              signal, prepare_fails, joined, Goes, Returns, Idle, Call, Committed
<1>9. EveryRuntimeHasAnOwner' /\ StageOK' /\ StartOK' /\ ShutdownEndsEverything'
  BY <1>2, <1>3, <1>4, <1>5, <1>6, <1>7, <1>8, OwnersKept, StageKept, StartKept, EndKept
<1> QED BY <1>1, <1>9 DEF OwnerInv


LEMMA SpawnKeepsOwners ==
    ASSUME OwnerInv, NEW t \in Callers, spawn_runtime(t)
    PROVE  OwnerInv'
<1>1. HandleInv' /\ CallOK(t) /\ calls \in [Callers -> Call]
      /\ runtimes \in [Runtime -> RuntimeState]
  BY CallKeeps DEF OwnerInv, HandleInv, TypeOK, CallStep
<1>2. PICK r \in Runtime, m \in {"mock", "libretro"} :
        /\ runtimes' = [runtimes EXCEPT ![r].phase = "starting", ![r].mode = m]
        /\ Goes(t, "publish", r)
  BY DEF spawn_runtime
<1>3. /\ ~IsIdle(t) /\ calls[t].at = "prepare" /\ calls[t].op = "start"
      /\ calls[t].held = NoRuntime /\ active' = active /\ stage' = stage
  BY <1>1 DEF spawn_runtime, IsIdle, CallOK, Holding
<1>4. OnlyCall(t) /\ calls'[t].op = calls[t].op /\ calls'[t].held = r
  BY <1>1, <1>2 DEF Goes, OnlyCall, Call
<1>5. StageOK'
  BY <1>3, <1>4, StageKept
<1>6. StartOK'
  BY <1>3, <1>4, StartKept DEF Committed
<1>7. EveryRuntimeHasAnOwner'
  <2> SUFFICES ASSUME NEW q \in Runtime, Live(q)'
               PROVE  active' = q \/ \E u \in Callers : calls'[u].held = q
    BY DEF EveryRuntimeHasAnOwner, Held
  <2>1. CASE q = r
    BY <1>4, <2>1
  <2>2. CASE q # r
    <3>1. Live(q) /\ q # NoRuntime
      BY <1>1, <1>2, <2>2 DEF Live, Runtime, NoRuntime
    <3>2. active = q \/ \E u \in Callers : calls[u].held = q
      BY <3>1 DEF OwnerInv, EveryRuntimeHasAnOwner, Held
    <3> QED BY <1>3, <1>4, <3>1, <3>2 DEF OnlyCall
  <2> QED BY <2>1, <2>2
<1>8. ShutdownEndsEverything'
  BY <1>3, MainAndThreads DEF OwnerInv, StageOK, IsIdle, Quiet, Callers,
                              ShutdownEndsEverything
<1> QED BY <1>1, <1>5, <1>6, <1>7, <1>8 DEF OwnerInv

\* The only step that needs one starter: nobody else is about to publish.
LEMMA PublishKeepsOwners ==
    ASSUME OwnerInv, NEW s, Starter = {s}, NEW t \in Callers, publish(t)
    PROVE  OwnerInv'
<1>1. HandleInv' /\ CallOK(t) /\ calls \in [Callers -> Call] /\ Committed(t)
  BY CallKeeps DEF OwnerInv, HandleInv, TypeOK, CallStep, publish, Committed
<1>2. /\ ~IsIdle(t) /\ calls[t].at = "publish" /\ calls[t].op = "start"
      /\ active = NoRuntime /\ active' = calls[t].held /\ runtimes' = runtimes
  BY <1>1 DEF publish, IsIdle, CallOK, OwnerInv, StartOK
<1>3. OnlyCall(t) /\ calls'[t].at = "idle" /\ calls'[t].held = NoRuntime
      /\ calls'[t].op = "status"
  BY <1>1, CallReturns DEF publish, OnlyCall
<1>4. \A u \in Callers \ {t} : ~IsIdle(u) => calls[u].op # "start"
  <2>1. CASE t = Main
    BY <1>2, <2>1, MainAndThreads DEF OwnerInv, StageOK, IsIdle, Callers
  <2>2. CASE t # Main
    <3>1. t = s /\ stage # "booting"
      BY <1>2, <2>2 DEF OwnerInv, StageOK, Callers
    <3> QED BY <1>2, <2>2, <3>1, MainAndThreads DEF OwnerInv, StageOK, Callers
  <2> QED BY <2>1, <2>2
<1>5. StartOK'
  <2> SUFFICES ASSUME NEW u \in Callers, Committed(u)' PROVE FALSE
    BY DEF StartOK
  <2>1. u # t /\ Committed(u)
    BY <1>3 DEF Committed, OnlyCall
  <2>2. ~IsIdle(u) /\ calls[u].op = "start"
    BY <2>1 DEF Committed, IsIdle, OwnerInv, HandleInv, CallOK
  <2> QED BY <1>4, <2>1, <2>2
<1>6. StageOK'
  <2>1. CASE t = Main
    <3>1. stage = "booting" /\ stage' = "serving" /\ \A u \in Thread : IsIdle(u)
      BY <1>2, <2>1 DEF OwnerInv, StageOK, publish
    <3> QED BY <1>3, <2>1, <3>1, MainAndThreads DEF StageOK, OnlyCall, IsIdle, Callers
  <2>2. CASE t # Main
    <3>1. t \in Thread /\ stage' = stage
      BY <2>2 DEF publish, Callers
    <3>2. stage \notin {"booting", "ended"} /\ IsIdle(Main)
      BY <1>2, <3>1 DEF OwnerInv, StageOK, Quiet
    <3> QED BY <1>3, <3>1, <3>2, MainAndThreads DEF OwnerInv, StageOK, OnlyCall, IsIdle,
                                                    Callers
  <2> QED BY <2>1, <2>2
<1>7. EveryRuntimeHasAnOwner'
  <2> SUFFICES ASSUME NEW r \in Runtime, Live(r)'
               PROVE  active' = r \/ \E u \in Callers : calls'[u].held = r
    BY DEF EveryRuntimeHasAnOwner, Held
  <2>1. Live(r) /\ r # NoRuntime
    BY <1>2 DEF Live, Runtime, NoRuntime
  <2>2. PICK u \in Callers : calls[u].held = r
    BY <1>2, <2>1 DEF OwnerInv, EveryRuntimeHasAnOwner, Held
  <2> QED BY <1>2, <1>3, <2>2 DEF OnlyCall
<1>8. ShutdownEndsEverything'
  BY <1>6, <1>2, <1>1 DEF StageOK, CallOK, Holding, ShutdownEndsEverything
<1> QED BY <1>1, <1>5, <1>6, <1>7, <1>8 DEF OwnerInv

\* Main joins the last runtime.
LEMMA MainJoinKeepsOwners ==
    ASSUME OwnerInv, NEW t \in Callers, joined(t), calls[t].op = "shutdown"
    PROVE  OwnerInv'
<1>1. HandleInv' /\ CallOK(t) /\ calls \in [Callers -> Call]
  BY CallKeeps DEF OwnerInv, HandleInv, TypeOK, CallStep
<1>2. t = Main /\ ~IsIdle(t)
  BY DEF joined, IsIdle, OwnerInv, StageOK, Callers
<1>3. /\ active = NoRuntime /\ Quiet /\ Finished(calls[t].held)
      /\ active' = active /\ runtimes' = runtimes /\ stage' = "ended" /\ Returns(t)
  BY <1>2 DEF joined, OwnerInv, StageOK
<1>4. OnlyCall(t) /\ calls'[t].at = "idle" /\ calls'[t].held = NoRuntime
      /\ calls'[t].op = "status"
  BY <1>1, <1>3, CallReturns DEF OnlyCall
<1>5. StageOK'
  BY <1>2, <1>3, <1>4, MainAndThreads DEF OwnerInv, StageOK, Quiet, OnlyCall, IsIdle, Callers
<1>6. StartOK'
  BY <1>3, <1>4 DEF OwnerInv, StartOK, Committed, OnlyCall
<1>7. EveryRuntimeHasAnOwner'
  <2>1. SamePhases
    BY <1>3 DEF SamePhases
  <2> QED BY <1>3, <1>4, <2>1, OwnersKept
<1>8. \A r \in Runtime : ~Live(r)
  <2> SUFFICES ASSUME NEW r \in Runtime, Live(r) PROVE FALSE
    OBVIOUS
  <2>1. PICK u \in Callers : calls[u].held = r
    BY <1>3 DEF OwnerInv, EveryRuntimeHasAnOwner, Held, Runtime, NoRuntime
  <2>2. CASE u = Main
    BY <1>2, <1>3, <2>1, <2>2 DEF Live, Finished
  <2>3. CASE u # Main
    <3>1. CallOK(u) /\ (IsIdle(u) \/ calls[u].op = "request") /\ calls[u].held # NoRuntime
      BY <1>3, <2>1, <2>3 DEF OwnerInv, HandleInv, Quiet, Callers, Runtime, NoRuntime
    <3>2. calls[u].at = "reaped"
      BY <3>1 DEF CallOK, Holding, IsIdle
    <3> QED BY <2>1, <3>1, <3>2 DEF CallOK, Live, Finished
  <2> QED BY <2>2, <2>3
<1>9. ShutdownEndsEverything'
  BY <1>3, <1>8 DEF ShutdownEndsEverything, Live
<1> QED BY <1>1, <1>5, <1>6, <1>7, <1>9 DEF OwnerInv

LEMMA ArrivalKeepsOwners ==
    ASSUME OwnerInv, NEW t \in Thread, Arrives(t)
    PROVE  OwnerInv'
<1>1. PICK op \in {"start", "stop", "status", "request"}, force \in BOOLEAN :
        call(t, op, force)
  BY DEF Arrives
<1>2. HandleInv' /\ CallOK(t) /\ t \in Callers /\ calls \in [Callers -> Call]
  BY ArrivalKeeps DEF OwnerInv, HandleInv, TypeOK, Callers
<1>3. /\ OnlyCall(t) /\ calls'[t].at = "reap" /\ calls'[t].op = op
      /\ calls[t].at = "idle" /\ calls[t].held = NoRuntime
      /\ active' = active /\ runtimes' = runtimes /\ stage' = stage
      /\ op = "start" => t \in Starter
      /\ stage = "serving" \/ (stage = "draining" /\ op = "request")
  BY <1>1, <1>2 DEF call, OnlyCall, IsIdle, CallOK, Holding
<1>4. SamePhases
  BY <1>3 DEF SamePhases
<1>5. StageOK'
  BY <1>2, <1>3, MainAndThreads DEF OwnerInv, StageOK, IsIdle, Quiet, OnlyCall
<1>6. StartOK'
  BY <1>2, <1>3, StartKept DEF Committed
<1>7. EveryRuntimeHasAnOwner'
  BY <1>2, <1>3, <1>4, OwnersKept
<1>8. ShutdownEndsEverything'
  BY <1>3, <1>4, EndKept
<1> QED BY <1>2, <1>5, <1>6, <1>7, <1>8 DEF OwnerInv

LEMMA ShutdownKeepsOwners ==
    ASSUME OwnerInv, shutdown_and_join
    PROVE  OwnerInv'
<1>1. HandleInv' /\ Main \in Callers /\ CallOK(Main) /\ calls \in [Callers -> Call]
  BY ShutdownKeeps, MainAndThreads DEF OwnerInv, HandleInv, TypeOK
<1>2. /\ IsIdle(Main) /\ calls[Main].held = NoRuntime /\ Quiet /\ stage = "draining"
      /\ active' = NoRuntime /\ runtimes' = runtimes
  BY <1>1 DEF shutdown_and_join, IsIdle, CallOK, Holding, Quiet
<1>3. SamePhases
  BY <1>2 DEF SamePhases
<1>4. CASE active = NoRuntime
  <2>1. calls' = calls /\ stage' = "ended"
    BY <1>4 DEF shutdown_and_join
  <2>2. StageOK'
    BY <1>2, <2>1 DEF OwnerInv, StageOK, IsIdle, Quiet
  <2>3. StartOK'
    BY <1>2, <2>1 DEF StartOK
  <2>4. EveryRuntimeHasAnOwner'
    BY <1>2, <1>4, <2>1 DEF OwnerInv, EveryRuntimeHasAnOwner, Live, Held
  <2>5. \A r \in Runtime : ~Live(r)
    <3> SUFFICES ASSUME NEW r \in Runtime, Live(r) PROVE FALSE
      OBVIOUS
    <3>1. PICK u \in Callers : calls[u].held = r
      BY <1>4 DEF OwnerInv, EveryRuntimeHasAnOwner, Held, Runtime, NoRuntime
    <3>2. u \in Thread /\ CallOK(u) /\ calls[u].held # NoRuntime
      BY <1>2, <3>1 DEF OwnerInv, HandleInv, Callers, Runtime, NoRuntime
    <3>3. calls[u].at = "reaped"
      BY <1>2, <3>2 DEF CallOK, Holding, IsIdle, Quiet
    <3> QED BY <3>1, <3>2, <3>3 DEF CallOK, Live, Finished
  <2>6. ShutdownEndsEverything'
    BY <1>2, <2>5 DEF ShutdownEndsEverything, Live
  <2> QED BY <1>1, <2>2, <2>3, <2>4, <2>6 DEF OwnerInv
<1>5. CASE active # NoRuntime
  <2> DEFINE c == [op |-> "shutdown", at |-> "signal", held |-> active, force |-> FALSE]
  <2>1. calls' = [calls EXCEPT ![Main] = c] /\ stage' = stage
    BY <1>5 DEF shutdown_and_join
  <2>2. /\ OnlyCall(Main) /\ calls'[Main].at = "signal" /\ calls'[Main].held = active
        /\ calls'[Main].op = "shutdown"
    BY <1>1, <2>1 DEF OnlyCall
  <2>3. StageOK'
    BY <1>1, <1>2, <2>1, <2>2, MainAndThreads DEF OwnerInv, StageOK, IsIdle, Quiet, OnlyCall
  <2>4. StartOK'
    BY <1>2 DEF StartOK
  <2>5. EveryRuntimeHasAnOwner'
    BY <1>1, <1>2, <1>3, <2>2, OwnersKept
  <2>6. ShutdownEndsEverything'
    BY <1>3, <2>1, EndKept
  <2> QED BY <1>1, <2>3, <2>4, <2>5, <2>6 DEF OwnerInv
<1> QED BY <1>4, <1>5

LEMMA RuntimeKeepsOwners ==
    ASSUME OwnerInv, NEW r \in Runtime, RuntimeStep(r)
    PROVE  OwnerInv'
<1>1. HandleInv'
  BY RuntimeKeeps DEF OwnerInv
<1>2. /\ UNCHANGED <<active, last_exit, calls, stage>>
      /\ \A q \in Runtime :
           /\ runtimes'[q].phase = "unborn" <=> runtimes[q].phase = "unborn"
           /\ Finished(q) => Finished(q)'
  BY RuntimeFacts DEF OwnerInv
<1>3. \A q \in Runtime : Live(q)' => Live(q)
  BY <1>2 DEF Live, Finished
<1>4. StageOK' /\ StartOK'
  BY <1>2 DEF OwnerInv, StageOK, StartOK, Committed, Quiet, IsIdle
<1>5. EveryRuntimeHasAnOwner' /\ ShutdownEndsEverything'
  BY <1>2, <1>3 DEF OwnerInv, EveryRuntimeHasAnOwner, ShutdownEndsEverything, Held
<1> QED BY <1>1, <1>4, <1>5 DEF OwnerInv

LEMMA NextKeepsOwners ==
    ASSUME OwnerInv, NEW s, Starter = {s}, [Next]_vars
    PROVE  OwnerInv'
<1>1. CASE \E t \in Thread : Arrives(t)
  BY <1>1, ArrivalKeepsOwners
<1>2. CASE \E t \in Callers : CallStep(t)
  <2>1. PICK t \in Callers : CallStep(t)
    BY <1>2
  <2>2. CASE spawn_runtime(t)
    BY <2>2, SpawnKeepsOwners
  <2>3. CASE publish(t)
    BY <2>3, PublishKeepsOwners
  <2>4. CASE joined(t) /\ calls[t].op = "shutdown"
    BY <2>4, MainJoinKeepsOwners
  <2>5. CASE ~(spawn_runtime(t) \/ publish(t) \/ (joined(t) /\ calls[t].op = "shutdown"))
    BY <2>1, <2>5, MostCallsKeepOwners DEF CallStep
  <2> QED BY <2>2, <2>3, <2>4, <2>5
<1>3. CASE \E r \in Runtime : RuntimeStep(r)
  BY <1>3, RuntimeKeepsOwners
<1>4. CASE drain
  <2>1. HandleInv'
    BY <1>4, NextKeeps DEF OwnerInv, Next
  <2>2. /\ stage = "serving" /\ stage' = "draining"
        /\ UNCHANGED <<active, last_exit, runtimes, context, core, calls>>
    BY <1>4 DEF drain
  <2> QED BY <2>1, <2>2 DEF OwnerInv, StageOK, StartOK, Committed, Quiet, IsIdle,
             EveryRuntimeHasAnOwner, ShutdownEndsEverything, Live, Held
<1>5. CASE shutdown_and_join
  BY <1>5, ShutdownKeepsOwners
<1>6. CASE UNCHANGED vars
  <2>1. HandleInv'
    BY <1>6, NextKeeps DEF OwnerInv
  <2> QED BY <1>6, <2>1 DEF vars, OwnerInv, StageOK, StartOK, Committed, Quiet, IsIdle,
             EveryRuntimeHasAnOwner, ShutdownEndsEverything, Live, Held
<1> QED BY <1>1, <1>2, <1>3, <1>4, <1>5, <1>6 DEF Next

LEMMA OwnersInit == Init => OwnerInv
<1> SUFFICES ASSUME Init PROVE OwnerInv
  OBVIOUS
<1>1. HandleInv
  BY HandlesInit
<1>2. StageOK
  BY MainAndThreads DEF Init, StageOK, IsIdle, Idle, Callers
<1>3. StartOK
  BY DEF Init, StartOK
<1>4. EveryRuntimeHasAnOwner /\ ShutdownEndsEverything
  BY DEF Init, EveryRuntimeHasAnOwner, ShutdownEndsEverything, Live, Unborn
<1> QED BY <1>1, <1>2, <1>3, <1>4 DEF OwnerInv

\* With one thread that starts sessions, whatever the others do, no emulator
\* is ever running that neither the manager nor a call in progress knows.
THEOREM NoRuntimeIsLost ==
    ASSUME NEW s, Starter = {s}
    PROVE  Spec => []EveryRuntimeHasAnOwner
<1>1. Init => OwnerInv
  BY OwnersInit
<1>2. OwnerInv /\ [Next]_vars => OwnerInv'
  BY NextKeepsOwners
<1>3. OwnerInv => EveryRuntimeHasAnOwner
  BY DEF OwnerInv
<1> QED BY <1>1, <1>2, <1>3, PTL DEF Spec

\* And then main leaves no emulator running.
THEOREM ShutdownIsComplete ==
    ASSUME NEW s, Starter = {s}
    PROVE  Spec => []ShutdownEndsEverything
<1>1. Init => OwnerInv
  BY OwnersInit
<1>2. OwnerInv /\ [Next]_vars => OwnerInv'
  BY NextKeepsOwners
<1>3. OwnerInv => ShutdownEndsEverything
  BY DEF OwnerInv
<1> QED BY <1>1, <1>2, <1>3, PTL DEF Spec

-----------------------------------------------------------------------------
(* With one starter, and the sessions that overlap.                        *)
(*                                                                         *)
(* Two emulators live at a time only if both are marked as overlapped; the *)
(* others use the callback context and the core alone.                     *)

\* Nothing but an overlap lets two runtimes live at a time.
AloneOK ==
    \A q, r \in Runtime : Live(q) /\ Live(r) /\ q # r => q \in overlapped

\* The callback context stays for as long as its runtime needs it, and the
\* core has its game loaded while it runs.
CoreOK ==
    \A r \in Runtime \ overlapped :
        /\ \A p \in {"wired", "inited", "running", "leaving", "deinited"} :
             Is(r, "libretro", p) => context
        /\ Is(r, "libretro", "running") => core = "loaded"

SpawnedUpTo(n) == \A r \in Runtime : runtimes[r].phase # "unborn" <=> r <= n
SpawnedInOrder == \E n \in 0..MaxRuntimes : SpawnedUpTo(n)
Newest == Cardinality(Spawned)

\* Before main shuts down, and unless the newest session was overlapped: what
\* the manager and the calls hold is the newest session, and when nobody holds
\* it, it has ended and last_exit says how.
ExitOK ==
    stage \in {"booting", "serving"} /\ Newest \notin overlapped =>
        /\ active \in {NoRuntime, Newest}
        /\ \A t \in Callers : calls[t].held \in {NoRuntime, Newest}
        /\ active # NoRuntime => last_exit = NoExit
        /\ active = NoRuntime /\ (\A t \in Callers : calls[t].held = NoRuntime) =>
              \/ stage = "booting" /\ Newest = 0
              \/ Newest # 0 /\ Finished(Newest) /\ last_exit = runtimes[Newest].exit

SuccessionInv ==
    /\ OwnerInv
    /\ AloneOK
    /\ CoreOK
    /\ SpawnedInOrder
    /\ ExitOK

LEMMA NewestFacts ==
    ASSUME NEW n \in 0..MaxRuntimes, SpawnedUpTo(n)
    PROVE  Newest = n /\ Newest \in Nat /\ Spawned = 1..n
<1>1. MaxRuntimes \in Nat
  BY ManagerAssumption
<1>2. Spawned = 1..n
  BY <1>1 DEF Spawned, SpawnedUpTo, Runtime
<1>3. Cardinality(1..n) = n
  BY <1>1, FS_Interval
<1> QED BY <1>2, <1>3 DEF Newest

\* The newest session is a runtime that has been spawned, unless there is none.
LEMMA NewestIsSpawned ==
    ASSUME SpawnedInOrder
    PROVE  /\ Newest \in 0..MaxRuntimes /\ SpawnedUpTo(Newest)
           /\ Newest # NoRuntime => Newest \in Runtime /\ runtimes[Newest].phase # "unborn"
<1>1. PICK n \in 0..MaxRuntimes : SpawnedUpTo(n)
  BY DEF SpawnedInOrder
<1>2. Newest = n /\ MaxRuntimes \in Nat
  BY <1>1, NewestFacts, ManagerAssumption
<1> QED BY <1>1, <1>2 DEF SpawnedUpTo, Runtime, NoRuntime

\* Nothing spawned, nothing newer.
LEMMA SameNewest ==
    ASSUME SpawnedInOrder,
           \A r \in Runtime : runtimes'[r].phase = "unborn" <=> runtimes[r].phase = "unborn"
    PROVE  SpawnedInOrder' /\ Newest' = Newest
<1>1. PICK n \in 0..MaxRuntimes : SpawnedUpTo(n)
  BY DEF SpawnedInOrder
<1>2. SpawnedUpTo(n)'
  BY <1>1 DEF SpawnedUpTo
<1>3. Spawned' = Spawned
  BY DEF Spawned
<1> QED BY <1>2, <1>3 DEF SpawnedInOrder, Newest

\* While one thread starts a session no other call is a start, or main's
\* shutdown, and the manager has been emptied.
LEMMA StarterIsAlone ==
    ASSUME OwnerInv, NEW s, Starter = {s}, NEW t \in Callers,
           calls[t].at \in {"prepare", "publish"}
    PROVE  /\ active = NoRuntime
           /\ \A u \in Callers \ {t} : ~IsIdle(u) => calls[u].op \notin {"start", "shutdown"}
<1>1. /\ CallOK(t) /\ StageOK /\ Committed(t) /\ ~IsIdle(t) /\ calls[t].op = "start"
  BY DEF OwnerInv, HandleInv, CallOK, Committed, IsIdle
<1>2. active = NoRuntime
  BY <1>1 DEF OwnerInv, StartOK
<1>3. CASE t = Main
  BY <1>1, <1>2, <1>3, MainAndThreads DEF StageOK, IsIdle, Callers
<1>4. CASE t # Main
  <2>1. t = s /\ stage # "booting" /\ t \in Thread
    BY <1>1, <1>4 DEF StageOK, Callers
  <2>2. ~Quiet
    BY <1>1, <2>1 DEF Quiet
  <2> QED BY <1>1, <1>2, <1>4, <2>1, <2>2, MainAndThreads DEF StageOK, Callers
<1> QED BY <1>3, <1>4

\* An emulator that lives while the next one is spawned is in the hands of a
\* stop that waits for it.
LEMMA OverlapsAreStops ==
    ASSUME OwnerInv, NEW s, Starter = {s}, NEW t \in Callers, calls[t].at = "prepare",
           NEW q \in Runtime, Live(q)
    PROVE  \E u \in Callers \ {t} : calls[u].op = "stop" /\ calls[u].held = q
<1>1. /\ active = NoRuntime /\ q # NoRuntime
      /\ \A u \in Callers \ {t} : ~IsIdle(u) => calls[u].op \notin {"start", "shutdown"}
  BY StarterIsAlone DEF Runtime, NoRuntime
<1>2. PICK u \in Callers : calls[u].held = q
  BY <1>1 DEF OwnerInv, EveryRuntimeHasAnOwner, Held
<1>3. CallOK(u) /\ CallOK(t)
  BY DEF OwnerInv, HandleInv
<1>4. u # t
  BY <1>1, <1>2, <1>3 DEF CallOK, Holding
<1>5. calls[u].at \in {"signal", "join", "publish"}
  BY <1>1, <1>2, <1>3 DEF CallOK, Holding, Finished, Live
<1> QED BY <1>1, <1>2, <1>3, <1>4, <1>5 DEF CallOK, IsIdle

\* What the callers do to the manager without spawning or publishing: hand the
\* active runtime over, keep what they hold, or record how it ended.
Records(t) ==
    /\ active' = active \/ (active' = NoRuntime /\ calls'[t].held = active)
    /\ calls'[t].held \in {NoRuntime, calls[t].held, active}
    /\ calls[t].held = NoRuntime => last_exit' = last_exit
    /\ calls[t].held # NoRuntime =>
         \/ calls'[t].held # NoRuntime /\ last_exit' = last_exit
         \/ /\ calls'[t].held = NoRuntime
            /\ Finished(calls[t].held)
            /\ last_exit' = runtimes[calls[t].held].exit

LEMMA ExitKept ==
    ASSUME SuccessionInv, NEW t \in Callers, OnlyCall(t), SamePhases,
           \A r \in Runtime : runtimes'[r].exit = runtimes[r].exit,
           stage' = stage, overlapped' = overlapped, Records(t)
    PROVE  ExitOK'
<1>1. Newest' = Newest
  BY SameNewest DEF SuccessionInv, SamePhases
<1>2. Newest # NoRuntime => Newest \in Runtime
  BY NewestIsSpawned DEF SuccessionInv
<1> SUFFICES ASSUME stage \in {"booting", "serving"}, Newest \notin overlapped
             PROVE  ExitOK'
  BY <1>1 DEF ExitOK
<1>4. /\ active \in {NoRuntime, Newest}
      /\ \A u \in Callers : calls[u].held \in {NoRuntime, Newest}
      /\ active # NoRuntime => last_exit = NoExit
  BY DEF SuccessionInv, ExitOK
<1>3. calls[t].held # NoRuntime => active = NoRuntime
  BY <1>4 DEF SuccessionInv, OwnerInv, HandleInv, CallOK
<1>5. active' \in {NoRuntime, Newest'}
  BY <1>1, <1>4 DEF Records
<1>6. \A u \in Callers : calls'[u].held \in {NoRuntime, Newest'}
  BY <1>1, <1>4 DEF Records, OnlyCall
<1>7. active' # NoRuntime => last_exit' = NoExit
  BY <1>3, <1>4 DEF Records
<1>8. ASSUME active' = NoRuntime, \A u \in Callers : calls'[u].held = NoRuntime
      PROVE  \/ stage' = "booting" /\ Newest' = 0
             \/ Newest' # 0 /\ Finished(Newest)' /\ last_exit' = runtimes'[Newest'].exit
  <2>1. CASE calls[t].held # NoRuntime
    <3>1. /\ Finished(calls[t].held) /\ last_exit' = runtimes[calls[t].held].exit
          /\ calls[t].held = Newest
      BY <1>4, <1>8, <2>1 DEF Records
    <3> QED BY <1>1, <1>2, <2>1, <3>1 DEF SamePhases, Finished, NoRuntime
  <2>2. CASE calls[t].held = NoRuntime
    <3>1. \A u \in Callers : calls[u].held = NoRuntime
      BY <1>8, <2>2 DEF OnlyCall
    <3>2. active = NoRuntime /\ last_exit' = last_exit
      BY <1>8, <2>2 DEF Records
    <3>3. \/ stage = "booting" /\ Newest = 0
          \/ Newest # 0 /\ Finished(Newest) /\ last_exit = runtimes[Newest].exit
      BY <3>1, <3>2 DEF SuccessionInv, ExitOK
    <3> QED BY <1>1, <1>2, <3>2, <3>3 DEF SamePhases, Finished, NoRuntime
  <2> QED BY <2>1, <2>2
<1> QED BY <1>5, <1>6, <1>7, <1>8 DEF ExitOK

\* The calls that neither spawn nor publish, and do not end main.
LEMMA MostCallsSucceed ==
    ASSUME SuccessionInv, NEW t \in Callers,
           \/ reap(t) \/ reap_joined(t) \/ start_refused(t) \/ start_take(t)
           \/ stop_take(t) \/ status(t) \/ request(t) \/ signal(t) \/ prepare_fails(t)
           \/ joined(t) /\ calls[t].op # "shutdown"
    PROVE  SuccessionInv'
<1>1. OwnerInv' /\ OwnerInv /\ AloneOK /\ CoreOK /\ SpawnedInOrder
  BY MostCallsKeepOwners DEF SuccessionInv
<1>2. /\ CallOK(t) /\ calls \in [Callers -> Call] /\ runtimes \in [Runtime -> RuntimeState]
      /\ active \in Runtime \cup {NoRuntime} /\ calls[t].held \in Runtime \cup {NoRuntime}
  BY <1>1 DEF OwnerInv, HandleInv, TypeOK, Call
<1>3. UNCHANGED <<stage, context, core, overlapped>> /\ ~IsIdle(t)
  BY DEF reap, reap_joined, start_refused, start_take, stop_take, status, request,
         signal, prepare_fails, joined, IsIdle
<1>4. OnlyCall(t)
  BY <1>2 DEF reap, reap_joined, start_refused, start_take, stop_take, status, request,
              signal, prepare_fails, joined, Goes, Returns, OnlyCall
<1>5. \A r \in Runtime : /\ runtimes'[r].phase = runtimes[r].phase
                         /\ runtimes'[r].mode = runtimes[r].mode
                         /\ runtimes'[r].exit = runtimes[r].exit
  <2>1. CASE runtimes' = runtimes
    BY <2>1
  <2>2. CASE reap_joined(t) \/ signal(t)
    <3>1. runtimes' = [runtimes EXCEPT ![calls[t].held].shutdown = TRUE]
      BY <2>2 DEF reap_joined, signal
    <3> QED BY <1>2, <3>1 DEF RuntimeState
  <2>3. CASE request(t) /\ active # NoRuntime
    <3>1. PICK c \in Command :
            runtimes' = [runtimes EXCEPT ![active].commands = Append(@, c)]
      BY <2>3 DEF request
    <3> QED BY <1>2, <3>1 DEF RuntimeState
  <2> QED BY <2>1, <2>2, <2>3 DEF reap, start_refused, start_take, stop_take, status,
                                  request, prepare_fails, joined
<1>6. Records(t)
  BY <1>2 DEF reap, reap_joined, start_refused, start_take, stop_take, status, request,
              signal, prepare_fails, joined, Goes, Returns, Idle, Call, CallOK, Holding,
              Records
<1>7. ExitOK'
  BY <1>3, <1>4, <1>5, <1>6, ExitKept DEF SamePhases
<1>8. SpawnedInOrder'
  BY <1>1, <1>5, SameNewest
<1>9. CoreOK'
  BY <1>1, <1>3, <1>5 DEF CoreOK, Is
<1>10. AloneOK'
  BY <1>1, <1>3, <1>5 DEF AloneOK, Live
<1> QED BY <1>1, <1>7, <1>8, <1>9, <1>10 DEF SuccessionInv

\* The new session is the newest.  Whoever lives beside it is in other hands,
\* and then both are marked.
LEMMA SpawnSucceeds ==
    ASSUME SuccessionInv, NEW s, Starter = {s}, NEW t \in Callers, spawn_runtime(t)
    PROVE  SuccessionInv'
<1>1. OwnerInv' /\ OwnerInv /\ AloneOK /\ CoreOK /\ SpawnedInOrder
  BY SpawnKeepsOwners DEF SuccessionInv
<1>2. /\ calls \in [Callers -> Call] /\ runtimes \in [Runtime -> RuntimeState]
      /\ calls[t].at = "prepare" /\ UNCHANGED <<active, last_exit, context, core, stage>>
  BY <1>1 DEF OwnerInv, HandleInv, TypeOK, spawn_runtime
<1>3. PICK r \in Runtime, m \in {"mock", "libretro"} :
        /\ runtimes[r].phase = "unborn"
        /\ \A q \in Runtime : runtimes[q].phase = "unborn" => r <= q
        /\ runtimes' = [runtimes EXCEPT ![r].phase = "starting", ![r].mode = m]
        /\ Goes(t, "publish", r)
        /\ overlapped' = IF InOtherHands(t) = {} THEN overlapped
                         ELSE overlapped \cup InOtherHands(t) \cup {r}
  BY DEF spawn_runtime
<1>4. OnlyCall(t) /\ calls'[t].at = "publish" /\ calls'[t].held = r
  BY <1>2, <1>3 DEF Goes, OnlyCall, Call
<1>5. /\ runtimes'[r].phase = "starting"
      /\ \A q \in Runtime \ {r} : runtimes'[q] = runtimes[q]
  BY <1>2, <1>3 DEF RuntimeState
<1>6. overlapped \subseteq overlapped' /\ active = NoRuntime
  BY <1>1, <1>2, <1>3, StarterIsAlone
<1>7. AloneOK'
  <2> SUFFICES ASSUME NEW p \in Runtime, NEW q \in Runtime, Live(p)', Live(q)', p # q
               PROVE  p \in overlapped'
    BY DEF AloneOK
  <2>1. CASE p # r /\ q # r
    BY <1>1, <1>5, <1>6, <2>1 DEF AloneOK, Live
  <2>2. ASSUME NEW x \in Runtime, x # r, Live(x)'
        PROVE  x \in InOtherHands(t)
    <3>1. Live(x) /\ x # NoRuntime
      BY <1>5, <2>2 DEF Live, Runtime, NoRuntime
    <3>2. PICK u \in Callers \ {t} : calls[u].held = x
      BY <1>1, <1>2, <3>1, OverlapsAreStops
    <3> QED BY <3>1, <3>2 DEF InOtherHands
  <2>3. CASE p = r
    BY <1>3, <2>2, <2>3
  <2>4. CASE p # r /\ q = r
    BY <1>3, <2>2, <2>4
  <2> QED BY <2>1, <2>3, <2>4
<1>8. CoreOK'
  BY <1>1, <1>2, <1>5, <1>6 DEF CoreOK, Is
<1>9. SpawnedInOrder' /\ Newest' = r
  <2>1. PICK n \in 0..MaxRuntimes : SpawnedUpTo(n)
    BY <1>1 DEF SpawnedInOrder
  <2>2. MaxRuntimes \in Nat /\ r \in 1..MaxRuntimes
    BY ManagerAssumption DEF Runtime
  <2>3. r = n + 1
    <3>1. n < r
      BY <1>3, <2>1, <2>2 DEF SpawnedUpTo
    <3>2. n + 1 \in Runtime /\ runtimes[n + 1].phase = "unborn"
      BY <2>1, <2>2, <3>1 DEF SpawnedUpTo, Runtime
    <3> QED BY <1>3, <2>1, <2>2, <3>1, <3>2
  <2>4. SpawnedUpTo(r)'
    BY <1>5, <2>1, <2>2, <2>3 DEF SpawnedUpTo, Runtime
  <2>5. r \in 0..MaxRuntimes
    BY <2>2
  <2>6. SpawnedInOrder'
    BY <2>4, <2>5 DEF SpawnedInOrder
  <2>7. Spawned' = 1..r
    BY <2>2, <2>4 DEF Spawned, SpawnedUpTo, Runtime
  <2>8. Cardinality(1..r) = r
    BY <2>2, FS_Interval
  <2> QED BY <2>6, <2>7, <2>8 DEF Newest
<1>10. ExitOK'
  <2> SUFFICES ASSUME r \notin overlapped' PROVE ExitOK'
    BY <1>9 DEF ExitOK
  <2>1. InOtherHands(t) = {}
    BY <1>3
  <2>2. \A u \in Callers \ {t} : calls'[u].held = NoRuntime
    BY <1>4, <2>1 DEF OnlyCall, InOtherHands
  <2>3. calls'[t].held = r /\ r # NoRuntime
    BY <1>4 DEF Runtime, NoRuntime
  <2> QED BY <1>2, <1>6, <1>9, <2>2, <2>3 DEF ExitOK
<1> QED BY <1>1, <1>7, <1>8, <1>9, <1>10 DEF SuccessionInv

LEMMA PublishSucceeds ==
    ASSUME SuccessionInv, NEW s, Starter = {s}, NEW t \in Callers, publish(t)
    PROVE  SuccessionInv'
<1>1. OwnerInv' /\ OwnerInv /\ AloneOK /\ CoreOK /\ SpawnedInOrder /\ ExitOK
  BY PublishKeepsOwners DEF SuccessionInv
<1>2. /\ calls \in [Callers -> Call] /\ CallOK(t) /\ calls[t].at = "publish"
      /\ calls[t].op = "start" /\ ~IsIdle(t) /\ calls[t].held # NoRuntime
  BY <1>1 DEF OwnerInv, HandleInv, TypeOK, CallOK, Holding, publish, IsIdle
<1>3. /\ active' = calls[t].held /\ last_exit' = NoExit
      /\ UNCHANGED <<runtimes, context, core, overlapped>>
      /\ OnlyCall(t) /\ calls'[t].at = "idle" /\ calls'[t].held = NoRuntime
      /\ stage' = IF t = Main THEN "serving" ELSE stage
  BY <1>2, CallReturns DEF publish, OnlyCall
<1>4. CoreOK' /\ AloneOK'
  BY <1>1, <1>3 DEF CoreOK, AloneOK, Is, Live
<1>5. SpawnedInOrder' /\ Newest' = Newest
  BY <1>1, <1>3, SameNewest
<1>6. ExitOK'
  <2> SUFFICES ASSUME stage' \in {"booting", "serving"}, Newest \notin overlapped
               PROVE  ExitOK'
    BY <1>3, <1>5 DEF ExitOK
  <2>1. stage \in {"booting", "serving"}
    BY <1>1, <1>2, <1>3 DEF OwnerInv, StageOK
  <2>2. \A u \in Callers : calls[u].held \in {NoRuntime, Newest}
    BY <1>1, <2>1 DEF ExitOK
  <2>3. active' = Newest' /\ active' # NoRuntime
    BY <1>2, <1>3, <1>5, <2>2
  <2>4. \A u \in Callers : calls'[u].held = NoRuntime
    BY <1>1, <1>2, <1>3, <2>2 DEF OwnerInv, HandleInv, OneHolder, OnlyCall
  <2> QED BY <1>3, <2>3, <2>4 DEF ExitOK
<1> QED BY <1>1, <1>4, <1>5, <1>6 DEF SuccessionInv

\* The steps that touch no runtime and end the serving of requests, or come
\* after it: nothing is said of exits any more.
LEMMA DrainingSucceeds ==
    ASSUME SuccessionInv, OwnerInv', UNCHANGED <<runtimes, context, core, overlapped>>,
           stage' \notin {"booting", "serving"}
    PROVE  SuccessionInv'
<1>1. CoreOK' /\ AloneOK'
  BY DEF SuccessionInv, CoreOK, AloneOK, Is, Live
<1>2. SpawnedInOrder'
  BY SameNewest DEF SuccessionInv
<1>3. ExitOK'
  BY DEF ExitOK
<1> QED BY <1>1, <1>2, <1>3 DEF SuccessionInv

LEMMA EndingSucceeds ==
    ASSUME SuccessionInv,
           \/ shutdown_and_join
           \/ OwnerInv' /\ drain
           \/ \E t \in Callers : joined(t) /\ calls[t].op = "shutdown"
    PROVE  SuccessionInv'
<1>1. OwnerInv'
  BY ShutdownKeepsOwners, MainJoinKeepsOwners DEF SuccessionInv
<1>2. UNCHANGED <<runtimes, context, core, overlapped>> /\ stage' \notin {"booting", "serving"}
  BY DEF shutdown_and_join, drain, joined
<1> QED BY <1>1, <1>2, DrainingSucceeds

LEMMA ArrivalSucceeds ==
    ASSUME SuccessionInv, NEW t \in Thread, Arrives(t)
    PROVE  SuccessionInv'
<1>1. PICK op \in {"start", "stop", "status", "request"}, force \in BOOLEAN :
        call(t, op, force)
  BY DEF Arrives
<1>2. /\ OwnerInv' /\ OwnerInv /\ AloneOK /\ CoreOK /\ SpawnedInOrder
      /\ t \in Callers /\ calls \in [Callers -> Call] /\ CallOK(t)
  BY ArrivalKeepsOwners DEF SuccessionInv, OwnerInv, HandleInv, TypeOK, Callers
<1>3. /\ OnlyCall(t) /\ calls'[t].held = NoRuntime /\ calls[t].held = NoRuntime
      /\ UNCHANGED <<active, last_exit, runtimes, context, core, stage, overlapped>>
  BY <1>1, <1>2 DEF call, OnlyCall, IsIdle, CallOK, Holding
<1>4. CoreOK' /\ AloneOK'
  BY <1>2, <1>3 DEF CoreOK, AloneOK, Is, Live
<1>5. SpawnedInOrder'
  BY <1>2, <1>3, SameNewest
<1>6. ExitOK'
  BY <1>2, <1>3, ExitKept DEF SamePhases, Records
<1> QED BY <1>2, <1>4, <1>5, <1>6 DEF SuccessionInv

\* A runtime moves itself only, and not once it has returned.
LEMMA RuntimeMoves ==
    ASSUME HandleInv, NEW r \in Runtime, RuntimeStep(r)
    PROVE  /\ runtimes' \in [Runtime -> RuntimeState]
           /\ Live(r)
           /\ \A q \in Runtime \ {r} : runtimes'[q] = runtimes[q]
           /\ runtimes'[r].mode = runtimes[r].mode
<1>1. runtimes' \in [Runtime -> RuntimeState] /\ runtimes \in [Runtime -> RuntimeState]
  BY RuntimeFacts DEF HandleInv, TypeOK
<1>2. Live(r)
  BY DEF RuntimeStep, Live, Is, load_library_fails, set_callback_context, retro_init,
         content_path_refused, retro_load_game, retro_load_game_fails, run_frame,
         leave_loop, retro_deinit, clear_callback_context, mock_runs, mock_returns
<1>3. \/ \E p : Moves(r, p)
      \/ \E e : Ends(r, e)
      \/ \E e : runtimes' = [runtimes EXCEPT ![r].phase = "deinited", ![r].exit = e]
      \/ runtimes' = [runtimes EXCEPT ![r].commands = <<>>]
  <2>1. CASE \/ set_callback_context(r) \/ retro_init(r) \/ retro_load_game(r)
             \/ leave_loop(r) \/ clear_callback_context(r) \/ mock_runs(r)
    <3>1. \E p : Moves(r, p)
      BY <2>1 DEF set_callback_context, retro_init, retro_load_game, leave_loop,
                  clear_callback_context, mock_runs
    <3> QED BY <3>1
  <2>2. CASE load_library_fails(r) \/ content_path_refused(r) \/ mock_returns(r)
    <3>1. \E e : Ends(r, e)
      BY <2>2 DEF load_library_fails, content_path_refused, mock_returns
    <3> QED BY <3>1
  <2>3. CASE retro_load_game_fails(r) \/ retro_deinit(r)
    BY <2>3 DEF retro_load_game_fails, retro_deinit
  <2>4. CASE run_frame(r)
    BY <2>4 DEF run_frame
  <2> QED BY <2>1, <2>2, <2>3, <2>4 DEF RuntimeStep
<1> QED BY <1>1, <1>2, <1>3 DEF Moves, Ends, RuntimeState

\* A session that nothing overlaps is the only user of the context and the core.
LEMMA RuntimeKeepsCore ==
    ASSUME SuccessionInv, NEW r \in Runtime, RuntimeStep(r)
    PROVE  CoreOK'
<1>1. HandleInv /\ OwnerInv /\ AloneOK /\ CoreOK
  BY DEF SuccessionInv, OwnerInv
<1>2. /\ Live(r) /\ runtimes \in [Runtime -> RuntimeState] /\ overlapped' = overlapped
      /\ \A q \in Runtime \ {r} : runtimes'[q] = runtimes[q]
      /\ \A q \in Runtime \ overlapped : Live(q) => q = r
  BY <1>1, RuntimeMoves, RuntimeFacts DEF HandleInv, TypeOK, AloneOK
<1>3. \A q \in Runtime \ (overlapped \cup {r}),
        p \in {"wired", "inited", "running", "leaving", "deinited"} :
        ~Is(q, "libretro", p)'
  BY <1>2 DEF Is, Live
<1> SUFFICES ASSUME r \notin overlapped
             PROVE  CoreOK'
  BY <1>2, <1>3 DEF CoreOK
<1>4. /\ \A p \in {"wired", "inited", "running", "leaving", "deinited"} :
           Is(r, "libretro", p)' => context'
      /\ Is(r, "libretro", "running")' => core' = "loaded"
  <2> USE <1>2 DEF Is, Moves, Ends, RuntimeState
  <2>1. CASE load_library_fails(r) \/ content_path_refused(r)
    BY <2>1 DEF load_library_fails, content_path_refused
  <2>2. CASE set_callback_context(r)
    BY <2>2 DEF set_callback_context
  <2>3. CASE retro_init(r)
    BY <1>1, <2>3 DEF retro_init, CoreOK
  <2>4. CASE retro_load_game(r)
    BY <1>1, <2>4 DEF retro_load_game, CoreOK
  <2>5. CASE retro_load_game_fails(r) \/ retro_deinit(r)
    BY <1>1, <2>5 DEF retro_load_game_fails, retro_deinit, CoreOK
  <2>6. CASE run_frame(r) \/ leave_loop(r)
    BY <1>1, <2>6 DEF run_frame, leave_loop, CoreOK
  <2>7. CASE clear_callback_context(r)
    BY <2>7 DEF clear_callback_context
  <2>8. CASE mock_runs(r) \/ mock_returns(r)
    BY <2>8 DEF mock_runs, mock_returns
  <2> QED BY <2>1, <2>2, <2>3, <2>4, <2>5, <2>6, <2>7, <2>8 DEF RuntimeStep
<1> QED BY <1>2, <1>3, <1>4 DEF CoreOK

LEMMA RuntimeSucceeds ==
    ASSUME SuccessionInv, NEW r \in Runtime, RuntimeStep(r)
    PROVE  SuccessionInv'
<1>1. OwnerInv' /\ HandleInv /\ AloneOK /\ SpawnedInOrder /\ ExitOK
  BY RuntimeKeepsOwners DEF SuccessionInv, OwnerInv
<1>2. /\ UNCHANGED <<active, last_exit, calls, stage, overlapped>>
      /\ \A q \in Runtime :
           /\ runtimes'[q].phase = "unborn" <=> runtimes[q].phase = "unborn"
           /\ Finished(q) => runtimes'[q] = runtimes[q]
  BY <1>1, RuntimeFacts, RuntimeMoves DEF Live, Finished
<1>3. AloneOK'
  <2>1. \A q \in Runtime : Live(q)' => Live(q)
    BY <1>2 DEF Live, Finished
  <2> QED BY <1>1, <1>2, <2>1 DEF AloneOK
<1>4. SpawnedInOrder' /\ Newest' = Newest
  BY <1>1, <1>2, SameNewest
<1>5. ExitOK'
  <2>1. Newest # NoRuntime => Newest \in Runtime
    BY <1>1, NewestIsSpawned
  <2> SUFFICES ASSUME stage \in {"booting", "serving"}, Newest \notin overlapped
               PROVE  ExitOK'
    BY <1>2, <1>4 DEF ExitOK
  <2>2. Finished(Newest) /\ Newest # 0
          => Finished(Newest)' /\ runtimes'[Newest].exit = runtimes[Newest].exit
    BY <1>2, <1>4, <2>1 DEF Finished, NoRuntime
  <2> QED BY <1>1, <1>2, <1>4, <2>2 DEF ExitOK
<1> QED BY <1>1, <1>3, <1>4, <1>5, RuntimeKeepsCore DEF SuccessionInv

LEMMA NextSucceeds ==
    ASSUME SuccessionInv, NEW s, Starter = {s}, [Next]_vars
    PROVE  SuccessionInv'
<1>1. CASE \E t \in Thread : Arrives(t)
  BY <1>1, ArrivalSucceeds
<1>2. CASE \E t \in Callers : CallStep(t)
  <2>1. PICK t \in Callers : CallStep(t)
    BY <1>2
  <2>2. CASE spawn_runtime(t)
    BY <2>2, SpawnSucceeds
  <2>3. CASE publish(t)
    BY <2>3, PublishSucceeds
  <2>4. CASE joined(t) /\ calls[t].op = "shutdown"
    BY <2>4, EndingSucceeds
  <2>5. CASE ~(spawn_runtime(t) \/ publish(t) \/ (joined(t) /\ calls[t].op = "shutdown"))
    BY <2>1, <2>5, MostCallsSucceed DEF CallStep
  <2> QED BY <2>2, <2>3, <2>4, <2>5
<1>3. CASE \E r \in Runtime : RuntimeStep(r)
  BY <1>3, RuntimeSucceeds
<1>4. CASE drain
  <2>1. OwnerInv'
    BY <1>4, NextKeepsOwners DEF SuccessionInv, Next
  <2> QED BY <1>4, <2>1, EndingSucceeds
<1>5. CASE shutdown_and_join
  BY <1>5, EndingSucceeds
<1>6. CASE UNCHANGED vars
  <2>1. OwnerInv'
    BY <1>6, NextKeepsOwners DEF SuccessionInv
  <2>2. UNCHANGED <<active, last_exit, runtimes, context, core, calls, stage, overlapped>>
    BY <1>6 DEF vars
  <2>3. AloneOK' /\ CoreOK'
    BY <2>2 DEF SuccessionInv, AloneOK, CoreOK, Is, Live
  <2>4. SpawnedInOrder' /\ Newest' = Newest
    BY <2>2, SameNewest DEF SuccessionInv
  <2>5. ExitOK'
    BY <2>2, <2>4 DEF SuccessionInv, ExitOK, Finished
  <2> QED BY <2>1, <2>3, <2>4, <2>5 DEF SuccessionInv
<1> QED BY <1>1, <1>2, <1>3, <1>4, <1>5, <1>6 DEF Next

LEMMA SuccessionInit == Init => SuccessionInv
<1> SUFFICES ASSUME Init PROVE SuccessionInv
  OBVIOUS
<1>1. OwnerInv
  BY OwnersInit
<1>2. \A t \in Callers : calls[t].held = NoRuntime
  BY DEF Init, Idle
<1>3. AloneOK
  BY DEF Init, AloneOK, Live, Unborn
<1>4. CoreOK
  BY DEF Init, CoreOK, Is, Unborn
<1>5. SpawnedUpTo(0) /\ 0 \in 0..MaxRuntimes
  BY ManagerAssumption DEF Init, SpawnedUpTo, Unborn, Runtime
<1>6. SpawnedInOrder /\ Newest = 0
  BY <1>5, NewestFacts DEF SpawnedInOrder
<1>7. ExitOK
  BY <1>2, <1>6 DEF Init, ExitOK
<1> QED BY <1>1, <1>3, <1>4, <1>6, <1>7 DEF SuccessionInv

LEMMA SuccessionInvariant ==
    ASSUME NEW s, Starter = {s}
    PROVE  Spec => []SuccessionInv
<1>1. Init => SuccessionInv
  BY SuccessionInit
<1>2. SuccessionInv /\ [Next]_vars => SuccessionInv'
  BY NextSucceeds
<1> QED BY <1>1, <1>2, PTL DEF Spec

\* With one thread that starts sessions, a session that no stop in progress
\* overlapped runs its frames with its game loaded and the callback context
\* set, whatever stops, looks and commands go on and whatever failed before.
THEOREM CoreIsReadyForFrames ==
    ASSUME NEW s, Starter = {s}
    PROVE  Spec => []CoreIsReady
<1>1. SuccessionInv => CoreIsReady
  BY DEF SuccessionInv, CoreOK, CoreIsReady
<1> QED BY <1>1, SuccessionInvariant, PTL

\* And between two calls status tells the truth about the session started last,
\* whichever of the calls in progress together saw it end.
THEOREM ExitsAreReported ==
    ASSUME NEW s, Starter = {s}
    PROVE  Spec => []ExitIsReported
<1>1. SuccessionInv => ExitIsReported
  <2> SUFFICES ASSUME SuccessionInv, stage = "serving", Newest \notin overlapped,
                      \A t \in Callers : IsIdle(t)
               PROVE  \/ active = Newest /\ last_exit = NoExit
                      \/ active = NoRuntime /\ last_exit = runtimes[Newest].exit
    BY DEF ExitIsReported, Newest
  <2>1. \A t \in Callers : calls[t].held = NoRuntime
    BY DEF SuccessionInv, OwnerInv, HandleInv, CallOK, Holding, IsIdle
  <2> QED BY <2>1 DEF SuccessionInv, ExitOK
<1> QED BY <1>1, SuccessionInvariant, PTL

\* Runtimes are spawned by spawn_runtime alone.
LEMMA OnlySpawned ==
    ASSUME HandleInv, [Next]_vars, NEW r \in Runtime,
           runtimes[r].phase = "unborn", runtimes'[r].phase # "unborn"
    PROVE  \E t \in Callers : spawn_runtime(t)
<1>0. runtimes \in [Runtime -> RuntimeState] /\ calls \in [Callers -> Call]
      /\ active \in Runtime \cup {NoRuntime}
  BY DEF HandleInv, TypeOK
<1>1. ~\E t \in Thread : Arrives(t)
  BY DEF Arrives, call
<1>2. ~\E q \in Runtime : RuntimeStep(q)
  BY RuntimeFacts
<1>3. ~(drain \/ shutdown_and_join \/ UNCHANGED vars)
  BY DEF drain, shutdown_and_join, vars
<1>4. PICK t \in Callers : CallStep(t)
  BY <1>1, <1>2, <1>3 DEF Next
<1>5. ~(reap_joined(t) \/ signal(t))
  <2>1. runtimes' = [runtimes EXCEPT ![calls[t].held].shutdown = TRUE]
          => runtimes'[r].phase = runtimes[r].phase
    BY <1>0 DEF RuntimeState
  <2> QED BY <2>1 DEF reap_joined, signal
<1>6. ~request(t)
  <2>1. ASSUME NEW c \in Command,
               runtimes' = [runtimes EXCEPT ![active].commands = Append(@, c)]
        PROVE  runtimes'[r].phase = runtimes[r].phase
    BY <1>0, <2>1 DEF RuntimeState
  <2>2. runtimes' # runtimes
    OBVIOUS
  <2> QED BY <2>1, <2>2 DEF request
<1> QED BY <1>4, <1>5, <1>6
        DEF CallStep, reap, start_refused, start_take, stop_take, status, joined,
            prepare_fails, publish

\* Only a runtime that a stop is waiting for lives beside a new one.
THEOREM StartsWaitForTheirPredecessor ==
    ASSUME NEW s, Starter = {s}
    PROVE  Spec => OnlyAStopIsOverlapped
<1> DEFINE Waits == \A r, q \in Runtime :
        runtimes[r].phase = "unborn" /\ runtimes'[r].phase # "unborn" /\ Live(q)
            => \E t \in Callers : calls[t].op = "stop" /\ calls[t].held = q
<1>1. SuccessionInv /\ [Next]_vars => [Waits]_vars
  <2> SUFFICES ASSUME OwnerInv, [Next]_vars, NEW r \in Runtime, NEW q \in Runtime,
                      runtimes[r].phase = "unborn", runtimes'[r].phase # "unborn", Live(q)
               PROVE  \E t \in Callers : calls[t].op = "stop" /\ calls[t].held = q
    BY DEF SuccessionInv
  <2>1. \E t \in Callers : spawn_runtime(t)
    BY OnlySpawned DEF OwnerInv
  <2>2. PICK t \in Callers : spawn_runtime(t)
    BY <2>1
  <2> QED BY <2>2, OverlapsAreStops DEF spawn_runtime
<1> QED BY <1>1, SuccessionInvariant, PTL DEF Spec, OnlyAStopIsOverlapped
=============================================================================
