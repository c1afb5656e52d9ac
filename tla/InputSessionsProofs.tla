------------------------- MODULE InputSessionsProofs -------------------------
(* Theorems about InputSessions, for every number of connections, players  *)
(* and ports, and for every reconnect window.                              *)
EXTENDS InputSessions, TLAPS

\* No lease is the absence of one.
LEMMA NoLease == NoOwner \notin Lease
BY SessionAssumption DEF Lease

\* How far a connection has come tells whether its cleanup can have begun.
CleanupComesLast ==
  \A s \in Source :
    /\ conn[s] \in {"new", "setup"} => cleanup[s] = "not_run"
    /\ s \notin Rtc => /\ conn[s] \in {"new", "open", "gone"}
                       /\ conn[s] # "gone" => cleanup[s] = "not_run"

Inv == TypeOK /\ CleanupComesLast /\ WindowRunsAfterCleanup /\ WsLeavesNothing

LEMMA InitInv == Init => Inv
BY SessionAssumption
DEF Init, Inv, TypeOK, CleanupComesLast, WindowRunsAfterCleanup, WsLeavesNothing, Stage, Lease,
    Connected, Absent

\* What the registry's operations do to one lease.
LEMMA ReserveFacts ==
  ASSUME TypeOK, NEW s \in Source, reserve_ports(s)
  PROVE  /\ per_port' \in [Port -> Lease \cup {NoOwner}]
         /\ \A p \in Port : \/ per_port'[p] = Taken(s) /\ p \in Ports[s]
                            \/ per_port'[p] = per_port[p]
                            \/ per_port'[p] = NoOwner /\ Expired(per_port[p])
BY DEF TypeOK, reserve_ports, cleanup_expired, Taken, Lease, Expired

LEMMA MarkFacts ==
  ASSUME TypeOK, NEW s \in Source, mark_disconnected(s)
  PROVE  /\ per_port' \in [Port -> Lease \cup {NoOwner}]
         /\ \A p \in Port :
              \/ per_port'[p] = NoOwner /\ (per_port[p] = NoOwner \/ Expired(per_port[p]))
              \/ /\ per_port[p] # NoOwner /\ per_port[p].source = s
                 /\ per_port'[p] = [source |-> s, until |-> Window]
              \/ /\ per_port[p] # NoOwner /\ per_port[p].source # s
                 /\ per_port'[p] = per_port[p]
<1> SUFFICES ASSUME NEW p \in Port
             PROVE  /\ per_port'[p] \in Lease \cup {NoOwner}
                    /\ \/ per_port'[p] = NoOwner /\ (per_port[p] = NoOwner \/ Expired(per_port[p]))
                       \/ /\ per_port[p] # NoOwner /\ per_port[p].source = s
                          /\ per_port'[p] = [source |-> s, until |-> Window]
                       \/ /\ per_port[p] # NoOwner /\ per_port[p].source # s
                          /\ per_port'[p] = per_port[p]
  BY DEF mark_disconnected
<1> DEFINE l == per_port[p]
<1>1. l \in Lease \cup {NoOwner}
  BY DEF TypeOK
<1>2. per_port'[p] = IF l = NoOwner \/ Expired(l) THEN NoOwner
                     ELSE IF l.source = s THEN [l EXCEPT !.until = Window] ELSE l
  BY DEF mark_disconnected, cleanup_expired, Expired
<1> HIDE DEF l
<1>3. l \in Lease => /\ [l EXCEPT !.until = Window] = [source |-> l.source, until |-> Window]
                     /\ [l EXCEPT !.until = Window] \in Lease
  BY SessionAssumption DEF Lease, Connected
<1> QED
  BY <1>1, <1>2, <1>3 DEF l

\* A step that leaves the registry alone and cleans nothing up to the end.
LEMMA WindowKept ==
  ASSUME Inv, UNCHANGED per_port,
         \A s \in Source : cleanup'[s] = "done" <=> cleanup[s] = "done"
  PROVE  WindowRunsAfterCleanup'
BY DEF Inv, TypeOK, WindowRunsAfterCleanup, Lease

LEMMA BeginCleanupFacts ==
  ASSUME TypeOK, NEW s \in Source, begin_cleanup(s)
  PROVE  /\ cleanup' \in [Source -> {"not_run", "half_done", "done"}]
         /\ hub' \in [Source -> [Port -> {Absent} \cup 0 .. StaleTimeout + 1]]
         /\ \A r \in Source : r # s => cleanup'[r] = cleanup[r] /\ hub'[r] = hub[r]
         /\ \A r \in Source : cleanup'[r] = "done" <=> cleanup[r] = "done"
         /\ cleanup[s] = "not_run" => \A p \in Port : hub'[s][p] = Absent
<1>1. CASE cleanup[s] = "not_run"
  <2>1. /\ cleanup' = [cleanup EXCEPT ![s] = "half_done"]
        /\ hub' = [hub EXCEPT ![s] = [p \in Port |-> Absent]]
    BY <1>1 DEF begin_cleanup, remove_source
  <2>2. cleanup' \in [Source -> {"not_run", "half_done", "done"}]
    BY <2>1 DEF TypeOK
  <2>3. hub' \in [Source -> [Port -> {Absent} \cup 0 .. StaleTimeout + 1]]
    BY <2>1 DEF TypeOK
  <2>4. \A r \in Source : cleanup'[r] = "done" <=> cleanup[r] = "done"
    BY <1>1, <2>1 DEF TypeOK
  <2> QED
    BY <2>1, <2>2, <2>3, <2>4 DEF TypeOK
<1>2. CASE cleanup[s] # "not_run"
  BY <1>2 DEF begin_cleanup, TypeOK
<1> QED
  BY <1>1, <1>2

LEMMA StepInv == Inv /\ [Next]_vars => Inv'
<1> SUFFICES ASSUME Inv, [Next]_vars PROVE Inv'
  OBVIOUS
<1>t. TypeOK /\ CleanupComesLast /\ WindowRunsAfterCleanup /\ WsLeavesNothing
  BY DEF Inv
<1>1. CASE Tick
  <2>1. \A p \in Port : Nearer(per_port[p]) \in Lease \cup {NoOwner}
    <3> SUFFICES ASSUME NEW p \in Port, per_port[p] # NoOwner, per_port[p].until > 0
                 PROVE  [per_port[p] EXCEPT !.until = @ - 1] \in Lease
      BY <1>t DEF Nearer, TypeOK
    <3>1. per_port[p] \in Lease
      BY <1>t DEF TypeOK
    <3>2. per_port[p].until - 1 \in {Connected} \cup 0 .. Window
      BY <3>1, SessionAssumption DEF Lease, Connected
    <3> QED
      BY <3>1, <3>2 DEF Lease
  <2>2. \A s \in Source, p \in Port : Older(hub[s][p]) \in {Absent} \cup 0 .. StaleTimeout + 1
    BY <1>t, SessionAssumption DEF TypeOK, Older, Absent
  <2>3. TypeOK'
    BY <1>1, <1>t, <2>1, <2>2 DEF TypeOK, Tick
  <2>4. \A p \in Port : per_port'[p] # NoOwner =>
          /\ per_port[p] # NoOwner /\ per_port'[p].source = per_port[p].source
          /\ per_port'[p].until = Connected <=> per_port[p].until = Connected
    <3> SUFFICES ASSUME NEW p \in Port, per_port'[p] # NoOwner
                 PROVE  /\ per_port[p] # NoOwner /\ per_port'[p].source = per_port[p].source
                        /\ per_port'[p].until = Connected <=> per_port[p].until = Connected
      OBVIOUS
    <3>1. per_port'[p] = Nearer(per_port[p])
      BY <1>1 DEF Tick
    <3>2. per_port[p] # NoOwner /\ per_port[p] \in Lease
      BY <1>t, <3>1 DEF Nearer, TypeOK
    <3> QED
      BY <3>1, <3>2, SessionAssumption DEF Nearer, Lease, Connected
  <2>5. WindowRunsAfterCleanup'
    BY <1>1, <1>t, <2>4 DEF WindowRunsAfterCleanup, Tick
  <2>6. WsLeavesNothing' /\ CleanupComesLast'
    BY <1>1, <1>t DEF WsLeavesNothing, CleanupComesLast, Tick, Older
  <2> QED
    BY <2>3, <2>5, <2>6 DEF Inv
<1>2. ASSUME NEW s \in Source, open_ws(s) \/ offer(s)
      PROVE  Inv'
  <2>1. TypeOK'
    BY <1>t, <1>2, ReserveFacts DEF TypeOK, open_ws, offer, Becomes, Stage
  <2>2. cleanup[s] = "not_run" /\ UNCHANGED cleanup
    BY <1>t, <1>2 DEF CleanupComesLast, open_ws, offer
  <2>3. WindowRunsAfterCleanup'
    <3> SUFFICES ASSUME NEW p \in Port, per_port'[p] # NoOwner
                 PROVE  per_port'[p].until # Connected <=> cleanup'[per_port'[p].source] = "done"
      BY DEF WindowRunsAfterCleanup
    <3>1. CASE per_port'[p] = Taken(s)
      BY <2>2, <3>1 DEF Taken
    <3>2. CASE per_port'[p] = per_port[p]
      BY <1>t, <2>2, <3>2 DEF WindowRunsAfterCleanup
    <3>3. reserve_ports(s)
      BY <1>2 DEF open_ws, offer
    <3> QED
      BY <1>t, <3>1, <3>2, <3>3, ReserveFacts
  <2>4. WsLeavesNothing' /\ CleanupComesLast'
    BY <1>t, <1>2, <2>2
    DEF WsLeavesNothing, CleanupComesLast, open_ws, offer, Becomes, TypeOK
  <2> QED
    BY <2>1, <2>3, <2>4 DEF Inv
<1>3. ASSUME NEW s \in Source, close_ws(s)
      PROVE  Inv'
  <2>1. TypeOK'
    BY <1>t, <1>3, BeginCleanupFacts DEF TypeOK, close_ws, Becomes, Stage
  <2>2. cleanup[s] = "not_run" /\ pending[s] = {}
    BY <1>t, <1>3 DEF CleanupComesLast, close_ws
  <2>3. WindowRunsAfterCleanup'
    BY <1>t, <1>3, BeginCleanupFacts, WindowKept DEF close_ws
  <2>4. WsLeavesNothing' /\ CleanupComesLast'
    BY <1>t, <1>3, <2>2, BeginCleanupFacts
    DEF WsLeavesNothing, CleanupComesLast, close_ws, Becomes, TypeOK
  <2> QED
    BY <2>1, <2>3, <2>4 DEF Inv
<1>4. ASSUME NEW s \in Source,
             setup_fails(s) \/ pc_fails(s) \/ pc_closes(s)
      PROVE  Inv'
  <2>1. /\ begin_cleanup(s) /\ UNCHANGED <<per_port, pending>> /\ s \in Rtc
        /\ Becomes(s, "gone") \/ Becomes(s, "silent")
        /\ rtc_sessions' \subseteq Rtc
    BY <1>t, <1>4, SessionAssumption
    DEF setup_fails, pc_fails, pc_closes, session_ends, TypeOK, CleanupComesLast
  <2>2. TypeOK'
    BY <1>t, <2>1, BeginCleanupFacts DEF TypeOK, Becomes, Stage
  <2>3. WindowRunsAfterCleanup'
    BY <1>t, <2>1, BeginCleanupFacts, WindowKept
  <2>4. /\ conn'[s] \in {"gone", "silent"}
        /\ \A r \in Source : r # s => /\ conn'[r] = conn[r] /\ cleanup'[r] = cleanup[r]
                                      /\ hub'[r] = hub[r]
        /\ UNCHANGED pending
    BY <1>t, <2>1, BeginCleanupFacts DEF Becomes, TypeOK
  <2>5. WsLeavesNothing'
    BY <1>t, <2>1, <2>4 DEF WsLeavesNothing
  <2>6. CleanupComesLast'
    BY <1>t, <2>1, <2>4 DEF CleanupComesLast
  <2> QED
    BY <2>2, <2>3, <2>5, <2>6 DEF Inv
<1>10. ASSUME NEW s \in Source, channel_closes(s)
      PROVE  Inv'
  <2>1. /\ begin_cleanup(s) /\ UNCHANGED <<per_port, conn, pending, rtc_sessions>>
        /\ s \in Rtc /\ conn[s] = "open"
    BY <1>10, SessionAssumption DEF channel_closes
  <2>2. TypeOK'
    BY <1>t, <2>1, BeginCleanupFacts DEF TypeOK
  <2>3. WindowRunsAfterCleanup'
    BY <1>t, <2>1, BeginCleanupFacts, WindowKept
  <2>4. \A r \in Source : r # s => cleanup'[r] = cleanup[r] /\ hub'[r] = hub[r]
    BY <1>t, <2>1, BeginCleanupFacts
  <2>5. WsLeavesNothing' /\ CleanupComesLast'
    BY <1>t, <2>1, <2>4 DEF WsLeavesNothing, CleanupComesLast
  <2> QED
    BY <2>2, <2>3, <2>5 DEF Inv
<1>5. ASSUME NEW s \in Source, setup_dropped(s) \/ setup_done(s) \/ answer(s)
      PROVE  Inv'
  <2>1. /\ UNCHANGED <<per_port, hub, cleanup, pending>> /\ s \in Rtc
        /\ Becomes(s, "gone") \/ Becomes(s, "negotiating") \/ Becomes(s, "open")
        /\ rtc_sessions' \subseteq Rtc
    BY <1>t, <1>5 DEF setup_dropped, setup_done, answer, TypeOK, CleanupComesLast
  <2>2. TypeOK'
    BY <1>t, <2>1 DEF TypeOK, Becomes, Stage
  <2>3. WindowRunsAfterCleanup' /\ WsLeavesNothing' /\ CleanupComesLast'
    BY <1>t, <2>1
    DEF WindowRunsAfterCleanup, WsLeavesNothing, CleanupComesLast, Becomes, TypeOK
  <2> QED
    BY <2>2, <2>3 DEF Inv
<1>6. ASSUME NEW s \in Source, end_cleanup(s)
      PROVE  Inv'
  <2>1. /\ cleanup[s] = "half_done" /\ cleanup' = [cleanup EXCEPT ![s] = "done"]
        /\ mark_disconnected(s) /\ UNCHANGED <<hub, conn, pending, rtc_sessions>>
    BY <1>6 DEF end_cleanup
  <2>2. TypeOK'
    BY <1>t, <2>1, MarkFacts DEF TypeOK
  <2>3. WindowRunsAfterCleanup'
    <3> SUFFICES ASSUME NEW p \in Port, per_port'[p] # NoOwner
                 PROVE  per_port'[p].until # Connected <=> cleanup'[per_port'[p].source] = "done"
      BY DEF WindowRunsAfterCleanup
    <3>1. CASE per_port'[p] = [source |-> s, until |-> Window]
      BY <1>t, <2>1, <3>1, SessionAssumption DEF Connected, TypeOK
    <3>2. CASE /\ per_port[p] # NoOwner /\ per_port[p].source # s
               /\ per_port'[p] = per_port[p]
      BY <1>t, <2>1, <3>2 DEF WindowRunsAfterCleanup, TypeOK, Lease
    <3> QED
      BY <1>t, <2>1, <3>1, <3>2, MarkFacts
  <2>4. WsLeavesNothing' /\ CleanupComesLast'
    BY <1>t, <2>1 DEF WsLeavesNothing, CleanupComesLast, TypeOK
  <2> QED
    BY <2>2, <2>3, <2>4 DEF Inv
<1>7. ASSUME NEW s \in Source, apply_update(s)
      PROVE  Inv'
  <2>1. PICK p \in pending[s] : /\ hub' = [hub EXCEPT ![s][p] = 0]
                                /\ pending' = [pending EXCEPT ![s] = @ \ {p}]
    BY <1>7 DEF apply_update
  <2>2. UNCHANGED <<per_port, conn, cleanup, rtc_sessions>> /\ p \in Port
    BY <1>t, <1>7 DEF apply_update, TypeOK
  <2>3. TypeOK'
    <3>1. 0 \in {Absent} \cup 0 .. StaleTimeout + 1
      BY SessionAssumption
    <3> QED
      BY <1>t, <2>1, <2>2, <3>1 DEF TypeOK
  <2>4. WsLeavesNothing' /\ CleanupComesLast' /\ WindowRunsAfterCleanup'
    BY <1>t, <2>1, <2>2 DEF WsLeavesNothing, CleanupComesLast, WindowRunsAfterCleanup, TypeOK
  <2> QED
    BY <2>3, <2>4 DEF Inv
<1>8. ASSUME NEW s \in Source, NEW p \in Port, receive_text(s, p) \/ receive_binary(s, p)
      PROVE  Inv'
  <2>1. /\ conn[s] = "open" /\ pending' = [pending EXCEPT ![s] = @ \cup {p}]
        /\ UNCHANGED <<per_port, hub, conn, cleanup, rtc_sessions>>
    BY <1>8 DEF receive_text, receive_binary, Receive
  <2> QED
    BY <1>t, <2>1 DEF Inv, TypeOK, WsLeavesNothing, CleanupComesLast, WindowRunsAfterCleanup
<1>9. CASE UNCHANGED vars
  BY <1>t, <1>9 DEF vars, Inv, TypeOK, WsLeavesNothing, CleanupComesLast, WindowRunsAfterCleanup
<1> QED
  BY <1>1, <1>2, <1>3, <1>4, <1>5, <1>6, <1>7, <1>8, <1>9, <1>10 DEF Next

\* Leases, cleanups and pending input agree in every state that can be reached.
THEOREM SessionInvariant == Spec => []Inv
<1> QED
  BY InitInv, StepInv, PTL DEF Spec

\* Every table keeps its type through every handler and every interleaving.
THEOREM SessionTypes == Spec => []TypeOK
<1>1. Inv => TypeOK
  BY DEF Inv
<1> QED
  BY <1>1, SessionInvariant, PTL

\* The window of a lease runs if and only if its own connection was cleaned up.
THEOREM WindowOfTheRightConnection == Spec => []WindowRunsAfterCleanup
<1>1. Inv => WindowRunsAfterCleanup
  BY DEF Inv
<1> QED
  BY <1>1, SessionInvariant, PTL

\* No update of a WebSocket is applied after its source was removed.
THEOREM NothingIsLeft == Spec => []WsLeavesNothing
<1>1. Inv => WsLeavesNothing
  BY DEF Inv
<1> QED
  BY <1>1, SessionInvariant, PTL

\* Which steps change the registry: time, a reservation, the end of a cleanup.
LEMMA RegistrySteps ==
  ASSUME Inv, [Next]_vars
  PROVE  \/ \A p \in Port : per_port'[p] = Nearer(per_port[p])
         \/ \E s \in Source : /\ reserve_ports(s)
                              /\ conn[s] = "new" /\ conn'[s] # "new"
         \/ \E s \in Source : end_cleanup(s)
         \/ UNCHANGED per_port
<1>1. CASE Tick
  BY <1>1 DEF Tick
<1>2. ASSUME NEW s \in Source, open_ws(s) \/ offer(s)
      PROVE  reserve_ports(s) /\ conn[s] = "new" /\ conn'[s] # "new"
  BY <1>2 DEF open_ws, offer, Becomes, Inv, TypeOK
<1>3. ASSUME NEW s \in Source,
             \/ close_ws(s) \/ setup_fails(s) \/ setup_dropped(s) \/ setup_done(s) \/ answer(s)
             \/ pc_fails(s) \/ pc_closes(s) \/ channel_closes(s) \/ apply_update(s)
      PROVE  UNCHANGED per_port
  BY <1>3 DEF close_ws, setup_fails, setup_dropped, setup_done, answer, pc_fails, pc_closes,
              session_ends, channel_closes, apply_update
<1>4. ASSUME NEW s \in Source, NEW p \in Port, receive_text(s, p) \/ receive_binary(s, p)
      PROVE  UNCHANGED per_port
  BY <1>4 DEF receive_text, receive_binary
<1>5. CASE UNCHANGED vars
  BY <1>5 DEF vars
<1> QED
  BY <1>1, <1>2, <1>3, <1>4, <1>5 DEF Next

\* A port is lost to a later reservation or to the connection's own cleanup.
THEOREM PortsAreTakenOverOnly == Spec => PortLostToReservationOnly
<1> DEFINE Kept == \A p \in Port, s \in Source :
             per_port[p] = Taken(s) /\ per_port'[p] # Taken(s) =>
               \/ cleanup'[s] = "done" /\ per_port'[p] = [source |-> s, until |-> Window]
               \/ \E r \in Source : conn[r] = "new" /\ conn'[r] # "new" /\ per_port'[p] = Taken(r)
<1>1. Inv /\ [Next]_vars => [Kept]_vars
  <2> SUFFICES ASSUME Inv, [Next]_vars, NEW p \in Port, NEW s \in Source,
                      per_port[p] = Taken(s), per_port'[p] # Taken(s)
               PROVE  \/ cleanup'[s] = "done" /\ per_port'[p] = [source |-> s, until |-> Window]
                      \/ \E r \in Source : /\ conn[r] = "new" /\ conn'[r] # "new"
                                           /\ per_port'[p] = Taken(r)
    OBVIOUS
  <2>1. /\ TypeOK /\ per_port[p] # NoOwner
        /\ per_port[p].until = Connected /\ per_port[p].source = s
    BY NoLease DEF Inv, Taken, Lease
  <2>2. Nearer(per_port[p]) = per_port[p] /\ ~Expired(per_port[p])
    BY <2>1 DEF Nearer, Expired, Connected
  <2>3. ASSUME NEW r \in Source, reserve_ports(r)
        PROVE  per_port'[p] = Taken(r)
    BY <2>1, <2>2, <2>3, ReserveFacts
  <2>4. ASSUME NEW r \in Source, end_cleanup(r)
        PROVE  cleanup'[s] = "done" /\ per_port'[p] = [source |-> s, until |-> Window]
    <3>1. mark_disconnected(r) /\ cleanup' = [cleanup EXCEPT ![r] = "done"]
      BY <2>4 DEF end_cleanup
    <3>2. r = s /\ per_port'[p] = [source |-> s, until |-> Window]
      BY <2>1, <2>2, <3>1, MarkFacts
    <3> QED
      BY <2>1, <3>1, <3>2 DEF TypeOK
  <2> QED
    BY <2>2, <2>3, <2>4, RegistrySteps
<1> QED
  BY <1>1, SessionInvariant, PTL DEF Spec, PortLostToReservationOnly

\* While its window runs a lease is neither cut short nor prolonged, except by
\* a new connection with a claim to that port, of the same player or another.
THEOREM WindowsAreKept == Spec => LeaseLastsItsWindow
<1> DEFINE Lasts == \A p \in Port :
             LET l == per_port[p] IN
             l # NoOwner /\ l.until > 0 =>
               \/ \E r \in Source : /\ conn[r] = "new" /\ conn'[r] # "new"
                                    /\ p \in Ports[r] /\ per_port'[p] = Taken(r)
               \/ /\ per_port'[p] # NoOwner
                  /\ per_port'[p].source = l.source
                  /\ per_port'[p].until \in {l.until, l.until - 1}
<1>1. Inv /\ [Next]_vars => [Lasts]_vars
  <2> SUFFICES ASSUME Inv, [Next]_vars, NEW p \in Port,
                      per_port[p] # NoOwner, per_port[p].until > 0
               PROVE  \/ \E r \in Source : /\ conn[r] = "new" /\ conn'[r] # "new"
                                           /\ p \in Ports[r] /\ per_port'[p] = Taken(r)
                      \/ /\ per_port'[p] # NoOwner
                         /\ per_port'[p].source = per_port[p].source
                         /\ per_port'[p].until \in {per_port[p].until, per_port[p].until - 1}
    OBVIOUS
  <2>1. TypeOK /\ per_port[p] \in Lease /\ Inv'
    BY StepInv DEF Inv, TypeOK
  <2>2. ~Expired(per_port[p]) /\ per_port[p].until # Connected /\ Taken(per_port[p].source) # per_port[p]
    BY <2>1 DEF Expired, Connected, Lease, Taken
  <2>3. CASE per_port'[p] = Nearer(per_port[p])
    <3>1. per_port'[p] = [per_port[p] EXCEPT !.until = @ - 1]
      BY <2>3 DEF Nearer
    <3>2. per_port'[p].source = per_port[p].source /\ per_port'[p].until = per_port[p].until - 1
      BY <2>1, <3>1 DEF Lease
    <3>3. [per_port[p] EXCEPT !.until = @ - 1] \in Lease
      <4>1. per_port[p].until - 1 \in 0 .. Window
        BY <2>1, SessionAssumption DEF Lease, Connected
      <4> QED
        BY <2>1, <4>1 DEF Lease
    <3>4. per_port'[p] # NoOwner
      BY <3>1, <3>3, NoLease
    <3> QED
      BY <3>2, <3>4
  <2>4. CASE per_port'[p] = per_port[p]
    BY <2>4
  <2>5. ASSUME NEW r \in Source, reserve_ports(r)
        PROVE  \/ per_port'[p] = Taken(r) /\ p \in Ports[r]
               \/ per_port'[p] = per_port[p]
    BY <2>1, <2>2, <2>5, ReserveFacts
  <2>6. ASSUME NEW r \in Source, end_cleanup(r)
        PROVE  per_port'[p] = per_port[p]
    <3>1. mark_disconnected(r) /\ cleanup[r] # "done"
      BY <2>6 DEF end_cleanup
    <3>2. per_port[p].source # r
      BY <2>2, <3>1 DEF Inv, WindowRunsAfterCleanup
    <3> QED
      BY <2>1, <2>2, <3>1, <3>2, MarkFacts
  <2> QED
    BY <2>3, <2>4, <2>5, <2>6, RegistrySteps
<1> QED
  BY <1>1, SessionInvariant, PTL DEF Spec, LeaseLastsItsWindow
=============================================================================
