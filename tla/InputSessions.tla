---------------------------- MODULE InputSessions ----------------------------
(***************************************************************************)
(* Who may press whose buttons: the port leases of server.rs               *)
(* (InputSessionRegistry) together with the life of a WebSocket or WebRTC  *)
(* input connection and the input it leaves in the hub of input.rs.        *)
(*                                                                         *)
(* The registry and the hub have a lock each.  A step below is one         *)
(* critical section; what a handler does between two of them (it has       *)
(* checked the owner and not yet applied the input, it has removed the     *)
(* source and not yet marked the lease) can be interleaved with every      *)
(* other connection.  A WebSocket reads, applies and cleans up in one      *)
(* task; a WebRTC connection handles messages, state changes and the       *)
(* closing of its channel in tasks of their own.                           *)
(***************************************************************************)
EXTENDS Integers

CONSTANTS Player,
          Port,
          Source,          \* input connections: a source id is never reused
          Rtc,             \* those over WebRTC, the others over /ws/input
          Announced,       \* WebRTC clients that open further "input" channels
          Watcher,         \* WebRTC clients whose role is not Player
          Owner,           \* the player of a source
          Ports,           \* claims.allowed_ports, {} without player claims
          NoOwner,
          Window,          \* reconnect_window, in ticks; at least 1000 ms
          StaleTimeout     \* STALE_TIMEOUT, in ticks

Connected == -1            \* reconnect_until = None

Absent == -1               \* the source has no entry for the port

Lease == [source : Source, until : {Connected} \cup 0 .. Window]

ASSUME SessionAssumption ==
  /\ Rtc \subseteq Source /\ Announced \subseteq Rtc /\ Watcher \subseteq Rtc
  /\ Owner \in [Source -> Player]
  /\ Ports \in [Source -> SUBSET Port]
  /\ \A s \in Watcher : Ports[s] = {}
  /\ Window \in Nat \ {0}
  /\ StaleTimeout \in Nat
  /\ NoOwner \notin Lease

VARIABLES per_port,        \* the registry: who owns a port
          hub,             \* ticks since a source's last input on a port
          conn,            \* how far a connection has come
          cleanup,         \* how far its cleanup has come
          pending,         \* input on its way: checked, not yet applied
          rtc_sessions     \* the peer connections kept alive

vars == <<per_port, hub, conn, cleanup, pending, rtc_sessions>>

Stage == {"new", "setup", "negotiating", "open", "silent", "gone"}

Init ==
  /\ per_port = [p \in Port |-> NoOwner]
  /\ hub = [s \in Source |-> [p \in Port |-> Absent]]
  /\ conn = [s \in Source |-> "new"]
  /\ cleanup = [s \in Source |-> "not_run"]
  /\ pending = [s \in Source |-> {}]
  /\ rtc_sessions = {}
-----------------------------------------------------------------------------
(* The registry.                                                           *)

Expired(l) == l # NoOwner /\ l.until = 0

cleanup_expired(reg) == [p \in Port |-> IF Expired(reg[p]) THEN NoOwner ELSE reg[p]]

Taken(s) == [source |-> s, until |-> Connected]

\* The newest reservation takes its ports from whoever has them, the same
\* player or another one, connected or not.
reserve_ports(s) ==
  per_port' = IF Ports[s] = {} THEN per_port ELSE
              [p \in Port |-> IF p \in Ports[s] THEN Taken(s) ELSE cleanup_expired(per_port)[p]]

is_source_owner(s, p) == per_port[p] = Taken(s)

\* Mutant: a disconnect gives the ports up at once.
mark_disconnected_release(s) ==
  per_port' = [p \in Port |->
    LET l == cleanup_expired(per_port)[p] IN
    IF l # NoOwner /\ l.source = s THEN NoOwner ELSE l]

\* Mutant: the leases of the player are marked, whichever source has them.
mark_disconnected_player(s) ==
  per_port' = [p \in Port |->
    LET l == cleanup_expired(per_port)[p] IN
    IF l # NoOwner /\ Owner[l.source] = Owner[s] THEN [l EXCEPT !.until = Window] ELSE l]

mark_disconnected(s) ==
  per_port' = [p \in Port |->
    LET l == cleanup_expired(per_port)[p] IN
    IF l # NoOwner /\ l.source = s THEN [l EXCEPT !.until = Window] ELSE l]

\* The first half of cleanup_input_source; mark_disconnected is the second.
remove_source(s) == hub' = [hub EXCEPT ![s] = [p \in Port |-> Absent]]

\* Mutant: a second cleanup is not held back.
begin_cleanup_again(s) == cleanup' = [cleanup EXCEPT ![s] = "half_done"] /\ remove_source(s)

\* cleanup_input_source_once: only the first caller gets past the swap.
begin_cleanup(s) ==
  IF cleanup[s] = "not_run"
  THEN cleanup' = [cleanup EXCEPT ![s] = "half_done"] /\ remove_source(s)
  ELSE UNCHANGED <<cleanup, hub>>

end_cleanup(s) ==
  /\ cleanup[s] = "half_done"
  /\ cleanup' = [cleanup EXCEPT ![s] = "done"]
  /\ mark_disconnected(s)
  /\ UNCHANGED <<hub, conn, pending, rtc_sessions>>
-----------------------------------------------------------------------------
(* A WebSocket connection: input_ws and input_session.                     *)

Becomes(s, stage) == conn' = [conn EXCEPT ![s] = stage]

open_ws(s) ==
  /\ s \notin Rtc /\ conn[s] = "new"
  /\ Becomes(s, "open")
  /\ reserve_ports(s)
  /\ UNCHANGED <<hub, cleanup, pending, rtc_sessions>>

\* The socket closed, failed, or could not be answered.
close_ws(s) ==
  /\ s \notin Rtc /\ conn[s] = "open" /\ pending[s] = {}
  /\ Becomes(s, "gone")
  /\ begin_cleanup(s)
  /\ UNCHANGED <<per_port, pending, rtc_sessions>>
-----------------------------------------------------------------------------
(* A WebRTC connection: webrtc_session and its callbacks.                  *)

\* The offer is accepted; the ports are reserved before anything can fail.
offer(s) ==
  /\ s \in Rtc /\ conn[s] = "new"
  /\ Becomes(s, "setup")
  /\ reserve_ports(s)
  /\ UNCHANGED <<hub, cleanup, pending, rtc_sessions>>

\* The peer connection or a track could not be made.
setup_fails(s) ==
  /\ conn[s] = "setup"
  /\ Becomes(s, "gone")
  /\ begin_cleanup(s)
  /\ UNCHANGED <<per_port, pending, rtc_sessions>>

\* The client gave up and the handler is dropped at one of its awaits: no
\* guard exists yet, and nothing is undone.
setup_dropped(s) ==
  /\ conn[s] = "setup"
  /\ Becomes(s, "gone")
  /\ UNCHANGED <<per_port, hub, cleanup, pending, rtc_sessions>>

\* The session is registered, its callbacks are set and the guard is armed.
setup_done(s) ==
  /\ conn[s] = "setup"
  /\ Becomes(s, "negotiating")
  /\ rtc_sessions' = rtc_sessions \cup {s}
  /\ UNCHANGED <<per_port, hub, cleanup, pending>>

\* The answer is sent and the guard disarmed.
answer(s) ==
  /\ conn[s] = "negotiating"
  /\ Becomes(s, "open")
  /\ UNCHANGED <<per_port, hub, cleanup, pending, rtc_sessions>>

\* The peer connection failed or closed, or the guard of a negotiation that
\* failed or was dropped ran.  A failed connection may still be closed later.
session_ends(s, stage) ==
  /\ s \in Rtc /\ conn[s] \in {"negotiating", "open", "silent"}
  /\ Becomes(s, stage)
  /\ rtc_sessions' = rtc_sessions \ {s}
  /\ begin_cleanup(s)
  /\ UNCHANGED <<per_port, pending>>

pc_fails(s) == conn[s] # "silent" /\ session_ends(s, "silent")

pc_closes(s) == session_ends(s, "gone")

\* A channel the client announced closed.  The peer connection is still up,
\* and so are the negotiated channel and whatever others the client opened:
\* input goes on arriving, and the one cleanup this connection has is spent.
channel_closes(s) ==
  /\ s \in Announced /\ conn[s] = "open"
  /\ begin_cleanup(s)
  /\ UNCHANGED <<per_port, conn, pending, rtc_sessions>>
-----------------------------------------------------------------------------
(* Input.                                                                  *)

Unrestricted(s) == Ports[s] = {}

MayUse(s, p) == Unrestricted(s) \/ p \in Ports[s]

\* A message is read and its checks passed: a text update needs the lease, a
\* binary update and a command only the claims.  A channel handles one message
\* at a time; a client that announced channels has more than one.
Receive(s, p, text) ==
  /\ conn[s] = "open" /\ s \notin Watcher
  /\ pending[s] = {} \/ s \in Announced
  /\ MayUse(s, p)
  /\ text => Unrestricted(s) \/ is_source_owner(s, p)
  /\ pending' = [pending EXCEPT ![s] = @ \cup {p}]

receive_text(s, p) ==
  /\ Receive(s, p, TRUE)
  /\ UNCHANGED <<per_port, hub, conn, cleanup, rtc_sessions>>

\* A binary update, or insert_coin, which refreshes the source the same way.
receive_binary(s, p) ==
  /\ Receive(s, p, FALSE)
  /\ UNCHANGED <<per_port, hub, conn, cleanup, rtc_sessions>>

apply_update(s) ==
  \E p \in pending[s] :
    /\ hub' = [hub EXCEPT ![s][p] = 0]
    /\ pending' = [pending EXCEPT ![s] = @ \ {p}]
    /\ UNCHANGED <<per_port, conn, cleanup, rtc_sessions>>

\* Mutant: the age of an entry is not looked at.
FreshForever(s, p) == hub[s][p] # Absent

\* What merged_for_port of the hub still counts.
Fresh(s, p) == hub[s][p] # Absent /\ hub[s][p] <= StaleTimeout

Older(age) == IF age # Absent /\ age <= StaleTimeout THEN age + 1 ELSE age

Nearer(l) == IF l # NoOwner /\ l.until > 0 THEN [l EXCEPT !.until = @ - 1] ELSE l

Tick ==
  /\ per_port' = [p \in Port |-> Nearer(per_port[p])]
  /\ hub' = [s \in Source |-> [p \in Port |-> Older(hub[s][p])]]
  /\ UNCHANGED <<conn, cleanup, pending, rtc_sessions>>

Next ==
  \/ Tick
  \/ \E s \in Source :
       \/ open_ws(s) \/ close_ws(s)
       \/ offer(s) \/ setup_fails(s) \/ setup_dropped(s) \/ setup_done(s) \/ answer(s)
       \/ pc_fails(s) \/ pc_closes(s) \/ channel_closes(s)
       \/ end_cleanup(s) \/ apply_update(s)
       \/ \E p \in Port : receive_text(s, p) \/ receive_binary(s, p)

Spec == Init /\ [][Next]_vars

\* The clock runs and a handler that was started runs to its end.  No peer
\* has to connect, send or close.
FairSpec == Spec /\ WF_vars(Tick) /\ \A s \in Source : WF_vars(apply_update(s)) /\ WF_vars(end_cleanup(s))
-----------------------------------------------------------------------------
TypeOK ==
  /\ per_port \in [Port -> Lease \cup {NoOwner}]
  /\ hub \in [Source -> [Port -> {Absent} \cup 0 .. StaleTimeout + 1]]
  /\ conn \in [Source -> Stage]
  /\ cleanup \in [Source -> {"not_run", "half_done", "done"}]
  /\ pending \in [Source -> SUBSET Port]
  /\ rtc_sessions \subseteq Rtc

\* The reconnect window runs for exactly those leases whose connection has
\* been cleaned up: a late cleanup of an old connection never starts the
\* window of the connection that took the port over.
WindowRunsAfterCleanup ==
  \A p \in Port : per_port[p] # NoOwner =>
    (per_port[p].until # Connected <=> cleanup[per_port[p].source] = "done")

\* A connection loses a port only to a later reservation of that port or to
\* its own cleanup, never to what other connections do when they end.
PortLostToReservationOnly ==
  [][\A p \in Port, s \in Source :
       per_port[p] = Taken(s) /\ per_port'[p] # Taken(s) =>
         \/ cleanup'[s] = "done" /\ per_port'[p] = [source |-> s, until |-> Window]
         \/ \E r \in Source : conn[r] = "new" /\ conn'[r] # "new" /\ per_port'[p] = Taken(r)]_vars

\* A lease whose window runs lasts until its deadline: it is neither dropped
\* nor prolonged, whatever other connections do, unless a new connection with
\* a claim to that very port reserves it.
LeaseLastsItsWindow ==
  [][\A p \in Port :
       LET l == per_port[p] IN
       l # NoOwner /\ l.until > 0 =>
         \/ \E r \in Source : /\ conn[r] = "new" /\ conn'[r] # "new"
                              /\ p \in Ports[r] /\ per_port'[p] = Taken(r)
         \/ /\ per_port'[p] # NoOwner
            /\ per_port'[p].source = l.source
            /\ per_port'[p].until \in {l.until, l.until - 1}]_vars

\* A closed WebSocket leaves no input behind: its last update cannot be
\* applied after its source was removed.
WsLeavesNothing ==
  \A s \in Source \ Rtc : conn[s] = "gone" =>
    pending[s] = {} /\ \A p \in Port : hub[s][p] = Absent

\* What a WebRTC connection pressed is released, for good, once the connection
\* has failed or closed: also an update that was on its way when the source
\* was removed and puts it back, and also the input of a connection whose one
\* cleanup a closing channel had spent, which nobody removes any more.
GhostInputFades ==
  \A x \in {y \in Rtc \X Port : MayUse(y[1], y[2])} :
    [](conn[x[1]] \in {"silent", "gone"} => <>[](~Fresh(x[1], x[2])))

\* docs/public-service.md:119: "A port can be owned by only one player at a
\* time": no input is accepted from a player while another one has the port.
OnlyTheOwnerPlays ==
  [][\A s \in Source, p \in Port :
       p \in pending'[s] \ pending[s] /\ ~Unrestricted(s) /\ per_port[p] # NoOwner
         => Owner[per_port[p].source] = Owner[s]]_vars

\* docs/public-service.md:121: "During the lease window, only the same
\* player_id can reclaim that port": while a window runs, the port goes to no
\* other player.
OthersWaitForTheWindow ==
  [][\A p \in Port :
       LET l == per_port[p] IN
       l # NoOwner /\ l.until > 0 /\ per_port'[p] # NoOwner
         => Owner[per_port'[p].source] = Owner[l.source]]_vars
======================================================================
