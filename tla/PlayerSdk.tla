------------------------------ MODULE PlayerSdk ------------------------------
(***************************************************************************)
(* How a browser player stays connected (packages/player-sdk, class        *)
(* NosebleedPlayer): its WebSockets, its WebRTC peer, the calls of connect *)
(* that are waiting for an answer, and the reconnect timer.                *)
(*                                                                         *)
(* Handlers run one at a time; between two of them sockets open and close, *)
(* peers change their state and the application calls connect and          *)
(* disconnect.  A socket that the player closes reports its close later,   *)
(* and the handler it was given stays in place.  The browser's WebSocket   *)
(* and RTCPeerConnection are external.                                     *)
(***************************************************************************)
EXTENDS Naturals

CONSTANTS Channel,    \* a connection's WebSockets: video, input, audio if enabled
          MaxSockets, \* bound: WebSocket connections
          MaxPeers    \* bound: WebRTC peers

ASSUME SdkAssumption == Channel # {} /\ MaxSockets \in Nat /\ MaxPeers \in Nat

VARIABLES config,  \* transport, autoReconnect, and whether the browser has WebRTC
          stopped,
          timer,   \* the one reconnect timer that is pending
          sockets, \* per connection made so far: its WebSockets
          ws,      \* the connection in videoWs, inputWs, audioWs; 0 is null
          peers,   \* per RTCPeerConnection made so far: its state
          rtcPeer, \* 0 is null
          calls    \* the peers whose connect() has not returned

vars == <<config, stopped, timer, sockets, ws, peers, rtcPeer, calls>>

WebSockets == 1..MaxSockets
Peer == 1..MaxPeers
Transport == {"auto", "websocket", "webrtc"}

\* Still in use or on its way to be.
LiveSocket == {"connecting", "open"}

shouldUseWebRtc == config.transport # "websocket" /\ config.hasRtc
-----------------------------------------------------------------------------
Init ==
  /\ config \in [transport : Transport, autoReconnect : BOOLEAN, hasRtc : BOOLEAN]
  /\ stopped = TRUE /\ timer = "none"
  /\ sockets = [g \in WebSockets |-> [c \in Channel |-> "unborn"]] /\ ws = 0
  /\ peers = [p \in Peer |-> "unborn"] /\ rtcPeer = 0
  /\ calls = {}

\* close() on each socket: those that are closed already report nothing more.
closeWebSocket(all) ==
  IF ws = 0 THEN all
  ELSE [all EXCEPT ![ws] = [c \in Channel |-> IF @[c] \in LiveSocket THEN "closing" ELSE @[c]]]

closeWebRtcTransport(all) == IF rtcPeer = 0 THEN all ELSE [all EXCEPT ![rtcPeer] = "closed"]

Fresh(all, unborn) == CHOOSE i \in DOMAIN all : all[i] = unborn
NewSocket == [c \in Channel |-> "connecting"]
Unopened == [c \in Channel |-> "unborn"]
SocketLeft == \E g \in WebSockets : sockets[g] = Unopened
PeerLeft == \E p \in Peer : peers[p] = "unborn"

\* Mutant: the sockets in use are forgotten, not closed.
connectWebSocket_forgets ==
  /\ SocketLeft
  /\ ws' = Fresh(sockets, Unopened)
  /\ sockets' = [sockets EXCEPT ![ws'] = NewSocket]

connectWebSocket ==
  /\ SocketLeft
  /\ ws' = Fresh(sockets, Unopened)
  /\ sockets' = [closeWebSocket(sockets) EXCEPT ![ws'] = NewSocket]

\* connectWebRtc up to its first await.
connectWebRtc ==
  /\ PeerLeft
  /\ rtcPeer' = Fresh(peers, "unborn")
  /\ peers' = [closeWebRtcTransport(peers) EXCEPT ![rtcPeer'] = "new"]
  /\ calls' = calls \cup {rtcPeer'}

\* connect() until it returns or waits; the application and the timer call it.
connect ==
  /\ stopped' = FALSE /\ timer' = "none"
  /\ IF shouldUseWebRtc THEN connectWebRtc /\ UNCHANGED <<sockets, ws>>
                        ELSE connectWebSocket /\ UNCHANGED <<peers, rtcPeer, calls>>
  /\ UNCHANGED config

\* Mutant: only the transport that this configuration starts with is closed.
disconnect_one_transport ==
  /\ stopped' = TRUE /\ timer' = "none"
  /\ IF shouldUseWebRtc THEN UNCHANGED <<sockets, ws>> ELSE sockets' = closeWebSocket(sockets) /\ ws' = 0
  /\ peers' = closeWebRtcTransport(peers) /\ rtcPeer' = 0
  /\ UNCHANGED <<config, calls>>

disconnect ==
  /\ stopped' = TRUE /\ timer' = "none"
  /\ sockets' = closeWebSocket(sockets) /\ ws' = 0
  /\ peers' = closeWebRtcTransport(peers) /\ rtcPeer' = 0
  /\ UNCHANGED <<config, calls>>

\* The answer came and is in place: connect returns.
connect_returns(p) ==
  /\ p \in calls /\ peers[p] = "new"
  /\ calls' = calls \ {p}
  /\ peers' = [peers EXCEPT ![p] = "connecting"]
  /\ UNCHANGED <<config, stopped, timer, sockets, ws, rtcPeer>>

\* No offer, no answer, or the peer has been closed meanwhile.  With "auto"
\* the player falls back to WebSockets; otherwise the error goes to the caller.
connect_fails(p) ==
  /\ p \in calls
  /\ calls' = calls \ {p}
  /\ IF config.transport = "auto" THEN connectWebSocket ELSE UNCHANGED <<sockets, ws>>
  /\ UNCHANGED <<config, stopped, timer, peers, rtcPeer>>

\* Mutant: only one kind of connection is tried again.
scheduleReconnect_rtc_only ==
  timer' = IF stopped \/ ~config.autoReconnect \/ timer # "none" THEN timer
           ELSE IF shouldUseWebRtc THEN "rtc" ELSE "none"

scheduleReconnect ==
  timer' = IF stopped \/ ~config.autoReconnect \/ timer # "none" THEN timer
           ELSE IF shouldUseWebRtc THEN "rtc" ELSE "ws"

reconnect_timer_fires ==
  \/ timer = "rtc" /\ connect
  \/ /\ timer = "ws"
     /\ timer' = "none"
     /\ connectWebSocket
     /\ UNCHANGED <<config, stopped, peers, rtcPeer, calls>>

socket_opens(g, c) ==
  /\ sockets[g][c] = "connecting"
  /\ sockets' = [sockets EXCEPT ![g][c] = "open"]
  /\ UNCHANGED <<config, stopped, timer, ws, peers, rtcPeer, calls>>

\* onclose, whoever closed it and whether or not it is still the current one.
socket_closes(g, c) ==
  /\ sockets[g][c] \in LiveSocket \cup {"closing"}
  /\ sockets' = [sockets EXCEPT ![g][c] = "closed"]
  /\ scheduleReconnect
  /\ UNCHANGED <<config, stopped, ws, peers, rtcPeer, calls>>

\* States of a peer that is not closed here, in the order the browser knows.
PeerEdges == {<<"connecting", "connected">>, <<"connecting", "failed">>, <<"connected", "disconnected">>,
              <<"disconnected", "connected">>, <<"disconnected", "failed">>}

\* onconnectionstatechange.
peer_changes(p, state) ==
  /\ <<peers[p], state>> \in PeerEdges
  /\ peers' = [peers EXCEPT ![p] = state]
  /\ IF p = rtcPeer /\ state \in {"failed", "disconnected"} THEN scheduleReconnect ELSE UNCHANGED timer
  /\ UNCHANGED <<config, stopped, sockets, ws, rtcPeer, calls>>

Next ==
  \/ connect \/ disconnect \/ reconnect_timer_fires
  \/ \E p \in Peer : connect_returns(p) \/ connect_fails(p)
  \/ \E p \in Peer, state \in {"connected", "disconnected", "failed"} : peer_changes(p, state)
  \/ \E g \in WebSockets, c \in Channel : socket_opens(g, c) \/ socket_closes(g, c)

Spec == Init /\ [][Next]_vars
-----------------------------------------------------------------------------
(* The player's fields name connections that were made, and a peer it has
   closed is in none of them. *)
TypeOK ==
  /\ config \in [transport : Transport, autoReconnect : BOOLEAN, hasRtc : BOOLEAN]
  /\ stopped \in BOOLEAN /\ timer \in {"none", "rtc", "ws"}
  /\ sockets \in [WebSockets -> [Channel -> LiveSocket \cup {"unborn", "closing", "closed"}]]
  /\ ws \in 0..MaxSockets /\ rtcPeer \in 0..MaxPeers
  /\ peers \in [Peer -> {"unborn", "new", "connecting", "connected", "disconnected", "failed", "closed"}]
  /\ ws # 0 => sockets[ws] # Unopened
  /\ rtcPeer # 0 => peers[rtcPeer] \notin {"unborn", "closed"}
  /\ calls \subseteq Peer /\ \A p \in calls : peers[p] \in {"new", "closed"}

LiveSockets == {g \in WebSockets : \E c \in Channel : sockets[g][c] \in LiveSocket}
LivePeers == {p \in Peer : peers[p] \notin {"unborn", "closed"}}

(* However connects, disconnects, timers and late answers overlap, a socket or
   a peer in use is one that disconnect() would close: none is lost by being
   replaced. *)
NothingIsLeaked == LiveSockets \subseteq {ws} /\ LivePeers \subseteq {rtcPeer}

\* Nothing is connected, being connected or about to be.
Silent ==
  /\ timer = "none" /\ calls = {} /\ LiveSockets = {}
  /\ \A p \in Peer : peers[p] \notin {"connecting", "connected"}

(* A player told to connect and to reconnect never falls silent: whatever closes
   in whatever order, something is up, awaited or scheduled.  (With transport
   "webrtc" it does, once signaling fails: that error only goes to the caller,
   and a timer that called connect only reports it.) *)
NeverGivesUp ==
  ~stopped /\ config.autoReconnect /\ (config.transport = "webrtc" => ~config.hasRtc) => ~Silent

(* disconnect() leaves nothing connected and nothing scheduled, and a stopped
   player stays so: the only socket it may still open is the fall-back, with
   "auto", of a connect() that was waiting for its answer when disconnect() was
   called; each such call opens one at most, and a second disconnect() closes it. *)
DisconnectIsFinal ==
  [][stopped' =>
       /\ timer' = "none" /\ LivePeers' = {}
       /\ ~stopped \/ ws' = 0 => LiveSockets' = {}
       /\ \/ LiveSockets' \subseteq LiveSockets
          \/ config.transport = "auto" /\ \E p \in calls : calls' = calls \ {p}]_vars
=============================================================================
