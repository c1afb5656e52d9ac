--------------------------- MODULE PlayerSdkProofs ---------------------------
(***************************************************************************)
(* Theorems about PlayerSdk, for any channels and any number of            *)
(* connections.  One inductive invariant carries them all: the types, that *)
(* no connection in use is lost, that a call which waits for an answer     *)
(* means WebRTC is wanted, that a stopped player has no timer and no peer, *)
(* and that one told to reconnect has something; each needs the others.    *)
(***************************************************************************)
EXTENDS PlayerSdk, TLAPS

CallsAreWebRtc == calls # {} => shouldUseWebRtc

StaysStopped == stopped => timer = "none" /\ LivePeers = {}

SdkInv == TypeOK /\ NothingIsLeaked /\ CallsAreWebRtc /\ NeverGivesUp /\ StaysStopped

SocketState == LiveSocket \cup {"unborn", "closing", "closed"}
PeerState == {"unborn", "new", "connecting", "connected", "disconnected", "failed", "closed"}

SocketsOK == /\ sockets \in [WebSockets -> [Channel -> SocketState]] /\ ws \in 0..MaxSockets
             /\ ws # 0 => sockets[ws] # Unopened
PeersOK == /\ peers \in [Peer -> PeerState] /\ rtcPeer \in 0..MaxPeers
           /\ rtcPeer # 0 => peers[rtcPeer] \notin {"unborn", "closed"}
           /\ calls \subseteq Peer /\ \A p \in calls : peers[p] \in {"new", "closed"}
RestOK == /\ config \in [transport : Transport, autoReconnect : BOOLEAN, hasRtc : BOOLEAN]
          /\ stopped \in BOOLEAN /\ timer \in {"none", "rtc", "ws"}

LEMMA TypesSplit == TypeOK <=> SocketsOK /\ PeersOK /\ RestOK
  BY DEF TypeOK, SocketsOK, PeersOK, RestOK, SocketState, PeerState

\* What closeWebSocket leaves in use is not what the player has.
LEMMA CloseSockets ==
  ASSUME SocketsOK
  PROVE  /\ closeWebSocket(sockets) \in [WebSockets -> [Channel -> SocketState]]
         /\ \A g \in WebSockets : \A c \in Channel :
              closeWebSocket(sockets)[g][c] \in LiveSocket => sockets[g][c] \in LiveSocket /\ g # ws
<1> USE DEF SocketsOK, LiveSocket, SocketState
<1>1. CASE ws = 0
  BY <1>1, SdkAssumption DEF closeWebSocket, WebSockets
<1>2. CASE ws # 0
  <2> DEFINE closed == [c \in Channel |-> IF sockets[ws][c] \in LiveSocket THEN "closing" ELSE sockets[ws][c]]
  <2>1. ws \in WebSockets
    BY <1>2, SdkAssumption DEF WebSockets
  <2>2. closed \in [Channel -> SocketState] /\ \A c \in Channel : closed[c] \notin LiveSocket
    BY <2>1
  <2>3. closeWebSocket(sockets) = [sockets EXCEPT ![ws] = closed]
    BY <1>2 DEF closeWebSocket
  <2> HIDE DEF closed
  <2> QED
    BY <2>1, <2>2, <2>3
<1> QED
  BY <1>1, <1>2

\* And of all sockets it leaves none.
LEMMA CloseAllSockets ==
  ASSUME SocketsOK, LiveSockets \subseteq {ws}
  PROVE  \A g \in WebSockets : \A c \in Channel : closeWebSocket(sockets)[g][c] \notin LiveSocket
  BY CloseSockets DEF LiveSockets

\* A new connection replaces the one in use.
LEMMA ConnectSockets ==
  ASSUME SocketsOK, LiveSockets \subseteq {ws}, connectWebSocket
  PROVE  SocketsOK' /\ LiveSockets' = {ws'}
<1> DEFINE closed == closeWebSocket(sockets)
<1>1. PICK g \in WebSockets : sockets[g] = Unopened
  BY DEF connectWebSocket, SocketLeft
<1>2. DOMAIN sockets = WebSockets
  BY DEF SocketsOK
<1>3. ws' \in WebSockets
  BY <1>1, <1>2 DEF connectWebSocket, Fresh
<1>4. sockets' = [closed EXCEPT ![ws'] = NewSocket]
  BY DEF connectWebSocket
<1>5. closed \in [WebSockets -> [Channel -> SocketState]]
  BY CloseSockets
<1>6. \A h \in WebSockets : \A c \in Channel : closed[h][c] \notin LiveSocket
  BY CloseAllSockets
<1> HIDE DEF closed
<1>7. /\ NewSocket \in [Channel -> SocketState] /\ NewSocket # Unopened
      /\ \E c \in Channel : NewSocket[c] \in LiveSocket
  <2>1. PICK c \in Channel : TRUE
    BY SdkAssumption
  <2>2. NewSocket[c] = "connecting" /\ Unopened[c] = "unborn"
    BY DEF NewSocket, Unopened
  <2> QED
    BY <2>1, <2>2 DEF NewSocket, SocketState, LiveSocket
<1>8. sockets' \in [WebSockets -> [Channel -> SocketState]] /\ sockets'[ws'] = NewSocket
  BY <1>3, <1>4, <1>5, <1>7
<1>9. ws' \in 0..MaxSockets
  BY <1>3, SdkAssumption DEF WebSockets
<1>10. LiveSockets' = {ws'}
  BY <1>3, <1>4, <1>5, <1>6, <1>7 DEF LiveSockets
<1> QED
  BY <1>7, <1>8, <1>9, <1>10 DEF SocketsOK, Unopened

\* disconnect() closes every socket in use.
LEMMA DisconnectSockets ==
  ASSUME SocketsOK, LiveSockets \subseteq {ws}, sockets' = closeWebSocket(sockets), ws' = 0
  PROVE  SocketsOK' /\ LiveSockets' = {}
<1>1. sockets' \in [WebSockets -> [Channel -> SocketState]]
  BY CloseSockets
<1>2. LiveSockets' = {}
  BY CloseAllSockets DEF LiveSockets
<1> QED
  BY <1>1, <1>2, SdkAssumption DEF SocketsOK

\* Nothing but the peer in use is changed by closing it.
LEMMA ClosePeers ==
  ASSUME PeersOK
  PROVE  /\ closeWebRtcTransport(peers) \in [Peer -> PeerState]
         /\ \A p \in Peer : closeWebRtcTransport(peers)[p] = IF p = rtcPeer THEN "closed" ELSE peers[p]
<1>1. rtcPeer # 0 => rtcPeer \in Peer
  BY SdkAssumption DEF PeersOK, Peer
<1>2. 0 \notin Peer
  BY SdkAssumption DEF Peer
<1> QED
  BY <1>1, <1>2 DEF PeersOK, PeerState, closeWebRtcTransport

\* A new peer replaces the one in use.
LEMMA ConnectPeers ==
  ASSUME PeersOK, LivePeers \subseteq {rtcPeer}, connectWebRtc
  PROVE  PeersOK' /\ LivePeers' = {rtcPeer'} /\ calls' # {}
<1> DEFINE closed == closeWebRtcTransport(peers)
<1>1. PICK p \in Peer : peers[p] = "unborn"
  BY DEF connectWebRtc, PeerLeft
<1>2. DOMAIN peers = Peer
  BY DEF PeersOK
<1>3. rtcPeer' \in Peer /\ peers[rtcPeer'] = "unborn"
  BY <1>1, <1>2 DEF connectWebRtc, Fresh
<1>4. peers' = [closed EXCEPT ![rtcPeer'] = "new"] /\ calls' = calls \cup {rtcPeer'}
  BY DEF connectWebRtc
<1>5. closed \in [Peer -> PeerState] /\ \A q \in Peer : closed[q] = IF q = rtcPeer THEN "closed" ELSE peers[q]
  BY ClosePeers
<1> HIDE DEF closed
<1>6. rtcPeer' \in 0..MaxPeers
  BY <1>3, SdkAssumption DEF Peer
<1>7. LivePeers' = {rtcPeer'}
  BY <1>3, <1>4, <1>5 DEF LivePeers
<1> QED
  BY <1>3, <1>4, <1>5, <1>6, <1>7 DEF PeersOK, PeerState

\* disconnect() closes the peer, and there is no other.
LEMMA DisconnectPeers ==
  ASSUME PeersOK, LivePeers \subseteq {rtcPeer}, peers' = closeWebRtcTransport(peers), rtcPeer' = 0,
         calls' = calls
  PROVE  PeersOK' /\ LivePeers' = {}
<1>1. peers' \in [Peer -> PeerState] /\ \A p \in Peer : peers'[p] = IF p = rtcPeer THEN "closed" ELSE peers[p]
  BY ClosePeers
<1>2. LivePeers' = {}
  BY <1>1 DEF LivePeers
<1> QED
  BY <1>1, <1>2, SdkAssumption DEF PeersOK

LEMMA InitSdkInv == Init => SdkInv
<1> SUFFICES ASSUME Init PROVE SdkInv
  OBVIOUS
<1>1. LiveSockets = {} /\ LivePeers = {}
  BY DEF Init, LiveSockets, LivePeers, LiveSocket
<1>2. SocketsOK /\ PeersOK /\ RestOK
  BY SdkAssumption DEF Init, SocketsOK, PeersOK, RestOK, SocketState, PeerState
<1>3. CallsAreWebRtc /\ NeverGivesUp /\ StaysStopped
  BY <1>1 DEF Init, CallsAreWebRtc, NeverGivesUp, StaysStopped
<1> QED
  BY <1>1, <1>2, <1>3, TypesSplit DEF SdkInv, NothingIsLeaked

\* The application or the timer connects.
LEMMA ConnectInv == ASSUME SdkInv, connect PROVE SdkInv'
<1> USE DEF SdkInv
<1>1. SocketsOK /\ PeersOK /\ RestOK /\ LiveSockets \subseteq {ws} /\ LivePeers \subseteq {rtcPeer}
  BY TypesSplit DEF NothingIsLeaked
<1>2. RestOK' /\ ~stopped' /\ config' = config
  BY <1>1 DEF connect, RestOK
<1>3. StaysStopped'
  BY <1>2 DEF StaysStopped
<1>4. CASE shouldUseWebRtc
  <2>1. connectWebRtc /\ sockets' = sockets /\ ws' = ws
    BY <1>4 DEF connect
  <2>2. PeersOK' /\ LivePeers' = {rtcPeer'} /\ calls' # {}
    BY <1>1, <2>1, ConnectPeers
  <2>3. SocketsOK' /\ LiveSockets' \subseteq {ws'}
    BY <1>1, <2>1 DEF SocketsOK, LiveSockets
  <2>4. CallsAreWebRtc' /\ NeverGivesUp'
    BY <1>2, <1>4, <2>2 DEF CallsAreWebRtc, NeverGivesUp, Silent, shouldUseWebRtc
  <2> QED
    BY <1>2, <1>3, <2>2, <2>3, <2>4, TypesSplit DEF NothingIsLeaked, TypeOK, SocketsOK, PeersOK, RestOK, SocketState, PeerState
<1>5. CASE ~shouldUseWebRtc
  <2>1. connectWebSocket /\ peers' = peers /\ rtcPeer' = rtcPeer /\ calls' = calls
    BY <1>5 DEF connect
  <2>2. SocketsOK' /\ LiveSockets' = {ws'}
    BY <1>1, <2>1, ConnectSockets
  <2>3. PeersOK' /\ LivePeers' \subseteq {rtcPeer'}
    BY <1>1, <2>1 DEF PeersOK, LivePeers
  <2>4. CallsAreWebRtc' /\ NeverGivesUp'
    BY <1>2, <1>5, <2>1, <2>2 DEF CallsAreWebRtc, NeverGivesUp, Silent, shouldUseWebRtc
  <2> QED
    BY <1>2, <1>3, <2>2, <2>3, <2>4, TypesSplit DEF NothingIsLeaked, TypeOK, SocketsOK, PeersOK, RestOK, SocketState, PeerState
<1> QED
  BY <1>4, <1>5

LEMMA DisconnectInv == ASSUME SdkInv, disconnect PROVE SdkInv'
<1> USE DEF SdkInv
<1>1. SocketsOK /\ PeersOK /\ RestOK /\ LiveSockets \subseteq {ws} /\ LivePeers \subseteq {rtcPeer}
  BY TypesSplit DEF NothingIsLeaked
<1>2. SocketsOK' /\ LiveSockets' = {}
  BY <1>1, DisconnectSockets DEF disconnect
<1>3. PeersOK' /\ LivePeers' = {}
  BY <1>1, DisconnectPeers DEF disconnect
<1>4. RestOK' /\ stopped' /\ timer' = "none"
  BY <1>1 DEF RestOK, disconnect
<1>5. CallsAreWebRtc'
  BY DEF disconnect, CallsAreWebRtc, shouldUseWebRtc
<1> QED
  BY <1>2, <1>3, <1>4, <1>5 DEF NothingIsLeaked, NeverGivesUp, StaysStopped,
     TypeOK, SocketsOK, PeersOK, RestOK, SocketState, PeerState

\* A timer fires only in a player that has not been stopped.
LEMMA TimerInv == ASSUME SdkInv, reconnect_timer_fires PROVE SdkInv'
<1> USE DEF SdkInv
<1>1. CASE timer = "rtc" /\ connect
  BY <1>1, ConnectInv
<1>2. CASE timer = "ws" /\ timer' = "none" /\ connectWebSocket
           /\ UNCHANGED <<config, stopped, peers, rtcPeer, calls>>
  <2>1. SocketsOK /\ PeersOK /\ RestOK /\ LiveSockets \subseteq {ws} /\ LivePeers \subseteq {rtcPeer}
    BY TypesSplit DEF NothingIsLeaked
  <2>2. SocketsOK' /\ LiveSockets' = {ws'}
    BY <1>2, <2>1, ConnectSockets
  <2>3. PeersOK' /\ LivePeers' \subseteq {rtcPeer'} /\ RestOK' /\ ~stopped'
    BY <1>2, <2>1 DEF PeersOK, LivePeers, RestOK, StaysStopped
  <2>4. CallsAreWebRtc' /\ NeverGivesUp' /\ StaysStopped'
    BY <1>2, <2>2, <2>3 DEF CallsAreWebRtc, NeverGivesUp, StaysStopped, Silent, shouldUseWebRtc
  <2> QED
    BY <2>2, <2>3, <2>4 DEF NothingIsLeaked, TypeOK, SocketsOK, PeersOK, RestOK, SocketState, PeerState
<1> QED
  BY <1>1, <1>2 DEF reconnect_timer_fires

LEMMA ReturnInv == ASSUME SdkInv, NEW p \in Peer, connect_returns(p) PROVE SdkInv'
<1> USE DEF SdkInv
<1>1. SocketsOK /\ PeersOK /\ RestOK /\ LiveSockets \subseteq {ws} /\ LivePeers \subseteq {rtcPeer}
  BY TypesSplit DEF NothingIsLeaked
<1>2. /\ p \in calls /\ peers[p] = "new" /\ calls' = calls \ {p} /\ peers' = [peers EXCEPT ![p] = "connecting"]
      /\ UNCHANGED <<config, stopped, timer, sockets, ws, rtcPeer>>
  BY DEF connect_returns
<1>3. p \in LivePeers
  BY <1>2 DEF LivePeers
<1>4. SocketsOK' /\ RestOK' /\ LiveSockets' = LiveSockets
  BY <1>1, <1>2 DEF SocketsOK, RestOK, LiveSockets
<1>5. PeersOK' /\ LivePeers' = LivePeers
  BY <1>1, <1>2 DEF PeersOK, PeerState, LivePeers
<1>6. peers'[p] = "connecting"
  BY <1>1, <1>2 DEF PeersOK
<1>7. CallsAreWebRtc' /\ NeverGivesUp' /\ StaysStopped'
  BY <1>2, <1>3, <1>6 DEF CallsAreWebRtc, NeverGivesUp, Silent, StaysStopped, shouldUseWebRtc
<1> QED
  BY <1>1, <1>2, <1>4, <1>5, <1>7 DEF NothingIsLeaked, TypeOK, SocketsOK, PeersOK, RestOK, SocketState, PeerState

\* With "auto" the fallback is up; without it a player that keeps trying has
\* no call to fail.
LEMMA FailInv == ASSUME SdkInv, NEW p \in Peer, connect_fails(p) PROVE SdkInv'
<1> USE DEF SdkInv
<1>1. SocketsOK /\ PeersOK /\ RestOK /\ LiveSockets \subseteq {ws} /\ LivePeers \subseteq {rtcPeer}
  BY TypesSplit DEF NothingIsLeaked
<1>2. /\ p \in calls /\ calls' = calls \ {p} /\ UNCHANGED <<config, stopped, timer, peers, rtcPeer>>
  BY DEF connect_fails
<1>3. PeersOK' /\ RestOK' /\ LivePeers' = LivePeers /\ CallsAreWebRtc'
  BY <1>1, <1>2 DEF PeersOK, RestOK, LivePeers, CallsAreWebRtc, shouldUseWebRtc
<1>4. config.hasRtc /\ config.transport # "websocket"
  BY <1>2 DEF CallsAreWebRtc, shouldUseWebRtc
<1>5. CASE config.transport = "auto"
  <2>1. SocketsOK' /\ LiveSockets' = {ws'}
    BY <1>1, <1>5, ConnectSockets DEF connect_fails
  <2>2. NeverGivesUp' /\ StaysStopped'
    BY <1>2, <1>3, <1>4, <1>5, <2>1 DEF NeverGivesUp, Silent, StaysStopped
  <2> QED
    BY <1>1, <1>2, <1>3, <2>1, <2>2 DEF NothingIsLeaked, TypeOK, SocketsOK, PeersOK, RestOK, SocketState, PeerState
<1>6. CASE config.transport = "webrtc"
  <2>1. UNCHANGED <<sockets, ws>>
    BY <1>6 DEF connect_fails
  <2>2. SocketsOK' /\ LiveSockets' = LiveSockets
    BY <1>1, <2>1 DEF SocketsOK, LiveSockets
  <2>3. NeverGivesUp' /\ StaysStopped'
    BY <1>2, <1>3, <1>4, <1>6, <2>1, <2>2 DEF NeverGivesUp, StaysStopped
  <2> QED
    BY <1>1, <1>2, <1>3, <2>1, <2>2, <2>3 DEF NothingIsLeaked, TypeOK, SocketsOK, PeersOK, RestOK, SocketState, PeerState
<1> QED
  BY <1>1, <1>4, <1>5, <1>6 DEF RestOK, Transport

\* A timer that ends is set again unless the player is stopped or gives up.
LEMMA Scheduled ==
  ASSUME RestOK, scheduleReconnect
  PROVE  /\ timer' \in {"none", "rtc", "ws"}
         /\ stopped => timer' = timer
         /\ ~stopped /\ config.autoReconnect => timer' # "none"
  BY DEF RestOK, scheduleReconnect

LEMMA OpenInv == ASSUME SdkInv, NEW g \in WebSockets, NEW c \in Channel, socket_opens(g, c) PROVE SdkInv'
<1> USE DEF SdkInv
<1>1. SocketsOK /\ PeersOK /\ RestOK /\ LiveSockets \subseteq {ws} /\ LivePeers \subseteq {rtcPeer}
  BY TypesSplit DEF NothingIsLeaked
<1>2. /\ sockets[g][c] = "connecting" /\ sockets' = [sockets EXCEPT ![g][c] = "open"]
      /\ UNCHANGED <<config, stopped, timer, ws, peers, rtcPeer, calls>>
  BY DEF socket_opens
<1>3. sockets' \in [WebSockets -> [Channel -> SocketState]] /\ sockets'[g][c] = "open"
  BY <1>1, <1>2 DEF SocketsOK, SocketState, LiveSocket
<1>4. LiveSockets' = LiveSockets
  BY <1>1, <1>2, <1>3 DEF LiveSockets, SocketsOK, LiveSocket
<1>5. ws # 0 => sockets'[ws] # Unopened
  <2>1. CASE ws = g
    BY <1>3, <2>1 DEF Unopened
  <2>2. CASE ws # g
    BY <1>1, <1>2, <2>2 DEF SocketsOK
  <2> QED
    BY <2>1, <2>2
<1>6. SocketsOK' /\ PeersOK' /\ RestOK' /\ LivePeers' = LivePeers
  BY <1>1, <1>2, <1>3, <1>5 DEF SocketsOK, PeersOK, RestOK, LivePeers, Unopened
<1>7. CallsAreWebRtc' /\ NeverGivesUp' /\ StaysStopped'
  BY <1>2, <1>4, <1>6 DEF CallsAreWebRtc, NeverGivesUp, Silent, StaysStopped, shouldUseWebRtc
<1> QED
  BY <1>1, <1>2, <1>4, <1>6, <1>7 DEF NothingIsLeaked, TypeOK, SocketsOK, PeersOK, RestOK, SocketState, PeerState

LEMMA CloseInv == ASSUME SdkInv, NEW g \in WebSockets, NEW c \in Channel, socket_closes(g, c) PROVE SdkInv'
<1> USE DEF SdkInv
<1>1. SocketsOK /\ PeersOK /\ RestOK /\ LiveSockets \subseteq {ws} /\ LivePeers \subseteq {rtcPeer}
  BY TypesSplit DEF NothingIsLeaked
<1>2. /\ sockets' = [sockets EXCEPT ![g][c] = "closed"] /\ scheduleReconnect
      /\ UNCHANGED <<config, stopped, ws, peers, rtcPeer, calls>>
  BY DEF socket_closes
<1>3. sockets' \in [WebSockets -> [Channel -> SocketState]] /\ sockets'[g][c] = "closed"
  BY <1>1, <1>2 DEF SocketsOK, SocketState, LiveSocket
<1>4. LiveSockets' \subseteq LiveSockets
  BY <1>1, <1>2, <1>3 DEF LiveSockets, SocketsOK, LiveSocket
<1>5. ws # 0 => sockets'[ws] # Unopened
  <2>1. CASE ws = g
    BY <1>3, <2>1 DEF Unopened
  <2>2. CASE ws # g
    BY <1>1, <1>2, <2>2 DEF SocketsOK
  <2> QED
    BY <2>1, <2>2
<1>6. /\ timer' \in {"none", "rtc", "ws"} /\ (stopped => timer' = timer)
      /\ ~stopped /\ config.autoReconnect => timer' # "none"
  BY <1>1, <1>2, Scheduled
<1>7. SocketsOK' /\ PeersOK' /\ RestOK' /\ LivePeers' = LivePeers
  BY <1>1, <1>2, <1>3, <1>5, <1>6 DEF SocketsOK, PeersOK, RestOK, LivePeers, Unopened
<1>8. CallsAreWebRtc' /\ NeverGivesUp' /\ StaysStopped'
  BY <1>2, <1>4, <1>6, <1>7 DEF CallsAreWebRtc, NeverGivesUp, Silent, StaysStopped, shouldUseWebRtc
<1> QED
  BY <1>1, <1>2, <1>4, <1>7, <1>8 DEF NothingIsLeaked, TypeOK, SocketsOK, PeersOK, RestOK, SocketState, PeerState

\* A peer in use that is lost is the player's own, and starts the timer.
LEMMA PeerInv == ASSUME SdkInv, NEW p \in Peer, NEW state, peer_changes(p, state) PROVE SdkInv'
<1> USE DEF SdkInv
<1>1. SocketsOK /\ PeersOK /\ RestOK /\ LiveSockets \subseteq {ws} /\ LivePeers \subseteq {rtcPeer}
  BY TypesSplit DEF NothingIsLeaked
<1>2. /\ <<peers[p], state>> \in PeerEdges /\ peers' = [peers EXCEPT ![p] = state]
      /\ UNCHANGED <<config, stopped, sockets, ws, rtcPeer, calls>>
  BY DEF peer_changes
<1>3. /\ peers[p] \in {"connecting", "connected", "disconnected"}
      /\ state \in {"connected", "disconnected", "failed"}
  BY <1>2 DEF PeerEdges
<1>4. p = rtcPeer /\ p \in LivePeers
  BY <1>1, <1>3 DEF LivePeers
<1>5. peers' \in [Peer -> PeerState] /\ peers'[p] = state /\ \A q \in Peer \ {p} : peers'[q] = peers[q]
  BY <1>1, <1>2, <1>3 DEF PeersOK, PeerState
<1>6. PeersOK' /\ LivePeers' = LivePeers
  BY <1>1, <1>2, <1>3, <1>4, <1>5 DEF PeersOK, LivePeers
<1>7. ~stopped
  BY <1>4 DEF StaysStopped
<1>8. CASE state \in {"failed", "disconnected"}
  <2>1. scheduleReconnect
    BY <1>4, <1>8 DEF peer_changes
  <2>2. timer' \in {"none", "rtc", "ws"} /\ (config.autoReconnect => timer' # "none")
    BY <1>1, <1>7, <2>1, Scheduled
  <2>3. SocketsOK' /\ RestOK' /\ LiveSockets' = LiveSockets
    BY <1>1, <1>2, <2>2 DEF SocketsOK, RestOK, LiveSockets
  <2>4. CallsAreWebRtc' /\ NeverGivesUp' /\ StaysStopped'
    BY <1>2, <1>7, <2>2 DEF CallsAreWebRtc, NeverGivesUp, Silent, StaysStopped, shouldUseWebRtc
  <2> QED
    BY <1>1, <1>2, <1>6, <2>3, <2>4 DEF NothingIsLeaked, TypeOK, SocketsOK, PeersOK, RestOK, SocketState, PeerState
<1>9. CASE state = "connected"
  <2>1. timer' = timer
    BY <1>9 DEF peer_changes
  <2>2. SocketsOK' /\ RestOK' /\ LiveSockets' = LiveSockets
    BY <1>1, <1>2, <2>1 DEF SocketsOK, RestOK, LiveSockets
  <2>3. CallsAreWebRtc' /\ NeverGivesUp' /\ StaysStopped'
    BY <1>2, <1>5, <1>7, <1>9 DEF CallsAreWebRtc, NeverGivesUp, Silent, StaysStopped, shouldUseWebRtc
  <2> QED
    BY <1>1, <1>2, <1>6, <2>2, <2>3 DEF NothingIsLeaked, TypeOK, SocketsOK, PeersOK, RestOK, SocketState, PeerState
<1> QED
  BY <1>3, <1>8, <1>9

LEMMA StepSdkInv == SdkInv /\ [Next]_vars => SdkInv'
<1> SUFFICES ASSUME SdkInv, [Next]_vars PROVE SdkInv'
  OBVIOUS
<1>1. CASE UNCHANGED vars
  BY <1>1 DEF vars, SdkInv, TypeOK, NothingIsLeaked, CallsAreWebRtc, NeverGivesUp, Silent, StaysStopped,
     LiveSockets, LivePeers, shouldUseWebRtc, Unopened
<1>2. CASE connect
  BY <1>2, ConnectInv
<1>3. CASE disconnect
  BY <1>3, DisconnectInv
<1>4. CASE reconnect_timer_fires
  BY <1>4, TimerInv
<1>5. ASSUME NEW p \in Peer, connect_returns(p) PROVE SdkInv'
  BY <1>5, ReturnInv
<1>6. ASSUME NEW p \in Peer, connect_fails(p) PROVE SdkInv'
  BY <1>6, FailInv
<1>7. ASSUME NEW p \in Peer, NEW state \in {"connected", "disconnected", "failed"}, peer_changes(p, state)
      PROVE  SdkInv'
  BY <1>7, PeerInv
<1>8. ASSUME NEW g \in WebSockets, NEW c \in Channel, socket_opens(g, c) PROVE SdkInv'
  BY <1>8, OpenInv
<1>9. ASSUME NEW g \in WebSockets, NEW c \in Channel, socket_closes(g, c) PROVE SdkInv'
  BY <1>9, CloseInv
<1> QED
  BY <1>1, <1>2, <1>3, <1>4, <1>5, <1>6, <1>7, <1>8, <1>9 DEF Next

\* The invariant of a player's connections, whatever they are and however
\* often they are replaced.
THEOREM SdkInvariant == Spec => []SdkInv
<1> QED
  BY InitSdkInv, StepSdkInv, PTL DEF Spec

\* The fields of the player name connections that exist.
THEOREM SdkTypes == Spec => []TypeOK
<1>1. SdkInv => TypeOK
  BY DEF SdkInv
<1> QED
  BY <1>1, SdkInvariant, PTL

\* disconnect() can always reach every socket and peer in use.
THEOREM NoneIsLeaked == Spec => []NothingIsLeaked
<1>1. SdkInv => NothingIsLeaked
  BY DEF SdkInv
<1> QED
  BY <1>1, SdkInvariant, PTL

\* A player that is to reconnect is never left with nothing up, awaited or
\* scheduled.
THEOREM KeepsTrying == Spec => []NeverGivesUp
<1>1. SdkInv => NeverGivesUp
  BY DEF SdkInv
<1> QED
  BY <1>1, SdkInvariant, PTL

-----------------------------------------------------------------------------
(* What a step may do to a stopped player.                                 *)

\* A socket that opens was in use, and one that closes is so no more.
LEMMA SocketSteps ==
  ASSUME SocketsOK, NEW g \in WebSockets, NEW c \in Channel,
         socket_opens(g, c) \/ socket_closes(g, c)
  PROVE  LiveSockets' \subseteq LiveSockets
<1>1. \A h \in WebSockets : \A d \in Channel :
        sockets'[h][d] \in LiveSocket => sockets[h][d] \in LiveSocket
  BY DEF SocketsOK, socket_opens, socket_closes, LiveSocket
<1> QED
  BY <1>1 DEF LiveSockets

\* No step connects a stopped player but the end of a call of connect.
LEMMA StoppedStep ==
  ASSUME SdkInv, Next, stopped'
  PROVE  /\ ~stopped => LiveSockets' = {}
         /\ \/ LiveSockets' \subseteq LiveSockets
            \/ config.transport = "auto" /\ \E p \in calls : calls' = calls \ {p}
<1>1. SocketsOK /\ LiveSockets \subseteq {ws}
  BY TypesSplit DEF SdkInv, NothingIsLeaked
<1>2. CASE connect \/ reconnect_timer_fires
  BY <1>2 DEF connect, reconnect_timer_fires, SdkInv, StaysStopped
<1>3. CASE disconnect
  <2>1. LiveSockets' = {}
    BY <1>1, <1>3, DisconnectSockets DEF disconnect
  <2> QED
    BY <2>1
<1>4. ASSUME NEW p \in Peer, connect_fails(p)
      PROVE  /\ stopped
             /\ \/ LiveSockets' \subseteq LiveSockets
                \/ config.transport = "auto" /\ \E q \in calls : calls' = calls \ {q}
  <2>1. stopped /\ p \in calls /\ calls' = calls \ {p}
    BY <1>4 DEF connect_fails
  <2>2. config.transport # "auto" => LiveSockets' = LiveSockets
    BY <1>4 DEF connect_fails, LiveSockets
  <2> QED
    BY <2>1, <2>2
<1>5. ASSUME NEW p \in Peer, connect_returns(p) \/ \E state \in {"connected", "disconnected", "failed"} :
                                                   peer_changes(p, state)
      PROVE  stopped /\ LiveSockets' = LiveSockets
  BY <1>5 DEF connect_returns, peer_changes, LiveSockets
<1>6. ASSUME NEW g \in WebSockets, NEW c \in Channel, socket_opens(g, c) \/ socket_closes(g, c)
      PROVE  stopped /\ LiveSockets' \subseteq LiveSockets
  BY <1>1, <1>6, SocketSteps DEF socket_opens, socket_closes
<1> QED
  BY <1>2, <1>3, <1>4, <1>5, <1>6 DEF Next

\* disconnect() leaves nothing in use, and afterwards nothing comes up but the
\* fall-back of a connect() that it interrupted.
THEOREM StaysDisconnected == Spec => DisconnectIsFinal
<1> DEFINE Step == stopped' =>
             /\ timer' = "none" /\ LivePeers' = {}
             /\ ~stopped \/ ws' = 0 => LiveSockets' = {}
             /\ \/ LiveSockets' \subseteq LiveSockets
                \/ config.transport = "auto" /\ \E p \in calls : calls' = calls \ {p}
<1>1. SdkInv /\ SdkInv' /\ [Next]_vars => [Step]_vars
  <2> SUFFICES ASSUME SdkInv, SdkInv', Next, stopped'
               PROVE  Step
    OBVIOUS
  <2>1. timer' = "none" /\ LivePeers' = {}
    BY DEF SdkInv, StaysStopped
  <2>2. ws' = 0 => LiveSockets' = {}
    <3>1. LiveSockets' \subseteq WebSockets /\ LiveSockets' \subseteq {ws'}
      BY DEF LiveSockets, SdkInv, NothingIsLeaked
    <3> QED
      BY <3>1, SdkAssumption DEF WebSockets
  <2> QED
    BY <2>1, <2>2, StoppedStep
<1> QED
  BY <1>1, SdkInvariant, PTL DEF Spec, DisconnectIsFinal
=============================================================================
