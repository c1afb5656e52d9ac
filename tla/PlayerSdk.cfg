\* Every configuration; four WebSocket connections, three WebRTC peers.
CONSTANTS
  Channel <- MCChannel
  MaxSockets = 4
  MaxPeers = 3
SPECIFICATION Spec
INVARIANTS NothingIsLeaked NeverGivesUp
PROPERTY DisconnectIsFinal
CHECK_DEADLOCK FALSE
