--------------------------- MODULE MCInputSessions ---------------------------
(* Instances of InputSessions for TLC: player a has a WebSocket tab and a  *)
(* WebRTC tab, player b is given one of a's ports, w only watches.         *)
EXTENDS InputSessions

CONSTANTS a, b, ws, rtc, rtc2, w, anon

MCOwner == [s \in Source |-> IF s = rtc2 THEN b ELSE a]

\* a holds both ports, b is moved to port 0; w and anon have no claims.
MCPorts == [s \in Source |-> IF s \in {w, anon} THEN {}
                             ELSE IF s = ws THEN Port ELSE {0}]
=============================================================================
