--------------------------- MODULE MCArcadeServer ---------------------------
(* Two machines, a line at the first, one browser connection. *)
EXTENDS ArcadeServer

CONSTANTS v1, v2, v3, k1

MCViewer == {v1, v2, v3}
MCQueued == {1}
MCSocket == {k1}

\* All the desk shares with the rest is the listening server and who sits: its
\* handlers run where all machines are online and nobody is connected.  The rest
\* goes on where nobody has come yet or the first to come sits at the left.
DeskApart ==
  IF UNCHANGED desk
  THEN nextTicketId = 1 \/ (nextTicketId = 2 /\ desks[1].player["left"] = v1)
  ELSE /\ stage = "up" /\ \A k \in Socket : sockets[k].client = "unborn"
       /\ \A m \in Machine : runtimes[m].status = "online" /\ runtimes[m].child = "healthy"
=============================================================================
