---------------------------- MODULE ArcadeServer ----------------------------
(***************************************************************************)
(* The arcade web application (packages/joel-nosebleed-arcade/src/server): *)
(* its front desk (arcadeState.ts), one nosebleed process per machine      *)
(* (runtimeManager.ts), the WebSocket gateway between browsers and         *)
(* machines (websocketGateway.ts), and its start and shutdown (index.ts).  *)
(*                                                                         *)
(* Node runs one handler at a time: each is one action, up to its next     *)
(* await.  The child processes, the browsers and the ws library are        *)
(* external.  A viewer id stands for its trimmed form; a forwarded message *)
(* changes nothing here.  Scores, names and rounds are left out: nothing   *)
(* else reads them.                                                        *)
(***************************************************************************)
EXTENDS Naturals, Sequences, SequencesExt

CONSTANTS Machines,  \* machineCount: machines are numbered from 1
          Viewer, NoViewer,
          Queued,    \* the machines at which somebody queues
          Socket,    \* connections to the gateway
          MaxTicket  \* bound: tickets handed out

ASSUME ServerAssumption ==
  /\ Machines \in Nat \ {0} /\ MaxTicket \in Nat /\ NoViewer \notin Viewer
  /\ Queued \subseteq 1..Machines

VARIABLES desks,        \* ArcadeState.machines: lines, players and calls
          nextTicketId,
          runtimes,     \* the manager's records, each with its child process
          starting,     \* startAll: the record it is at, and beyond
          waiting,      \* startRecord has spawned and awaits waitForHealthz
          listening,
          stage,        \* up; closing (server.close), stopping (stopAll); exited or crashed
          stopping,     \* machines whose exit stopAll awaits
          unspawned,    \* (history) the first machine startAll had not reached at stopAll
          sockets       \* both halves of each gateway connection

vars == <<desks, nextTicketId, runtimes, starting, waiting, listening, stage, stopping, unspawned, sockets>>
desk == <<desks, nextTicketId>>
main == <<starting, waiting, listening, stage, stopping, unspawned>>

Machine == 1..Machines
Side == {"left", "right"}
opposite(s) == IF s = "left" THEN "right" ELSE "left"
NoCall == [ticketId |-> 0, viewerId |-> NoViewer]
-----------------------------------------------------------------------------
(* The front desk.  Handlers that refuse a request change nothing.         *)

\* Mutant: an occupied seat is called too.
ensureSeatCall_occupied(d, s) ==
  IF d.called[s] # NoCall \/ d.queue[s] = <<>> THEN d
  ELSE [d EXCEPT !.called[s] = Head(d.queue[s])]

ensureSeatCall(d, s) ==
  IF d.called[s] # NoCall \/ d.player[s] # NoViewer \/ d.queue[s] = <<>> THEN d
  ELSE [d EXCEPT !.called[s] = Head(d.queue[s])]

Found(q, v, ticket) == {i \in DOMAIN q : q[i] = [ticketId |-> ticket, viewerId |-> v]}

removeTicket(q, v, ticket) ==
  IF Found(q, v, ticket) = {} THEN q ELSE RemoveAt(q, CHOOSE i \in Found(q, v, ticket) : TRUE)

viewerIsPresent(d, v) ==
  \E s \in Side : \/ d.player[s] = v \/ d.called[s].viewerId = v
                  \/ \E i \in DOMAIN d.queue[s] : d.queue[s][i].viewerId = v

\* The handlers of index.ts run while the server accepts requests.
At(m, d) ==
  /\ listening
  /\ desks' = [desks EXCEPT ![m] = d]
  /\ UNCHANGED <<runtimes, main, sockets>>

joinQueue(m, v, s) ==
  /\ ~viewerIsPresent(desks[m], v)
  /\ nextTicketId <= MaxTicket
  /\ nextTicketId' = nextTicketId + 1
  /\ At(m, ensureSeatCall([desks[m] EXCEPT !.queue[s] = Append(@, [ticketId |-> nextTicketId, viewerId |-> v])], s))

leaveQueue(m, v, ticket) ==
  \E s \in Side :
    /\ Found(desks[m].queue[s], v, ticket) # {}
    /\ At(m, ensureSeatCall([desks[m] EXCEPT !.queue[s] = removeTicket(@, v, ticket),
                                             !.called[s] = IF @.ticketId = ticket THEN NoCall ELSE @], s))
    /\ UNCHANGED nextTicketId

claimSeat(m, v, ticket) ==
  \E s \in Side :
    /\ desks[m].called[s] = [ticketId |-> ticket, viewerId |-> v] /\ desks[m].player[s] = NoViewer
    /\ At(m, ensureSeatCall([desks[m] EXCEPT !.queue[s] = removeTicket(@, v, ticket),
                                             !.player[s] = v, !.called[s] = NoCall], opposite(s)))
    /\ UNCHANGED nextTicketId

leaveSeat(m, v) ==
  \E s \in Side :
    /\ desks[m].player[s] = v
    /\ At(m, ensureSeatCall([desks[m] EXCEPT !.player[s] = NoViewer], s))
    /\ UNCHANGED nextTicketId

endRound(m, winner) ==
  /\ \A s \in Side : desks[m].player[s] # NoViewer
  /\ At(m, ensureSeatCall([desks[m] EXCEPT !.player[opposite(winner)] = NoViewer], opposite(winner)))
  /\ UNCHANGED nextTicketId
-----------------------------------------------------------------------------
(* The runtime manager.                                                    *)

Ended == stage \in {"exited", "crashed"}

Alive(m) == runtimes[m].child \in {"booting", "healthy"}

\* startRecord until it awaits; spawning may fail, which it is told in the same tick.
startRecord(spawned) ==
  /\ ~Ended /\ starting \in Machine /\ ~waiting
  /\ waiting' = TRUE
  /\ runtimes' = [runtimes EXCEPT ![starting] =
       [@ EXCEPT !.status = IF spawned THEN "starting" ELSE "error", !.process = spawned,
                 !.child = IF spawned THEN "booting" ELSE "none"]]
  /\ UNCHANGED <<desk, starting, listening, stage, stopping, unspawned, sockets>>

child_boots(m) ==
  /\ runtimes[m].child = "booting"
  /\ runtimes' = [runtimes EXCEPT ![m].child = "healthy"]
  /\ UNCHANGED <<desk, main, sockets>>

\* Of itself, or because it was told to.
child_dies(m) ==
  /\ Alive(m)
  /\ runtimes' = [runtimes EXCEPT ![m].child = "dead"]
  /\ UNCHANGED <<desk, main, sockets>>

exit_event(m) ==
  /\ ~Ended /\ runtimes[m].child = "dead"
  /\ runtimes' = [runtimes EXCEPT ![m] =
       [@ EXCEPT !.child = "gone", !.process = FALSE, !.overtaken = waiting /\ starting = m,
                 !.status = IF runtimes[m].status # "stopped" THEN "error" ELSE runtimes[m].status]]
  /\ stopping' = stopping \ {m}
  /\ UNCHANGED <<desk, starting, waiting, listening, stage, unspawned, sockets>>

\* The runtime answers the probe of /healthz; the answer is handled later.
answer_healthz ==
  /\ ~Ended /\ waiting /\ runtimes[starting].child = "healthy"
  /\ runtimes' = [runtimes EXCEPT ![starting].answered = TRUE]
  /\ UNCHANGED <<desk, main, sockets>>

\* waitForHealthz ends, with an answer or after 12 s; startAll goes on.
probeHealthz ==
  /\ ~Ended /\ waiting
  /\ runtimes' = [runtimes EXCEPT ![starting].status = IF runtimes[starting].answered THEN "online" ELSE "error"]
  /\ starting' = starting + 1 /\ waiting' = FALSE
  /\ UNCHANGED <<desk, listening, stage, stopping, unspawned, sockets>>

\* startAll has returned.
start ==
  /\ ~Ended /\ starting = Machines + 1
  /\ starting' = Machines + 2 /\ listening' = TRUE
  /\ UNCHANGED <<desk, runtimes, waiting, stage, stopping, unspawned, sockets>>

\* The process ends, and with it its connections; its children do not.
Ends(how) ==
  /\ stage' = how /\ listening' = FALSE
  /\ sockets' = [k \in Socket |-> [sockets[k] EXCEPT !.client = "closed", !.upstream = "closed"]]
  /\ UNCHANGED <<desk, runtimes, starting, waiting, stopping, unspawned>>

\* The port is taken: server emits 'error' and nobody listens for it.
listen_fails == ~Ended /\ starting = Machines + 1 /\ Ends("crashed")
-----------------------------------------------------------------------------
(* The gateway.                                                            *)

InUse == {"connecting", "open", "closing"}

\* upgrade: the client is there, the machine's own server is dialled.
routeGatewayConnection(k, m, kind) ==
  /\ listening /\ sockets[k].client = "unborn"
  /\ sockets' = [sockets EXCEPT ![k] = [client |-> "open", upstream |-> "connecting", machine |-> m, kind |-> kind]]
  /\ UNCHANGED <<desk, runtimes, main>>

\* A request target or a Host that makes no URL: nobody catches the exception.
upgrade_throws == listening /\ Ends("crashed")

\* No such machine, channel or viewer: the client is told and closed.
refuse_connection(k) ==
  /\ listening /\ sockets[k].client = "unborn"
  /\ sockets' = [sockets EXCEPT ![k].client = "closing", ![k].upstream = "closed"]
  /\ UNCHANGED <<desk, runtimes, main>>

Gateway(k, half) ==
  /\ ~Ended
  /\ sockets' = [sockets EXCEPT ![k] = half]
  /\ UNCHANGED <<desk, runtimes, main>>

upstream_opens(k) ==
  /\ sockets[k].upstream = "connecting" /\ runtimes[sockets[k].machine].child = "healthy"
  /\ Gateway(k, [sockets[k] EXCEPT !.upstream = "open"])

\* It cannot be reached, or closes, or the close begun here is over: the
\* client is closed if it is open.
upstream_closes(k) ==
  /\ sockets[k].upstream \in InUse
  /\ Gateway(k, [sockets[k] EXCEPT !.upstream = "closed", !.client = IF @ = "open" THEN "closing" ELSE @])

\* Mutant: an upstream that is still being dialled is forgotten.
client_closes_open(k) ==
  /\ sockets[k].client \in InUse
  /\ Gateway(k, [sockets[k] EXCEPT !.client = "closed", !.upstream = IF @ = "open" THEN "closing" ELSE @])

client_closes(k) ==
  /\ sockets[k].client \in InUse
  /\ Gateway(k, [sockets[k] EXCEPT !.client = "closed",
                                   !.upstream = IF @ \in {"open", "connecting"} THEN "closing" ELSE @])

\* A message arrives that would be forwarded, if it can be.
Arrives(k) ==
  sockets[k].client \in {"open", "closing"} /\ sockets[k].upstream = "open" /\ sockets[k].kind = "input"

\* It comes from a viewer who has no seat, or is not JSON.
refuse_input(k) ==
  Arrives(k) /\ Gateway(k, [sockets[k] EXCEPT !.client = "closing", !.upstream = "closing"])

\* It comes from a viewer who sits at the machine, and is the JSON value null,
\* which has no type: nobody catches the exception.
input_throws(k) ==
  /\ Arrives(k) /\ \E s \in Side : desks[sockets[k].machine].player[s] # NoViewer
  /\ Ends("crashed")
-----------------------------------------------------------------------------
(* Shutdown.                                                               *)

\* SIGINT or SIGTERM, the first one: no more connections.
shutdown ==
  /\ stage = "up"
  /\ stage' = "closing" /\ listening' = FALSE
  /\ UNCHANGED <<desk, runtimes, starting, waiting, stopping, unspawned, sockets>>

NoClients == \A k \in Socket : sockets[k].client \notin InUse

\* Mutant: machines that do not answer yet are passed over.
stopAll_online ==
  /\ stage = "closing" /\ NoClients
  /\ stage' = "stopping"
  /\ stopping' = {m \in Machine : runtimes[m].process /\ runtimes[m].status = "online"}
  /\ runtimes' = [m \in Machine |-> [runtimes[m] EXCEPT !.status = "stopped", !.process = FALSE]]
  /\ unspawned' = IF waiting THEN starting + 1 ELSE starting
  /\ UNCHANGED <<desk, starting, waiting, listening, sockets>>

\* Mutant: machines without a process are waited for, too.
stopAll_all ==
  /\ stage = "closing" /\ NoClients
  /\ stage' = "stopping"
  /\ stopping' = Machine
  /\ runtimes' = [m \in Machine |-> [runtimes[m] EXCEPT !.status = "stopped", !.process = FALSE]]
  /\ unspawned' = IF waiting THEN starting + 1 ELSE starting
  /\ UNCHANGED <<desk, starting, waiting, listening, sockets>>

\* The callback of server.close, which waits for every connection, and stopAll
\* up to its await: all are told to end, and killed if they do not.
stopAll ==
  /\ stage = "closing" /\ NoClients
  /\ stage' = "stopping"
  /\ stopping' = {m \in Machine : runtimes[m].process}
  /\ runtimes' = [m \in Machine |-> [runtimes[m] EXCEPT !.status = "stopped", !.process = FALSE]]
  /\ unspawned' = IF waiting THEN starting + 1 ELSE starting
  /\ UNCHANGED <<desk, starting, waiting, listening, sockets>>

\* process.exit.
exit == stage = "stopping" /\ stopping = {} /\ Ends("exited")
-----------------------------------------------------------------------------
Init ==
  /\ desks = [m \in Machine |-> [queue |-> [s \in Side |-> <<>>], player |-> [s \in Side |-> NoViewer],
                                 called |-> [s \in Side |-> NoCall]]]
  /\ nextTicketId = 1
  /\ runtimes = [m \in Machine |-> [status |-> "stopped", process |-> FALSE, child |-> "none",
                                    answered |-> FALSE, overtaken |-> FALSE]]
  /\ starting = 1 /\ waiting = FALSE /\ listening = FALSE /\ stage = "up" /\ stopping = {} /\ unspawned = 0
  /\ sockets = [k \in Socket |-> [client |-> "unborn", upstream |-> "unborn", machine |-> 1, kind |-> "stream"]]

Desk ==
  \E m \in Queued :
    \/ \E v \in Viewer : \/ \E s \in Side : joinQueue(m, v, s)
                         \/ \E ticket \in 1..MaxTicket : leaveQueue(m, v, ticket) \/ claimSeat(m, v, ticket)
                         \/ leaveSeat(m, v)
    \/ \E s \in Side : endRound(m, s)

StartAll == (\E spawned \in BOOLEAN : startRecord(spawned)) \/ probeHealthz \/ start \/ listen_fails
Children == answer_healthz \/ \E m \in Machine : child_boots(m) \/ child_dies(m) \/ exit_event(m)
Gateways ==
  \E k \in Socket :
    \/ \E m \in Machine, kind \in {"stream", "input"} : routeGatewayConnection(k, m, kind)
    \/ refuse_connection(k)
    \/ upstream_opens(k) \/ refuse_input(k) \/ input_throws(k)
    \/ upstream_closes(k) \/ client_closes(k)

Next == Desk \/ StartAll \/ Children \/ Gateways \/ upgrade_throws \/ shutdown \/ stopAll \/ exit

Spec == Init /\ [][Next]_vars

\* Node goes on with what it has begun; a child that was told to end does (it is
\* killed after 2 s); a half that is being dialled or closed comes to an end
\* (the ws library times closing handshakes out).  Nobody else owes anything.
FairSpec ==
  /\ Spec
  /\ WF_vars(StartAll) /\ WF_vars(stopAll) /\ WF_vars(exit)
  /\ \A m \in Machine : WF_vars(exit_event(m)) /\ WF_vars(m \in stopping /\ child_dies(m))
  /\ \A k \in Socket : /\ WF_vars(sockets[k].upstream = "closing" /\ upstream_closes(k))
                       /\ WF_vars(sockets[k].client = "closing" /\ client_closes(k))
-----------------------------------------------------------------------------
Entry == [ticketId : Nat \ {0}, viewerId : Viewer]
Desks == [queue : [Side -> Seq(Entry)], player : [Side -> Viewer \cup {NoViewer}],
          called : [Side -> Entry \cup {NoCall}]]
Record == [status : {"starting", "online", "error", "stopped"}, process : BOOLEAN,
           child : {"none", "booting", "healthy", "dead", "gone"}, answered : BOOLEAN, overtaken : BOOLEAN]
SocketState == InUse \cup {"unborn", "closed"}

TypeOK ==
  /\ desks \in [Machine -> Desks] /\ nextTicketId \in Nat \ {0}
  /\ runtimes \in [Machine -> Record]
  /\ starting \in 1..(Machines + 2) /\ waiting \in BOOLEAN /\ listening \in BOOLEAN
  /\ stage \in {"up", "closing", "stopping", "exited", "crashed"} /\ stopping \subseteq Machine
  /\ unspawned \in 0..(Machines + 2)
  /\ sockets \in [Socket -> [client : SocketState, upstream : SocketState,
                             machine : Machine, kind : {"stream", "input"}]]

SeatIsCalled(d, s) ==
  d.called[s] = IF d.player[s] = NoViewer /\ d.queue[s] # <<>> THEN Head(d.queue[s]) ELSE NoCall

OnePlace(d) ==
  \A s, r \in Side :
    /\ d.player[s] = d.player[r] /\ d.player[s] # NoViewer => s = r
    /\ \A i \in DOMAIN d.queue[s] :
         /\ d.queue[s][i].viewerId # d.player[r]
         /\ \A j \in DOMAIN d.queue[r] : d.queue[s][i].viewerId = d.queue[r][j].viewerId => s = r /\ i = j

(* Unlike the desk of the Rust server, this one has a call for each side, and
   after every handler a seat is called exactly when it is empty and somebody
   waits for it, for the head of the line; and no viewer is in two places of a
   machine. *)
SeatsAreCalled ==
  \A m \in Machine : (\A s \in Side : SeatIsCalled(desks[m], s)) /\ OnePlace(desks[m])

(* What the records say of the processes.  While the server serves, a machine
   that startAll is done with and whose process has ended is shown as failed,
   with one exception that the code has: if the process answered the first
   probe and its end was handled before its answer, it is shown as online.  An
   orderly exit leaves no process behind but of machines that startAll had not
   reached when stopAll went by: startAll goes on, and spawns them after it.  An
   exception nobody catches ends the server without stopAll: of that exit the
   property says nothing, every process that lived lives on. *)
ProcessesAreAccountedFor ==
  \A m \in Machine :
    /\ stage \in {"up", "closing"} /\ starting > m /\ ~runtimes[m].process =>
         runtimes[m].status = IF runtimes[m].overtaken /\ runtimes[m].answered THEN "online" ELSE "error"
    /\ stage = "exited" /\ Alive(m) => m >= unspawned

(* When one half of a gateway connection ends, however it does and whatever the
   other half is doing, the other half ends too. *)
HalvesEndTogether ==
  \A k \in Socket :
    (sockets[k].client = "closed" \/ sockets[k].upstream = "closed") ~>
    (sockets[k].client = "closed" /\ sockets[k].upstream = "closed")

(* Once told to, the server stops its machines and exits, unless browsers stay
   connected for ever (server.close waits for them, and nobody closes them) or
   an exception ends it first. *)
ShutdownEnds == <>[]NoClients => (stage = "closing" ~> Ended)
=============================================================================
