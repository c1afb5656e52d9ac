------------------------------- MODULE Arcade -------------------------------
(***************************************************************************)
(* The arcade front desk of apps/nosebleed/src/arcade.rs: machines with a  *)
(* left and a right seat, one waiting line per side, one seat call at a    *)
(* time per machine, no-show cooldowns and the daily high scores.          *)
(*                                                                         *)
(* ArcadeService keeps all of it behind one mutex and every handler runs   *)
(* under it, so a handler is one action.  What is NOT under the mutex is   *)
(* the clock: a handler reads `now` first and then waits for the lock, so  *)
(* other handlers and any amount of time (at most MaxLag here) may pass    *)
(* between the reading and its use.  A handler's argument `lag` is the age *)
(* of its reading when it gets the lock.                                   *)
(*                                                                         *)
(* Deadlines are kept relative to the wall clock: a deadline d means       *)
(* "expires_unix_ms = wall clock + d", Tick lowers all of them, and a      *)
(* handler of age lag sees the deadline passed iff d + lag <= 0.  A        *)
(* deadline at -MaxLag has passed for every handler; it stays there.       *)
(***************************************************************************)
EXTENDS Integers, FiniteSets, SequencesExt

CONSTANTS Machine,          \* the machines, created once at start-up
          MachineId,        \* machine ids a request may carry
          Player,           \* player keys (normalized names)
          Name,             \* player names a request may carry
          KeyOf,            \* the key of a name, NoPlayer for a blank one
          NoPlayer,         \* an empty seat
          NoCall,           \* a machine that calls nobody
          ClaimTimeout,     \* CLAIM_TIMEOUT_MS, in ticks
          NoShowCooldown,   \* NO_SHOW_COOLDOWN_MS, in ticks
          MaxLag,           \* bound: age of a clock reading, in ticks
          MaxTicket,        \* bound: tickets handed out
          Score,            \* scores a round may end with
          MaxDay            \* bound: midnights that pass

Side == {"left", "right"}

Status == {"FreePlay", "SeatCall", "MatchLive", "PostRound"}

Entry == [ticket : Nat, player : Player]

Call == [side : Side, ticket : Nat, player : Player, expires : Int]

NoScore == -1

ASSUME ArcadeAssumption ==
  /\ Machine # {} /\ Machine \subseteq MachineId
  /\ NoPlayer \notin Player
  /\ NoCall \notin Call
  /\ KeyOf \in [Name -> Player \cup {NoPlayer}]
  /\ MaxLag \in Nat
  /\ ClaimTimeout \in Nat /\ ClaimTimeout > MaxLag
  /\ NoShowCooldown \in Nat /\ NoShowCooldown > MaxLag
  /\ MaxTicket \in Nat
  /\ Score \subseteq Nat
  /\ MaxDay \in Nat

VARIABLES machines,         \* the table of machines
          cooldown_until,   \* per player, until when it may not join
          next_ticket_id,
          daily_machine_scores,
          daily_global_scores,
          day               \* the wall clock's day

vars == <<machines, cooldown_until, next_ticket_id,
          daily_machine_scores, daily_global_scores, day>>

scores == <<daily_machine_scores, daily_global_scores>>

Day == 0 .. MaxDay

MachineState ==
  [seat   : [Side -> Player \cup {NoPlayer}],
   queue  : [Side -> Seq(Entry)],
   called : Call \cup {NoCall},
   status : Status]

-----------------------------------------------------------------------------
(* One machine: the helpers of arcade.rs that work on a MachineState.      *)

opposite(s) == IF s = "left" THEN "right" ELSE "left"

\* A deadline has passed for a handler whose clock reading is `lag` old.
Passed(deadline, lag) == deadline + lag <= 0

derive_status(mc) ==
  IF mc.called # NoCall THEN "SeatCall"
  ELSE IF \A s \in Side : mc.seat[s] # NoPlayer THEN "MatchLive"
  ELSE "FreePlay"

Derived(mc) == [mc EXCEPT !.status = derive_status(mc)]

HasTicket(q, t) == \E i \in DOMAIN q : q[i].ticket = t

Position(q, t) == CHOOSE i \in DOMAIN q : q[i].ticket = t

\* The queue without the entry of ticket t (ids are unique: TicketsInOrder).
Without(q, t) == IF HasTicket(q, t) THEN RemoveAt(q, Position(q, t)) ELSE q

\* Mutant: the next call goes to the player who joined last.
CallNewest(mc, s, lag) ==
  IF mc.called # NoCall \/ mc.seat[s] # NoPlayer \/ mc.queue[s] = <<>>
  THEN Derived(mc)
  ELSE LET e == Last(mc.queue[s]) IN
       [mc EXCEPT !.called = [side |-> s, ticket |-> e.ticket, player |-> e.player,
                              expires |-> ClaimTimeout - lag],
                  !.status = "SeatCall"]

\* Calls the head of side s, unless a call is pending or the seat is taken.
call_next_for_side(mc, s, lag) ==
  IF mc.called # NoCall \/ mc.seat[s] # NoPlayer \/ mc.queue[s] = <<>>
  THEN Derived(mc)
  ELSE LET e == mc.queue[s][1] IN
       [mc EXCEPT !.called = [side |-> s, ticket |-> e.ticket, player |-> e.player,
                              expires |-> ClaimTimeout - lag],
                  !.status = "SeatCall"]

NoShow(mc, lag) == mc.called # NoCall /\ Passed(mc.called.expires, lag)

\* Mutant: a call never times out.
SweepNever(mc, lag) == Derived(mc)

\* The housekeeping of one machine: a call that timed out loses its ticket and
\* the next player of the same side is called.
Sweep(mc, lag) ==
  IF NoShow(mc, lag)
  THEN LET c == mc.called IN
       call_next_for_side([mc EXCEPT !.queue[c.side] = Without(@, c.ticket),
                                     !.called = NoCall,
                                     !.status = "PostRound"],
                          c.side, lag)
  ELSE Derived(mc)

\* join_queue on its machine: push, and call at once if the side is idle.
Enqueue(mc, s, e, lag) ==
  LET queued == [mc EXCEPT !.queue[s] = Append(@, e)] IN
  IF queued.called = NoCall /\ queued.seat[s] = NoPlayer
  THEN call_next_for_side(queued, s, lag)
  ELSE Derived(queued)

\* The side leave_queue finds ticket t on; left is searched first.
SideOf(mc, t) == IF HasTicket(mc.queue["left"], t) THEN "left" ELSE "right"

\* Mutant: leaving the line while being called leaves the call standing.
DropKeepsCall(mc, t, lag) ==
  Derived([mc EXCEPT !.queue[SideOf(mc, t)] = Without(@, t)])

\* leave_queue on its machine.
Drop(mc, t, lag) ==
  LET s == SideOf(mc, t)
      left == [mc EXCEPT !.queue[s] = Without(@, t)] IN
  IF mc.called # NoCall /\ mc.called.ticket = t
  THEN call_next_for_side([left EXCEPT !.called = NoCall], s, lag)
  ELSE Derived(left)

\* Mutant: the claimed ticket stays in the line.
TakeSeatKeepsTicket(mc, lag) ==
  LET c == mc.called
      seated == [mc EXCEPT !.seat[c.side] = c.player, !.called = NoCall] IN
  IF seated.seat[opposite(c.side)] # NoPlayer
  THEN [seated EXCEPT !.status = "MatchLive"]
  ELSE call_next_for_side(seated, opposite(c.side), lag)

\* claim_seat on its machine; with the opposite seat empty that side is called.
TakeSeat(mc, lag) ==
  LET c == mc.called
      seated == [mc EXCEPT !.queue[c.side] = Without(@, c.ticket),
                           !.seat[c.side] = c.player,
                           !.called = NoCall]
      next == call_next_for_side(seated, opposite(c.side), lag) IN
  IF seated.seat[opposite(c.side)] # NoPlayer
  THEN [seated EXCEPT !.status = "MatchLive"]
  ELSE IF next.called = NoCall THEN [next EXCEPT !.status = "FreePlay"]
  ELSE next

\* Mutant: the winner stands up and the loser stays.
BackfillLoserStays(mc, winner, lag) ==
  LET ended == [mc EXCEPT !.status = "PostRound", !.called = NoCall,
                          !.seat[winner] = NoPlayer]
      next == call_next_for_side(ended, winner, lag) IN
  IF next.called = NoCall THEN Derived(next) ELSE next

\* end_round on its machine: the loser stands up, the loser's side is called.
Backfill(mc, winner, lag) ==
  LET loser == opposite(winner)
      ended == [mc EXCEPT !.status = "PostRound", !.called = NoCall,
                          !.seat[loser] = NoPlayer]
      next == call_next_for_side(ended, loser, lag) IN
  IF next.called = NoCall THEN Derived(next) ELSE next

-----------------------------------------------------------------------------
(* The whole arcade: the part every handler runs first, under the mutex.   *)

Swept(lag) == [m \in Machine |-> Sweep(machines[m], lag)]

\* Players whose call times out in this housekeeping pass.
NoShows(lag) == {machines[m].called.player : m \in {n \in Machine : NoShow(machines[n], lag)}}

\* Mutant: the cooldown counts from the call's deadline in the past, and is over.
CooldownAfterZero(lag) ==
  [p \in Player |->
     IF p \in NoShows(lag) THEN -MaxLag
     ELSE IF Passed(cooldown_until[p], lag) THEN -MaxLag
     ELSE cooldown_until[p]]

\* Mutant: everyone queued at a swept machine is put on cooldown.
CooldownAfterAll(lag) ==
  [p \in Player |->
     IF \E m \in Machine : /\ NoShow(machines[m], lag)
                           /\ \E i \in DOMAIN machines[m].queue[machines[m].called.side] :
                                machines[m].queue[machines[m].called.side][i].player = p
     THEN NoShowCooldown - lag
     ELSE IF Passed(cooldown_until[p], lag) THEN -MaxLag
     ELSE cooldown_until[p]]

\* Entries that passed are dropped (-MaxLag: no entry), then no-shows added.
CooldownAfter(lag) ==
  [p \in Player |->
     IF p \in NoShows(lag) THEN NoShowCooldown - lag
     ELSE IF Passed(cooldown_until[p], lag) THEN -MaxLag
     ELSE cooldown_until[p]]

player_has_active_ticket(ms, p) ==
  \E m \in Machine :
     \/ \E s \in Side : \E i \in DOMAIN ms[m].queue[s] : ms[m].queue[s][i].player = p
     \/ ms[m].called # NoCall /\ ms[m].called.player = p

player_is_seated(ms, p) ==
  \E m \in Machine : \E s \in Side : ms[m].seat[s] = p

-----------------------------------------------------------------------------
NoScores ==
  /\ daily_machine_scores = [k \in Day \X Machine \X Player |-> NoScore]
  /\ daily_global_scores = [k \in Day \X Player |-> NoScore]
  /\ day = 0

EmptyMachines == [m \in Machine |-> [seat   |-> [s \in Side |-> NoPlayer],
                                     queue  |-> [s \in Side |-> <<>>],
                                     called |-> NoCall,
                                     status |-> "FreePlay"]]

Init ==
  /\ machines = EmptyMachines
  /\ cooldown_until = [p \in Player |-> -MaxLag]
  /\ next_ticket_id = 1
  /\ NoScores

\* A handler that changes nothing beyond the housekeeping: overview, machine,
\* and every request that is turned down after the lock was taken.
OnlyHousekeeping(lag) ==
  /\ machines' = Swept(lag)
  /\ cooldown_until' = CooldownAfter(lag)
  /\ UNCHANGED <<next_ticket_id, scores, day>>

overview(lag) == OnlyHousekeeping(lag)

\* Mutant: only a pending call counts as an active ticket.
MayJoinTwice(ms, cooldown, p, lag) ==
  /\ Passed(cooldown[p], lag)
  /\ ~player_is_seated(ms, p)
  /\ ~\E m \in Machine : ms[m].called # NoCall /\ ms[m].called.player = p

\* Mutant: the cooldown is not looked at.
MayJoinCooling(ms, cooldown, p, lag) ==
  /\ ~player_is_seated(ms, p)
  /\ ~player_has_active_ticket(ms, p)

\* What join_queue checks before it hands out a ticket.
MayJoin(ms, cooldown, p, lag) ==
  /\ Passed(cooldown[p], lag)
  /\ ~player_is_seated(ms, p)
  /\ ~player_has_active_ticket(ms, p)

join_queue(m, name, s, lag) ==
  LET p == KeyOf[name]
      ms == Swept(lag)
      entry == [ticket |-> next_ticket_id, player |-> p] IN
  /\ p # NoPlayer
  /\ \/ /\ ~MayJoin(ms, CooldownAfter(lag), p, lag)
        /\ OnlyHousekeeping(lag)
     \/ /\ MayJoin(ms, CooldownAfter(lag), p, lag)
        /\ next_ticket_id <= MaxTicket
        /\ next_ticket_id' = next_ticket_id + 1
        /\ machines' = [n \in Machine |-> IF n = m THEN Enqueue(ms[n], s, entry, lag)
                                                   ELSE ms[n]]
        /\ cooldown_until' = CooldownAfter(lag)
        /\ UNCHANGED <<scores, day>>

TicketOn(mc, t) == \E s \in Side : HasTicket(mc.queue[s], t)

leave_queue(m, t, lag) ==
  LET ms == Swept(lag) IN
  \/ /\ m \in Machine => ~TicketOn(ms[m], t)
     /\ OnlyHousekeeping(lag)
  \/ /\ m \in Machine /\ TicketOn(ms[m], t)
     /\ machines' = [ms EXCEPT ![m] = Drop(ms[m], t, lag)]
     /\ cooldown_until' = CooldownAfter(lag)
     /\ UNCHANGED <<next_ticket_id, scores, day>>

\* What claim_seat requires of the swept machine.
MayClaim(mc, t) ==
  /\ mc.called # NoCall
  /\ mc.called.ticket = t
  /\ mc.seat[mc.called.side] = NoPlayer

claim_seat(m, t, lag) ==
  LET ms == Swept(lag) IN
  \/ /\ m \in Machine => ~MayClaim(ms[m], t)
     /\ OnlyHousekeeping(lag)
  \/ /\ m \in Machine /\ MayClaim(ms[m], t)
     /\ machines' = [ms EXCEPT ![m] = TakeSeat(ms[m], lag)]
     /\ cooldown_until' = CooldownAfter(lag)
     /\ UNCHANGED <<next_ticket_id, scores, day>>

BothSeated(mc) == \A s \in Side : mc.seat[s] # NoPlayer

Best(old, new) == IF new >= old THEN new ELSE old

\* One entry of a daily table after a score was recorded.
Recorded(table, key, score) == [table EXCEPT ![key] = Best(@, score)]

\* Mutant: the score of the right player is written to the machine table only.
update_scores_machine_only(d, m, left, right, ls, rs) ==
  /\ daily_machine_scores' =
       Recorded(Recorded(daily_machine_scores, <<d, m, left>>, ls), <<d, m, right>>, rs)
  /\ daily_global_scores' = Recorded(daily_global_scores, <<d, left>>, ls)

\* Both update_scores calls of end_round.
update_scores(d, m, left, right, ls, rs) ==
  /\ daily_machine_scores' =
       Recorded(Recorded(daily_machine_scores, <<d, m, left>>, ls), <<d, m, right>>, rs)
  /\ daily_global_scores' =
       Recorded(Recorded(daily_global_scores, <<d, left>>, ls), <<d, right>>, rs)

\* The days a handler may read: a stale reading may be from before midnight.
DaysSeen(lag) == {day} \cup (IF lag > 0 /\ day > 0 THEN {day - 1} ELSE {})

\* Round ids and last_round are shown and never read, and are left out.
end_round(m, winner, ls, rs, lag) ==
  LET ms == Swept(lag) IN
  \/ /\ m \in Machine => ~BothSeated(ms[m])
     /\ OnlyHousekeeping(lag)
  \/ /\ m \in Machine /\ BothSeated(ms[m])
     /\ \E d \in DaysSeen(lag) :
          update_scores(d, m, ms[m].seat["left"], ms[m].seat["right"], ls, rs)
     /\ machines' = [ms EXCEPT ![m] = Backfill(ms[m], winner, lag)]
     /\ cooldown_until' = CooldownAfter(lag)
     /\ UNCHANGED <<next_ticket_id, day>>

-----------------------------------------------------------------------------
Earlier(deadline) == IF deadline > -MaxLag THEN deadline - 1 ELSE deadline

\* One tick of the wall clock.
Tick ==
  /\ machines' = [m \in Machine |->
                    IF machines[m].called = NoCall THEN machines[m]
                    ELSE [machines[m] EXCEPT !.called.expires = Earlier(@)]]
  /\ cooldown_until' = [p \in Player |-> Earlier(cooldown_until[p])]
  /\ UNCHANGED <<next_ticket_id, scores, day>>

Midnight ==
  /\ day < MaxDay
  /\ day' = day + 1
  /\ UNCHANGED <<machines, cooldown_until, next_ticket_id, scores>>

Lag == 0 .. MaxLag

Ticket == 1 .. MaxTicket

Next ==
  \/ Tick
  \/ Midnight
  \/ \E lag \in Lag : overview(lag)
  \/ \E lag \in Lag, m \in MachineId, n \in Name, s \in Side : join_queue(m, n, s, lag)
  \/ \E lag \in Lag, m \in MachineId, t \in Ticket : leave_queue(m, t, lag)
  \/ \E lag \in Lag, m \in MachineId, t \in Ticket : claim_seat(m, t, lag)
  \/ \E lag \in Lag, m \in MachineId, w \in Side, ls \in Score, rs \in Score :
       end_round(m, w, ls, rs, lag)

Spec == Init /\ [][Next]_vars

\* The wall clock runs, and an open page asks for the overview every 1.5 s
\* (static/arcade.html); nobody has to join, leave, claim or end a round.
FairSpec == Spec /\ WF_vars(Tick) /\ WF_vars(overview(0))
-----------------------------------------------------------------------------
(* What the arcade promises.                                               *)

TypeOK ==
  /\ machines \in [Machine -> MachineState]
  /\ cooldown_until \in [Player -> Int]
  /\ next_ticket_id \in Nat \ {0}
  /\ daily_machine_scores \in [Day \X Machine \X Player -> Nat \cup {NoScore}]
  /\ daily_global_scores \in [Day \X Player -> Nat \cup {NoScore}]
  /\ day \in Day

\* A pending call is for the head of its side's line and for a seat that is
\* still empty: no join, leave, no-show or round end, however interleaved,
\* leaves a call that names somebody who is gone or a seat that is taken.
CalledMachineOK(mc) ==
  mc.called # NoCall =>
    LET c == mc.called IN
    /\ mc.seat[c.side] = NoPlayer
    /\ mc.queue[c.side] # <<>>
    /\ mc.queue[c.side][1] = [ticket |-> c.ticket, player |-> c.player]

CallIsHeadOfLine == \A m \in Machine : CalledMachineOK(machines[m])

\* The status shown for a machine is the one its tables imply, whichever
\* handler wrote it last (claim_seat and end_round set it by hand).
StatusMatchesTables == \A m \in Machine : machines[m].status = derive_status(machines[m])

\* Both at once: what a machine shows to everybody, its status and its pending
\* call, is what its lines and seats say, whichever handlers wrote them in
\* whatever order.
DeskIsConsistent == CallIsHeadOfLine /\ StatusMatchesTables

LineInOrder(q) ==
  \A i, j \in DOMAIN q : i < j => q[i].ticket < q[j].ticket

LinesInOrder(ms, next) ==
  \A m \in Machine : \A s \in Side :
    /\ LineInOrder(ms[m].queue[s])
    /\ \A i \in DOMAIN ms[m].queue[s] : ms[m].queue[s][i].ticket < next

UniqueTickets(ms) ==
  \A m, n \in Machine : \A s, r \in Side :
    \A i \in DOMAIN ms[m].queue[s], j \in DOMAIN ms[n].queue[r] :
      ms[m].queue[s][i].ticket = ms[n].queue[r][j].ticket => m = n /\ s = r /\ i = j

\* Tickets stand in every line in the order they were handed out, and none
\* was handed out twice, not even to lines of different machines: a claim or a
\* leave that names a ticket means one entry.
TicketsInOrder == LinesInOrder(machines, next_ticket_id) /\ UniqueTickets(machines)

OneTicket(ms) ==
  \A m, n \in Machine : \A s, r \in Side :
    \A i \in DOMAIN ms[m].queue[s], j \in DOMAIN ms[n].queue[r] :
      ms[m].queue[s][i].player = ms[n].queue[r][j].player => m = n /\ s = r /\ i = j

OneSeat(ms) ==
  \A m, n \in Machine : \A s, r \in Side :
    ms[m].seat[s] = ms[n].seat[r] /\ ms[m].seat[s] # NoPlayer => m = n /\ s = r

SeatedDoNotQueue(ms) ==
  \A m, n \in Machine : \A s, r \in Side : \A i \in DOMAIN ms[m].queue[s] :
    ms[m].queue[s][i].player # ms[n].seat[r]

\* One player is in one place: at most one ticket across the arcade, at most
\* one seat, and never a ticket and a seat together.
OnePlacePerPlayer == OneTicket(machines) /\ OneSeat(machines) /\ SeatedDoNotQueue(machines)

Out(ms, p) == ~player_has_active_ticket(ms, p) /\ ~player_is_seated(ms, p)

\* A player whose cooldown runs holds no ticket and no seat anywhere: a stale
\* clock reading lets nobody in early.
CooldownKeepsPlayersOut ==
  \A p \in Player : cooldown_until[p] > 0 => Out(machines, p)

\* The daily global best of a player is the best of the machine tables of that
\* day: the two tables end_round writes one after the other never drift apart.
GlobalBestIsBestMachine ==
  \A d \in Day, p \in Player :
    /\ \A m \in Machine : daily_machine_scores[<<d, m, p>>] <= daily_global_scores[<<d, p>>]
    /\ \E m \in Machine : daily_machine_scores[<<d, m, p>>] = daily_global_scores[<<d, p>>]

\* Nobody overtakes: whoever takes a seat leaves the line with the ticket, and
\* every older ticket of that line has just been dropped as a no-show.
SeatsGoInTicketOrder ==
  [][\A m \in Machine : \A s \in Side :
       LET old == machines[m].seat[s]
           new == machines'[m].seat[s]
           q == machines[m].queue[s] IN
       new # old /\ new # NoPlayer =>
         \E i \in DOMAIN q :
           /\ q[i].player = new
           /\ ~HasTicket(machines'[m].queue[s], q[i].ticket)
           /\ \A j \in DOMAIN q : q[j].ticket < q[i].ticket =>
                /\ ~HasTicket(machines'[m].queue[s], q[j].ticket)
                /\ cooldown_until'[q[j].player] > 0]_vars

\* Winner stays: a seated player gives up the seat only when a round of two
\* seated players ends with the other side named as its winner (of all handlers
\* end_round alone empties a seat), and that winner keeps theirs.
WinnerStays ==
  [][\A m \in Machine : \A s \in Side :
       LET old == machines[m].seat[s]
           winner == opposite(s) IN
       old # NoPlayer /\ machines'[m].seat[s] # old =>
         /\ \E lag \in Lag, ls, rs \in Score : end_round(m, winner, ls, rs, lag)
         /\ machines[m].seat[winner] # NoPlayer
         /\ machines'[m].seat[winner] = machines[m].seat[winner]]_vars

\* A cooldown starts only for a player whose own call ran out: never for the
\* next in line, and never before the deadline by the wall clock.
CooldownOnlyForNoShows ==
  [][\A p \in Player : cooldown_until'[p] > cooldown_until[p] =>
       \E m \in Machine : /\ machines[m].called # NoCall
                          /\ machines[m].called.player = p
                          /\ machines[m].called.expires <= 0]_vars

\* A called ticket never just vanishes: its player takes the seat, leaves the
\* line, or is on cooldown for not answering.
CalledTicketIsAccountedFor ==
  [][\A m \in Machine :
       LET c == machines[m].called IN
       c # NoCall /\ ~HasTicket(machines'[m].queue[c.side], c.ticket) =>
         \/ machines'[m].seat[c.side] = c.player
         \/ cooldown_until'[c.player] > 0
         \/ \E lag \in Lag : leave_queue(m, c.ticket, lag)]_vars

\* Nobody holds up a seat by not answering: a call always ends, even if no
\* player ever acts again.
CallsEnd ==
  \A m \in Machine : \A t \in Ticket :
    (machines[m].called # NoCall /\ machines[m].called.ticket = t)
      ~> ~(machines[m].called # NoCall /\ machines[m].called.ticket = t)
======================================================================
