--------------------------- MODULE PlayerLifecycle ---------------------------
(***************************************************************************)
(* What the arcade promises a player, without queues, calls or clocks      *)
(* (docs/virtual-arcade-blueprint.md, "Core loop" and "Queue policy"): a   *)
(* player is in exactly one place, waits before sitting, sits down where   *)
(* they waited, and a seat holds one player.  One step may move several    *)
(* players, since a request first sweeps all machines for no-shows, but    *)
(* each moves along one edge of the life cycle.                            *)
(***************************************************************************)
CONSTANTS Machine, Side, Player

VARIABLE place    \* where every player is

Away == [at |-> "away"]
Cooling == [at |-> "cooling"]
Waiting(m, s) == [at |-> "waiting", machine |-> m, side |-> s]
Seated(m, s) == [at |-> "seated", machine |-> m, side |-> s]

Place == {Away, Cooling}
           \cup {Waiting(m, s) : m \in Machine, s \in Side}
           \cup {Seated(m, s) : m \in Machine, s \in Side}

SeatsAreExclusive(where) ==
  \A p, q \in Player : where[p] = where[q] /\ where[p].at = "seated" => p = q

Init == place = [p \in Player |-> Away]

\* The edges of the life cycle.
Joins(a, b) == a = Away /\ b.at = "waiting"
GivesUp(a, b) == a.at = "waiting" /\ b = Away
MissesCall(a, b) == a.at = "waiting" /\ b = Cooling
SitsDown(a, b) == a.at = "waiting" /\ b = Seated(a.machine, a.side)
LosesRound(a, b) == a.at = "seated" /\ b = Away
CoolsDown(a, b) == a = Cooling /\ b = Away

Edge(a, b) ==
  \/ Joins(a, b)
  \/ GivesUp(a, b)
  \/ MissesCall(a, b)
  \/ SitsDown(a, b)
  \/ LosesRound(a, b)
  \/ CoolsDown(a, b)

\* Between two arrangements of the players: everyone stays or takes an edge,
\* and at most one player joins, gives up, sits down or loses.
Moves(before, after) ==
  /\ after \in [Player -> Place]
  /\ SeatsAreExclusive(after)
  /\ \A p \in Player : after[p] = before[p] \/ Edge(before[p], after[p])
  /\ \A p, q \in Player :
       \/ p = q
       \/ /\ ~(Joins(before[p], after[p]) /\ Joins(before[q], after[q]))
          /\ ~(GivesUp(before[p], after[p]) /\ GivesUp(before[q], after[q]))
          /\ ~(SitsDown(before[p], after[p]) /\ SitsDown(before[q], after[q]))
          /\ ~(LosesRound(before[p], after[p]) /\ LosesRound(before[q], after[q]))

Next == Moves(place, place')

Spec == Init /\ [][Next]_place
=============================================================================
