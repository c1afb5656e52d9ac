--------------------------- MODULE ArcadeLifecycle ---------------------------
(* The front desk implements the life cycle of its players.                *)
EXTENDS Arcade

SeatsOf(p) == {ms \in Machine \X Side : machines[ms[1]].seat[ms[2]] = p}

LinesOf(p) == {ms \in Machine \X Side :
                 \E i \in DOMAIN machines[ms[1]].queue[ms[2]] :
                   machines[ms[1]].queue[ms[2]][i].player = p}

\* Where the tables say a player is.
PlaceOf(p) ==
  IF SeatsOf(p) # {} THEN
    LET ms == CHOOSE x \in SeatsOf(p) : TRUE IN
    [at |-> "seated", machine |-> ms[1], side |-> ms[2]]
  ELSE IF LinesOf(p) # {} THEN
    LET ms == CHOOSE x \in LinesOf(p) : TRUE IN
    [at |-> "waiting", machine |-> ms[1], side |-> ms[2]]
  ELSE IF cooldown_until[p] > 0 THEN [at |-> "cooling"]
  ELSE [at |-> "away"]

Lifecycle == INSTANCE PlayerLifecycle WITH place <- [p \in Player |-> PlaceOf(p)]

\* The four tables of the service (seats, lines, calls, cooldowns) together
\* move every player along the life cycle and no other way.
ImplementsLifecycle == Lifecycle!Spec
=============================================================================
