----------------------------- MODULE MCInputHub -----------------------------
(* A player with a button; ones with a stick and a trigger, pushed a little,  *)
(* far and to the end of the range; one who holds the coin's button.          *)
EXTENDS InputHub

CONSTANTS a, b, c, d

Pad(buttons, lx, l2) == [buttons |-> buttons, axes |-> [lx |-> lx, l2 |-> l2]]
MCNeutral == Pad({}, 0, 0)
MCPads == [s \in {a, b, c, d} |-> {MCNeutral} \cup
            CASE s = a -> {Pad({"L2"}, 1, 0)} [] s = b -> {Pad({}, -3, 4)}
              [] s = c -> {Pad({}, -4, 2)} [] s = d -> {Pad({"Select"}, 0, 0)}]
MCTrigger == [l2 |-> "L2"]
=============================================================================
