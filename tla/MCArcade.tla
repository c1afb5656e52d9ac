------------------------------ MODULE MCArcade ------------------------------
(* Instances of Arcade for TLC.                                            *)
EXTENDS Arcade, TLC

CONSTANTS m1, m2, mX, p1, p2, p3

\* Two spellings of one key, and a blank name.
MCName == {"ann", "Ann", "bob", "cy", "blank"}
MCKeyOf == [ann |-> p1, Ann |-> p1, bob |-> p2, cy |-> p3, blank |-> NoPlayer]

MCNameTwo == {"ann", "bob", "blank"}
MCKeyOfTwo == [ann |-> p1, bob |-> p2, blank |-> NoPlayer]

\* Machines are interchangeable, and so are players: the names that spell
\* them differ, so only machines are permuted.
MachineSymmetry == Permutations({m1, m2})
=============================================================================
