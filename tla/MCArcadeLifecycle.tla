-------------------------- MODULE MCArcadeLifecycle --------------------------
(* Instances of ArcadeLifecycle for TLC.                                   *)
EXTENDS ArcadeLifecycle, TLC

CONSTANTS m1, m2, p1, p2

MCName == {"ann", "bob"}
MCKeyOf == [ann |-> p1, bob |-> p2]
=============================================================================
