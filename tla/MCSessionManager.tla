------------------------- MODULE MCSessionManager -------------------------
(***************************************************************************)
(* Instances of SessionManager for TLC.                                    *)
(***************************************************************************)
EXTENDS SessionManager, TLC

CONSTANTS t1, t2

\* Two workers, of which t1 may be asked for a start; and both.
OneThread == {t1}
TwoThreads == {t1, t2}
=============================================================================
