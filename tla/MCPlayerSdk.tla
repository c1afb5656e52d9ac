----------------------------- MODULE MCPlayerSdk -----------------------------
(* A player with a video and an input socket. *)
EXTENDS PlayerSdk

MCChannel == {"video", "input"}
=============================================================================
