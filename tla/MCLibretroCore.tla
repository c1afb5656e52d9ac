--------------------------- MODULE MCLibretroCore ---------------------------
(* Two parts of a series ("Quest. 2.nes", "Quest. 3.n64"), the second on a
   core that renders in hardware and does not need the full path. *)
EXTENDS LibretroCore

MCGame == {"two", "three"}
MCFileName == [g \in MCGame |-> IF g = "two" THEN <<"Quest", " 2", "nes">> ELSE <<"Quest", " 3", "n64">>]
MCOptionsApi == [g \in MCGame |-> IF g = "two" THEN "legacy" ELSE "definitions"]
MCDeclares == [g \in MCGame |-> IF g = "two" THEN [palette |-> "default"] ELSE [rdp |-> "gliden64"]]
MCOverrides == [rdp |-> "angrylion"]
=============================================================================
