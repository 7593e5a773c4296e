-------------------------- MODULE MCChatOrganizer --------------------------
(* Two devices of one user. *)
EXTENDS ChatOrganizer, TLC

CONSTANTS d1, d2, f, g, p, Changes, Disturbances

MCOverlay == {g, <<g, p>>}

MCBudget ==
  ("changes" :> Changes) @@ ("disturbances" :> Disturbances)

=============================================================================
