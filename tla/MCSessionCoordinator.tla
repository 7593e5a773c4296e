------------------------ MODULE MCSessionCoordinator ------------------------
(* Instances of SessionCoordinator for TLC. *)
EXTENDS SessionCoordinator

CONSTANTS Logins, Rotations

MCFamily == 1 .. Logins

MCToken == MCFamily \X (0 .. Rotations)

=============================================================================
