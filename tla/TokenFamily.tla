---------------------------- MODULE TokenFamily -----------------------------
(***************************************************************************)
(* What the retry-safe protocol promises about a session family, without   *)
(* handlers, rows or locks: a family is a chain of refresh tokens, each    *)
(* with at most one successor; a successor is final for the grace of its   *)
(* rotation (the barrier: no R3 inside the grace of R2); and a family that *)
(* has been closed - by logout, by a password reset or by reuse - neither  *)
(* grows nor opens again.  A family may forfeit the barrier of its last    *)
(* rotation when the stored grant is destroyed early.                      *)
(***************************************************************************)
EXTENDS Integers, Sequences

CONSTANTS Family, Token, LegacyFamily, Grace

VARIABLES
  clock,     (* the database clock                              *)
  status,    (* of each family                                  *)
  chain,     (* its tokens, oldest first                        *)
  since,     (* when its last rotation took effect              *)
  forfeited  (* families without the barrier of their last rotation *)

vars == <<clock, status, chain, since, forfeited>>

Issued == UNION { { chain[f][i] : i \in DOMAIN chain[f] } : f \in Family }

Init ==
  /\ clock = 0
  /\ status = [ f \in Family |-> IF f \in LegacyFamily THEN "active" ELSE "unborn" ]
  /\ chain \in [ Family -> { <<>> } \cup { <<n>> : n \in Token } ]
  /\ \A f \in Family : chain[f] = <<>> <=> f \notin LegacyFamily
  /\ since = [ f \in Family |-> 0 ]
  /\ forfeited = {}

Begin(f) ==
  /\ status[f] = "unborn"
  /\ \E n \in Token \ Issued : chain' = [ chain EXCEPT ![f] = <<n>> ]
  /\ status' = [ status EXCEPT ![f] = "active" ]
  /\ UNCHANGED <<clock, since, forfeited>>

BarrierUp(f) ==
  Len(chain[f]) > 1 /\ clock < since[f] + Grace /\ f \notin forfeited

Extend(f) ==
  /\ status[f] = "active"
  /\ ~BarrierUp(f)
  /\ \E n \in Token \ Issued : chain' = [ chain EXCEPT ![f] = Append(@, n) ]
  /\ \E t \in since[f] .. clock : since' = [ since EXCEPT ![f] = t ]
  /\ forfeited' = forfeited \ {f}
  /\ UNCHANGED <<clock, status>>

(* Revocation and deletion; from either there is no way back. *)
Close(S, to) ==
  /\ \A f \in S : status[f] \in {"active", "revoked"} \/ to = "deleted"
  /\ status' = [ f \in Family |-> IF f \in S THEN to ELSE status[f] ]
  /\ UNCHANGED <<clock, chain, since, forfeited>>

Forfeit(S) ==
  /\ forfeited' = forfeited \cup S
  /\ UNCHANGED <<clock, status, chain, since>>

Tick ==
  /\ clock' = clock + 1
  /\ UNCHANGED <<status, chain, since, forfeited>>

Next ==
  \/ \E f \in Family : Begin(f) \/ Extend(f)
  \/ \E S \in SUBSET Family : Close(S, "revoked") \/ Forfeit(S)
  \/ Close(Family, "deleted")
  \/ Tick

Spec == Init /\ [][Next]_vars

=============================================================================
