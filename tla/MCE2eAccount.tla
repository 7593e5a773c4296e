---------------------------- MODULE MCE2eAccount ----------------------------
(* The end-to-end keys alone, for the question a run of their own answers. *)
EXTENDS E2eAccount, TLC

CONSTANTS w1, w2, ka, p, d1, u1, i1, ha, hb

PutOf(rev, hash) ==
  [ kind |-> "putBackup", rev |-> rev, hash |-> hash, epoch |-> ka, pub |-> p ]

(* Two writers, of whom one has not seen the other's revision. *)
MCE2eMix ==
  { [ from |-> "Active", backup |-> [ rev |-> 1, hash |-> ha ],
      identity |-> [ e \in Epoch |-> p ], device |-> [ d \in Device |-> NoDevice ],
      sends |-> { PutOf(2, ha), PutOf(2, hb) }, limit |-> 3 ] }

=============================================================================
