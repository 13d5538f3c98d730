------------------------------- MODULE Claims -------------------------------
(***************************************************************************)
(* What the ledger promises, and nothing about how: every piece of floor   *)
(* has at most one claimant; a call made for a vehicle gives back floor of *)
(* its own, claims floor nobody has, or both, and it never touches what    *)
(* another vehicle has.                                                    *)
(***************************************************************************)
CONSTANTS
    Claimants,
    Floor,
    Nobody      \* not a claimant

VARIABLE claim      \* piece of floor -> its claimant, or Nobody

Init == claim = [e \in Floor |-> Nobody]

Trade(v) ==
    /\ claim' \in [Floor -> Claimants \cup {Nobody}]
    /\ \A e \in Floor : claim'[e] # claim[e] =>
            \/ claim[e] = v /\ claim'[e] = Nobody
            \/ claim[e] = Nobody /\ claim'[e] = v

Next == \E v \in Claimants : Trade(v)

Spec == Init /\ [][Next]_claim
=============================================================================
