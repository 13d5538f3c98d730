------------------------------ MODULE MCLedger ------------------------------
(* The ledger in use, by two trucks on a corridor a - b whose junction b has *)
(* a spur d; or its deadlocks alone, four vehicles on five nodes: two        *)
(* disjoint cycles fit, and so does a tail of waiting vehicles that leads    *)
(* into a cycle it is not part of.  A behaviour is of one kind only.         *)
EXTENDS Reservations, WaitDie, TLC

CONSTANTS f1, f2, f3, f4, a, b, c, d, e

SpurLinks     == {{a, b}, {b, d}}
FourSerial    == (f1 :> 1 @@ f2 :> 2 @@ f3 :> 3 @@ f4 :> 4)
FourGround    == (f1 :> a @@ f2 :> b @@ f3 :> c @@ f4 :> d)
SpurSubmitted == (f1 :> 2 @@ f2 :> 1)

VARIABLE kind

Nowhere == [v \in Vehicles |-> None]

Calls ==
    /\ kind = "calls" /\ Init
    /\ stopped = StoppedLedger(Nowhere, Nowhere) /\ ages = << >> /\ turns = 0
Deadlocks == kind = "deadlocks" /\ Init /\ WaitDieInit

\* Two trucks on the spur: nobody else and nothing else is in the ledger.
OnTheSpur ==
    /\ \A v \in {f3, f4} : ledger.standing[v] = None /\ ledger.waiting[v] = None
    /\ \A x \in Elements : ledger.owner[x] \in {f1, f2, None}
    /\ \A x \in {c, e} : ledger.owner[x] = None /\ \A v \in {f1, f2} : ledger.standing[v] # x

LedgerNext ==
    \/ kind = "calls" /\ Next /\ OnTheSpur' /\ UNCHANGED <<kind, waitDieVars>>
    \/ kind = "deadlocks" /\ Resolve /\ UNCHANGED <<kind, ledger, granted>>

LedgerSpec == (Calls \/ Deadlocks) /\ [][LedgerNext]_<<vars, waitDieVars, kind>>
=============================================================================
