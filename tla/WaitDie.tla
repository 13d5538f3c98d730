------------------------------ MODULE WaitDie -------------------------------
(***************************************************************************)
(* find_cycle and resolve_deadlock of src/m6/fleet/traffic.py, over every  *)
(* wait-for graph a small floor can hold: the vehicles stand on nodes of   *)
(* their own, some of them hold floor ahead, each waits for an element or  *)
(* for none, some carry a task and some do not.  _resolve of floor.py then *)
(* asks for one deadlock after another; this module is that loop alone,    *)
(* between vehicles that have all stopped at the end of their base.        *)
(***************************************************************************)
EXTENDS Ledger

CONSTANTS
    Ground,     \* vehicle -> the node it stands on
    Times       \* the submit times a task can have

ASSUME WaitDieConstants ==
    /\ Ground \in Injection(Vehicles, Nodes)
    /\ Times \subseteq Nat

VARIABLES
    stopped,    \* the ledger of vehicles that have all stopped
    ages,       \* vehicle -> submit time, for the vehicles that carry a task;
                \* empty before the first turn
    turns       \* deadlocks resolved so far in this pass

waitDieVars == <<stopped, ages, turns>>

\* The ledger in which each vehicle owns the node it stands on and at most one
\* node ahead of it, after holds that were refused at the nodes of waits.
StoppedLedger(ahead, waits) ==
    LET mine(v) == {Ground[v], ahead[v]} \ {None}
    IN  [EmptyLedger EXCEPT
            !.owner = [e \in Elements |->
                          IF \E v \in Vehicles : e \in mine(v)
                          THEN CHOOSE v \in Vehicles : e \in mine(v) ELSE None],
            !.held = [v \in Vehicles |-> IF ahead[v] = None THEN <<Ground[v]>>
                                         ELSE <<Ground[v], ahead[v]>>],
            !.waiting = waits,
            !.standing = Ground]

WaitDieInit ==
    /\ \E ahead \in [Vehicles -> Nodes \cup {None}] :
        /\ \A u, v \in Vehicles :
            /\ ahead[u] # Ground[v]
            /\ u # v /\ ahead[u] # None => ahead[u] # ahead[v]
        /\ \E waits \in {w \in [Vehicles -> Nodes \cup {None}] :
                \A v \in Vehicles : w[v] # None =>
                    \E u \in Vehicles \ {v} : w[v] \in {Ground[u], ahead[u]}} :
               stopped = StoppedLedger(ahead, waits)
    /\ ages = << >>
    /\ turns = 0

\* One turn of the loop; the ages are those the pass began with.
Resolve ==
    /\ FindCycle(stopped) # {}
    /\ IF turns = 0
       THEN ages' \in UNION {[carrying -> Times] : carrying \in SUBSET Vehicles}
       ELSE UNCHANGED ages
    /\ stopped' = ResolveDeadlock(stopped, ages')
    /\ turns' = turns + 1

WaitDieSpec == WaitDieInit /\ [][Resolve]_waitDieVars

-----------------------------------------------------------------------------
\* find_cycle finds a deadlock exactly when there is one, that is when some
\* vehicles all wait for one another; and what it returns is one cycle, no
\* smaller set of which is deadlocked by itself.
CycleFoundIffDeadlocked ==
    LET graph      == WaitFor(stopped)
        stuck(S)   == \A v \in S : v \in DOMAIN graph /\ graph[v] \in S
        deadlocked == \E S \in (SUBSET Vehicles) \ {{}} : stuck(S)
        cycle      == FindCycle(stopped)
    IN  /\ deadlocked <=> cycle # {}
        /\ stuck(cycle)
        /\ \A S \in (SUBSET cycle) \ {{}, cycle} : ~stuck(S)

\* What a yield spares: the task submitted before every other one is never the
\* one to wait for its floor, whatever cycles there are, so it cannot starve; and
\* whoever does yield keeps the node it stands on.
YieldsSpare ==
    \A v \in stopped.yielded :
        /\ v \in DOMAIN ages => \E u \in DOMAIN ages \ {v} : ages[u] <= ages[v]
        /\ stopped.owner[stopped.standing[v]] = v

\* A deadlock that was resolved stays resolved, whatever other cycles there are:
\* nobody who has yielded is in one again.  So the loop of _resolve, which asks once
\* per vehicle and once more, asks often enough; it takes half as many turns at most.
TurnsSuffice ==
    /\ FindCycle(stopped) \cap stopped.yielded = {}
    /\ 2 * turns <= Cardinality(Vehicles)
=============================================================================
