------------------------------ MODULE MCFleet -------------------------------
EXTENDS Fleet

CONSTANTS f1, f2, t1, t2, a, b, c, d

TwoSerial == (f1 :> 1 @@ f2 :> 2)
Tasked(first, second) == [t \in Tasks |-> IF t = t1 THEN first ELSE second]
TwoSubmit == Tasked(1, 2)

\* The planner: a shortest simple path, the same one every time.
Shortest(links, from, to) ==
    LET paths == {p \in UNION {[1 .. n -> Nodes] : n \in 1 .. Cardinality(Nodes)} :
                    /\ IsInjective(p) /\ p[1] = from /\ p[Len(p)] = to
                    /\ \A i \in 1 .. Len(p) - 1 : {p[i], p[i + 1]} \in links}
    IN  CHOOSE p \in paths : \A q \in paths : Len(p) <= Len(q)
Lengths(route) == [from \in Nodes |-> [to \in Nodes |-> Len(route[from][to]) - 1]]
Planner(links) == [from \in Nodes |-> [to \in Nodes |-> Shortest(links, from, to)]]

\* A corridor a - b - c with a spur d off its middle.
TeeLinks == {{a, b}, {b, c}, {b, d}}
TeeHome  == (f1 :> a @@ f2 :> c)
TeeFrom  == Tasked(a, d)
TeeTo    == Tasked(d, a)
TeeRoute == Planner(TeeLinks)
TeeMetres == Lengths(TeeRoute)

\* A ring a - b - c - d.
RingLinks == {{a, b}, {b, c}, {c, d}, {d, a}}
RingHome  == (f1 :> a @@ f2 :> c)
RingFrom  == Tasked(b, d)
RingTo    == Tasked(d, b)
RingRoute == Planner(RingLinks)
RingMetres == Lengths(RingRoute)

\* A corridor a - b - c - d, driven head-on.
LineLinks == {{a, b}, {b, c}, {c, d}}
LineHome  == (f1 :> a @@ f2 :> d)
LineFrom  == Tasked(a, d)
LineTo    == Tasked(d, a)
LineRoute == Planner(LineLinks)
LineMetres == Lengths(LineRoute)
=============================================================================
