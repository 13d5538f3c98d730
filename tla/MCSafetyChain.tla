--------------------------- MODULE MCSafetyChain ----------------------------
EXTENDS SafetyChain

CONSTANTS back

\* The timers in the order the data flows, and against it.
Downstream == <<"scanner", "field_eval", "encoder_link", "m6", "plc_link",
                "cmd_gate", "nav", "hmi", "cmd_mux">>
Upstream   == [i \in 1 .. Len(Downstream) |-> Downstream[Len(Downstream) + 1 - i]]
BothOrders == {Downstream, Upstream}
\* Scanner and field_eval a tick after the mux and the gate.
EyesLate   == {[p \in Slow |-> IF p \in {"scanner", "field_eval"} THEN 1 ELSE 0]}
=============================================================================
