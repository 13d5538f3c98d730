-------------------------------- MODULE Bridge --------------------------------
(***************************************************************************)
(* The OPC UA half of the cell bridge, src/bridge/amr_bridge/opcua_side.py:*)
(* one cycle reads its own heartbeat back, reads the outputs, writes the   *)
(* input image and then, last, the next heartbeat.  Level signals are      *)
(* written on change only, so the bridge keeps a cache of what the server  *)
(* holds.  The server may restart under the living session between any two *)
(* exchanges, the session may break in any of them, the producers of the   *)
(* samples may fall silent and the bridge may be killed and started again. *)
(***************************************************************************)
EXTENDS Naturals, Sequences, FiniteSets

CONSTANTS
    Cyclic, OnChange,       \* the configured input keys, by cadence
    StaleAsserts,           \* keys whose silence is written as the value TRUE
    Order,                  \* the keys in the order the input path takes them
    StartValue,             \* what a restarted server holds for each input
    Unset,                  \* None of the source
    HEARTBEATS,             \* the heartbeat counts modulo this
    WINDOW,                 \* age, in ticks, past which a sample is silence
    Mishaps                  \* bound: restarts, breaks, kills of a behaviour

InputKeys == Cyclic \cup OnChange

ASSUME BridgeAssumption ==
    /\ Cyclic \cap OnChange = {} /\ IsFiniteSet(InputKeys)
    /\ StaleAsserts \subseteq OnChange
    /\ Order \in Seq(InputKeys) /\ InputKeys = {Order[i] : i \in DOMAIN Order}
    /\ StartValue \in [InputKeys -> BOOLEAN]
    /\ \A key \in StaleAsserts : StartValue[key]
    /\ Unset \notin BOOLEAN \cup Nat
    /\ HEARTBEATS \in Nat \ {0, 1} /\ WINDOW \in Nat /\ Mishaps \in Nat

VARIABLES
    server,     \* the nodes: the input image and the bridge's heartbeat
    slots,      \* the latest sample of each input, or Unset
    age,        \* of the sample of each key in StaleAsserts
    step,       \* where the run loop stands
    todo,       \* the keys the input path has still to take in this cycle
    session,    \* the write cache and the heartbeat of this session
    heartbeat,  \* _heartbeat: survives a session, not the process
    broken,     \* _keepalive_error is set
    mishaps,     \* how many of the Mishaps are left
    past        \* history, for the properties only

bridgeVars == <<server, slots, age, step, todo, session, heartbeat, broken, mishaps, past>>
Steps == {"down", "verify", "outputs", "inputs", "heartbeat", "sleep"}

\* What _invalidate_write_cache and a new process leave.
EmptyCache == [written |-> {}, last |-> [key \in OnChange |-> Unset], beat |-> Unset]

\* mine: the inputs the server holds from a write of this session since it
\* last started.  blind: a restart the read-back cannot see stands.  quiet: the
\* keys that were past their window when this cycle began, and still are.
BridgeInit ==
    /\ server = [image |-> StartValue, beat |-> 0]
    /\ slots = [key \in InputKeys |-> Unset]
    /\ age = [key \in StaleAsserts |-> 0]
    /\ step = "down" /\ todo = << >>
    /\ session = EmptyCache /\ heartbeat = 0 /\ broken = FALSE
    /\ mishaps = Mishaps
    /\ past = [mine |-> {}, blind |-> FALSE, early |-> FALSE, quiet |-> {}]

-----------------------------------------------------------------------------
(* The producers and the clock.                                             *)

\* Slot.put: the previous sample is discarded.
Sample(key, value) ==
    /\ slots' = [slots EXCEPT ![key] = value]
    /\ age' = [k \in StaleAsserts |-> IF k = key THEN 0 ELSE age[k]]
    /\ past' = [past EXCEPT !.quiet = @ \ {key}]
    /\ <<slots, age, past>>' # <<slots, age, past>>
    /\ UNCHANGED <<server, step, todo, session, heartbeat, broken, mishaps>>

SamplesAge ==
    /\ age' = [k \in StaleAsserts |-> IF age[k] <= WINDOW THEN age[k] + 1 ELSE age[k]]
    /\ age' # age
    /\ UNCHANGED <<server, slots, step, todo, session, heartbeat, broken, mishaps, past>>

Silent(key) == key \in StaleAsserts /\ age[key] > WINDOW

\* Mutant: the last sample is carried whatever its age.
ValueForWriteHolds(key) == slots[key]

\* _value_for_write: recomputed from the age of the sample every time.
ValueForWrite(key) == IF Silent(key) THEN TRUE ELSE slots[key]

-----------------------------------------------------------------------------
(* The cycle.                                                               *)

Invalidate(mine) ==
    /\ session' = EmptyCache
    /\ past' = [past EXCEPT !.mine = mine, !.blind = FALSE, !.early = FALSE]

\* A new session has written nothing yet.
Connect ==
    /\ step = "down"
    /\ Invalidate({})
    /\ broken' = FALSE
    /\ step' = "verify"
    /\ UNCHANGED <<server, slots, age, todo, heartbeat, mishaps>>

\* _disconnect: nothing is zeroed; the write cache is dropped on connecting.
Disconnect ==
    /\ step' = "down" /\ todo' = << >>
    /\ session' = [session EXCEPT !.beat = Unset]

\* _cycle's first line: a failed keep-alive breaks the session here.
KeepaliveSeen ==
    /\ step = "verify" /\ broken
    /\ Disconnect
    /\ UNCHANGED <<server, slots, age, heartbeat, broken, mishaps, past>>

\* _verify_own_heartbeat: nothing is read while no heartbeat was written.
Reverted == session.beat # Unset /\ server.beat # session.beat

VerifyOwnHeartbeat ==
    /\ step = "verify" /\ ~broken
    /\ step' = "outputs"
    /\ session' = IF Reverted THEN EmptyCache ELSE session
    /\ past' = [past EXCEPT
            !.blind = @ /\ ~Reverted, !.early = @ /\ ~Reverted,
            !.quiet = {key \in StaleAsserts : Silent(key)}]
    /\ UNCHANGED <<server, slots, age, todo, heartbeat, broken, mishaps>>

\* What is read is published as it is; the bridge keeps none of it.
OutputPath ==
    /\ step = "outputs"
    /\ step' = "inputs" /\ todo' = Order
    /\ UNCHANGED <<server, slots, age, session, heartbeat, broken, mishaps, past>>

\* Mutant: a sample past its window is as good as none.
ToWriteWhileFresh(key) ==
    /\ slots[key] # Unset /\ ~Silent(key)
    /\ key \in OnChange =>
            (session.last[key] # ValueForWrite(key) \/ key \notin session.written)

\* No sample, no write; a level signal only when it differs from the cache.
ToWrite(key) ==
    /\ slots[key] # Unset
    /\ key \in OnChange =>
            (session.last[key] # ValueForWrite(key) \/ key \notin session.written)

WriteLands(key) ==
    /\ server' = [server EXCEPT !.image[key] = ValueForWrite(key)]
    /\ past' = [past EXCEPT !.mine = @ \cup {key}]

TakeInput ==
    /\ step = "inputs" /\ todo # << >>
    /\ LET key == Head(todo) IN
        IF ToWrite(key)
        THEN /\ WriteLands(key)
             /\ session' = [session EXCEPT
                    !.written = @ \cup {key},
                    !.last = [k \in OnChange |-> IF k = key THEN ValueForWrite(k) ELSE @[k]]]
        ELSE UNCHANGED <<server, session, past>>
    /\ todo' = Tail(todo)
    /\ UNCHANGED <<slots, age, step, heartbeat, broken, mishaps>>

InputsDone ==
    /\ step = "inputs" /\ todo = << >>
    /\ step' = "heartbeat"
    /\ UNCHANGED <<server, slots, age, todo, session, heartbeat, broken, mishaps, past>>

\* Mutant: SlotSet.missing in its place: an input counts once it has a sample.
MissingSample == {key \in InputKeys : slots[key] = Unset}

\* R3: withheld until every configured input was written.
Missing == InputKeys \ session.written

NextBeat == (heartbeat + 1) % HEARTBEATS

WithholdHeartbeat ==
    /\ step = "heartbeat" /\ Missing # {}
    /\ step' = "sleep"
    /\ UNCHANGED <<server, slots, age, todo, session, heartbeat, broken, mishaps, past>>

WriteHeartbeat ==
    /\ step = "heartbeat" /\ Missing = {}
    /\ heartbeat' = NextBeat
    /\ server' = [server EXCEPT !.beat = NextBeat]
    /\ session' = [session EXCEPT !.beat = NextBeat]
    /\ step' = "sleep"
    /\ UNCHANGED <<slots, age, todo, broken, mishaps, past>>

Sleep ==
    /\ step = "sleep"
    /\ step' = "verify"
    /\ UNCHANGED <<server, slots, age, todo, session, heartbeat, broken, mishaps, past>>

Cycle == \/ Connect \/ KeepaliveSeen \/ VerifyOwnHeartbeat \/ OutputPath \/ TakeInput
         \/ InputsDone \/ WithholdHeartbeat \/ WriteHeartbeat \/ Sleep

-----------------------------------------------------------------------------
(* What goes wrong.                                                         *)

Mishap == mishaps > 0 /\ mishaps' = mishaps - 1

\* A warm restart: every node back to its start value, the session lives.  It
\* is out of the read-back's sight inside a cycle, whose own heartbeat will
\* cover it, and when the start value is the one that was last written (blind);
\* and between two cycles while this session has written no heartbeat (early).
RestartServer ==
    /\ Mishap
    /\ server' = [image |-> StartValue, beat |-> 0]
    /\ LET inside == step \in {"outputs", "inputs", "heartbeat"}
           wrote == session.written # {}
       IN past' = [past EXCEPT
            !.mine = {},
            !.blind = @ \/ (wrote /\ (inside \/ session.beat = 0)),
            !.early = @ \/ (wrote /\ ~inside /\ session.beat = Unset)]
    /\ UNCHANGED <<slots, age, step, todo, session, heartbeat, broken>>

KeepaliveFails ==
    /\ Mishap
    /\ step # "down" /\ ~broken
    /\ broken' = TRUE
    /\ UNCHANGED <<server, slots, age, step, todo, session, heartbeat, past>>

\* A read fails, or a write whose effect on the server is unknown.
SessionBreaks ==
    /\ Mishap
    /\ step \in {"verify", "outputs", "inputs", "heartbeat"}
    /\ Disconnect
    /\ \/ UNCHANGED <<server, heartbeat, past>>
       \/ /\ step = "inputs" /\ todo # << >> /\ ToWrite(Head(todo))
          /\ WriteLands(Head(todo))
          /\ UNCHANGED heartbeat
       \/ /\ step = "heartbeat" /\ Missing = {}
          /\ heartbeat' = NextBeat
          /\ server' \in {server, [server EXCEPT !.beat = NextBeat]}
          /\ UNCHANGED past
    /\ UNCHANGED <<slots, age, broken>>

\* kill -9, and the process started again.
Kill ==
    /\ Mishap
    /\ step' = "down" /\ todo' = << >>
    /\ slots' = [key \in InputKeys |-> Unset]
    /\ age' = [key \in StaleAsserts |-> 0]
    /\ heartbeat' = 0 /\ broken' = FALSE
    /\ Invalidate({})
    /\ UNCHANGED server

BridgeNext ==
    \/ Cycle
    \/ \E key \in InputKeys, value \in BOOLEAN : Sample(key, value)
    \/ SamplesAge
    \/ RestartServer \/ KeepaliveFails \/ SessionBreaks \/ Kill

\* The run loop goes on, and a lost server is back for one of its retries.
BridgeSpec == BridgeInit /\ [][BridgeNext]_bridgeVars /\ WF_bridgeVars(Cycle)

-----------------------------------------------------------------------------
(* Properties.                                                              *)

\* Every part of the bridge's state stays in its range, and the written set and
\* the cache of the level signals speak of the same keys.
BridgeTypeOK ==
    /\ server \in [image : [InputKeys -> BOOLEAN], beat : 0 .. HEARTBEATS - 1]
    /\ slots \in [InputKeys -> BOOLEAN \cup {Unset}]
    /\ age \in [StaleAsserts -> 0 .. WINDOW + 1]
    /\ step \in Steps /\ todo \in Seq(InputKeys)
    /\ session \in [written : SUBSET InputKeys, last : [OnChange -> BOOLEAN \cup {Unset}],
                    beat : 0 .. HEARTBEATS - 1 \cup {Unset}]
    /\ heartbeat \in 0 .. HEARTBEATS - 1 /\ broken \in BOOLEAN /\ mishaps \in 0 .. Mishaps
    /\ past \in [mine : SUBSET InputKeys, blind : BOOLEAN, early : BOOLEAN, quiet : SUBSET StaleAsserts]
    /\ session.written \cap OnChange = {key \in OnChange : session.last[key] # Unset}

\* A heartbeat that moves vouches for the image: when the bridge writes one, the
\* server holds every configured input as this session wrote it, for the values
\* the cache says, unless a restart stands that the read-back could not see.
HeartbeatVouches ==
    [][WriteHeartbeat /\ ~past.blind /\ ~past.early =>
            /\ past.mine = InputKeys
            /\ \A key \in OnChange : server.image[key] = session.last[key]]_bridgeVars

\* W1: a key that carries a silence rule and was past its window when the cycle
\* began reads TRUE when the cycle ends, whatever its last sample said and
\* whatever restarts and repairs came before.
SilenceAsserted ==
    step = "sleep" => \A key \in past.quiet : slots[key] # Unset => server.image[key]

\* Once every producer has spoken, the image of a restarted server, of a new
\* session or of a new process is rewritten in the end, again with the
\* exception of the restarts nothing shows.
ImageRecovers ==
    []<>(\/ past.mine = InputKeys \/ past.blind \/ past.early
         \/ \E key \in InputKeys : slots[key] = Unset)

\* What bridge-design.md says remains: two kinds of restart, the one inside the
\* cycle's read-then-write window and the one at the value last written.
OnlyTwoResiduals ==
    [][WriteHeartbeat /\ ~past.blind => past.mine = InputKeys]_bridgeVars
==============================================================================
