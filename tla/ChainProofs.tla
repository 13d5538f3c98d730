---------------------------- MODULE ChainProofs -----------------------------
(***************************************************************************)
(* Theorems about the safety chain (SafetyChain), for any number of        *)
(* scanners, any order and phase of the nodes' timers, any moves of bodies *)
(* and of the operator, and one process that dies when it likes and comes  *)
(* back when it likes (Faults <= 1).                                       *)
(*                                                                         *)
(* What is proved is a bound in ticks, so the invariant counts them:       *)
(* ChainInv says, node by node along the chain, for how many ticks at most *)
(* a body can have been in a field, and a node quiet, while that node      *)
(* still lets the truck drive.  A tick is a fold of Turn over the timers,  *)
(* so ChainInv is stated for the middle of a tick and each turn hands it   *)
(* to the next one.                                                        *)
(***************************************************************************)
EXTENDS SafetyChain, NaturalsInduction, WellFoundedInduction, SequenceTheorems, TLAPS

\* The processes a datagram to the writer needs.
Sensors == {"encoder", "encoder_link", "sensor_link", "field_eval"}

\* What the nodes keep.
Spotted  == Nat \cup {None}
Speeds   == {0, Creep, Full}
Seen     == [pf : BOOLEAN, wf : BOOLEAN, pfc : 0 .. N_SCAN - 1, wfc : 0 .. N_SCAN - 1,
             seen : 0 .. SCAN_STALE]
Eyes     == [raw : [Devices -> Spotted], case : 1 .. 3, heard : 0 .. STATUS_STALE,
             device : [Devices -> Seen]]
Encoders == [shaft : Speeds \cup {None}, heard : 0 .. ENC_STALE]
Senders  == [pair : Speeds \cup {None}, heard : 0 .. ENCODERS_STALE,
             out : Datagrams \cup {None}]
Writers  == [pf : [Devices -> BOOLEAN], wf : [Devices -> BOOLEAN], speed : Speeds \cup {Trip},
             heard : 0 .. SENSOR_STALE, estop : BOOLEAN, ack : 0 .. ACK_PULSE,
             latched : SUBSET Inputs, prevAck : BOOLEAN, out : Answers \cup {None}]
Links    == [msg : Answers, heard : 0 .. LINK_STALE]
Windows  == [auto : BOOLEAN]
Muxes    == [auto : BOOLEAN, heard : 0 .. STATUS_STALE]
Gates    == [motor : BOOLEAN, limit : {Creep, Full}, heard : 0 .. STATUS_STALE,
             cmd : {0, Full}, cmdHeard : 0 .. CMD_STALE]
Contacts == [off : BOOLEAN, terminal : Speeds]

Cells == [field_eval : Eyes, encoder_link : Encoders, sensor_link : Senders, m6 : Writers,
          plc_link : Links, hmi : Windows, cmd_mux : Muxes, cmd_gate : Gates,
          contactor : Contacts]

ChainTypeOK ==
    /\ cell \in Cells /\ order \in Orders /\ phase \in Phases /\ odd \in 0 .. 1
    /\ body \in [Devices -> Spots] /\ down \in SUBSET Parts
    /\ moves \in Nat /\ faults \in Nat
    /\ inside \in [Devices -> 0 .. Reaction] /\ silent \in 0 .. Reaction /\ owed \in BOOLEAN

-----------------------------------------------------------------------------
(* The argument counts ticks.  y is for how many ticks, this one included, a  *)
(* device d has had a body in its field, and v for how many a node has been   *)
(* quiet.  C holds the process that ever died, X the one that is dead now.    *)
(* Each part below bounds y and v by what a node keeps as long as it lets the *)
(* truck drive.  It is stated in the middle of a tick: D are the timers that  *)
(* have gone off, and between two ticks there are none.                       *)

OnTick(p)    == p \in Slow => phase[p] = odd
Before(p, q) == \E i, j \in DOMAIN order : i < j /\ order[i] = p /\ order[j] = q

\* How many ticks, this one included, until a node has a turn.
Wait(p, D) == IF ~OnTick(p) THEN 1 ELSE IF p \in D THEN 0 ELSE 2
Rest(p, D) == IF p \in D THEN 0 ELSE 1

\* A scan is on its way to the next evaluation.
Scanned(D) ==
    LET shot == "scanner" \in D /\ OnTick("scanner")
    IN  IF "field_eval" \in D /\ OnTick("field_eval")
        THEN shot /\ Before("field_eval", "scanner")
        ELSE \/ shot
             \/ IF phase["scanner"] = phase["field_eval"] THEN Before("field_eval", "scanner")
                ELSE OnTick("field_eval")

\* The writer has had a cycle since plc_link's last turn.
Cycled(D) ==
    \/ Before("m6", "plc_link") /\ ("m6" \notin D \/ "plc_link" \in D)
    \/ "plc_link" \in D /\ "m6" \notin D

\* field_eval: a verdict falls after three scans, or when they stay away.
Eye(e, w, scanned, X, C, d, y, v) ==
    LET dev == e.device[d]
        raw == e.raw[d]
    IN  "field_eval" \notin X =>
        /\ dev.pf => dev.seen - w \in {0, 2, 4, 6, 8}
        /\ dev.pf => y <= 2 * dev.pfc + w + (IF "scanner" \in C THEN 10 ELSE 2)
        /\ raw # None /\ raw > FIELDS[1].pf => y <= w
        /\ dev.pf /\ raw = None /\ (scanned \/ "scanner" \in X) =>
              "scanner" \in C /\ y <= 2 * dev.pfc + dev.seen + 2
        /\ "scanner" \in X =>
              /\ dev.pf /\ raw = None => v <= dev.seen + 2
              /\ raw # None => v <= w
              /\ dev.pf /\ raw # None => y <= 2 * dev.pfc + w + 2

SendBound(C) == IF "scanner" \in C THEN 14 ELSE 6

\* sensor_link, between field_eval, that has seen the device's field clear, and the
\* writer, that holds it to be.
Link(l, e, held, seen, re, rm, X, C, d, y, v) ==
    LET says == l.out # None /\ l.out.pf[d]
    IN  /\ C \cap {"encoder", "encoder_link", "sensor_link"} = {} =>
              \/ l.pair # None /\ l.heard <= re
              \/ l.pair = None /\ re = 1 /\ l.out = None /\ ~held
        /\ C \cap Sensors = {} =>
              /\ held /\ ~seen /\ "m6" \notin X => l.out # None /\ ~says
              /\ says => seen
        /\ "m6" \notin X /\ says =>
              /\ y <= SendBound(C) + rm
              /\ "scanner" \in C => v <= 10 + rm
              /\ C \cap Sensors # {} => v <= 6 + rm
        /\ "encoder" \in X => /\ v <= e.heard \/ e.heard = ENC_STALE
                              /\ l.pair # None => v <= 5 + re
        /\ "encoder_link" \in X => v <= l.heard \/ l.heard = ENCODERS_STALE
        /\ X \cap {"field_eval", "sensor_link"} # {} /\ "m6" \notin X /\ l.out # None => v <= rm

\* The writer: a verdict holds its latch, and an enable needs no latch.
Writer(m, rm, X, C, d, y, v) ==
    /\ ~m.pf[d] => d \in m.latched
    /\ m.out # None /\ m.out.motor => m.pf[d]
    /\ "m6" \notin X /\ m.pf[d] =>
          /\ rm = 0 => m.heard < SENSOR_STALE
          /\ y <= SendBound(C) + 1 + m.heard
          /\ C \cap Sensors = {} => y <= SendBound(C) + 2 + rm
          /\ "scanner" \in C => v <= 12 + rm
          /\ C \cap Sensors # {} => v <= 7 + m.heard

EnableBound(C) == IF C \cap Sensors # {} THEN 15 ELSE SendBound(C) + 3

\* plc_link: an enable it holds is as old as the writer's last answer.
Plc(b, out, cycled, rp, X, C, y, v) ==
    /\ "m6" \notin C /\ "plc_link" \notin X /\ b.msg.motor =>
          /\ out # None \/ cycled
          /\ y <= EnableBound(C) + rp
          /\ C \cap (Sensors \cup {"scanner"}) # {} => v <= 15 + rp
    /\ "m6" \in C =>
          /\ out # None /\ out.motor => y <= 8 + rp /\ v <= rp
          /\ b.msg.motor => /\ rp = 0 => b.heard < LINK_STALE
                            /\ y <= 9 + b.heard /\ v <= 1 + b.heard

\* The gate and the contactor have plc_link's enable, or are out of touch with it.
Gate(g, k, motor, wg, X, C, y, v) ==
    /\ k.off => k.terminal = 0
    /\ "plc_link" \notin C =>
          /\ "cmd_gate" \notin X /\ g.motor => motor
          /\ k.terminal # 0 => motor
    /\ "plc_link" \in C =>
          /\ (k.terminal # 0 \/ g.motor) /\ g.heard < STATUS_STALE =>
                y <= 9 + g.heard /\ v <= g.heard
          /\ k.terminal # 0 /\ g.heard = STATUS_STALE => y <= 13 + wg /\ v <= 4 + wg

\* What is commanded comes from a source that speaks.
Command(g, x, k, wm, wg, X, v) ==
    /\ "nav" \in X =>
          /\ v <= x.heard \/ x.heard = STATUS_STALE
          /\ (k.terminal # 0 \/ g.cmd # 0) /\ x.heard = STATUS_STALE => v <= 4 + wm
    /\ X \cap {"hmi", "cmd_mux"} # {} =>
          /\ v <= g.cmdHeard \/ g.cmdHeard = CMD_STALE
          /\ k.terminal # 0 /\ g.cmdHeard = CMD_STALE => v <= 4 + wg

Counted(c, D, X, C, d, y, v) ==
    /\ Eye(c.field_eval, Wait("field_eval", D), Scanned(D), X, C, d, y, v)
    /\ Link(c.sensor_link, c.encoder_link, c.m6.pf[d], c.field_eval.device[d].pf,
            Rest("encoder_link", D), Rest("m6", D), X, C, d, y, v)
    /\ Writer(c.m6, Rest("m6", D), X, C, d, y, v)
    /\ Plc(c.plc_link, c.m6.out, Cycled(D), Rest("plc_link", D), X, C, y, v)
    /\ Gate(c.cmd_gate, c.contactor, c.plc_link.msg.motor, Wait("cmd_gate", D), X, C, y, v)
    /\ Command(c.cmd_gate, c.cmd_mux, c.contactor, Wait("cmd_mux", D),
               Wait("cmd_gate", D), X, v)

\* Between two ticks every age is one at least.
Rested(c) ==
    /\ c.encoder_link.heard >= 1 /\ c.sensor_link.heard >= 1 /\ c.plc_link.heard >= 1
    /\ c.cmd_mux.heard >= 1 /\ c.cmd_gate.heard >= 1 /\ c.cmd_gate.cmdHeard >= 1

\* At most one process has ever died.
Culprits(C) ==
    /\ C \in SUBSET Parts /\ down \subseteq C
    /\ \A p, q \in C : p = q
    /\ faults = 0 => C = {}

Silence == IF down = {} THEN 0 ELSE silent

ChainInv ==
    /\ Rested(cell)
    /\ faults = 0 => silent = 0
    /\ \E C \in SUBSET Parts :
          /\ Culprits(C)
          /\ \A d \in Devices : Counted(cell, {}, down, C, d, inside[d] + 1, Silence + 1)

\* Nothing enables the truck, and it stands.
Stopped(c) ==
    /\ c.m6.out # None => ~c.m6.out.motor
    /\ Up("plc_link") => ~c.plc_link.msg.motor
    /\ Up("cmd_gate") => ~c.cmd_gate.motor \/ c.cmd_gate.heard = STATUS_STALE
    /\ c.contactor.terminal = 0

Locked(c) == Stopped(c) /\ (Up("m6") => c.m6.latched # {})

OwedInv == owed => Locked(cell)

-----------------------------------------------------------------------------
(* Each part of the argument, under what its node does. *)

\* The ages at which a node stops believing what it heard, in ticks.
LEMMA Ages ==
    /\ SCAN_STALE = 10 /\ STATUS_STALE = 5 /\ ENCODERS_STALE = 5 /\ ENC_STALE = 6
    /\ SENSOR_STALE = 8 /\ LINK_STALE = 6 /\ CMD_STALE = 5 /\ ACK_PULSE = 6
BY DEF SCAN_STALE, STATUS_STALE, ENCODERS_STALE, ENC_STALE, SENSOR_STALE, LINK_STALE,
       CMD_STALE, ACK_PULSE, Ticks

\* None is no message.
LEMMA NotHeard == None \notin Nat /\ None \notin Datagrams /\ None \notin Answers
BY ChainConstants

\* A verdict that stands after a scan: the scan was clear of the field, or it counts.
LEMMA FieldStands ==
    ASSUME NEW s \in Nat, NEW clear \in BOOLEAN, NEW n \in 0 .. N_SCAN - 1, NEW th \in Nat
    PROVE  /\ FieldStep(s, clear, n, th) \in [clear : BOOLEAN, cnt : 0 .. N_SCAN - 1]
           /\ FieldStep(s, clear, n, th).clear =>
                 \/ s > th
                 \/ clear /\ FieldStep(s, clear, n, th).cnt = n + 1
<1> DEFINE raw == s > (IF clear THEN th ELSE th + HYSTERESIS)
           m   == IF raw # clear THEN n + 1 ELSE 0
<1>1. raw \in BOOLEAN /\ (raw => s > th)
  BY DEF HYSTERESIS
<1>2. FieldStep(s, clear, n, th)
        = IF m >= N_SCAN THEN [clear |-> raw, cnt |-> 0] ELSE [clear |-> clear, cnt |-> m]
  BY DEF FieldStep
<1> HIDE DEF raw
<1>3. m \in 0 .. 3 /\ (m # 0 => m = n + 1) /\ (m = 0 => (raw <=> clear))
  BY <1>1 DEF N_SCAN
<1> HIDE DEF m
<1>4. CASE m >= 3
  <2>1. FieldStep(s, clear, n, th) = [clear |-> raw, cnt |-> 0]
    BY <1>2, <1>4 DEF N_SCAN
  <2>2. QED
    BY <1>1, <2>1 DEF N_SCAN
<1>5. CASE ~(m >= 3)
  <2>1. FieldStep(s, clear, n, th) = [clear |-> clear, cnt |-> m]
    BY <1>2, <1>5 DEF N_SCAN
  <2>2. QED
    BY <1>1, <1>3, <1>5, <2>1 DEF N_SCAN
<1>6. QED
  BY <1>4, <1>5

\* No monitoring case has a smaller protective field than 1.
LEMMA SmallestField == \A case \in 1 .. 3 : FIELDS[case] \in [pf : Nat, wf : Nat] /\ FIELDS[case].pf >= 10
                                            /\ FIELDS[1].pf = 10
BY DEF FIELDS

\* What an evaluation makes of one device.
Judged(dev, raw, fields) ==
    IF raw # None THEN Update(dev, raw, fields)
    ELSE IF dev.seen >= SCAN_STALE THEN GoViolated(dev) ELSE dev

\* field_step and what is made of it keep their types.
LEMMA JudgedTypes ==
    ASSUME NEW dev \in Seen, NEW raw \in Spotted, NEW fields \in [pf : Nat, wf : Nat]
    PROVE  Judged(dev, raw, fields) \in Seen
<1>1. CASE raw # None
  <2>1. raw \in Nat
    BY <1>1 DEF Spotted
  <2>2. /\ FieldStep(raw, dev.pf, dev.pfc, fields.pf) \in [clear : BOOLEAN, cnt : 0 .. N_SCAN - 1]
        /\ FieldStep(raw, dev.wf, dev.wfc, fields.wf) \in [clear : BOOLEAN, cnt : 0 .. N_SCAN - 1]
    BY <2>1, FieldStands DEF Seen
  <2>3. QED
    BY <1>1, <2>2, Ages DEF Judged, Update, Seen
<1>2. CASE raw = None
  <2>1. GoViolated(dev) \in Seen
    <3> DEFINE a == [dev EXCEPT !.pf = FALSE]
               b == [a EXCEPT !.wf = FALSE]
               c == [b EXCEPT !.pfc = 0]
    <3>1. a \in Seen
      BY DEF Seen
    <3>2. GoViolated(dev) = [c EXCEPT !.wfc = 0]
      BY DEF GoViolated
    <3> HIDE DEF a
    <3>3. b \in Seen
      BY <3>1 DEF Seen
    <3> HIDE DEF b
    <3>4. c \in Seen
      BY <3>3 DEF Seen, N_SCAN
    <3> HIDE DEF c
    <3>5. QED
      BY <3>2, <3>4 DEF Seen, N_SCAN
  <2>2. Judged(dev, raw, fields) = IF dev.seen >= SCAN_STALE THEN GoViolated(dev) ELSE dev
    BY <1>2 DEF Judged
  <2>3. QED
    BY <2>1, <2>2
<1>3. QED
  BY <1>1, <1>2

\* So does an evaluation.
LEMMA EvaluatedTypes ==
    ASSUME NEW e \in Eyes
    PROVE  /\ Evaluated(e) \in Eyes
           /\ \E fields \in [pf : Nat, wf : Nat] :
                 /\ fields.pf >= 10
                 /\ \A d \in Devices :
                       /\ Evaluated(e).device[d] = Judged(e.device[d], e.raw[d], fields)
                       /\ Evaluated(e).raw[d] = None
<1> DEFINE n == IF e.heard >= STATUS_STALE THEN 3 ELSE e.case
           fields == FIELDS[n]
           dev == [d \in Devices |-> Judged(e.device[d], e.raw[d], fields)]
<1>1. n \in 1 .. 3
  BY DEF Eyes
<1>2. fields \in [pf : Nat, wf : Nat] /\ fields.pf >= 10
  BY <1>1, SmallestField
<1>3. \A d \in Devices : e.device[d] \in Seen /\ e.raw[d] \in Spotted
  BY DEF Eyes
<1>4. dev \in [Devices -> Seen]
  <2> HIDE DEF fields
  <2>1. \A d \in Devices : Judged(e.device[d], e.raw[d], fields) \in Seen
    BY <1>2, <1>3, JudgedTypes
  <2>2. QED
    BY <2>1
<1>5. Evaluated(e) = [e EXCEPT !.device = dev, !.raw = [d \in Devices |-> None]]
  BY DEF Evaluated, Judged
<1> HIDE DEF dev, n
<1>6. [d \in Devices |-> None] \in [Devices -> Spotted]
  BY DEF Spotted
<1>7. Evaluated(e) \in Eyes /\ Evaluated(e).device = dev /\ Evaluated(e).raw = [d \in Devices |-> None]
  BY <1>4, <1>5, <1>6 DEF Eyes
<1>8. QED
  BY <1>2, <1>7 DEF dev

\* A scan counts against a body, or shows that there is none.
LEMMA EyeScanned ==
    ASSUME NEW X, NEW C, NEW d \in Devices, NEW y \in Nat, NEW v \in Nat,
           NEW e \in Eyes, NEW r \in [Devices -> Nat], NEW w \in 0 .. 2, NEW s, NEW t,
           "scanner" \notin X, r[d] > 10 => y = 0, Eye(e, w, s, X, C, d, y, v)
    PROVE  Eye([e EXCEPT !.raw = r], w, t, X, C, d, y, v)
<1> DEFINE n == [e EXCEPT !.raw = r]
<1>1. n.raw[d] = r[d] /\ n.device = e.device /\ r[d] \in Nat
  BY DEF Eyes
<1>2. r[d] # None
  BY <1>1, NotHeard
<1> HIDE DEF n
<1>3. QED
  BY <1>1, <1>2, SmallestField DEF Eye

\* An evaluation ends the wait for one, and with none before it there was a scan.
LEMMA EyeEvaluated ==
    ASSUME NEW X, NEW C, X \subseteq C, NEW d \in Devices, NEW y \in Nat, NEW v \in Nat,
           NEW e \in Eyes, Eye(e, 2, TRUE, X, C, d, y, v)
    PROVE  Eye(Evaluated(e), 0, FALSE, X, C, d, y, v)
<1> SUFFICES ASSUME "field_eval" \notin X PROVE Eye(Evaluated(e), 0, FALSE, X, C, d, y, v)
  BY DEF Eye
<1>1. PICK f \in [pf : Nat, wf : Nat] :
          /\ f.pf >= 10
          /\ \A b \in Devices : /\ Evaluated(e).device[b] = Judged(e.device[b], e.raw[b], f)
                                /\ Evaluated(e).raw[b] = None
  BY EvaluatedTypes
<1> DEFINE dev == e.device[d]
           raw == e.raw[d]
           new == Judged(dev, raw, f)
<1>2. dev \in Seen /\ raw \in Spotted
  BY DEF Eyes
<1>3. Evaluated(e).device[d] = new /\ Evaluated(e).raw[d] = None
  BY <1>1
<1>4. /\ dev.pf => dev.seen - 2 \in {0, 2, 4, 6, 8}
      /\ dev.pf => y <= 2 * dev.pfc + 2 + (IF "scanner" \in C THEN 10 ELSE 2)
      /\ raw # None /\ raw > 10 => y <= 2
      /\ dev.pf /\ raw = None => "scanner" \in C /\ y <= 2 * dev.pfc + dev.seen + 2
      /\ "scanner" \in X =>
              /\ dev.pf /\ raw = None => v <= dev.seen + 2
              /\ raw # None => v <= 2
              /\ dev.pf /\ raw # None => y <= 2 * dev.pfc + 2 + 2
  BY SmallestField DEF Eye
<1> HIDE DEF dev, raw
<1>5. /\ dev.pf \in BOOLEAN /\ dev.pfc \in 0 .. 2 /\ dev.seen \in 0 .. 10
  BY <1>2, Ages DEF Seen, N_SCAN
<1>6. CASE raw # None
  <2> DEFINE step == FieldStep(raw, dev.pf, dev.pfc, f.pf)
  <2>1. raw \in Nat /\ f.pf \in Nat
    BY <1>2, <1>6 DEF Spotted
  <2>2. /\ step \in [clear : BOOLEAN, cnt : 0 .. 2]
        /\ step.clear => raw > f.pf \/ (dev.pf /\ step.cnt = dev.pfc + 1)
    <3>1. dev.pf \in BOOLEAN /\ dev.pfc \in 0 .. N_SCAN - 1
      BY <1>5 DEF N_SCAN
    <3>2. step \in [clear : BOOLEAN, cnt : 0 .. N_SCAN - 1]
      BY <2>1, <3>1, FieldStands
    <3>3. step.clear => raw > f.pf \/ (dev.pf /\ step.cnt = dev.pfc + 1)
      BY <2>1, <3>1, FieldStands
    <3>4. QED
      BY <3>2, <3>3 DEF N_SCAN
  <2>3. new.pf = step.clear /\ new.pfc = step.cnt /\ new.seen = 0
    BY <1>6 DEF Judged, Update
  <2> HIDE DEF step, new
  <2>4. new.pf => y <= 2 * new.pfc + 2 + (IF "scanner" \in C THEN 8 ELSE 0)
    BY <1>1, <1>4, <1>5, <1>6, <2>1, <2>2, <2>3
  <2>5. "scanner" \in X /\ new.pf => y <= 2 * new.pfc + 2 /\ v <= 2
    BY <1>1, <1>4, <1>5, <1>6, <2>1, <2>2, <2>3
  <2>6. new.pfc \in 0 .. 2 /\ new.pf \in BOOLEAN
    BY <2>2, <2>3
  <2>7. QED
    BY <1>3, <2>3, <2>4, <2>5, <2>6 DEF Eye
<1>7. CASE raw = None
  <2>1. CASE dev.seen >= 10
    <3>1. new.pf = FALSE
      BY <1>2, <1>7, <2>1, Ages DEF Judged, GoViolated, Seen
    <3> HIDE DEF new
    <3>2. QED
      BY <1>3, <3>1 DEF Eye
  <2>2. CASE ~(dev.seen >= 10)
    <3>1. new = dev
      BY <1>7, <2>2, Ages DEF Judged
    <3> HIDE DEF new
    <3>2. dev.pf => dev.seen \in {2, 4, 6, 8}
      BY <1>4, <1>5, <2>2
    <3>3. QED
      BY <1>3, <1>4, <1>5, <1>7, <3>1, <3>2 DEF Eye
  <2>3. QED
    BY <2>1, <2>2
<1>8. QED
  BY <1>6, <1>7

\* A tick passes, and each age grows by one or is stale.
LEMMA EyeAges ==
    ASSUME NEW X, NEW C, NEW d \in Devices, NEW y \in Nat, NEW v \in Nat,
           NEW e \in Eyes, NEW n, NEW w \in 0 .. 1, NEW s \in BOOLEAN, Eye(e, w, s, X, C, d, y, v),
           n.raw = e.raw, n.device[d] = [e.device[d] EXCEPT !.seen = Older(@, SCAN_STALE)],
           NEW t, t = w + 1, NEW z, z = y + 1, NEW u, u = v + 1
    PROVE  Eye(n, t, s, X, C, d, z, u)
<1> DEFINE dev == e.device[d]
           new == n.device[d]
<1>1. dev \in Seen /\ e.raw[d] \in Spotted
  BY DEF Eyes
<1>2. /\ dev.pf \in BOOLEAN /\ dev.pfc \in 0 .. 2 /\ dev.seen \in 0 .. 10
      /\ new.pf = dev.pf /\ new.pfc = dev.pfc
      /\ new.seen = IF dev.seen < 10 THEN dev.seen + 1 ELSE 10
  BY <1>1, Ages DEF Seen, N_SCAN, Older
<1> SUFFICES ASSUME "field_eval" \notin X PROVE Eye(n, w + 1, s, X, C, d, y + 1, v + 1)
  BY DEF Eye
<1>3. dev.pf => new.seen = dev.seen + 1 /\ new.seen - (w + 1) \in {0, 2, 4, 6, 8}
  <2>1. dev.pf => dev.seen - w \in {0, 2, 4, 6, 8}
    BY DEF Eye
  <2> HIDE DEF dev, new
  <2>2. QED
    BY <1>2, <2>1
<1>4. e.raw[d] # None => e.raw[d] \in Nat
  BY <1>1 DEF Spotted
<1>5. QED
  BY <1>2, <1>3, <1>4, SmallestField DEF Eye

\* Shorter times are bounded too.
LEMMA EyeSooner ==
    ASSUME NEW X, NEW C, NEW d \in Devices, NEW y \in Nat, NEW v \in Nat,
           NEW e \in Eyes, NEW w \in 0 .. 2, NEW s \in BOOLEAN, Eye(e, w, s, X, C, d, y, v),
           NEW z \in Nat, z <= y, NEW u \in Nat, u <= v
    PROVE  Eye(e, w, s, X, C, d, z, u)
<1> DEFINE dev == e.device[d]
           raw == e.raw[d]
<1> SUFFICES ASSUME "field_eval" \notin X PROVE Eye(e, w, s, X, C, d, z, u)
  BY DEF Eye
<1>1. dev \in Seen
  BY DEF Eyes
<1>2. dev.pfc \in 0 .. 2 /\ dev.seen \in 0 .. 10
  BY <1>1, Ages DEF Seen, N_SCAN
<1>3. dev.pf => z <= 2 * dev.pfc + w + (IF "scanner" \in C THEN 10 ELSE 2)
  BY <1>2 DEF Eye
<1>4. raw # None /\ raw > FIELDS[1].pf => z <= w
  BY DEF Eye
<1>5. dev.pf /\ raw = None /\ (s \/ "scanner" \in X) =>
        "scanner" \in C /\ z <= 2 * dev.pfc + dev.seen + 2
  <2>1. dev.pf /\ raw = None /\ (s \/ "scanner" \in X) =>
          "scanner" \in C /\ y <= 2 * dev.pfc + dev.seen + 2
    BY DEF Eye
  <2> HIDE DEF dev, raw
  <2>2. QED
    BY <1>2, <2>1
<1>6. "scanner" \in X => /\ dev.pf /\ raw = None => u <= dev.seen + 2
                         /\ raw # None => u <= w
                         /\ dev.pf /\ raw # None => z <= 2 * dev.pfc + w + 2
  BY <1>2 DEF Eye
<1>7. QED
  BY <1>3, <1>4, <1>5, <1>6 DEF Eye

\* A process dies: there was none before.
LEMMA EyeDies ==
    ASSUME NEW p, NEW d \in Devices, NEW y \in Nat,
           NEW e \in Eyes, NEW w \in 1 .. 2, NEW s \in BOOLEAN, Eye(e, w, s, {}, {}, d, y, 1)
    PROVE  Eye(e, w, s, {p}, {p}, d, y, 1)
<1>1. e.device[d] \in Seen
  BY DEF Eyes
<1>2. /\ e.device[d].pf \in BOOLEAN /\ e.device[d].pfc \in 0 .. 2
      /\ e.device[d].seen \in 0 .. 10
  BY <1>1, Ages DEF Seen, N_SCAN
<1>3. e.device[d].pf => e.device[d].seen - w \in {0, 2, 4, 6, 8}
  BY DEF Eye
<1>4. e.device[d].pf => w <= e.device[d].seen
  BY <1>2, <1>3
<1>5. e.device[d].pf => y <= 2 * e.device[d].pfc + w + 2
  BY DEF Eye
<1>6. e.raw[d] # None /\ e.raw[d] > FIELDS[1].pf => y <= w
  BY DEF Eye
<1>7. ~ (e.device[d].pf /\ e.raw[d] = None /\ s)
  BY DEF Eye
<1>8. QED
  BY <1>2, <1>3, <1>4, <1>5, <1>6, <1>7 DEF Eye

\* A process comes back; field_eval starts blind.
LEMMA EyeReturns ==
    ASSUME NEW C, NEW X, NEW d \in Devices, NEW y \in Nat, NEW w \in 1 .. 2, NEW s \in BOOLEAN,
           NEW e \in Eyes, NEW v \in Nat, 1 <= v, Eye(e, w, s, X, C, d, y, v), "field_eval" \notin X
    PROVE  Eye(e, w, s, {}, C, d, y, 1)
BY DEF Eye

\* A field_eval that starts has every field violated.
LEMMA EyeStarts ==
    ASSUME NEW C, NEW X, NEW d \in Devices, NEW y \in Nat, NEW w, NEW s \in BOOLEAN, NEW v
    PROVE  Eye(Fresh.field_eval, w, s, X, C, d, y, v)
<1>1. Fresh.field_eval
        = [raw |-> [b \in Devices |-> None], case |-> 3, heard |-> STATUS_STALE,
           device |-> [b \in Devices |-> [pf |-> FALSE, wf |-> FALSE, pfc |-> 0, wfc |-> 0,
                                          seen |-> SCAN_STALE]]]
  BY DEF Fresh
<1>2. Fresh.field_eval.device[d].pf = FALSE /\ Fresh.field_eval.raw[d] = None
  BY <1>1
<1>3. QED
  BY <1>2 DEF Eye

\* A verdict that stands bounds both counts.
LEMMA EyeBounds ==
    ASSUME NEW X, NEW C, NEW d \in Devices, NEW y \in Nat, NEW v \in Nat,
           NEW e \in Eyes, NEW w \in 0 .. 2, NEW s \in BOOLEAN, Eye(e, w, s, X, C, d, y, v),
           "field_eval" \notin X, e.device[d].pf
    PROVE  /\ y <= SendBound(C) + w
           /\ "scanner" \in X => v <= 10 + w
<1>1. e.device[d] \in Seen
  BY DEF Eyes
<1>2. e.device[d].pfc \in 0 .. 2 /\ e.device[d].seen \in 0 .. 10
  BY <1>1, Ages DEF Seen, N_SCAN
<1>3. e.device[d].seen - w \in {0, 2, 4, 6, 8}
  BY DEF Eye
<1>4. e.device[d].seen <= 8 + w
  BY <1>2, <1>3
<1>5. QED
  BY <1>2, <1>4 DEF Eye, SendBound

Blame(X, C) == X \subseteq C /\ \A p, q \in C : p = q

\* What is sent after an evaluation is what was found.
LEMMA LinkEvaluated ==
    ASSUME NEW X, NEW C, Blame(X, C), NEW d \in Devices, NEW y \in Nat, NEW v \in Nat,
           X = {} => v = 0, "field_eval" \notin X,
           NEW l \in Senders, NEW e \in Encoders, NEW held \in BOOLEAN,
           NEW seen \in BOOLEAN, NEW new \in BOOLEAN, NEW re \in 0 .. 1, NEW rm \in 0 .. 1,
           Link(l, e, held, seen, re, rm, X, C, d, y, v),
           new => y <= SendBound(C), new /\ "scanner" \in X => v <= 10,
           NEW n, n.pair = l.pair, n.heard = l.heard,
           IF "sensor_link" \in X \/ l.pair = None \/ l.heard >= ENCODERS_STALE
           THEN n.out = l.out ELSE n.out # None /\ n.out.pf[d] = new
    PROVE  Link(n, e, held, new, re, rm, X, C, d, y, v)
<1> DEFINE says == n.out # None /\ n.out.pf[d]
<1>1. IF "sensor_link" \in X \/ l.pair = None \/ l.heard >= 5
      THEN n.out = l.out ELSE n.out # None /\ n.out.pf[d] = new
  BY Ages
<1>3. l.heard \in 0 .. 5 /\ e.heard \in 0 .. 6
  BY Ages DEF Senders, Encoders
<1>4. C \cap {"encoder", "encoder_link", "sensor_link"} = {} =>
              \/ n.pair # None /\ n.heard <= re
              \/ n.pair = None /\ re = 1 /\ n.out = None /\ ~held
  BY <1>1 DEF Link
<1>5. C \cap Sensors = {} => /\ held /\ ~new /\ "m6" \notin X => n.out # None /\ ~says
                             /\ says => new
  <2>1. SUFFICES ASSUME C \cap Sensors = {}
                 PROVE  /\ held /\ ~new /\ "m6" \notin X => n.out # None /\ ~says
                        /\ says => new
    OBVIOUS
  <2>2. \/ l.pair # None /\ l.heard <= re
        \/ l.pair = None /\ l.out = None /\ ~held
    BY <2>1 DEF Link, Sensors
  <2>3. "sensor_link" \notin X
    BY <2>1 DEF Blame, Sensors
  <2>4. QED
    BY <1>1, <1>3, <2>2, <2>3
<1>6. CASE "sensor_link" \in X \/ l.pair = None \/ l.heard >= 5
  BY <1>1, <1>4, <1>5, <1>6 DEF Link
<1>7. CASE ~("sensor_link" \in X \/ l.pair = None \/ l.heard >= 5)
  <2>1. n.out # None /\ (says <=> new)
    BY <1>1, <1>7
  <2>2. /\ "encoder" \in X => v <= 5 + re
        /\ "encoder_link" \in X => v <= 4
    BY <1>3, <1>7, Ages DEF Link
  <2>3. new /\ "scanner" \in C => v <= 10
    <3>1. "scanner" \in C => X = {} \/ "scanner" \in X
      BY DEF Blame
    <3>2. QED
      BY <3>1
  <2>4. C \cap Sensors # {} => v <= 6
    <3>1. C \cap Sensors # {} => X = {} \/ "encoder" \in X \/ "encoder_link" \in X
      BY <1>7 DEF Blame, Sensors
    <3>2. QED
      BY <2>2, <3>1
  <2>5. SendBound(C) \in Nat
    BY DEF SendBound
  <2>6. says /\ "m6" \notin X =>
              /\ y <= SendBound(C) + rm
              /\ "scanner" \in C => v <= 10 + rm
              /\ C \cap Sensors # {} => v <= 6 + rm
    <3> HIDE DEF says
    <3>1. QED
      BY <2>1, <2>3, <2>4, <2>5
  <2>7. X \cap {"field_eval", "sensor_link"} = {}
    BY <1>7
  <2>8. /\ "encoder" \in X => /\ v <= e.heard \/ e.heard = ENC_STALE
                              /\ l.pair # None => v <= 5 + re
        /\ "encoder_link" \in X => v <= l.heard \/ l.heard = ENCODERS_STALE
    BY DEF Link
  <2>9. QED
    BY <1>1, <1>4, <1>5, <2>6, <2>7, <2>8 DEF Link
<1>8. QED
  BY <1>6, <1>7

\* encoder_link's turn.
LEMMA LinkEncoded ==
    ASSUME NEW X, NEW C, Blame(X, C), NEW d \in Devices, NEW y \in Nat, NEW v \in Nat,
           "encoder_link" \notin X,
           NEW l \in Senders, NEW e \in Encoders, NEW held \in BOOLEAN, NEW k \in Speeds,
           NEW seen \in BOOLEAN, NEW rm,
           Link(l, e, held, seen, 1, rm, X, C, d, y, v),
           NEW f, f.heard = (IF "encoder" \notin X THEN 0 ELSE e.heard),
           "encoder" \notin X => f.shaft = k,
           NEW n, n.out = l.out,
           n.pair = (IF "sensor_link" \in X THEN l.pair
                     ELSE IF f.heard >= ENC_STALE THEN None ELSE f.shaft),
           n.heard = IF "sensor_link" \in X THEN l.heard ELSE 0
    PROVE  Link(n, f, held, seen, 0, rm, X, C, d, y, v)
<1>1. e.heard \in 0 .. 6 /\ ENC_STALE = 6 /\ k # None
  BY Ages, NotHeard DEF Encoders, Speeds, Creep, Full
<1>2. C \cap {"encoder", "encoder_link", "sensor_link"} = {} => n.pair # None /\ n.heard <= 0
  <2>1. C \cap {"encoder", "encoder_link", "sensor_link"} = {} =>
             "encoder" \notin X /\ "sensor_link" \notin X
    BY DEF Blame
  <2>2. QED
    BY <1>1, <2>1
<1>3. "encoder" \in X => /\ v <= f.heard \/ f.heard = ENC_STALE
                         /\ n.pair # None => v <= 5 + 0
  <2>1. "encoder" \in X => "sensor_link" \notin X
    BY DEF Blame
  <2>2. "encoder" \in X => v <= e.heard \/ e.heard = ENC_STALE
    BY DEF Link
  <2>3. QED
    BY <1>1, <2>1, <2>2
<1>4. QED
  BY <1>2, <1>3 DEF Link

\* The writer takes what was sent.
LEMMA LinkTaken ==
    ASSUME NEW X, NEW C, NEW d \in Devices, NEW y \in Nat, NEW v \in Nat,
           "m6" \notin X,
           NEW l \in Senders, NEW e \in Encoders, NEW held \in BOOLEAN, NEW seen \in BOOLEAN,
           NEW re,
           Link(l, e, held, seen, re, 1, X, C, d, y, v),
           NEW n, n.pair = l.pair, n.heard = l.heard, n.out = None,
           NEW b \in BOOLEAN, b => IF l.out # None THEN l.out.pf[d] ELSE held
    PROVE  Link(n, e, b, seen, re, 0, X, C, d, y, v)
BY DEF Link

\* A tick passes.
LEMMA LinkAges ==
    ASSUME NEW X, NEW C, NEW d \in Devices, NEW y \in Nat, NEW v \in Nat,
           NEW l \in Senders, NEW e \in Encoders, NEW held \in BOOLEAN, NEW seen \in BOOLEAN,
           Link(l, e, held, seen, 0, 0, X, C, d, y, v),
           NEW n, n = [l EXCEPT !.heard = Older(@, ENCODERS_STALE)],
           NEW f, f = [e EXCEPT !.heard = Older(@, ENC_STALE)]
    PROVE  Link(n, f, held, seen, 1, 1, X, C, d, y + 1, v + 1)
<1>1. /\ l.heard \in 0 .. 5 /\ e.heard \in 0 .. 6 /\ ENC_STALE = 6 /\ ENCODERS_STALE = 5
      /\ n.pair = l.pair /\ n.out = l.out
      /\ n.heard = (IF l.heard < 5 THEN l.heard + 1 ELSE 5)
      /\ f.heard = IF e.heard < 6 THEN e.heard + 1 ELSE 6
  BY Ages DEF Senders, Encoders, Older
<1>2. SendBound(C) \in Nat
  BY DEF SendBound
<1>3. QED
  BY <1>1, <1>2 DEF Link

\* A process dies that was never quiet before.
LEMMA LinkDies ==
    ASSUME NEW p, NEW d \in Devices, NEW y \in Nat,
           NEW l \in Senders, NEW e \in Encoders, NEW held \in BOOLEAN, NEW seen \in BOOLEAN,
           l.heard >= 1, e.heard >= 1,
           Link(l, e, held, seen, 1, 1, {}, {}, d, y, 1)
    PROVE  Link(l, e, held, seen, 1, 1, {p}, {p}, d, y, 1)
<1>1. l.heard \in 0 .. 5 /\ e.heard \in 0 .. 6
  BY Ages DEF Senders, Encoders
<1>2. /\ \/ l.pair # None /\ l.heard <= 1
         \/ l.pair = None /\ l.out = None /\ ~held
      /\ held /\ ~seen => l.out # None /\ ~(l.out # None /\ l.out.pf[d])
      /\ l.out # None /\ l.out.pf[d] => seen /\ y <= SendBound({}) + 1
  <2>1. {} \cap {"encoder", "encoder_link", "sensor_link"} = {} /\ {} \cap Sensors = {}
    OBVIOUS
  <2>2. QED
    BY <2>1 DEF Link
<1>3. SendBound({}) = 6 /\ SendBound({p}) >= 6 /\ SendBound({p}) \in Nat
  BY DEF SendBound
<1>4. QED
  BY <1>1, <1>2, <1>3 DEF Link

\* A process comes back that has no part here, or one whose part the bounds allow for.
LEMMA LinkReturns ==
    ASSUME NEW C, NEW X, NEW d \in Devices, NEW y \in Nat, NEW v \in Nat, 1 <= v,
           "m6" \notin X, NEW l \in Senders, NEW held \in BOOLEAN,
           NEW e, NEW f, e = f \/ C \cap {"encoder", "encoder_link", "sensor_link"} # {},
           NEW seen \in BOOLEAN, NEW b \in BOOLEAN, b = seen \/ C \cap Sensors # {},
           Link(l, e, held, seen, 1, 1, X, C, d, y, v)
    PROVE  Link(l, f, held, b, 1, 1, {}, C, d, y, 1)
<1>1. SendBound(C) \in Nat
  BY DEF SendBound
<1>2. QED
  BY <1>1 DEF Link

Cycle(m, o) ==
    LET w == Scan(Inputted(m, o))
    IN  [w EXCEPT !.out = [motor |-> w.latched = {}, case |-> 1, limit |-> Limit(w)]]

\* The writer's inputs keep their types.
LEMMA InputtedTypes ==
    ASSUME NEW m \in Writers, NEW o \in Datagrams \cup {None}
    PROVE  /\ Inputted(m, o) \in Writers
           /\ Inputted(m, o).heard = IF o # None THEN 0 ELSE m.heard
           /\ Inputted(m, o).ack = m.ack /\ Inputted(m, o).latched = m.latched
           /\ \A d \in Devices :
                 Inputted(m, o).pf[d] = IF o # None THEN o.pf[d]
                                        ELSE m.heard < SENSOR_STALE /\ m.pf[d]
<1> DEFINE none == [d \in Devices |-> FALSE]
<1>1. none \in [Devices -> BOOLEAN] /\ \A d \in Devices : none[d] = FALSE
  OBVIOUS
<1> HIDE DEF none
<1>2. CASE o # None
  <2>1. o \in Datagrams
    BY <1>2
  <2>2. o.pf \in [Devices -> BOOLEAN] /\ o.wf \in [Devices -> BOOLEAN] /\ o.speed \in Speeds
    BY <2>1 DEF Datagrams, Speeds
  <2> DEFINE a == [m EXCEPT !.pf = o.pf]
             b == [a EXCEPT !.wf = o.wf]
             c == [b EXCEPT !.speed = o.speed]
  <2>3. Inputted(m, o) = [c EXCEPT !.heard = 0]
    BY <1>2 DEF Inputted
  <2>4. a \in Writers /\ a.pf = o.pf /\ a.ack = m.ack /\ a.latched = m.latched
    BY <2>2 DEF Writers
  <2> HIDE DEF a
  <2>5. b \in Writers /\ b.pf = a.pf /\ b.ack = a.ack /\ b.latched = a.latched
    BY <2>2, <2>4 DEF Writers
  <2> HIDE DEF b
  <2>6. c \in Writers /\ c.pf = b.pf /\ c.ack = b.ack /\ c.latched = b.latched
    BY <2>2, <2>5 DEF Writers
  <2> HIDE DEF c
  <2>7. QED
    BY <1>2, <2>3, <2>4, <2>5, <2>6, Ages DEF Writers
<1>3. CASE o = None /\ m.heard >= SENSOR_STALE
  <2> DEFINE a == [m EXCEPT !.pf = none]
             b == [a EXCEPT !.wf = none]
  <2>1. Inputted(m, o) = [b EXCEPT !.speed = Trip]
    BY <1>3 DEF Inputted, none
  <2>2. a \in Writers /\ a.pf = none /\ a.ack = m.ack /\ a.latched = m.latched /\ a.heard = m.heard
    BY <1>1 DEF Writers
  <2> HIDE DEF a
  <2>3. b \in Writers /\ b.pf = a.pf /\ b.ack = a.ack /\ b.latched = a.latched /\ b.heard = a.heard
    BY <1>1, <2>2 DEF Writers
  <2> HIDE DEF b
  <2>4. m.heard \in 0 .. 8
    BY Ages DEF Writers
  <2>5. QED
    BY <1>1, <1>3, <2>1, <2>2, <2>3, <2>4, Ages DEF Writers
<1>4. CASE o = None /\ ~(m.heard >= SENSOR_STALE)
  <2>1. Inputted(m, o) = m
    BY <1>4 DEF Inputted
  <2>2. m.heard \in 0 .. 8 /\ \A d \in Devices : m.pf[d] \in BOOLEAN
    BY Ages DEF Writers
  <2>3. QED
    BY <1>4, <2>1, <2>2, Ages
<1>5. QED
  BY <1>2, <1>3, <1>4

\* A cycle of the writer latches what is demanded, and enables when nothing is latched.
LEMMA CycleTypes ==
    ASSUME NEW m \in Writers, NEW o \in Datagrams \cup {None}
    PROVE  /\ Cycle(m, o) \in Writers
           /\ Cycle(m, o).heard = IF o # None THEN 0 ELSE m.heard
           /\ Cycle(m, o).ack = m.ack
           /\ \A d \in Devices :
                 /\ Cycle(m, o).pf[d] = IF o # None THEN o.pf[d]
                                        ELSE m.heard < SENSOR_STALE /\ m.pf[d]
                 /\ ~Cycle(m, o).pf[d] => d \in Cycle(m, o).latched
           /\ Cycle(m, o).out # None
           /\ Cycle(m, o).out.motor <=> Cycle(m, o).latched = {}
           /\ m.latched # {} /\ Cycle(m, o).latched = {} => m.ack > 0
<1> DEFINE i == Inputted(m, o)
<1>1. /\ i \in Writers /\ i.ack = m.ack /\ i.latched = m.latched
      /\ i.heard = IF o # None THEN 0 ELSE m.heard
      /\ \A d \in Devices : i.pf[d] = IF o # None THEN o.pf[d]
                                      ELSE m.heard < SENSOR_STALE /\ m.pf[d]
  BY InputtedTypes
<1> HIDE DEF i
<1> DEFINE h == Healthy(i)
           l == i.latched \cup (Inputs \ h)
           k == IF i.ack > 0 /\ ~i.prevAck THEN l \ h ELSE l
           a == [i EXCEPT !.latched = k]
           w == [a EXCEPT !.prevAck = i.ack > 0]
           r == [motor |-> w.latched = {}, case |-> 1, limit |-> Limit(w)]
<1>2. Scan(i) = w
  BY DEF Scan
<1>3. \A d \in Devices : ~i.pf[d] => d \notin h
  BY ChainConstants DEF Healthy
<1>4. i.latched \subseteq Inputs /\ i.ack \in 0 .. 6
  BY <1>1, Ages DEF Writers
<1>5. /\ k \subseteq Inputs
      /\ \A d \in Devices : ~i.pf[d] => d \in k
      /\ i.latched # {} /\ k = {} => i.ack > 0
  <2>1. \A d \in Devices : d \in Inputs
    BY DEF Inputs
  <2> HIDE DEF h
  <2>2. QED
    BY <1>3, <1>4, <2>1
<1> HIDE DEF h, l, k
<1>6. a \in Writers /\ a.latched = k /\ a.pf = i.pf /\ a.heard = i.heard /\ a.ack = i.ack
  BY <1>1, <1>5 DEF Writers
<1> HIDE DEF a
<1>7. (i.ack > 0) \in BOOLEAN
  OBVIOUS
<1>8. w \in Writers /\ w.latched = k /\ w.pf = i.pf /\ w.heard = i.heard /\ w.ack = i.ack
  BY <1>6, <1>7 DEF Writers
<1> HIDE DEF w
<1>9. r \in Answers /\ (r.motor <=> w.latched = {})
  <2>1. Limit(w) \in {Creep, Full}
    BY DEF Limit
  <2> DEFINE b == w.latched = {}
             c == Limit(w)
  <2>2. b \in BOOLEAN
    OBVIOUS
  <2>3. (r.motor <=> b) /\ r = [motor |-> b, case |-> 1, limit |-> c]
    OBVIOUS
  <2> HIDE DEF b, c, r
  <2>4. r \in Answers
    BY <2>1, <2>2, <2>3 DEF Answers, c
  <2>5. QED
    BY <2>3, <2>4 DEF b
<1>10. Cycle(m, o) = [w EXCEPT !.out = r]
  BY <1>2 DEF Cycle, i
<1> HIDE DEF r
<1>11. /\ Cycle(m, o) \in Writers /\ Cycle(m, o).out = r /\ Cycle(m, o).latched = k
       /\ Cycle(m, o).pf = i.pf /\ Cycle(m, o).heard = i.heard /\ Cycle(m, o).ack = i.ack
  BY <1>8, <1>9, <1>10 DEF Writers
<1>12. r # None
  BY <1>9, NotHeard
<1>13. QED
  BY <1>1, <1>5, <1>8, <1>9, <1>11, <1>12

\* The writer's turn.
LEMMA WriterCycles ==
    ASSUME NEW X, NEW C, Blame(X, C), NEW d \in Devices, NEW y \in Nat, NEW v \in Nat,
           X = {} => v = 0, "m6" \notin X,
           NEW m \in Writers, NEW l \in Senders, NEW e, NEW seen \in BOOLEAN, NEW re,
           Writer(m, 1, X, C, d, y, v),
           Link(l, e, m.pf[d], seen, re, 1, X, C, d, y, v),
           \* field_eval's verdict bounds what the writer still holds
           seen /\ "field_eval" \notin X =>
                /\ y <= SendBound(C) + 2
                /\ "scanner" \in X => v <= 12
    PROVE  Writer(Cycle(m, l.out), 0, X, C, d, y, v)
<1> DEFINE n == Cycle(m, l.out)
           o == l.out
<1>1. o \in Datagrams \cup {None} /\ m.heard \in 0 .. 8 /\ m.pf[d] \in BOOLEAN
  BY Ages DEF Senders, Writers
<1>2. /\ n.heard = IF o # None THEN 0 ELSE m.heard
      /\ n.pf[d] = IF o # None THEN o.pf[d] ELSE m.heard < SENSOR_STALE /\ m.pf[d]
      /\ ~n.pf[d] => d \in n.latched
      /\ n.out.motor <=> n.latched = {}
  BY <1>1, CycleTypes
<1> HIDE DEF n
<1>3. /\ ~n.pf[d] => d \in n.latched
      /\ n.out # None /\ n.out.motor => n.pf[d]
  BY <1>2
<1>4. SendBound(C) \in Nat
  BY DEF SendBound
<1> SUFFICES ASSUME n.pf[d]
             PROVE  /\ n.heard < SENSOR_STALE
                    /\ y <= SendBound(C) + 1 + n.heard
                    /\ C \cap Sensors = {} => y <= SendBound(C) + 2 + 0
                    /\ "scanner" \in C => v <= 12 + 0
                    /\ C \cap Sensors # {} => v <= 7 + n.heard
  BY <1>3 DEF Writer, n
<1>5. CASE o # None
  <2>1. /\ y <= SendBound(C) + 1
        /\ "scanner" \in C => v <= 10 + 1
        /\ C \cap Sensors # {} => v <= 6 + 1
    BY <1>2, <1>5 DEF Link
  <2>2. QED
    BY <1>2, <1>4, <1>5, <2>1, Ages
<1>6. CASE o = None
  <2>1. n.heard = m.heard /\ m.heard < SENSOR_STALE /\ m.pf[d]
    BY <1>2, <1>6
  <2>2. /\ y <= SendBound(C) + 1 + m.heard
        /\ C \cap Sensors # {} => v <= 7 + m.heard
    BY <2>1 DEF Writer
  <2>3. C \cap Sensors = {} => seen /\ "field_eval" \notin X
    BY <1>6, <2>1 DEF Link, Blame, Sensors
  <2>4. "scanner" \in C => C \cap Sensors = {} /\ (X = {} \/ "scanner" \in X)
    <3>1. \A p \in C : "scanner" \in C => p = "scanner"
      BY DEF Blame
    <3>2. "scanner" \in C => C \cap Sensors = {}
      BY <3>1 DEF Sensors
    <3>3. "scanner" \in C /\ X # {} => "scanner" \in X
      BY <3>1 DEF Blame
    <3>4. QED
      BY <3>2, <3>3
  <2>5. QED
    BY <1>1, <1>4, <2>1, <2>2, <2>3, <2>4
<1>7. QED
  BY <1>5, <1>6

\* A tick passes.
LEMMA WriterAges ==
    ASSUME NEW X, NEW C, NEW d \in Devices, NEW y \in Nat, NEW v \in Nat,
           NEW m \in Writers, Writer(m, 0, X, C, d, y, v),
           NEW n, n.pf = m.pf, n.latched = m.latched, n.out = m.out,
           n.heard = Older(m.heard, SENSOR_STALE)
    PROVE  Writer(n, 1, X, C, d, y + 1, v + 1)
<1>1. /\ m.heard \in 0 .. 8 /\ SENSOR_STALE = 8
      /\ n.heard = IF m.heard < 8 THEN m.heard + 1 ELSE 8
  BY Ages DEF Writers, Older
<1>2. SendBound(C) \in Nat
  BY DEF SendBound
<1>3. QED
  BY <1>1, <1>2 DEF Writer

\* Shorter times are bounded too.
LEMMA WriterSooner ==
    ASSUME NEW X, NEW C, NEW d \in Devices, NEW y \in Nat, NEW v \in Nat,
           NEW m \in Writers, NEW rm \in 0 .. 1, Writer(m, rm, X, C, d, y, v),
           NEW z \in Nat, z <= y, NEW u \in Nat, u <= v
    PROVE  Writer(m, rm, X, C, d, z, u)
<1>1. m.heard \in 0 .. 8
  BY Ages DEF Writers
<1>2. SendBound(C) \in Nat
  BY DEF SendBound
<1>3. QED
  BY <1>1, <1>2 DEF Writer

\* A process dies that was never quiet before.
LEMMA WriterDies ==
    ASSUME NEW p, NEW d \in Devices, NEW y \in Nat,
           NEW m \in Writers, Writer(m, 1, {}, {}, d, y, 1)
    PROVE  Writer(m, 1, {p}, {p}, d, y, 1)
<1>1. m.heard \in 0 .. 8
  BY Ages DEF Writers
<1>2. SendBound({}) = 6 /\ SendBound({p}) >= 6 /\ SendBound({p}) \in Nat
  BY DEF SendBound
<1>3. {} \cap Sensors = {}
  OBVIOUS
<1>4. QED
  BY <1>1, <1>2, <1>3 DEF Writer

\* Another process comes back: no node is quiet then.
LEMMA WriterReturns ==
    ASSUME NEW C, NEW X, NEW d \in Devices, NEW y \in Nat, NEW v \in Nat, 1 <= v,
           "m6" \notin X, NEW m \in Writers, Writer(m, 1, X, C, d, y, v),
           NEW n, n.pf = m.pf, n.latched = m.latched, n.heard = m.heard,
           n.out = m.out \/ n.out = None
    PROVE  Writer(n, 1, {}, C, d, y, 1)
<1>1. m.heard \in 0 .. 8
  BY Ages DEF Writers
<1>2. QED
  BY <1>1 DEF Writer

\* A writer that starts has every input latched.
LEMMA WriterStarts ==
    ASSUME NEW C, NEW X, NEW d \in Devices, NEW y \in Nat, NEW v \in Nat, NEW rm
    PROVE  Writer(Fresh.m6, rm, X, C, d, y, v)
<1>1. /\ Fresh.m6.pf = [b \in Devices |-> FALSE] /\ Fresh.m6.latched = Inputs
      /\ Fresh.m6.out = None
  BY DEF Fresh
<1>2. d \in Inputs
  BY DEF Inputs
<1>3. QED
  BY <1>1, <1>2 DEF Writer

\* plc_link's turn, with the writer's answer or none.
Relayed(b, o) ==
    LET heard == IF o # None THEN 0 ELSE b.heard
    IN  [msg   |-> IF heard >= LINK_STALE THEN FAILSAFE ELSE IF o # None THEN o ELSE b.msg,
         heard |-> heard]

\* What plc_link passes on is an answer; without one it is the last one or FAILSAFE.
LEMMA RelayedTypes ==
    ASSUME NEW b \in Links, NEW o \in Answers \cup {None}
    PROVE  /\ Relayed(b, o) \in Links
           /\ Relayed(b, o).heard = IF o # None THEN 0 ELSE b.heard
           /\ Relayed(b, o).msg.motor =>
                 IF o # None THEN o.motor ELSE b.msg.motor /\ b.heard < LINK_STALE
<1>1. b.heard \in 0 .. 6 /\ b.msg \in Answers /\ LINK_STALE = 6
  BY Ages DEF Links
<1>2. FAILSAFE \in Answers /\ FAILSAFE.motor = FALSE
  BY DEF FAILSAFE, Answers
<1>3. QED
  BY <1>1, <1>2 DEF Relayed, Links

\* The bounds of an enable as numbers.
LEMMA EnableBounds ==
    ASSUME NEW C
    PROVE  /\ SendBound(C) \in Nat /\ EnableBound(C) \in Nat
           /\ EnableBound(C) <= 17 /\ EnableBound(C) >= 9
           /\ "scanner" \notin C /\ C \cap Sensors = {} => EnableBound(C) = 9
BY DEF EnableBound, SendBound

\* plc_link passes the writer's last answer on.
LEMMA PlcRelays ==
    ASSUME NEW X, NEW C, Blame(X, C), NEW d \in Devices, NEW y \in Nat, NEW v \in Nat,
           "plc_link" \notin X, NEW b \in Links, NEW m \in Writers, NEW rm \in 0 .. 1,
           Plc(b, m.out, FALSE, 1, X, C, y, v), Writer(m, rm, X, C, d, y, v)
    PROVE  Plc(Relayed(b, m.out), None, TRUE, 0, X, C, y, v)
<1> DEFINE o == m.out
           n == Relayed(b, o)
<1>1. o \in Answers \cup {None} /\ m.heard \in 0 .. 8 /\ b.heard \in 0 .. 6
  BY Ages DEF Writers, Links
<1>2. /\ n.heard = IF o # None THEN 0 ELSE b.heard
      /\ n.msg.motor => IF o # None THEN o.motor ELSE b.msg.motor /\ b.heard < LINK_STALE
  BY <1>1, RelayedTypes
<1> HIDE DEF n
<1>3. ASSUME "m6" \notin C, n.msg.motor
      PROVE  /\ y <= EnableBound(C) + 0
             /\ C \cap (Sensors \cup {"scanner"}) # {} => v <= 15 + 0
  <2>1. "m6" \notin X
    BY <1>3 DEF Blame
  <2>2. o # None /\ o.motor
    BY <1>2, <1>3 DEF Plc
  <2>3. m.pf[d]
    BY <2>2 DEF Writer
  <2>4. /\ y <= SendBound(C) + 1 + m.heard
        /\ C \cap Sensors = {} => y <= SendBound(C) + 2 + rm
        /\ "scanner" \in C => v <= 12 + rm
        /\ C \cap Sensors # {} => v <= 7 + m.heard
    BY <2>1, <2>3 DEF Writer
  <2>5. SendBound(C) \in Nat
    BY DEF SendBound
  <2>6. C \cap Sensors # {} => SendBound(C) = 6
    BY DEF SendBound, Sensors, Blame
  <2>7. CASE C \cap Sensors # {}
    BY <1>1, <2>4, <2>6, <2>7 DEF EnableBound
  <2>8. CASE C \cap Sensors = {}
    <3>1. y <= EnableBound(C) + 0
      BY <1>1, <2>4, <2>5, <2>8 DEF EnableBound
    <3>2. C \cap (Sensors \cup {"scanner"}) # {} => "scanner" \in C
      BY <2>8
    <3>3. QED
      BY <2>4, <3>1, <3>2
  <2>9. QED
    BY <2>7, <2>8
<1>4. ASSUME "m6" \in C, n.msg.motor
      PROVE  n.heard < LINK_STALE /\ y <= 9 + n.heard /\ v <= 1 + n.heard
  BY <1>1, <1>2, <1>4, Ages DEF Plc
<1>5. QED
  BY <1>3, <1>4 DEF Plc, n

\* The writer answers.
LEMMA PlcAnswered ==
    ASSUME NEW X, NEW C, Blame(X, C), NEW d \in Devices, NEW y \in Nat, NEW v \in Nat,
           X = {} => v = 0, "m6" \notin X,
           NEW b \in Links, NEW m \in Writers, NEW o, NEW s, NEW t, NEW rp \in 0 .. 1,
           Plc(b, o, s, rp, X, C, y, v), Writer(m, 0, X, C, d, y, v), m.out # None
    PROVE  Plc(b, m.out, t, rp, X, C, y, v)
<1>1. ASSUME "m6" \in C, m.out.motor
      PROVE  y <= 8 + rp /\ v <= rp
  <2>1. C = {"m6"} /\ X = {}
    BY <1>1 DEF Blame
  <2>2. C \cap Sensors = {} /\ SendBound(C) = 6
    BY <2>1 DEF Sensors, SendBound
  <2>3. m.pf[d]
    BY <1>1 DEF Writer
  <2>4. y <= 8
    BY <2>2, <2>3 DEF Writer
  <2>5. QED
    BY <2>1, <2>4
<1>2. QED
  BY <1>1 DEF Plc

\* A tick passes.
LEMMA PlcAges ==
    ASSUME NEW X, NEW C, NEW d \in Devices, NEW y \in Nat, NEW v \in Nat,
           NEW b \in Links, NEW o, NEW s, Plc(b, o, s, 0, X, C, y, v),
           NEW n, n.msg = b.msg, n.heard = Older(b.heard, LINK_STALE)
    PROVE  Plc(n, o, s, 1, X, C, y + 1, v + 1)
<1>1. /\ b.heard \in 0 .. 6 /\ LINK_STALE = 6
      /\ n.heard = IF b.heard < 6 THEN b.heard + 1 ELSE 6
  BY Ages DEF Links, Older
<1>2. QED
  BY <1>1, EnableBounds DEF Plc

\* Shorter times are bounded too.
LEMMA PlcSooner ==
    ASSUME NEW X, NEW C, NEW y \in Nat, NEW v \in Nat,
           NEW b \in Links, NEW o, NEW s, NEW rp \in 0 .. 1, Plc(b, o, s, rp, X, C, y, v),
           NEW z \in Nat, z <= y, NEW u \in Nat, u <= v
    PROVE  Plc(b, o, s, rp, X, C, z, u)
<1>1. b.heard \in 0 .. 6
  BY Ages DEF Links
<1>2. QED
  BY <1>1, EnableBounds DEF Plc

\* A process dies that was never quiet before.
LEMMA PlcDies ==
    ASSUME NEW p, NEW d \in Devices, NEW y \in Nat,
           NEW b \in Links, b.heard >= 1, NEW m \in Writers, NEW s,
           Plc(b, m.out, s, 1, {}, {}, y, 1), Writer(m, 1, {}, {}, d, y, 1)
    PROVE  Plc(b, m.out, s, 1, {p}, {p}, y, 1)
<1>1. b.heard \in 0 .. 6
  BY Ages DEF Links
<1>2. b.msg.motor => (m.out # None \/ s) /\ y <= 9 + 1
  <2>1. EnableBound({}) = 9
    BY EnableBounds
  <2>2. QED
    BY <2>1 DEF Plc
<1>3. m.out # None /\ m.out.motor => y <= 8 + 1
  <2>1. SendBound({}) = 6 /\ {} \cap Sensors = {}
    BY DEF SendBound
  <2>2. QED
    BY <2>1 DEF Writer
<1>4. EnableBound({p}) \in Nat /\ EnableBound({p}) >= 9
  BY EnableBounds
<1>5. QED
  BY <1>1, <1>2, <1>3, <1>4 DEF Plc

\* Another process comes back: no node is quiet then.
LEMMA PlcReturns ==
    ASSUME NEW C, NEW X, NEW y \in Nat, NEW v \in Nat, 1 <= v, "plc_link" \notin X,
           NEW b \in Links, NEW o, NEW s, Plc(b, o, s, 1, X, C, y, v),
           NEW q, q = o \/ (q = None /\ "m6" \in C)
    PROVE  Plc(b, q, s, 1, {}, C, y, 1)
<1>1. b.heard \in 0 .. 6
  BY Ages DEF Links
<1>2. QED
  BY <1>1 DEF Plc

\* A plc_link that starts passes FAILSAFE on.
LEMMA PlcStarts ==
    ASSUME NEW X, NEW C, NEW y \in Nat, NEW v \in Nat, NEW s, NEW rp
    PROVE  Plc(Fresh.plc_link, None, s, rp, X, C, y, v)
<1>1. Fresh.plc_link.msg = FAILSAFE
  BY DEF Fresh
<1>2. FAILSAFE.motor = FALSE
  BY DEF FAILSAFE
<1>3. QED
  BY <1>1, <1>2 DEF Plc

\* plc_link's turn, at the gate and at the contactor.
LEMMA GateRelayed ==
    ASSUME NEW X, NEW C, Blame(X, C), NEW y \in Nat, NEW v \in Nat,
           X = {} => v = 0, "plc_link" \notin X,
           NEW g \in Gates, NEW k \in Contacts, NEW motor \in BOOLEAN, NEW wg \in 0 .. 2,
           Gate(g, k, motor, wg, X, C, y, v),
           NEW t \in BOOLEAN, "plc_link" \in C /\ t => y <= 9,
           NEW h, "cmd_gate" \notin X => h.motor = t /\ h.heard = 0,
           "cmd_gate" \in X => h.motor = g.motor /\ h.heard = g.heard,
           NEW n, n.off => n.terminal = 0, n.terminal # 0 => t
    PROVE  Gate(h, n, t, wg, X, C, y, v)
<1>1. ASSUME "plc_link" \in C
      PROVE  /\ h.heard = 0
             /\ n.terminal # 0 \/ h.motor => y <= 9 /\ v <= 0
  <2>1. C = {"plc_link"} /\ X = {}
    BY <1>1 DEF Blame
  <2>2. h.heard = 0 /\ h.motor = t
    BY <2>1
  <2>3. QED
    BY <2>1, <2>2
<1>2. "plc_link" \notin C /\ "cmd_gate" \notin X /\ h.motor => t
  OBVIOUS
<1>3. QED
  BY <1>1, <1>2, Ages DEF Gate

\* A torque-off demand leaves the terminal at zero.
LEMMA Demanded ==
    ASSUME NEW k \in Contacts, k.off => k.terminal = 0, NEW t \in BOOLEAN
    PROVE  LET n == Demand(k, ~t)
           IN  (n.off => n.terminal = 0) /\ (n.terminal # 0 => t)
<1> DEFINE n == Demand(k, ~t)
<1>1. n \in Contacts /\ n.off = ~t
  BY DEF Demand, Contacts, Speeds
<1>2. n.off => n.terminal = 0
  BY DEF Demand, Contacts
<1> HIDE DEF n
<1>3. n.terminal # 0 => t
  BY <1>1, <1>2
<1>4. QED
  BY <1>2, <1>3 DEF n

\* The gate lets a command through.
LEMMA GateLets ==
    ASSUME NEW X, NEW C, NEW y \in Nat, NEW v \in Nat, "cmd_gate" \notin X,
           NEW g \in Gates, NEW k \in Contacts, NEW motor \in BOOLEAN,
           NEW wg \in 0 .. 2, NEW w \in 0 .. 2,
           Gate(g, k, motor, wg, X, C, y, v),
           NEW h, h.motor = g.motor, h.heard = g.heard,
           NEW n, n.off = k.off,
           n.terminal # 0 => \/ k.off /\ k.terminal # 0
                             \/ g.motor /\ g.heard < STATUS_STALE /\ ~k.off
    PROVE  Gate(h, n, motor, w, X, C, y, v)
BY Ages DEF Gate, Gates

\* A tick passes.
LEMMA GateAges ==
    ASSUME NEW X, NEW C, NEW y \in Nat, NEW v \in Nat,
           NEW g \in Gates, NEW k, NEW motor \in BOOLEAN, NEW wg \in 0 .. 1,
           Gate(g, k, motor, wg, X, C, y, v),
           NEW h, h.motor = g.motor, h.heard = Older(g.heard, STATUS_STALE), NEW w, w = wg + 1,
           NEW z, z = y + 1, NEW u, u = v + 1
    PROVE  Gate(h, k, motor, w, X, C, z, u)
<1>1. /\ g.heard \in 0 .. 5 /\ STATUS_STALE = 5
      /\ h.heard = IF g.heard < 5 THEN g.heard + 1 ELSE 5
  BY Ages DEF Gates, Older
<1>2. QED
  BY <1>1 DEF Gate

\* Shorter times are bounded too.
LEMMA GateSooner ==
    ASSUME NEW X, NEW C, NEW y \in Nat, NEW v \in Nat,
           NEW g \in Gates, NEW k, NEW motor, NEW wg \in 0 .. 2,
           Gate(g, k, motor, wg, X, C, y, v),
           NEW z \in Nat, z <= y, NEW u \in Nat, u <= v
    PROVE  Gate(g, k, motor, wg, X, C, z, u)
<1>1. g.heard \in 0 .. 5
  BY Ages DEF Gates
<1>2. QED
  BY <1>1 DEF Gate

\* A process dies that was never quiet before.
LEMMA GateDies ==
    ASSUME NEW p, NEW y \in Nat, NEW b, NEW o, NEW s, Plc(b, o, s, 1, {}, {}, y, 1),
           NEW g \in Gates, g.heard >= 1, NEW k, NEW wg \in 1 .. 2,
           Gate(g, k, b.msg.motor, wg, {}, {}, y, 1)
    PROVE  Gate(g, k, b.msg.motor, wg, {p}, {p}, y, 1)
<1>1. g.heard \in 0 .. 5
  BY Ages DEF Gates
<1>2. b.msg.motor => y <= 9 + 1
  <2>1. EnableBound({}) = 9
    BY EnableBounds
  <2>2. QED
    BY <2>1 DEF Plc
<1>3. QED
  BY <1>1, <1>2 DEF Gate

\* Another process comes back: no node is quiet then.
LEMMA GateReturns ==
    ASSUME NEW X, NEW C, NEW y \in Nat, NEW v \in Nat, 1 <= v, "cmd_gate" \notin X,
           NEW g \in Gates, NEW k, NEW motor, NEW wg \in 1 .. 2,
           Gate(g, k, motor, wg, X, C, y, v),
           NEW q, q = motor \/ "plc_link" \in C
    PROVE  Gate(g, k, q, wg, {}, C, y, 1)
<1>1. g.heard \in 0 .. 5
  BY Ages DEF Gates
<1>2. QED
  BY <1>1 DEF Gate

\* A gate that starts has no enable.
LEMMA GateStarts ==
    ASSUME NEW X, NEW C, NEW y \in Nat, NEW v \in Nat, "plc_link" \notin C,
           NEW g, NEW k, NEW motor \in BOOLEAN, NEW wg,
           Gate(g, k, motor, wg, X, C, y, v)
    PROVE  Gate(Fresh.cmd_gate, k, motor, wg, {}, C, y, 1)
<1>1. Fresh.cmd_gate.motor = FALSE
  BY DEF Fresh
<1>2. QED
  BY <1>1 DEF Gate

-----------------------------------------------------------------------------
(* What is commanded. *)

\* Nothing is quiet, or none of the three that command: there is nothing to bound.
LEMMA CommandFree ==
    ASSUME NEW X, NEW v \in Nat, NEW g \in Gates, NEW x \in Muxes, NEW k,
           NEW wm \in 0 .. 2, NEW wg \in 0 .. 2,
           v = 0 \/ X \cap {"nav", "hmi", "cmd_mux"} = {}
    PROVE  Command(g, x, k, wm, wg, X, v)
<1>1. g.cmdHeard \in 0 .. 5 /\ x.heard \in 0 .. 5
  BY Ages DEF Gates, Muxes
<1>2. CASE v = 0
  BY <1>1, <1>2 DEF Command
<1>3. CASE X \cap {"nav", "hmi", "cmd_mux"} = {}
  BY <1>3 DEF Command
<1>4. QED
  BY <1>2, <1>3

\* What the gate passes on may become less.
LEMMA CommandFalls ==
    ASSUME NEW X, NEW v, NEW g, NEW x, NEW k, NEW wm, NEW wg,
           Command(g, x, k, wm, wg, X, v),
           NEW h, h.cmd = g.cmd, h.cmdHeard = g.cmdHeard, NEW n,
           n.terminal # 0 => k.terminal # 0
    PROVE  Command(h, x, n, wm, wg, X, v)
BY DEF Command

\* The gate's turn: a command that is too old has stopped the truck.
LEMMA CommandLets ==
    ASSUME NEW X, NEW v \in Nat, NEW g \in Gates, NEW x \in Muxes, NEW k,
           NEW wm \in 0 .. 2, NEW wg \in 0 .. 2,
           Command(g, x, k, wm, wg, X, v),
           NEW n, n.terminal # 0 => k.terminal # 0 \/ g.cmd # 0,
           g.cmdHeard >= CMD_STALE => n.terminal = 0
    PROVE  Command(g, x, n, wm, 0, X, v)
BY Ages DEF Command

\* The mux's turn, with the autopilot selected.
LEMMA CommandForwards ==
    ASSUME NEW X, NEW v \in Nat, NEW g \in Gates, NEW x \in Muxes, NEW k,
           NEW wm \in 0 .. 2, NEW wg \in 0 .. 2, X \cap {"hmi", "cmd_mux"} = {},
           Command(g, x, k, wm, wg, X, v),
           NEW h, NEW n, x.heard >= STATUS_STALE => h.cmd = 0 /\ n.terminal = 0
    PROVE  Command(h, x, n, 0, wg, X, v)
<1>1. x.heard \in 0 .. 5 /\ STATUS_STALE = 5
  BY Ages DEF Muxes
<1>2. QED
  BY <1>1 DEF Command

\* The mux hears the autopilot, that is there.
LEMMA CommandHeard ==
    ASSUME NEW X, NEW v, NEW g, NEW x, NEW k, NEW wm, NEW wg, "nav" \notin X,
           Command(g, x, k, wm, wg, X, v), NEW m
    PROVE  Command(g, m, k, wm, wg, X, v)
BY DEF Command

\* A tick passes.
LEMMA CommandAges ==
    ASSUME NEW X, NEW v \in Nat, NEW g \in Gates, NEW x \in Muxes, NEW k,
           NEW wm \in 0 .. 1, NEW wg \in 0 .. 1,
           Command(g, x, k, wm, wg, X, v),
           NEW h, h.cmd = g.cmd, h.cmdHeard = Older(g.cmdHeard, CMD_STALE),
           NEW m, m.heard = Older(x.heard, STATUS_STALE),
           NEW w, w = wm + 1, NEW t, t = wg + 1, NEW u, u = v + 1
    PROVE  Command(h, m, k, w, t, X, u)
<1>1. /\ g.cmdHeard \in 0 .. 5 /\ x.heard \in 0 .. 5 /\ CMD_STALE = 5 /\ STATUS_STALE = 5
      /\ h.cmdHeard = (IF g.cmdHeard < 5 THEN g.cmdHeard + 1 ELSE 5)
      /\ m.heard = IF x.heard < 5 THEN x.heard + 1 ELSE 5
  BY Ages DEF Gates, Muxes, Older
<1>2. QED
  BY <1>1 DEF Command

\* Shorter times are bounded too.
LEMMA CommandSooner ==
    ASSUME NEW X, NEW v \in Nat, NEW g \in Gates, NEW x \in Muxes, NEW k,
           NEW wm \in 0 .. 2, NEW wg \in 0 .. 2,
           Command(g, x, k, wm, wg, X, v), NEW u \in Nat, u <= v
    PROVE  Command(g, x, k, wm, wg, X, u)
<1>1. g.cmdHeard \in 0 .. 5 /\ x.heard \in 0 .. 5
  BY Ages DEF Gates, Muxes
<1>2. QED
  BY <1>1 DEF Command

\* A process dies that was never quiet before.
LEMMA CommandDies ==
    ASSUME NEW X, NEW g \in Gates, NEW x \in Muxes, NEW k,
           NEW wm \in 1 .. 2, NEW wg \in 1 .. 2, g.cmdHeard >= 1, x.heard >= 1
    PROVE  Command(g, x, k, wm, wg, X, 1)
<1>1. g.cmdHeard \in 0 .. 5 /\ x.heard \in 0 .. 5
  BY Ages DEF Gates, Muxes
<1>2. QED
  BY <1>1 DEF Command

-----------------------------------------------------------------------------
(* The order of a tick. *)

\* p is about to go off, and D are the timers before it.
Placed(p, D) ==
    /\ p \in Timers /\ p \notin D
    /\ \A q \in Timers \ {p} : /\ q \in D <=> Before(q, p)
                               /\ Before(p, q) <=> ~Before(q, p)

Prefix(i) == {order[j] : j \in 1 .. i}

\* The timers before the next one, in the order of a tick.
LEMMA Placing ==
    ASSUME order \in Orders, NEW i \in 1 .. Len(order)
    PROVE  /\ Placed(order[i], Prefix(i - 1))
           /\ Prefix(i) = Prefix(i - 1) \cup {order[i]}
           /\ order[i] \in Timers
<1>1. /\ order \in Seq(Timers) /\ DOMAIN order = 1 .. Len(order) /\ Len(order) \in Nat
      /\ \A p \in Timers : \E j \in DOMAIN order : order[j] = p
      /\ \A j, k \in DOMAIN order : order[j] = order[k] => j = k
  <2>1. order \in Seq(Timers)
    BY ChainConstants
  <2>2. QED
    BY <2>1, ChainConstants
<1>2. order[i] \in Timers
  BY <1>1
<1>3. order[i] \notin Prefix(i - 1)
  <2>1. \A j \in 1 .. i - 1 : j \in DOMAIN order /\ j # i
    BY <1>1
  <2>2. QED
    BY <1>1, <2>1 DEF Prefix
<1>4. ASSUME NEW q \in Timers \ {order[i]}
      PROVE  /\ q \in Prefix(i - 1) <=> Before(q, order[i])
             /\ Before(order[i], q) <=> ~Before(q, order[i])
  <2>1. PICK k \in DOMAIN order : order[k] = q
    BY <1>1, <1>4
  <2>2. k \in Nat /\ k # i /\ i \in Nat /\ i \in DOMAIN order
    BY <1>1, <1>4, <2>1
  <2>3. Before(q, order[i]) <=> k < i
    BY <1>1, <2>1, <2>2 DEF Before
  <2>4. Before(order[i], q) <=> i < k
    BY <1>1, <2>1, <2>2 DEF Before
  <2>5. q \in Prefix(i - 1) <=> k < i
    <3>1. k < i => k \in 1 .. i - 1
      BY <1>1, <2>1, <2>2
    <3>2. \A j \in 1 .. i - 1 : j \in DOMAIN order /\ j < i
      BY <1>1
    <3>3. \A j \in 1 .. i - 1 : order[j] = q => j = k
      BY <1>1, <2>1, <3>2
    <3>4. QED
      BY <2>1, <3>1, <3>2, <3>3 DEF Prefix
  <2>6. QED
    BY <2>2, <2>3, <2>4, <2>5
<1>5. Prefix(i) = Prefix(i - 1) \cup {order[i]}
  <2>1. 1 .. i = (1 .. i - 1) \cup {i}
    BY <1>1
  <2>2. QED
    BY <2>1 DEF Prefix
<1>6. QED
  BY <1>2, <1>3, <1>4, <1>5 DEF Placed

\* A tick begins with no timer and ends with all of them.
LEMMA AllPlaced ==
    ASSUME order \in Orders
    PROVE  Prefix(0) = {} /\ Prefix(Len(order)) = Timers
<1>1. /\ order \in Seq(Timers) /\ DOMAIN order = 1 .. Len(order) /\ Len(order) \in Nat
      /\ \A p \in Timers : \E j \in DOMAIN order : order[j] = p
  <2>1. order \in Seq(Timers)
    BY ChainConstants
  <2>2. QED
    BY <2>1, ChainConstants
<1>2. \A j \in 1 .. Len(order) : order[j] \in Timers
  BY <1>1
<1>3. 1 .. 0 = {}
  OBVIOUS
<1>4. QED
  BY <1>1, <1>2, <1>3 DEF Prefix

\* The phases of the slow timers.
LEMMA PhaseTypes ==
    ASSUME phase \in Phases
    PROVE  phase["scanner"] \in 0 .. 1 /\ phase["field_eval"] \in 0 .. 1
           /\ \A p \in Slow : phase[p] \in 0 .. 1
<1>1. phase \in [Slow -> 0 .. 1]
  BY ChainConstants
<1>2. QED
  BY <1>1 DEF Slow

\* How long a node waits for its turn.
LEMMA WaitTypes ==
    ASSUME NEW p, NEW D
    PROVE  /\ Wait(p, D) \in 0 .. 2 /\ Rest(p, D) \in 0 .. 1
           /\ Wait(p, {}) \in 1 .. 2 /\ Rest(p, {}) = 1
           /\ Scanned(D) \in BOOLEAN /\ Cycled(D) \in BOOLEAN
<1>1. /\ Wait(p, D) \in 0 .. 2 /\ Rest(p, D) \in 0 .. 1
      /\ Wait(p, {}) \in 1 .. 2 /\ Rest(p, {}) = 1
  BY DEF Wait, Rest
<1>2. Scanned(D) \in BOOLEAN
  BY DEF Scanned, OnTick
<1>3. Cycled(D) \in BOOLEAN
  BY DEF Cycled, Before
<1>4. QED
  BY <1>1, <1>2, <1>3

\* What a turn of p changes for the others, and for p.
LEMMA OtherWaits ==
    ASSUME NEW p, NEW D, NEW q, q # p
    PROVE  Wait(q, D \cup {p}) = Wait(q, D) /\ Rest(q, D \cup {p}) = Rest(q, D)
BY DEF Wait, Rest

\* A node whose turn it is due on has waited no tick.
LEMMA OwnWait ==
    ASSUME NEW p, NEW D, p \notin D
    PROVE  /\ OnTick(p) => Wait(p, D) = 2 /\ Wait(p, D \cup {p}) = 0
           /\ ~OnTick(p) => Wait(p, D \cup {p}) = Wait(p, D)
           /\ Rest(p, D) = 1 /\ Rest(p, D \cup {p}) = 0
BY DEF Wait, Rest

\* A turn of the scanner sends a scan, one of field_eval takes it.
LEMMA ScannedTurns ==
    ASSUME phase \in Phases, odd \in 0 .. 1, NEW p, NEW D, Placed(p, D)
    PROVE  /\ p \notin {"scanner", "field_eval"} \/ ~OnTick(p) =>
                 Scanned(D \cup {p}) = Scanned(D)
           /\ p = "field_eval" /\ OnTick(p) =>
                 Scanned(D) = TRUE /\ Scanned(D \cup {p}) = FALSE
<1>1. phase["scanner"] \in 0 .. 1 /\ phase["field_eval"] \in 0 .. 1
  BY PhaseTypes
<1>2. Scanned(D \cup {p}) \in BOOLEAN /\ Scanned(D) \in BOOLEAN
  BY WaitTypes
<1>3. "scanner" \in Slow /\ "field_eval" \in Slow /\ "scanner" \in Timers
  BY DEF Slow, Timers, Parts
<1>4. ASSUME p \notin {"scanner", "field_eval"} \/ ~OnTick(p)
      PROVE  Scanned(D \cup {p}) <=> Scanned(D)
  BY <1>4 DEF Scanned
<1>5. ASSUME p = "field_eval", OnTick(p)
      PROVE  Scanned(D) /\ ~Scanned(D \cup {p})
  <2>1. "scanner" \in D <=> Before("scanner", "field_eval")
    BY <1>3, <1>5 DEF Placed
  <2>2. Before("field_eval", "scanner") <=> ~Before("scanner", "field_eval")
    BY <1>3, <1>5 DEF Placed
  <2>3. "field_eval" \notin D
    BY <1>5 DEF Placed
  <2>4. phase["field_eval"] = odd
    BY <1>3, <1>5 DEF OnTick
  <2>5. OnTick("scanner") <=> phase["scanner"] = odd
    BY <1>3 DEF OnTick
  <2>6. ~Scanned(D \cup {p})
    BY <1>5, <2>1, <2>2 DEF Scanned
  <2>7. Scanned(D)
    BY <1>5, <2>1, <2>2, <2>3, <2>4, <2>5 DEF Scanned
  <2>8. QED
    BY <2>6, <2>7
<1>6. QED
  BY <1>2, <1>4, <1>5

\* A turn of the writer is a cycle, and one of plc_link takes its answer.
LEMMA CycledTurns ==
    ASSUME NEW p, NEW D, Placed(p, D)
    PROVE  /\ p \notin {"m6", "plc_link"} => Cycled(D \cup {p}) = Cycled(D)
           /\ p = "plc_link" => Cycled(D) = FALSE /\ Cycled(D \cup {p}) = TRUE
<1>1. Cycled(D \cup {p}) \in BOOLEAN /\ Cycled(D) \in BOOLEAN
  BY WaitTypes
<1>2. p \notin {"m6", "plc_link"} => (Cycled(D \cup {p}) <=> Cycled(D))
  BY DEF Cycled
<1>3. ASSUME p = "plc_link"
      PROVE  ~Cycled(D) /\ Cycled(D \cup {p})
  <2>1. "m6" \in Timers \ {p}
    BY <1>3 DEF Timers, Parts
  <2>2. ("m6" \in D <=> Before("m6", "plc_link")) /\ "plc_link" \notin D
    BY <1>3, <2>1 DEF Placed
  <2>3. QED
    BY <1>3, <2>2 DEF Cycled
<1>4. QED
  BY <1>1, <1>2, <1>3

\* The next tick: the slow timers swap.
LEMMA NextWaits ==
    ASSUME phase \in Phases, odd \in 0 .. 1, odd' = 1 - odd, UNCHANGED <<phase, order>>
    PROVE  /\ \A p \in Timers : /\ Wait(p, Timers) \in 0 .. 1
                                /\ Wait(p, {})' = (IF p \in Slow THEN Wait(p, Timers) + 1 ELSE 2)
                                /\ Rest(p, Timers) = 0 /\ Rest(p, {})' = 1
           /\ Scanned({})' = Scanned(Timers)
           /\ Cycled({})' = Cycled(Timers)
<1>1. \A p \in Slow : phase[p] \in 0 .. 1 /\ p \in Timers
  BY PhaseTypes DEF Slow, Timers, Parts
<1>2. "scanner" \in Slow /\ "field_eval" \in Slow /\ "scanner" \in Timers /\ "field_eval" \in Timers
      /\ "m6" \in Timers /\ "plc_link" \in Timers
  BY DEF Slow, Timers, Parts
<1>3. ASSUME NEW p \in Timers
      PROVE  /\ Wait(p, Timers) \in 0 .. 1
             /\ Wait(p, {})' = (IF p \in Slow THEN Wait(p, Timers) + 1 ELSE 2)
             /\ Rest(p, Timers) = 0 /\ Rest(p, {})' = 1
  BY <1>1 DEF Wait, Rest, OnTick
<1>4. \A p, q \in Timers : Before(p, q)' <=> Before(p, q)
  BY DEF Before
<1>5. /\ Scanned(Timers) \in BOOLEAN /\ Cycled(Timers) \in BOOLEAN
      /\ Scanned({})' \in BOOLEAN /\ Cycled({})' \in BOOLEAN
  BY DEF Scanned, Cycled, OnTick, Before
<1>6. Scanned({})' <=> Scanned(Timers)
  <2>1. phase["scanner"] \in 0 .. 1 /\ phase["field_eval"] \in 0 .. 1
    BY <1>1, <1>2
  <2>2. /\ OnTick("scanner") <=> phase["scanner"] = odd
        /\ OnTick("field_eval") <=> phase["field_eval"] = odd
        /\ OnTick("scanner")' <=> phase["scanner"] # odd
        /\ OnTick("field_eval")' <=> phase["field_eval"] # odd
    BY <1>2, <2>1 DEF OnTick
  <2>3. Before("field_eval", "scanner")' <=> Before("field_eval", "scanner")
    BY <1>2, <1>4
  <2>4. QED
    BY <1>2, <2>1, <2>2, <2>3 DEF Scanned
<1>7. Cycled({})' <=> Cycled(Timers)
  <2>1. Before("m6", "plc_link")' <=> Before("m6", "plc_link")
    BY <1>2, <1>4
  <2>2. QED
    BY <1>2, <2>1 DEF Cycled
<1>8. QED
  BY <1>3, <1>5, <1>6, <1>7

-----------------------------------------------------------------------------
(* The cell, node by node. *)

\* The parts of a cell, and what changing one of them leaves alone.
LEMMA CellParts ==
    ASSUME NEW c \in Cells
    PROVE  /\ c.field_eval \in Eyes /\ c.encoder_link \in Encoders
           /\ c.sensor_link \in Senders /\ c.m6 \in Writers /\ c.plc_link \in Links
           /\ c.hmi \in Windows /\ c.cmd_mux \in Muxes /\ c.cmd_gate \in Gates
           /\ c.contactor \in Contacts
BY DEF Cells

OtherThan(f, c, n) ==
    /\ f # "field_eval" => n.field_eval = c.field_eval
    /\ f # "encoder_link" => n.encoder_link = c.encoder_link
    /\ f # "sensor_link" => n.sensor_link = c.sensor_link
    /\ f # "m6" => n.m6 = c.m6
    /\ f # "plc_link" => n.plc_link = c.plc_link
    /\ f # "hmi" => n.hmi = c.hmi
    /\ f # "cmd_mux" => n.cmd_mux = c.cmd_mux
    /\ f # "cmd_gate" => n.cmd_gate = c.cmd_gate
    /\ f # "contactor" => n.contactor = c.contactor

\* One node of the cell is replaced, and the others stay.
LEMMA SetEye ==
    ASSUME NEW c \in Cells, NEW x \in Eyes
    PROVE  LET n == [c EXCEPT !.field_eval = x]
           IN  n \in Cells /\ n.field_eval = x /\ OtherThan("field_eval", c, n)
BY DEF Cells, OtherThan

\* The same for encoder_link,
LEMMA SetEncoder ==
    ASSUME NEW c \in Cells, NEW x \in Encoders
    PROVE  LET n == [c EXCEPT !.encoder_link = x]
           IN  n \in Cells /\ n.encoder_link = x /\ OtherThan("encoder_link", c, n)
BY DEF Cells, OtherThan

\* sensor_link,
LEMMA SetSender ==
    ASSUME NEW c \in Cells, NEW x \in Senders
    PROVE  LET n == [c EXCEPT !.sensor_link = x]
           IN  n \in Cells /\ n.sensor_link = x /\ OtherThan("sensor_link", c, n)
BY DEF Cells, OtherThan

\* the writer,
LEMMA SetWriter ==
    ASSUME NEW c \in Cells, NEW x \in Writers
    PROVE  LET n == [c EXCEPT !.m6 = x]
           IN  n \in Cells /\ n.m6 = x /\ OtherThan("m6", c, n)
BY DEF Cells, OtherThan

\* plc_link,
LEMMA SetPlc ==
    ASSUME NEW c \in Cells, NEW x \in Links
    PROVE  LET n == [c EXCEPT !.plc_link = x]
           IN  n \in Cells /\ n.plc_link = x /\ OtherThan("plc_link", c, n)
BY DEF Cells, OtherThan

\* the window,
LEMMA SetWindow ==
    ASSUME NEW c \in Cells, NEW x \in Windows
    PROVE  LET n == [c EXCEPT !.hmi = x]
           IN  n \in Cells /\ n.hmi = x /\ OtherThan("hmi", c, n)
BY DEF Cells, OtherThan

\* the mux,
LEMMA SetMux ==
    ASSUME NEW c \in Cells, NEW x \in Muxes
    PROVE  LET n == [c EXCEPT !.cmd_mux = x]
           IN  n \in Cells /\ n.cmd_mux = x /\ OtherThan("cmd_mux", c, n)
BY DEF Cells, OtherThan

\* the gate
LEMMA SetGate ==
    ASSUME NEW c \in Cells, NEW x \in Gates
    PROVE  LET n == [c EXCEPT !.cmd_gate = x]
           IN  n \in Cells /\ n.cmd_gate = x /\ OtherThan("cmd_gate", c, n)
BY DEF Cells, OtherThan

\* and the contactor.
LEMMA SetContactor ==
    ASSUME NEW c \in Cells, NEW x \in Contacts
    PROVE  LET n == [c EXCEPT !.contactor = x]
           IN  n \in Cells /\ n.contactor = x /\ OtherThan("contactor", c, n)
BY DEF Cells, OtherThan

\* Where a body is, is a distance.
LEMMA BodyTypes ==
    ASSUME body \in [Devices -> Spots]
    PROVE  body \in [Devices -> Nat] /\ body \in [Devices -> Spotted]
<1>1. Spots \subseteq Nat
  BY ChainConstants
<1>2. QED
  BY <1>1 DEF Spotted

\* A scan reaches field_eval, and no other node.
LEMMA ScanEffect ==
    ASSUME body \in [Devices -> Spots], NEW c \in Cells
    PROVE  LET n == ScanTick(c)
           IN  /\ n \in Cells /\ OtherThan("field_eval", c, n)
               /\ n.field_eval = IF Up("field_eval") THEN [c.field_eval EXCEPT !.raw = body]
                                 ELSE c.field_eval
<1> DEFINE x == [c.field_eval EXCEPT !.raw = body]
<1>1. x \in Eyes
  BY CellParts, BodyTypes DEF Eyes
<1>2. ScanTick(c) = IF Up("field_eval") THEN [c EXCEPT !.field_eval = x] ELSE c
  BY DEF ScanTick
<1> HIDE DEF x
<1>3. CASE Up("field_eval")
  BY <1>1, <1>2, <1>3, SetEye DEF x
<1>4. CASE ~Up("field_eval")
  BY <1>2, <1>4 DEF OtherThan
<1>5. QED
  BY <1>3, <1>4

Datagram(e, pair) ==
    [pf |-> [d \in Devices |-> e.device[d].pf], wf |-> [d \in Devices |-> e.device[d].wf],
     speed |-> pair]

\* What is sent to the writer is a datagram.
LEMMA DatagramTypes ==
    ASSUME NEW e \in Eyes, NEW pair \in Speeds
    PROVE  /\ Datagram(e, pair) \in Datagrams
           /\ \A d \in Devices : Datagram(e, pair).pf[d] = e.device[d].pf
<1>1. \A d \in Devices : e.device[d].pf \in BOOLEAN /\ e.device[d].wf \in BOOLEAN
  BY DEF Eyes, Seen
<1> DEFINE p == [d \in Devices |-> e.device[d].pf]
           w == [d \in Devices |-> e.device[d].wf]
<1>2. p \in [Devices -> BOOLEAN] /\ w \in [Devices -> BOOLEAN]
  BY <1>1
<1>3. \A d \in Devices : p[d] = e.device[d].pf
  OBVIOUS
<1> HIDE DEF p, w
<1>4. [pf |-> p, wf |-> w, speed |-> pair] \in Datagrams
  BY <1>2 DEF Datagrams, Speeds
<1>5. QED
  BY <1>3, <1>4 DEF Datagram, p, w

\* The sender after an evaluation.
Sent(l, e) ==
    IF ~Up("sensor_link") \/ l.pair = None \/ l.heard >= ENCODERS_STALE THEN l
    ELSE [l EXCEPT !.out = Datagram(e, l.pair)]

\* An evaluation changes field_eval, and what sensor_link sends.
LEMMA EvalEffect ==
    ASSUME NEW c \in Cells
    PROVE  LET n == FieldEvalTick(c)
           IN  /\ n \in Cells /\ n.field_eval = Evaluated(c.field_eval)
               /\ n.sensor_link = Sent(c.sensor_link, n.field_eval)
               /\ n.encoder_link = c.encoder_link /\ n.m6 = c.m6 /\ n.plc_link = c.plc_link
               /\ n.hmi = c.hmi /\ n.cmd_mux = c.cmd_mux /\ n.cmd_gate = c.cmd_gate
               /\ n.contactor = c.contactor
<1> DEFINE x == Evaluated(c.field_eval)
           b == [c EXCEPT !.field_eval = x]
           l == c.sensor_link
<1>1. x \in Eyes
  BY CellParts, EvaluatedTypes
<1> HIDE DEF x
<1>2. b \in Cells /\ b.field_eval = x /\ OtherThan("field_eval", c, b)
  BY <1>1, SetEye
<1>3. FieldEvalTick(c) = CbFields(b)
  BY DEF FieldEvalTick, x
<1> HIDE DEF b
<1>4. b.sensor_link = l
  BY <1>2 DEF OtherThan
<1>5. CASE ~Up("sensor_link") \/ l.pair = None \/ l.heard >= ENCODERS_STALE
  <2>1. CbFields(b) = b
    BY <1>4, <1>5 DEF CbFields
  <2>2. QED
    BY <1>2, <1>3, <1>5, <2>1 DEF OtherThan, Sent, x
<1>6. CASE ~(~Up("sensor_link") \/ l.pair = None \/ l.heard >= ENCODERS_STALE)
  <2> DEFINE s == [l EXCEPT !.out = Datagram(x, l.pair)]
  <2>1. CbFields(b) = [b EXCEPT !.sensor_link = s]
    BY <1>2, <1>4, <1>6 DEF CbFields, Datagram
  <2>2. l \in Senders
    BY CellParts
  <2>3. l.pair \in Speeds
    BY <1>6, <2>2 DEF Senders
  <2>4. Datagram(x, l.pair) \in Datagrams
    BY <1>1, <2>3, DatagramTypes
  <2>5. s \in Senders
    BY <2>2, <2>4 DEF Senders
  <2>6. s = Sent(l, x)
    BY <1>6 DEF Sent
  <2> HIDE DEF s
  <2>7. CbFields(b) \in Cells /\ CbFields(b).sensor_link = s /\ OtherThan("sensor_link", b, CbFields(b))
    BY <1>2, <2>1, <2>5, SetSender
  <2>8. QED
    BY <1>2, <1>3, <2>6, <2>7 DEF OtherThan, x
<1>7. QED
  BY <1>5, <1>6

\* encoder_link reads the shaft and tells sensor_link.
LEMMA EncoderEffect ==
    ASSUME NEW c \in Cells
    PROVE  LET n == EncoderTick(c)
           IN  /\ n \in Cells
               /\ n.encoder_link.heard = (IF Up("encoder") THEN 0 ELSE c.encoder_link.heard)
               /\ Up("encoder") => n.encoder_link.shaft = c.contactor.terminal
               /\ n.sensor_link.out = c.sensor_link.out
               /\ n.sensor_link.pair = (IF ~Up("sensor_link") THEN c.sensor_link.pair
                                        ELSE IF n.encoder_link.heard >= ENC_STALE THEN None
                                        ELSE n.encoder_link.shaft)
               /\ n.sensor_link.heard = (IF ~Up("sensor_link") THEN c.sensor_link.heard ELSE 0)
               /\ n.field_eval = c.field_eval /\ n.m6 = c.m6 /\ n.plc_link = c.plc_link
               /\ n.hmi = c.hmi /\ n.cmd_mux = c.cmd_mux /\ n.cmd_gate = c.cmd_gate
               /\ n.contactor = c.contactor
<1> DEFINE e == c.encoder_link
           l == c.sensor_link
           a == [e EXCEPT !.shaft = IF Up("encoder") THEN c.contactor.terminal ELSE @]
           r == [a EXCEPT !.heard = IF Up("encoder") THEN 0 ELSE @]
           pair == IF r.heard >= ENC_STALE THEN None ELSE r.shaft
           q == [l EXCEPT !.pair = pair]
           t == [q EXCEPT !.heard = 0]
           s == IF Up("sensor_link") THEN t ELSE l
           b == [c EXCEPT !.encoder_link = r]
<1>1. EncoderTick(c) = [b EXCEPT !.sensor_link = s]
  BY DEF EncoderTick
<1>2. e \in Encoders /\ l \in Senders /\ c.contactor.terminal \in Speeds
  BY CellParts DEF Contacts
<1>3. a \in Encoders /\ a.heard = e.heard
      /\ a.shaft = IF Up("encoder") THEN c.contactor.terminal ELSE e.shaft
  BY <1>2 DEF Encoders
<1> HIDE DEF a
<1>4. r \in Encoders /\ r.heard = (IF Up("encoder") THEN 0 ELSE e.heard) /\ r.shaft = a.shaft
  BY <1>3, Ages DEF Encoders
<1> HIDE DEF r
<1>5. pair \in Speeds \cup {None}
  BY <1>4 DEF Encoders
<1> HIDE DEF pair
<1>6. q \in Senders /\ q.pair = pair /\ q.out = l.out
  BY <1>2, <1>5 DEF Senders
<1> HIDE DEF q
<1>7. t \in Senders /\ t.pair = pair /\ t.out = l.out /\ t.heard = 0
  BY <1>6, Ages DEF Senders
<1> HIDE DEF t
<1>8. s \in Senders
  BY <1>2, <1>7
<1> HIDE DEF s
<1>9. b \in Cells /\ b.encoder_link = r /\ OtherThan("encoder_link", c, b)
  BY <1>4, SetEncoder
<1> HIDE DEF b
<1>10. /\ EncoderTick(c) \in Cells /\ EncoderTick(c).sensor_link = s
       /\ OtherThan("sensor_link", b, EncoderTick(c))
  BY <1>1, <1>8, <1>9, SetSender
<1>11. QED
  BY <1>3, <1>4, <1>7, <1>9, <1>10 DEF OtherThan, s, pair

\* The writer takes what was sent to it.
LEMMA CycleEffect ==
    ASSUME NEW c \in Cells
    PROVE  LET n == WriterCycle(c)
           IN  /\ n \in Cells /\ n.m6 = Cycle(c.m6, c.sensor_link.out)
               /\ n.sensor_link.pair = c.sensor_link.pair
               /\ n.sensor_link.heard = c.sensor_link.heard /\ n.sensor_link.out = None
               /\ n.field_eval = c.field_eval /\ n.encoder_link = c.encoder_link
               /\ n.plc_link = c.plc_link
               /\ n.hmi = c.hmi /\ n.cmd_mux = c.cmd_mux /\ n.cmd_gate = c.cmd_gate
               /\ n.contactor = c.contactor
<1> DEFINE m == Cycle(c.m6, c.sensor_link.out)
           s == [c.sensor_link EXCEPT !.out = None]
           b == [c EXCEPT !.sensor_link = s]
<1>1. WriterCycle(c) = [b EXCEPT !.m6 = m]
  BY DEF WriterCycle, Cycle
<1>2. c.sensor_link \in Senders /\ c.m6 \in Writers
  BY CellParts
<1>3. m \in Writers
  <2>1. c.sensor_link.out \in Datagrams \cup {None}
    BY <1>2 DEF Senders
  <2>2. QED
    BY <1>2, <2>1, CycleTypes
<1>4. /\ s \in Senders /\ s.pair = c.sensor_link.pair /\ s.heard = c.sensor_link.heard
      /\ s.out = None
  BY <1>2 DEF Senders
<1> HIDE DEF s
<1>5. b \in Cells /\ b.sensor_link = s /\ OtherThan("sensor_link", c, b)
  BY <1>4, SetSender
<1> HIDE DEF b, m
<1>6. WriterCycle(c) \in Cells /\ WriterCycle(c).m6 = m /\ OtherThan("m6", b, WriterCycle(c))
  BY <1>1, <1>3, <1>5, SetWriter
<1>7. QED
  BY <1>4, <1>5, <1>6 DEF OtherThan, m

\* plc_link takes the answer, and all that listen hear it.
LEMMA RelayEffect ==
    ASSUME NEW c \in Cells
    PROVE  LET n == PlcLinkTick(c)
               b == Relayed(c.plc_link, c.m6.out)
           IN  /\ n \in Cells /\ n.plc_link = b
               /\ n.m6 = [c.m6 EXCEPT !.out = None]
               /\ n.field_eval.device = c.field_eval.device
               /\ n.field_eval.raw = c.field_eval.raw
               /\ IF Up("cmd_gate") THEN n.cmd_gate.motor = b.msg.motor /\ n.cmd_gate.heard = 0
                  ELSE n.cmd_gate = c.cmd_gate
               /\ n.cmd_gate.cmd = c.cmd_gate.cmd
               /\ n.cmd_gate.cmdHeard = c.cmd_gate.cmdHeard
               /\ n.contactor = Demand(c.contactor, ~b.msg.motor)
               /\ n.encoder_link = c.encoder_link /\ n.sensor_link = c.sensor_link
               /\ n.hmi = c.hmi /\ n.cmd_mux = c.cmd_mux
<1> DEFINE b == Relayed(c.plc_link, c.m6.out)
           m == [c.m6 EXCEPT !.out = None]
           e == c.field_eval
           e1 == [e EXCEPT !.case = b.msg.case]
           e2 == [e1 EXCEPT !.heard = 0]
           x == IF Up("field_eval") THEN e2 ELSE e
           g == c.cmd_gate
           g1 == [g EXCEPT !.motor = b.msg.motor]
           g2 == [g1 EXCEPT !.limit = b.msg.limit]
           g3 == [g2 EXCEPT !.heard = 0]
           h == IF Up("cmd_gate") THEN g3 ELSE g
           k == Demand(c.contactor, ~b.msg.motor)
           c1 == [c EXCEPT !.m6 = m]
           c2 == [c1 EXCEPT !.plc_link = b]
           c3 == [c2 EXCEPT !.field_eval = x]
           c4 == [c3 EXCEPT !.cmd_gate = h]
<1>1. PlcLinkTick(c) = [c4 EXCEPT !.contactor = k]
  BY DEF PlcLinkTick, Relayed
<1>2. /\ c.plc_link \in Links /\ c.m6 \in Writers /\ e \in Eyes /\ g \in Gates
      /\ c.contactor \in Contacts
  BY CellParts
<1>3. b \in Links
  <2>1. c.m6.out \in Answers \cup {None}
    BY <1>2 DEF Writers
  <2>2. QED
    BY <1>2, <2>1, RelayedTypes
<1> HIDE DEF b
<1>4. b.msg.motor \in BOOLEAN /\ b.msg.case \in 1 .. 3 /\ b.msg.limit \in {Creep, Full}
  BY <1>3 DEF Links, Answers
<1>5. m \in Writers
  BY <1>2 DEF Writers
<1>6. x \in Eyes /\ x.device = e.device /\ x.raw = e.raw
  <2>1. e1 \in Eyes /\ e1.device = e.device /\ e1.raw = e.raw
    BY <1>2, <1>4 DEF Eyes
  <2> HIDE DEF e1
  <2>2. e2 \in Eyes /\ e2.device = e.device /\ e2.raw = e.raw
    BY <2>1, Ages DEF Eyes
  <2> HIDE DEF e2
  <2>3. QED
    BY <1>2, <2>2
<1>7. /\ h \in Gates /\ h.cmd = g.cmd /\ h.cmdHeard = g.cmdHeard
      /\ IF Up("cmd_gate") THEN h.motor = b.msg.motor /\ h.heard = 0 ELSE h = g
  <2>1. g1 \in Gates /\ g1.cmd = g.cmd /\ g1.cmdHeard = g.cmdHeard /\ g1.motor = b.msg.motor
    BY <1>2, <1>4 DEF Gates
  <2> HIDE DEF g1
  <2>2. g2 \in Gates /\ g2.cmd = g.cmd /\ g2.cmdHeard = g.cmdHeard /\ g2.motor = b.msg.motor
    BY <1>4, <2>1 DEF Gates
  <2> HIDE DEF g2
  <2>3. g3 \in Gates /\ g3.cmd = g.cmd /\ g3.cmdHeard = g.cmdHeard /\ g3.motor = b.msg.motor
        /\ g3.heard = 0
    BY <2>2, Ages DEF Gates
  <2> HIDE DEF g3
  <2>4. QED
    BY <1>2, <2>3
<1>8. k \in Contacts
  BY <1>2, <1>4 DEF Demand, Contacts, Speeds
<1> HIDE DEF m, x, h, k
<1>9. c1 \in Cells /\ c1.m6 = m /\ OtherThan("m6", c, c1)
  BY <1>5, SetWriter
<1> HIDE DEF c1
<1>10. c2 \in Cells /\ c2.plc_link = b /\ OtherThan("plc_link", c1, c2)
  BY <1>3, <1>9, SetPlc
<1> HIDE DEF c2
<1>11. c3 \in Cells /\ c3.field_eval = x /\ OtherThan("field_eval", c2, c3)
  BY <1>6, <1>10, SetEye
<1> HIDE DEF c3
<1>12. c4 \in Cells /\ c4.cmd_gate = h /\ OtherThan("cmd_gate", c3, c4)
  BY <1>7, <1>11, SetGate
<1> HIDE DEF c4
<1>13. /\ PlcLinkTick(c) \in Cells /\ PlcLinkTick(c).contactor = k
       /\ OtherThan("contactor", c4, PlcLinkTick(c))
  BY <1>1, <1>8, <1>12, SetContactor
<1>14. /\ PlcLinkTick(c).plc_link = b /\ PlcLinkTick(c).m6 = m
       /\ PlcLinkTick(c).field_eval = x /\ PlcLinkTick(c).cmd_gate = h
       /\ PlcLinkTick(c).encoder_link = c.encoder_link
       /\ PlcLinkTick(c).sensor_link = c.sensor_link
       /\ PlcLinkTick(c).hmi = c.hmi /\ PlcLinkTick(c).cmd_mux = c.cmd_mux
  BY <1>9, <1>10, <1>11, <1>12, <1>13 DEF OtherThan
<1>15. QED
  BY <1>6, <1>7, <1>13, <1>14 DEF b, m, k

\* What the gate lets through: only an enable it has just heard, and a fresh command.
Lets(c, n) ==
    /\ n.contactor.off = c.contactor.off
    /\ n.contactor.terminal # 0 =>
          IF c.contactor.off THEN c.contactor.terminal # 0
          ELSE /\ c.cmd_gate.motor /\ c.cmd_gate.heard < STATUS_STALE
               /\ c.cmd_gate.cmdHeard < CMD_STALE /\ c.cmd_gate.cmd # 0

\* The gate lets a speed through only while it is enabled.
LEMMA PublishEffect ==
    ASSUME NEW c \in Cells
    PROVE  LET n == GatePublish(c)
           IN  n \in Cells /\ OtherThan("contactor", c, n) /\ Lets(c, n)
<1> DEFINE g == c.cmd_gate
           enabled == g.motor /\ g.heard < STATUS_STALE
           cmd     == IF g.cmdHeard >= CMD_STALE THEN 0 ELSE g.cmd
           limit   == IF g.limit < Full THEN g.limit ELSE Full
           speed   == IF ~enabled THEN 0 ELSE IF cmd > limit THEN limit ELSE cmd
           k == Traction(c.contactor, speed)
<1>1. g \in Gates /\ c.contactor \in Contacts
  BY CellParts
<1>2. /\ g.cmd \in {0, 15} /\ g.limit \in {3, 15} /\ g.cmdHeard \in 0 .. 5
      /\ CMD_STALE = 5
  BY <1>1, Ages DEF Gates, Creep, Full
<1>3. /\ speed \in {0, 3, 15}
      /\ speed # 0 => enabled /\ g.cmdHeard < CMD_STALE /\ g.cmd # 0
  BY <1>2 DEF Full
<1>4. GatePublish(c) = [c EXCEPT !.contactor = k]
  BY DEF GatePublish
<1> HIDE DEF speed
<1>5. k \in Contacts
  BY <1>1, <1>3 DEF Traction, Contacts, Speeds, Creep, Full
<1>6. k.off = c.contactor.off /\ (k.terminal # 0 => IF c.contactor.off THEN c.contactor.terminal # 0
                                                   ELSE speed # 0)
  BY <1>1 DEF Traction, Contacts
<1> HIDE DEF k
<1>7. /\ GatePublish(c) \in Cells /\ GatePublish(c).contactor = k
      /\ OtherThan("contactor", c, GatePublish(c))
  BY <1>4, <1>5, SetContactor
<1>8. QED
  BY <1>3, <1>6, <1>7 DEF Lets

\* A command arrives at the gate.
LEMMA CommandEffect ==
    ASSUME NEW c \in Cells, NEW cmd \in {0, Full}
    PROVE  LET n == CbCmd(c, cmd)
           IN  /\ n \in Cells /\ n.cmd_mux = c.cmd_mux
               /\ n.field_eval = c.field_eval /\ n.encoder_link = c.encoder_link
               /\ n.sensor_link = c.sensor_link /\ n.m6 = c.m6 /\ n.plc_link = c.plc_link
               /\ n.hmi = c.hmi
               /\ ~Up("cmd_gate") => n = c
               /\ Up("cmd_gate") =>
                     /\ n.cmd_gate.motor = c.cmd_gate.motor
                     /\ n.cmd_gate.heard = c.cmd_gate.heard
                     /\ n.cmd_gate.cmd = cmd /\ n.cmd_gate.cmdHeard = 0
                     /\ n.contactor.off = c.contactor.off
                     /\ n.contactor.terminal # 0 =>
                           IF c.contactor.off THEN c.contactor.terminal # 0
                           ELSE /\ c.cmd_gate.motor /\ c.cmd_gate.heard < STATUS_STALE
                                /\ cmd # 0
<1> DEFINE g == c.cmd_gate
           g1 == [g EXCEPT !.cmd = cmd]
           g2 == [g1 EXCEPT !.cmdHeard = 0]
           b == [c EXCEPT !.cmd_gate = g2]
<1>1. g \in Gates
  BY CellParts
<1>2. /\ g1 \in Gates /\ g1.cmd = cmd /\ g1.motor = g.motor /\ g1.heard = g.heard
  BY <1>1 DEF Gates
<1> HIDE DEF g1
<1>3. /\ g2 \in Gates /\ g2.cmd = cmd /\ g2.motor = g.motor /\ g2.heard = g.heard
      /\ g2.cmdHeard = 0
  BY <1>2, Ages DEF Gates
<1>4. CbCmd(c, cmd) = IF ~Up("cmd_gate") THEN c ELSE GatePublish(b)
  <2> DEFINE a == [c EXCEPT !.cmd_gate.cmd = cmd, !.cmd_gate.cmdHeard = 0]
  <2>1. a = b
    BY <1>1 DEF Cells, g1
  <2>2. CbCmd(c, cmd) = IF ~Up("cmd_gate") THEN c ELSE GatePublish(a)
    BY DEF CbCmd
  <2> HIDE DEF a, b
  <2>3. QED
    BY <2>1, <2>2
<1> HIDE DEF g2
<1>5. b \in Cells /\ b.cmd_gate = g2 /\ OtherThan("cmd_gate", c, b)
  BY <1>3, SetGate
<1> HIDE DEF b
<1>6. GatePublish(b) \in Cells /\ OtherThan("contactor", b, GatePublish(b)) /\ Lets(b, GatePublish(b))
  BY <1>5, PublishEffect
<1>7. CASE Up("cmd_gate")
  BY <1>3, <1>4, <1>5, <1>6, <1>7 DEF OtherThan, Lets
<1>8. CASE ~Up("cmd_gate")
  BY <1>4, <1>8
<1>9. QED
  BY <1>7, <1>8

-----------------------------------------------------------------------------
(* Each turn keeps every part of the argument. *)

\* The turn of each node.
LEMMA Turns ==
    ASSUME NEW c
    PROVE  /\ \A p \in Timers : ~Due(p) => Turn(c, p) = c
           /\ Due("scanner") => Turn(c, "scanner") = ScanTick(c)
           /\ Due("field_eval") => Turn(c, "field_eval") = FieldEvalTick(c)
           /\ Due("encoder_link") => Turn(c, "encoder_link") = EncoderTick(c)
           /\ Due("m6") => Turn(c, "m6") = WriterCycle(c)
           /\ Due("plc_link") => Turn(c, "plc_link") = PlcLinkTick(c)
           /\ Due("nav") => Turn(c, "nav") = NavTick(c)
           /\ Due("hmi") => Turn(c, "hmi") = HmiTick(c)
           /\ Due("cmd_mux") => Turn(c, "cmd_mux") = MuxTick(c)
           /\ Due("cmd_gate") => Turn(c, "cmd_gate") = GateTick(c)
<1>1. \A p \in Timers : ~Due(p) => Turn(c, p) = c
  BY DEF Turn
<1>2. Due("scanner") => Turn(c, "scanner") = ScanTick(c)
  BY DEF Turn
<1>3. Due("field_eval") => Turn(c, "field_eval") = FieldEvalTick(c)
  BY DEF Turn
<1>4. Due("encoder_link") => Turn(c, "encoder_link") = EncoderTick(c)
  BY DEF Turn
<1>5. Due("m6") => Turn(c, "m6") = WriterCycle(c)
  BY DEF Turn
<1>6. Due("plc_link") => Turn(c, "plc_link") = PlcLinkTick(c)
  BY DEF Turn
<1>7. Due("nav") => Turn(c, "nav") = NavTick(c)
  BY DEF Turn
<1>8. Due("hmi") => Turn(c, "hmi") = HmiTick(c)
  BY DEF Turn
<1>9. Due("cmd_mux") => Turn(c, "cmd_mux") = MuxTick(c)
  BY DEF Turn
<1>10. Due("cmd_gate") => Turn(c, "cmd_gate") = GateTick(c)
  BY DEF Turn
<1>11. QED
  BY <1>1, <1>2, <1>3, <1>4, <1>5, <1>6, <1>7, <1>8, <1>9, <1>10

\* A timer goes off when its process is up and the tick is one of its own.
LEMMA DueMeans == \A p : Due(p) <=> Up(p) /\ OnTick(p)
BY DEF Due, OnTick

\* What does not change during a tick.
OfTick(C, d, y, v) ==
    /\ Blame(down, C)
    /\ body[d] > 10 => y = 0
    /\ down = {} => v = 0
    /\ v # 0 /\ ~Up("nav") => cell.cmd_mux.auto
    /\ v # 0 /\ ~Up("hmi") => ~cell.cmd_mux.auto

\* What holds when a timer that does not go off has been passed over: sensor_link,
LEMMA IdleLink ==
    ASSUME NEW X, NEW C, Blame(X, C), NEW d, NEW y, NEW v, NEW l, NEW e, NEW held \in BOOLEAN,
           NEW seen \in BOOLEAN, NEW re, NEW rm, Link(l, e, held, seen, re, rm, X, C, d, y, v)
    PROVE  /\ "encoder_link" \in X => Link(l, e, held, seen, 0, rm, X, C, d, y, v)
           /\ "m6" \in X => Link(l, e, held, seen, re, 0, X, C, d, y, v)
<1>1. ASSUME "encoder_link" \in X
      PROVE  Link(l, e, held, seen, 0, rm, X, C, d, y, v)
  <2>1. "encoder" \notin X /\ "encoder_link" \in C
    BY <1>1 DEF Blame
  <2>2. QED
    BY <2>1 DEF Link
<1>2. ASSUME "m6" \in X
      PROVE  Link(l, e, held, seen, re, 0, X, C, d, y, v)
  <2>1. "encoder" \notin X
    BY <1>2 DEF Blame
  <2>2. QED
    BY <1>2, <2>1 DEF Link
<1>3. QED
  BY <1>1, <1>2

\* and plc_link.
LEMMA IdlePlc ==
    ASSUME NEW X, NEW C, Blame(X, C), NEW y, NEW v, NEW b, NEW o, NEW s, NEW t, NEW rp,
           Plc(b, o, s, rp, X, C, y, v)
    PROVE  /\ "m6" \in X => Plc(b, o, t, rp, X, C, y, v)
           /\ "plc_link" \in X => Plc(b, o, t, 0, X, C, y, v)
<1>1. "m6" \in X => Plc(b, o, t, rp, X, C, y, v)
  BY DEF Plc, Blame
<1>2. "plc_link" \in X => "m6" \notin C
  BY DEF Blame
<1>3. "plc_link" \in X => Plc(b, o, t, 0, X, C, y, v)
  BY <1>2 DEF Plc
<1>4. QED
  BY <1>1, <1>3

\* A timer that is not due, or whose node is dead.
LEMMA IdleTurn ==
    ASSUME ChainTypeOK, NEW C, NEW d \in Devices, NEW y \in Nat, NEW v \in Nat,
           OfTick(C, d, y, v), NEW p, NEW D, Placed(p, D), ~Due(p),
           NEW c \in Cells, Counted(c, D, down, C, d, y, v)
    PROVE  Counted(c, D \cup {p}, down, C, d, y, v)
<1> DEFINE E == D \cup {p}
<1>1. phase \in Phases /\ odd \in 0 .. 1 /\ Blame(down, C) /\ p \in Timers /\ p \notin D
  BY DEF ChainTypeOK, OfTick, Placed
<1>2. \A q : q # p => Wait(q, E) = Wait(q, D) /\ Rest(q, E) = Rest(q, D)
  BY OtherWaits
<1> DEFINE eye == Eye(c.field_eval, Wait("field_eval", E), Scanned(E), down, C, d, y, v)
           link == Link(c.sensor_link, c.encoder_link, c.m6.pf[d], c.field_eval.device[d].pf,
                        Rest("encoder_link", E), Rest("m6", E), down, C, d, y, v)
           writer == Writer(c.m6, Rest("m6", E), down, C, d, y, v)
           plc == Plc(c.plc_link, c.m6.out, Cycled(E), Rest("plc_link", E), down, C, y, v)
           gate == Gate(c.cmd_gate, c.contactor, c.plc_link.msg.motor, Wait("cmd_gate", E),
                        down, C, y, v)
           command == Command(c.cmd_gate, c.cmd_mux, c.contactor, Wait("cmd_mux", E),
                              Wait("cmd_gate", E), down, v)
<1>3. p \notin {"field_eval", "scanner"} => eye
  BY <1>1, <1>2, ScannedTurns DEF Counted
<1>4. ASSUME p # "encoder_link", p # "m6" PROVE link
  <2>1. Rest("encoder_link", E) = Rest("encoder_link", D) /\ Rest("m6", E) = Rest("m6", D)
    BY <1>2, <1>4
  <2> HIDE DEF E
  <2>2. QED
    BY <2>1 DEF Counted
<1>5. p # "m6" => writer
  BY <1>2 DEF Counted
<1>6. p \notin {"m6", "plc_link"} => plc
  BY <1>2, CycledTurns DEF Counted
<1>7. p # "cmd_gate" => gate
  BY <1>2 DEF Counted
<1>8. ASSUME p # "cmd_gate", p # "cmd_mux" PROVE command
  <2>1. Wait("cmd_gate", E) = Wait("cmd_gate", D) /\ Wait("cmd_mux", E) = Wait("cmd_mux", D)
    BY <1>2, <1>8
  <2> HIDE DEF E
  <2>2. QED
    BY <2>1 DEF Counted
<1>9. CASE ~OnTick(p)
  <2>1. p \notin {"encoder_link", "m6", "plc_link"}
    BY <1>9 DEF OnTick, Slow
  <2>2. \A q : Wait(q, E) = Wait(q, D)
    BY <1>1, <1>2, <1>9, OwnWait
  <2>3. Scanned(E) = Scanned(D)
    BY <1>1, <1>9, ScannedTurns
  <2>4. eye /\ gate /\ command
    <3>1. /\ Wait("field_eval", E) = Wait("field_eval", D)
          /\ Wait("cmd_gate", E) = Wait("cmd_gate", D) /\ Wait("cmd_mux", E) = Wait("cmd_mux", D)
      BY <2>2
    <3> HIDE DEF E
    <3>2. QED
      BY <2>3, <3>1 DEF Counted
  <2>5. QED
    BY <1>4, <1>5, <1>6, <2>1, <2>4 DEF Counted
<1>10. CASE OnTick(p)
  <2>1. p \in down
    BY <1>10, DueMeans DEF Up
  <2>2. \A q \in down : q = p
    BY <1>1, <2>1 DEF Blame
  <2>3. p \in C /\ \A q \in C : q = p
    BY <1>1, <2>1 DEF Blame
  <2>4. eye
    <3>1. CASE p = "scanner"
      <4>1. Wait("field_eval", E) = Wait("field_eval", D)
        BY <1>2, <3>1
      <4>2. Eye(c.field_eval, Wait("field_eval", D), Scanned(D), down, C, d, y, v)
        BY DEF Counted
      <4>3. QED
        BY <2>1, <3>1, <4>1, <4>2 DEF Eye
    <3>2. CASE p = "field_eval"
      BY <2>1, <3>2 DEF Eye
    <3>3. QED
      BY <1>3, <3>1, <3>2
  <2>5. link
    <3>1. /\ c.m6.pf[d] \in BOOLEAN /\ c.field_eval.device[d].pf \in BOOLEAN
      BY CellParts DEF Writers, Eyes, Seen
    <3>2. CASE p = "encoder_link"
      <4>1. Rest("encoder_link", E) = 0 /\ Rest("m6", E) = Rest("m6", D)
        BY <1>1, <1>2, <3>2, OwnWait
      <4>2. Link(c.sensor_link, c.encoder_link, c.m6.pf[d], c.field_eval.device[d].pf,
                 Rest("encoder_link", D), Rest("m6", D), down, C, d, y, v)
        BY DEF Counted
      <4>3. QED
        BY <1>1, <2>1, <3>1, <3>2, <4>1, <4>2, IdleLink
    <3>3. CASE p = "m6"
      <4>1. Rest("m6", E) = 0 /\ Rest("encoder_link", E) = Rest("encoder_link", D)
        BY <1>1, <1>2, <3>3, OwnWait
      <4>2. Link(c.sensor_link, c.encoder_link, c.m6.pf[d], c.field_eval.device[d].pf,
                 Rest("encoder_link", D), Rest("m6", D), down, C, d, y, v)
        BY DEF Counted
      <4>3. QED
        BY <1>1, <2>1, <3>1, <3>3, <4>1, <4>2, IdleLink
    <3>4. QED
      BY <1>4, <3>2, <3>3
  <2>6. writer
    <3>1. CASE p = "m6"
      BY <2>1, <3>1 DEF Counted, Writer
    <3>2. QED
      BY <1>5, <3>1
  <2>7. plc
    <3>1. Plc(c.plc_link, c.m6.out, Cycled(D), Rest("plc_link", D), down, C, y, v)
      BY DEF Counted
    <3>2. CASE p = "m6"
      <4>1. Rest("plc_link", E) = Rest("plc_link", D)
        BY <1>2, <3>2
      <4>2. QED
        BY <1>1, <2>1, <3>1, <3>2, <4>1, IdlePlc
    <3>3. CASE p = "plc_link"
      <4>1. Rest("plc_link", E) = 0
        BY <1>1, <3>3, OwnWait
      <4>2. QED
        BY <1>1, <2>1, <3>1, <3>3, <4>1, IdlePlc
    <3>4. QED
      BY <1>6, <3>2, <3>3
  <2>8. gate
    <3>1. CASE p = "cmd_gate"
      <4>1. "plc_link" \notin C
        BY <2>3, <3>1
      <4>2. QED
        BY <4>1 DEF Counted, Gate
    <3>2. QED
      BY <1>7, <3>1
  <2>9. command
    <3>1. CASE p = "cmd_gate"
      <4>1. Wait("cmd_mux", E) = Wait("cmd_mux", D)
        BY <1>2, <3>1
      <4>2. down \cap {"nav", "hmi", "cmd_mux"} = {}
        BY <2>2, <3>1
      <4>3. QED
        BY <4>2, CommandFree, CellParts, WaitTypes
    <3>2. CASE p = "cmd_mux"
      <4>1. Wait("cmd_gate", E) = Wait("cmd_gate", D)
        BY <1>2, <3>2
      <4>2. "nav" \notin down
        BY <2>2, <3>2
      <4>3. QED
        BY <4>1, <4>2 DEF Counted, Command
    <3>3. QED
      BY <1>8, <3>1, <3>2
  <2>10. QED
    BY <2>4, <2>5, <2>6, <2>7, <2>8, <2>9 DEF Counted
<1>11. QED
  BY <1>9, <1>10

\* The scanner's turn.
LEMMA ScannerTurn ==
    ASSUME ChainTypeOK, NEW C, NEW d \in Devices, NEW y \in Nat, NEW v \in Nat,
           OfTick(C, d, y, v), NEW D, Placed("scanner", D), Due("scanner"),
           NEW c \in Cells, Counted(c, D, down, C, d, y, v)
    PROVE  Counted(ScanTick(c), D \cup {"scanner"}, down, C, d, y, v)
<1> DEFINE n == ScanTick(c)
           E == D \cup {"scanner"}
<1>1. /\ OtherThan("field_eval", c, n)
      /\ n.field_eval = IF Up("field_eval") THEN [c.field_eval EXCEPT !.raw = body]
                        ELSE c.field_eval
  BY ScanEffect DEF ChainTypeOK
<1>2. /\ n.encoder_link = c.encoder_link /\ n.sensor_link = c.sensor_link /\ n.m6 = c.m6
      /\ n.plc_link = c.plc_link /\ n.cmd_mux = c.cmd_mux /\ n.cmd_gate = c.cmd_gate
      /\ n.contactor = c.contactor
  BY <1>1 DEF OtherThan
<1>3. n.field_eval.device = c.field_eval.device
  BY <1>1, CellParts DEF Eyes
<1>4. /\ Wait("field_eval", E) = Wait("field_eval", D) /\ Cycled(E) = Cycled(D)
      /\ Wait("cmd_gate", E) = Wait("cmd_gate", D) /\ Wait("cmd_mux", E) = Wait("cmd_mux", D)
      /\ Rest("encoder_link", E) = Rest("encoder_link", D) /\ Rest("m6", E) = Rest("m6", D)
      /\ Rest("plc_link", E) = Rest("plc_link", D)
  BY OtherWaits, CycledTurns, ZenonT(60)
<1>5. Eye(n.field_eval, Wait("field_eval", D), Scanned(E), down, C, d, y, v)
  <2>1. Eye(c.field_eval, Wait("field_eval", D), Scanned(D), down, C, d, y, v)
    BY DEF Counted
  <2>2. CASE Up("field_eval")
    <3>1. n.field_eval = [c.field_eval EXCEPT !.raw = body]
      BY <1>1, <2>2
    <3>2. c.field_eval \in Eyes /\ body \in [Devices -> Nat] /\ Wait("field_eval", D) \in 0 .. 2
      BY CellParts, BodyTypes, WaitTypes DEF ChainTypeOK
    <3>3. "scanner" \notin down /\ (body[d] > 10 => y = 0)
      BY DueMeans DEF Up, OfTick
    <3> HIDE DEF n, E
    <3>4. QED
      BY <2>1, <3>1, <3>2, <3>3, EyeScanned
  <2>3. CASE ~Up("field_eval")
    BY <2>3 DEF Eye, Up
  <2>4. QED
    BY <2>2, <2>3
<1> HIDE DEF n, E
<1>6. Counted(n, E, down, C, d, y, v)
  BY <1>2, <1>3, <1>4, <1>5 DEF Counted
<1>7. QED
  BY <1>6 DEF n, E

\* The turn of field_eval.
LEMMA EvalTurn ==
    ASSUME ChainTypeOK, NEW C, NEW d \in Devices, NEW y \in Nat, NEW v \in Nat,
           OfTick(C, d, y, v), NEW D, Placed("field_eval", D), Due("field_eval"),
           NEW c \in Cells, Counted(c, D, down, C, d, y, v)
    PROVE  Counted(FieldEvalTick(c), D \cup {"field_eval"}, down, C, d, y, v)
<1> DEFINE n == FieldEvalTick(c)
           E == D \cup {"field_eval"}
           x == Evaluated(c.field_eval)
<1>1. /\ n.field_eval = x /\ n.sensor_link = Sent(c.sensor_link, x)
      /\ n.encoder_link = c.encoder_link /\ n.m6 = c.m6 /\ n.plc_link = c.plc_link
      /\ n.cmd_mux = c.cmd_mux /\ n.cmd_gate = c.cmd_gate /\ n.contactor = c.contactor
  BY EvalEffect
<1>2. /\ Wait("field_eval", D) = 2 /\ Wait("field_eval", E) = 0
      /\ Scanned(D) = TRUE /\ Scanned(E) = FALSE
  BY DueMeans, OwnWait, ScannedTurns DEF Placed, ChainTypeOK
<1>3. /\ Cycled(E) = Cycled(D)
      /\ Wait("cmd_gate", E) = Wait("cmd_gate", D) /\ Wait("cmd_mux", E) = Wait("cmd_mux", D)
      /\ Rest("encoder_link", E) = Rest("encoder_link", D) /\ Rest("m6", E) = Rest("m6", D)
      /\ Rest("plc_link", E) = Rest("plc_link", D)
  BY OtherWaits, CycledTurns, ZenonT(60)
<1>4. Blame(down, C) /\ (down = {} => v = 0) /\ "field_eval" \notin down
  BY DueMeans DEF OfTick, Up
<1>5. c.field_eval \in Eyes /\ c.sensor_link \in Senders /\ c.encoder_link \in Encoders
      /\ c.m6 \in Writers
  BY CellParts
<1>6. x \in Eyes
  BY <1>5, EvaluatedTypes
<1>7. Eye(x, 0, FALSE, down, C, d, y, v)
  <2>1. Eye(c.field_eval, 2, TRUE, down, C, d, y, v)
    BY <1>2 DEF Counted
  <2>2. QED
    BY <1>4, <1>5, <2>1, EyeEvaluated DEF Blame
<1> HIDE DEF x
<1>8. x.device[d].pf => y <= SendBound(C) /\ ("scanner" \in down => v <= 10)
  <2>1. FALSE \in BOOLEAN /\ 0 \in 0 .. 2
    OBVIOUS
  <2>2. x.device[d].pf => y <= SendBound(C) + 0 /\ ("scanner" \in down => v <= 10 + 0)
    BY <1>4, <1>6, <1>7, <2>1, EyeBounds
  <2>3. SendBound(C) \in Nat
    BY DEF SendBound
  <2>4. QED
    BY <2>2, <2>3
<1>9. Link(n.sensor_link, c.encoder_link, c.m6.pf[d], x.device[d].pf,
           Rest("encoder_link", D), Rest("m6", D), down, C, d, y, v)
  <2> DEFINE l == c.sensor_link
             seen == c.field_eval.device[d].pf
             held == c.m6.pf[d]
             new == x.device[d].pf
             re == Rest("encoder_link", D)
             rm == Rest("m6", D)
  <2>1. Link(l, c.encoder_link, held, seen, re, rm, down, C, d, y, v)
    BY DEF Counted
  <2>2. held \in BOOLEAN /\ seen \in BOOLEAN /\ new \in BOOLEAN
    BY <1>5, <1>6 DEF Writers, Eyes, Seen
  <2>3. re \in 0 .. 1 /\ rm \in 0 .. 1
    BY WaitTypes
  <2> DEFINE t == n.sensor_link
  <2>4. /\ t.pair = l.pair /\ t.heard = l.heard
        /\ IF "sensor_link" \in down \/ l.pair = None \/ l.heard >= ENCODERS_STALE
           THEN t.out = l.out ELSE t.out # None /\ t.out.pf[d] = new
    <3>1. CASE "sensor_link" \in down \/ l.pair = None \/ l.heard >= ENCODERS_STALE
      BY <1>1, <3>1 DEF Sent, Up
    <3>2. CASE ~("sensor_link" \in down \/ l.pair = None \/ l.heard >= ENCODERS_STALE)
      <4>1. l.pair \in Speeds
        BY <1>5, <3>2 DEF Senders
      <4>2. Datagram(x, l.pair) \in Datagrams /\ Datagram(x, l.pair).pf[d] = new
        BY <1>6, <4>1, DatagramTypes
      <4>3. t = [l EXCEPT !.out = Datagram(x, l.pair)]
        BY <1>1, <3>2 DEF Sent, Up
      <4>4. t.pair = l.pair /\ t.heard = l.heard /\ t.out = Datagram(x, l.pair)
        BY <1>5, <4>3 DEF Senders
      <4>5. QED
        BY <3>2, <4>2, <4>4, NotHeard
    <3>3. QED
      BY <3>1, <3>2
  <2>5. (new => y <= SendBound(C)) /\ (new /\ "scanner" \in down => v <= 10)
    BY <1>8
  <2> HIDE DEF l, held, seen, new, re, rm, t
  <2>6. Link(t, c.encoder_link, held, new, re, rm, down, C, d, y, v)
    BY <1>4, <1>5, <2>1, <2>2, <2>3, <2>4, <2>5, LinkEvaluated, SMTT(60) DEF l
  <2>7. QED
    BY <2>6 DEF held, new, re, rm, t
<1> HIDE DEF n, E
<1>10. Counted(n, E, down, C, d, y, v)
  BY <1>1, <1>2, <1>3, <1>7, <1>9 DEF Counted
<1>11. QED
  BY <1>10 DEF n, E

\* The turn of encoder_link.
LEMMA EncoderTurn ==
    ASSUME ChainTypeOK, NEW C, NEW d \in Devices, NEW y \in Nat, NEW v \in Nat,
           OfTick(C, d, y, v), NEW D, Placed("encoder_link", D), Due("encoder_link"),
           NEW c \in Cells, Counted(c, D, down, C, d, y, v)
    PROVE  Counted(EncoderTick(c), D \cup {"encoder_link"}, down, C, d, y, v)
<1> DEFINE n == EncoderTick(c)
           E == D \cup {"encoder_link"}
<1>1. /\ n.encoder_link.heard = (IF "encoder" \notin down THEN 0 ELSE c.encoder_link.heard)
      /\ "encoder" \notin down => n.encoder_link.shaft = c.contactor.terminal
      /\ n.sensor_link.out = c.sensor_link.out
      /\ n.sensor_link.pair = (IF "sensor_link" \in down THEN c.sensor_link.pair
                               ELSE IF n.encoder_link.heard >= ENC_STALE THEN None
                               ELSE n.encoder_link.shaft)
      /\ n.sensor_link.heard = (IF "sensor_link" \in down THEN c.sensor_link.heard ELSE 0)
  BY EncoderEffect DEF Up
<1>2. /\ n.field_eval = c.field_eval /\ n.m6 = c.m6 /\ n.plc_link = c.plc_link
      /\ n.cmd_mux = c.cmd_mux /\ n.cmd_gate = c.cmd_gate /\ n.contactor = c.contactor
  BY EncoderEffect
<1>3. /\ Wait("field_eval", E) = Wait("field_eval", D) /\ Scanned(E) = Scanned(D)
      /\ Cycled(E) = Cycled(D)
      /\ Wait("cmd_gate", E) = Wait("cmd_gate", D) /\ Wait("cmd_mux", E) = Wait("cmd_mux", D)
      /\ Rest("encoder_link", D) = 1 /\ Rest("encoder_link", E) = 0
      /\ Rest("m6", E) = Rest("m6", D) /\ Rest("plc_link", E) = Rest("plc_link", D)
  <2>1. Scanned(E) = Scanned(D) /\ Cycled(E) = Cycled(D)
    BY ScannedTurns, CycledTurns DEF ChainTypeOK
  <2>2. Rest("encoder_link", D) = 1 /\ Rest("encoder_link", E) = 0
    BY OwnWait DEF Placed
  <2>3. /\ Wait("field_eval", E) = Wait("field_eval", D)
        /\ Wait("cmd_gate", E) = Wait("cmd_gate", D) /\ Wait("cmd_mux", E) = Wait("cmd_mux", D)
        /\ Rest("m6", E) = Rest("m6", D) /\ Rest("plc_link", E) = Rest("plc_link", D)
    BY OtherWaits, ZenonT(60)
  <2>4. QED
    BY <2>1, <2>2, <2>3
<1>4. /\ Blame(down, C) /\ "encoder_link" \notin down /\ c.sensor_link \in Senders
      /\ c.encoder_link \in Encoders /\ c.contactor.terminal \in Speeds
      /\ c.m6.pf[d] \in BOOLEAN /\ c.field_eval.device[d].pf \in BOOLEAN
  BY DueMeans, CellParts DEF OfTick, Up, Contacts, Writers, Eyes, Seen
<1>5. Link(c.sensor_link, c.encoder_link, c.m6.pf[d], c.field_eval.device[d].pf,
           1, Rest("m6", D), down, C, d, y, v)
  BY <1>3 DEF Counted
<1> HIDE DEF n, E
<1>6. Link(n.sensor_link, n.encoder_link, c.m6.pf[d], c.field_eval.device[d].pf,
           0, Rest("m6", D), down, C, d, y, v)
  BY <1>1, <1>4, <1>5, LinkEncoded, SMTT(40)
<1>7. Counted(n, E, down, C, d, y, v)
  BY <1>2, <1>3, <1>6 DEF Counted
<1>8. QED
  BY <1>7 DEF n, E

\* The writer's turn.
LEMMA WriterTurn ==
    ASSUME ChainTypeOK, NEW C, NEW d \in Devices, NEW y \in Nat, NEW v \in Nat,
           OfTick(C, d, y, v), NEW D, Placed("m6", D), Due("m6"),
           NEW c \in Cells, Counted(c, D, down, C, d, y, v)
    PROVE  Counted(WriterCycle(c), D \cup {"m6"}, down, C, d, y, v)
<1> DEFINE n == WriterCycle(c)
           E == D \cup {"m6"}
           m == c.m6
           l == c.sensor_link
           seen == c.field_eval.device[d].pf
           re == Rest("encoder_link", D)
<1>1. /\ n.m6 = Cycle(m, l.out) /\ n.sensor_link.pair = l.pair
      /\ n.sensor_link.heard = l.heard /\ n.sensor_link.out = None
      /\ n.field_eval = c.field_eval /\ n.encoder_link = c.encoder_link
      /\ n.plc_link = c.plc_link /\ n.cmd_mux = c.cmd_mux /\ n.cmd_gate = c.cmd_gate
      /\ n.contactor = c.contactor
  BY CycleEffect
<1>2. /\ Wait("field_eval", E) = Wait("field_eval", D) /\ Scanned(E) = Scanned(D)
      /\ Wait("cmd_gate", E) = Wait("cmd_gate", D) /\ Wait("cmd_mux", E) = Wait("cmd_mux", D)
      /\ Rest("m6", D) = 1 /\ Rest("m6", E) = 0
      /\ Rest("encoder_link", E) = re /\ Rest("plc_link", E) = Rest("plc_link", D)
      /\ Rest("plc_link", D) \in 0 .. 1 /\ Wait("field_eval", D) \in 0 .. 2
      /\ Scanned(D) \in BOOLEAN
  <2>1. Scanned(E) = Scanned(D)
    BY ScannedTurns DEF ChainTypeOK
  <2>2. Rest("m6", D) = 1 /\ Rest("m6", E) = 0
    BY OwnWait DEF Placed
  <2>3. /\ Wait("field_eval", E) = Wait("field_eval", D)
        /\ Wait("cmd_gate", E) = Wait("cmd_gate", D) /\ Wait("cmd_mux", E) = Wait("cmd_mux", D)
        /\ Rest("encoder_link", E) = re /\ Rest("plc_link", E) = Rest("plc_link", D)
    BY OtherWaits, ZenonT(60)
  <2>4. /\ Rest("plc_link", D) \in 0 .. 1 /\ Wait("field_eval", D) \in 0 .. 2
        /\ Scanned(D) \in BOOLEAN
    BY WaitTypes
  <2>5. QED
    BY <2>1, <2>2, <2>3, <2>4
<1>3. /\ Blame(down, C) /\ (down = {} => v = 0) /\ "m6" \notin down /\ m \in Writers
      /\ l \in Senders /\ c.encoder_link \in Encoders /\ c.plc_link \in Links
      /\ c.field_eval \in Eyes /\ m.pf[d] \in BOOLEAN /\ seen \in BOOLEAN
  BY DueMeans, CellParts DEF OfTick, Up, Writers, Eyes, Seen
<1>4. l.out \in Datagrams \cup {None}
  BY <1>3 DEF Senders
<1>5. /\ n.m6 \in Writers /\ n.m6.out # None
      /\ n.m6.pf[d] = IF l.out # None THEN l.out.pf[d] ELSE m.heard < SENSOR_STALE /\ m.pf[d]
  BY <1>1, <1>3, <1>4, CycleTypes
<1>6. /\ Eye(c.field_eval, Wait("field_eval", D), Scanned(D), down, C, d, y, v)
      /\ Link(l, c.encoder_link, m.pf[d], seen, re, 1, down, C, d, y, v)
      /\ Writer(m, 1, down, C, d, y, v)
      /\ Plc(c.plc_link, m.out, Cycled(D), Rest("plc_link", D), down, C, y, v)
  BY <1>2 DEF Counted
<1>7. seen /\ "field_eval" \notin down =>
         /\ y <= SendBound(C) + 2
         /\ "scanner" \in down => v <= 12
  <2>1. seen /\ "field_eval" \notin down =>
            /\ y <= SendBound(C) + Wait("field_eval", D)
            /\ "scanner" \in down => v <= 10 + Wait("field_eval", D)
    BY <1>2, <1>3, <1>6, EyeBounds
  <2>2. SendBound(C) \in Nat
    BY DEF SendBound
  <2> HIDE DEF seen
  <2>3. QED
    BY <1>2, <2>1, <2>2
<1> HIDE DEF n, E, m, l, seen, re
<1>8. Writer(n.m6, 0, down, C, d, y, v)
  BY <1>1, <1>3, <1>6, <1>7, WriterCycles
<1>9. n.m6.pf[d] \in BOOLEAN /\ (n.m6.pf[d] => IF l.out # None THEN l.out.pf[d] ELSE m.pf[d])
  BY <1>5 DEF Writers
<1>10. Link(n.sensor_link, c.encoder_link, n.m6.pf[d], seen, re, 0, down, C, d, y, v)
  BY <1>1, <1>3, <1>6, <1>9, LinkTaken
<1>11. Plc(c.plc_link, n.m6.out, Cycled(E), Rest("plc_link", D), down, C, y, v)
  BY <1>2, <1>3, <1>5, <1>6, <1>8, PlcAnswered
<1>12. Counted(n, E, down, C, d, y, v)
  BY <1>1, <1>2, <1>6, <1>8, <1>10, <1>11 DEF Counted, seen, re
<1>13. QED
  BY <1>12 DEF n, E

\* The writer, whose answer has been taken.
LEMMA WriterTaken ==
    ASSUME NEW X, NEW C, NEW d \in Devices, NEW y, NEW v, NEW m \in Writers, NEW rm,
           Writer(m, rm, X, C, d, y, v)
    PROVE  /\ [m EXCEPT !.out = None] \in Writers
           /\ [m EXCEPT !.out = None].out = None
           /\ Writer([m EXCEPT !.out = None], rm, X, C, d, y, v)
<1> DEFINE n == [m EXCEPT !.out = None]
<1>1. n \in Writers
  BY DEF Writers
<1>2. n.out = None /\ n.pf = m.pf /\ n.latched = m.latched /\ n.heard = m.heard
  BY DEF Writers
<1> HIDE DEF n
<1>3. Writer(n, rm, X, C, d, y, v)
  BY <1>2 DEF Writer
<1>4. QED
  BY <1>1, <1>2, <1>3 DEF n

\* The turn of plc_link.
LEMMA RelayTurn ==
    ASSUME ChainTypeOK, NEW C, NEW d \in Devices, NEW y \in Nat, NEW v \in Nat,
           OfTick(C, d, y, v), NEW D, Placed("plc_link", D), Due("plc_link"),
           NEW c \in Cells, Counted(c, D, down, C, d, y, v)
    PROVE  Counted(PlcLinkTick(c), D \cup {"plc_link"}, down, C, d, y, v)
<1> DEFINE n == PlcLinkTick(c)
           E == D \cup {"plc_link"}
           b == Relayed(c.plc_link, c.m6.out)
<1>1. /\ n.plc_link = b /\ n.m6 = [c.m6 EXCEPT !.out = None]
      /\ n.field_eval.device = c.field_eval.device /\ n.field_eval.raw = c.field_eval.raw
      /\ IF Up("cmd_gate") THEN n.cmd_gate.motor = b.msg.motor /\ n.cmd_gate.heard = 0
         ELSE n.cmd_gate = c.cmd_gate
      /\ n.cmd_gate.cmd = c.cmd_gate.cmd /\ n.cmd_gate.cmdHeard = c.cmd_gate.cmdHeard
      /\ n.contactor = Demand(c.contactor, ~b.msg.motor)
      /\ n.encoder_link = c.encoder_link /\ n.sensor_link = c.sensor_link
      /\ n.cmd_mux = c.cmd_mux
  BY RelayEffect
<1>2. /\ Wait("field_eval", E) = Wait("field_eval", D)
      /\ Wait("cmd_gate", E) = Wait("cmd_gate", D) /\ Wait("cmd_mux", E) = Wait("cmd_mux", D)
      /\ Rest("encoder_link", E) = Rest("encoder_link", D) /\ Rest("m6", E) = Rest("m6", D)
  BY OtherWaits, ZenonT(60)
<1>3. Scanned(E) = Scanned(D)
  BY ScannedTurns DEF ChainTypeOK
<1>4. Cycled(D) = FALSE /\ Cycled(E) = TRUE
  BY CycledTurns
<1>5. Rest("plc_link", D) = 1 /\ Rest("plc_link", E) = 0
  BY OwnWait DEF Placed
<1>6. Rest("m6", D) \in 0 .. 1 /\ Wait("cmd_gate", D) \in 0 .. 2
  BY WaitTypes
<1>7. /\ Blame(down, C) /\ (down = {} => v = 0) /\ "plc_link" \notin down
      /\ c.m6 \in Writers /\ c.plc_link \in Links /\ c.cmd_gate \in Gates
      /\ c.contactor \in Contacts
  BY DueMeans, CellParts DEF OfTick, Up
<1>8. c.m6.out \in Answers \cup {None}
  BY <1>7 DEF Writers
<1>9. b \in Links
  BY <1>7, <1>8, RelayedTypes
<1>10. b.msg.motor \in BOOLEAN
  BY <1>9 DEF Links, Answers
<1>11. /\ Writer(c.m6, Rest("m6", D), down, C, d, y, v)
       /\ Plc(c.plc_link, c.m6.out, FALSE, 1, down, C, y, v)
       /\ Gate(c.cmd_gate, c.contactor, c.plc_link.msg.motor, Wait("cmd_gate", D), down, C, y, v)
       /\ Command(c.cmd_gate, c.cmd_mux, c.contactor, Wait("cmd_mux", D),
                  Wait("cmd_gate", D), down, v)
  BY <1>4, <1>5 DEF Counted
<1>12. Plc(b, None, TRUE, 0, down, C, y, v)
  BY <1>6, <1>7, <1>11, PlcRelays
<1>13. n.m6.out = None /\ n.m6.pf = c.m6.pf /\ Writer(n.m6, Rest("m6", D), down, C, d, y, v)
  <2>1. n.m6.pf = c.m6.pf
    BY <1>1, <1>7 DEF Writers
  <2>2. QED
    BY <1>1, <1>7, <1>11, <2>1, WriterTaken
<1> HIDE DEF b, n, E
<1>14. Gate(n.cmd_gate, n.contactor, b.msg.motor, Wait("cmd_gate", D), down, C, y, v)
  <2>1. IF "cmd_gate" \notin down THEN n.cmd_gate.motor = b.msg.motor /\ n.cmd_gate.heard = 0
        ELSE n.cmd_gate = c.cmd_gate
    BY <1>1 DEF Up
  <2>2. "plc_link" \in C /\ b.msg.motor => y <= 9
    <3>1. "plc_link" \in C => EnableBound(C) = 9 /\ "m6" \notin C
      BY <1>7, EnableBounds DEF Sensors, Blame
    <3>2. QED
      BY <1>7, <1>12, <3>1 DEF Plc
  <2> DEFINE t == b.msg.motor
             h == n.cmd_gate
             q == n.contactor
  <2>3. (q.off => q.terminal = 0) /\ (q.terminal # 0 => t)
    <3>1. c.contactor.off => c.contactor.terminal = 0
      BY <1>11 DEF Gate
    <3>2. QED
      BY <1>1, <1>7, <1>10, <3>1, Demanded
  <2>4. t \in BOOLEAN
    BY <1>10
  <2> HIDE DEF h, q, t
  <2>5. Gate(h, q, t, Wait("cmd_gate", D), down, C, y, v)
    <3>1. c.plc_link.msg.motor \in BOOLEAN
      BY <1>7 DEF Links, Answers
    <3>2. /\ "cmd_gate" \notin down => h.motor = t /\ h.heard = 0
          /\ "cmd_gate" \in down => h = c.cmd_gate
      BY <2>1 DEF h, t
    <3>3. "plc_link" \in C /\ t => y <= 9
      BY <2>2 DEF t
    <3> DEFINE g == c.cmd_gate
               k == c.contactor
               o == c.plc_link.msg.motor
               w == Wait("cmd_gate", D)
    <3>4. /\ Gate(g, k, o, w, down, C, y, v) /\ o \in BOOLEAN /\ w \in 0 .. 2
          /\ g \in Gates /\ k \in Contacts /\ Blame(down, C) /\ (down = {} => v = 0)
          /\ "plc_link" \notin down
      BY <1>6, <1>7, <1>11, <3>1
    <3>5. "cmd_gate" \in down => h.motor = g.motor /\ h.heard = g.heard
      BY <3>2
    <3> HIDE DEF g, k, o, w
    <3>6. Gate(h, q, t, w, down, C, y, v)
      BY <2>3, <2>4, <3>2, <3>3, <3>4, <3>5, GateRelayed
    <3>7. QED
      BY <3>6 DEF w
  <2>6. QED
    BY <2>5 DEF h, q, t
<1>15. n.contactor.terminal # 0 => c.contactor.terminal # 0
  BY <1>1, <1>7 DEF Demand, Contacts
<1>16. Command(n.cmd_gate, n.cmd_mux, n.contactor, Wait("cmd_mux", D), Wait("cmd_gate", D),
               down, v)
  BY <1>1, <1>11, <1>15, CommandFalls
<1>17. Eye(n.field_eval, Wait("field_eval", D), Scanned(D), down, C, d, y, v)
  <2>1. Eye(c.field_eval, Wait("field_eval", D), Scanned(D), down, C, d, y, v)
    BY DEF Counted
  <2>2. QED
    BY <1>1, <2>1 DEF Eye
<1>18. Link(n.sensor_link, n.encoder_link, n.m6.pf[d], n.field_eval.device[d].pf,
            Rest("encoder_link", D), Rest("m6", D), down, C, d, y, v)
  BY <1>1, <1>13 DEF Counted
<1>19. Plc(n.plc_link, n.m6.out, TRUE, 0, down, C, y, v)
  BY <1>1, <1>12, <1>13
<1>20. Gate(n.cmd_gate, n.contactor, n.plc_link.msg.motor, Wait("cmd_gate", D), down, C, y, v)
  BY <1>1, <1>14
<1>21. Counted(n, E, down, C, d, y, v)
  BY <1>2, <1>3, <1>4, <1>5, <1>13, <1>16, <1>17, <1>18, <1>19, <1>20 DEF Counted
<1>22. QED
  BY <1>21 DEF n, E

\* A turn of who commands: what supervises the truck stays as it is.
LEMMA CommandFrame ==
    ASSUME ChainTypeOK, NEW C, NEW d \in Devices, NEW y \in Nat, NEW v \in Nat,
           NEW p \in {"nav", "hmi", "cmd_mux"}, NEW D, Placed(p, D),
           NEW c \in Cells, Counted(c, D, down, C, d, y, v), NEW n,
           n.field_eval = c.field_eval, n.encoder_link = c.encoder_link,
           n.sensor_link = c.sensor_link, n.m6 = c.m6, n.plc_link = c.plc_link,
           Gate(n.cmd_gate, n.contactor, c.plc_link.msg.motor, Wait("cmd_gate", D),
                down, C, y, v),
           Command(n.cmd_gate, n.cmd_mux, n.contactor, Wait("cmd_mux", D \cup {p}),
                   Wait("cmd_gate", D), down, v)
    PROVE  Counted(n, D \cup {p}, down, C, d, y, v)
<1> DEFINE E == D \cup {p}
<1>1. /\ Wait("field_eval", E) = Wait("field_eval", D)
      /\ Wait("cmd_gate", E) = Wait("cmd_gate", D)
      /\ Rest("encoder_link", E) = Rest("encoder_link", D) /\ Rest("m6", E) = Rest("m6", D)
      /\ Rest("plc_link", E) = Rest("plc_link", D)
  <2>1. \A q : q # p => Wait(q, E) = Wait(q, D) /\ Rest(q, E) = Rest(q, D)
    BY OtherWaits
  <2>2. p \notin {"field_eval", "cmd_gate", "encoder_link", "m6", "plc_link"}
    OBVIOUS
  <2> HIDE DEF E
  <2>3. QED
    BY <2>1, <2>2
<1>2. Scanned(E) = Scanned(D)
  BY ScannedTurns DEF ChainTypeOK
<1>3. Cycled(E) = Cycled(D)
  BY CycledTurns
<1>4. Command(n.cmd_gate, n.cmd_mux, n.contactor, Wait("cmd_mux", E),
              Wait("cmd_gate", D), down, v)
  OBVIOUS
<1> HIDE DEF E
<1>5. /\ Eye(n.field_eval, Wait("field_eval", E), Scanned(E), down, C, d, y, v)
      /\ Writer(n.m6, Rest("m6", E), down, C, d, y, v)
      /\ Plc(n.plc_link, n.m6.out, Cycled(E), Rest("plc_link", E), down, C, y, v)
      /\ Gate(n.cmd_gate, n.contactor, n.plc_link.msg.motor, Wait("cmd_gate", E),
              down, C, y, v)
      /\ Command(n.cmd_gate, n.cmd_mux, n.contactor, Wait("cmd_mux", E),
                 Wait("cmd_gate", E), down, v)
  <2>1. /\ Eye(c.field_eval, Wait("field_eval", D), Scanned(D), down, C, d, y, v)
        /\ Writer(c.m6, Rest("m6", D), down, C, d, y, v)
        /\ Plc(c.plc_link, c.m6.out, Cycled(D), Rest("plc_link", D), down, C, y, v)
    BY DEF Counted
  <2>2. Eye(n.field_eval, Wait("field_eval", E), Scanned(E), down, C, d, y, v)
    BY <1>1, <1>2, <2>1
  <2>3. Writer(n.m6, Rest("m6", E), down, C, d, y, v)
    BY <1>1, <2>1
  <2>4. Plc(n.plc_link, n.m6.out, Cycled(E), Rest("plc_link", E), down, C, y, v)
    BY <1>1, <1>3, <2>1
  <2>5. Gate(n.cmd_gate, n.contactor, n.plc_link.msg.motor, Wait("cmd_gate", E),
             down, C, y, v)
    BY <1>1
  <2>6. Command(n.cmd_gate, n.cmd_mux, n.contactor, Wait("cmd_mux", E),
                Wait("cmd_gate", E), down, v)
    BY <1>1, <1>4
  <2>7. QED
    BY <2>2, <2>3, <2>4, <2>5, <2>6
<1>6. Link(n.sensor_link, n.encoder_link, n.m6.pf[d], n.field_eval.device[d].pf,
           Rest("encoder_link", E), Rest("m6", E), down, C, d, y, v)
  <2>1. Link(c.sensor_link, c.encoder_link, c.m6.pf[d], c.field_eval.device[d].pf,
             Rest("encoder_link", D), Rest("m6", D), down, C, d, y, v)
    BY DEF Counted
  <2>2. QED
    BY <1>1, <2>1
<1>7. Counted(n, E, down, C, d, y, v)
  BY <1>5, <1>6 DEF Counted
<1>8. QED
  BY <1>7 DEF E

\* The gate hears an enable of plc_link.
LEMMA GateHears ==
    ASSUME NEW C, NEW y \in Nat, NEW v \in Nat, NEW c \in Cells, NEW cmd \in {0, Full},
           NEW motor \in BOOLEAN, NEW wg \in 0 .. 2,
           Gate(c.cmd_gate, c.contactor, motor, wg, down, C, y, v)
    PROVE  Gate(CbCmd(c, cmd).cmd_gate, CbCmd(c, cmd).contactor, motor, wg, down, C, y, v)
<1> DEFINE n == CbCmd(c, cmd)
<1>1. CASE ~Up("cmd_gate")
  BY <1>1, CommandEffect
<1>2. CASE Up("cmd_gate")
  <2>1. /\ n.cmd_gate.motor = c.cmd_gate.motor /\ n.cmd_gate.heard = c.cmd_gate.heard
        /\ n.contactor.off = c.contactor.off
        /\ n.contactor.terminal # 0 =>
              \/ c.contactor.off /\ c.contactor.terminal # 0
              \/ c.cmd_gate.motor /\ c.cmd_gate.heard < STATUS_STALE /\ ~c.contactor.off
    BY <1>2, CommandEffect
  <2>2. c.cmd_gate \in Gates /\ c.contactor \in Contacts /\ "cmd_gate" \notin down
    BY <1>2, CellParts DEF Up
  <2> HIDE DEF n
  <2>3. Gate(n.cmd_gate, n.contactor, motor, wg, down, C, y, v)
    BY <2>1, <2>2, GateLets
  <2>4. QED
    BY <2>3 DEF n
<1>3. QED
  BY <1>1, <1>2

\* Where what commands the truck has not been quiet, or nobody misses it.
LEMMA CommandHears ==
    ASSUME NEW v \in Nat, v = 0 \/ down \cap {"nav", "hmi", "cmd_mux"} = {},
           NEW n \in Cells, NEW p, NEW q, NEW D, NEW E
    PROVE  Command(n.cmd_gate, n.cmd_mux, n.contactor, Wait(p, D), Wait(q, E), down, v)
<1>1. n.cmd_gate \in Gates /\ n.cmd_mux \in Muxes
  BY CellParts
<1>2. Wait(p, D) \in 0 .. 2 /\ Wait(q, E) \in 0 .. 2
  BY WaitTypes
<1>3. QED
  BY <1>1, <1>2, CommandFree

\* The mux hears nav.
LEMMA NavEffect ==
    ASSUME NEW c \in Cells
    PROVE  LET h == [c EXCEPT !.cmd_mux.heard = 0]
           IN  /\ h \in Cells /\ OtherThan("cmd_mux", c, h)
               /\ h.cmd_mux.auto = c.cmd_mux.auto /\ h.cmd_mux.heard = 0
               /\ MuxPublish(h) = CbCmd(h, Full)
<1> DEFINE x == [c.cmd_mux EXCEPT !.heard = 0]
           h == [c EXCEPT !.cmd_mux.heard = 0]
           g == [c EXCEPT !.cmd_mux = x]
<1>1. h = g
  BY DEF Cells
<1>2. c.cmd_mux \in Muxes
  BY CellParts
<1>3. x \in Muxes /\ x.auto = c.cmd_mux.auto /\ x.heard = 0
  BY <1>2, Ages DEF Muxes
<1> HIDE DEF x
<1>4. g \in Cells /\ g.cmd_mux = x /\ OtherThan("cmd_mux", c, g)
  BY <1>3, SetMux
<1> HIDE DEF g, h
<1>5. MuxPublish(h) = CbCmd(h, Full)
  BY <1>1, <1>3, <1>4, Ages DEF MuxPublish
<1>6. QED
  BY <1>1, <1>3, <1>4, <1>5 DEF h

\* The turn of nav.
LEMMA NavTurn ==
    ASSUME ChainTypeOK, NEW C, NEW d \in Devices, NEW y \in Nat, NEW v \in Nat,
           OfTick(C, d, y, v), NEW D, Placed("nav", D), Due("nav"),
           NEW c \in Cells, c.cmd_mux.auto = cell.cmd_mux.auto,
           Counted(c, D, down, C, d, y, v)
    PROVE  Counted(NavTick(c), D \cup {"nav"}, down, C, d, y, v)
<1> DEFINE h == [c EXCEPT !.cmd_mux.heard = 0]
           n == CbCmd(h, Full)
           E == D \cup {"nav"}
<1>1. /\ h \in Cells /\ OtherThan("cmd_mux", c, h) /\ h.cmd_mux.auto = c.cmd_mux.auto
      /\ MuxPublish(h) = n
  BY NavEffect
<1>2. NavTick(c) = IF ~Up("cmd_mux") THEN c ELSE IF c.cmd_mux.auto THEN n ELSE h
  BY <1>1 DEF NavTick
<1> HIDE DEF h
<1>3. "nav" \notin down /\ Blame(down, C)
  BY DueMeans DEF Up, OfTick
<1>4. Wait("cmd_gate", D) \in 0 .. 2 /\ c.plc_link.msg.motor \in BOOLEAN
  BY WaitTypes, CellParts DEF Links, Answers
<1>5. /\ Gate(c.cmd_gate, c.contactor, c.plc_link.msg.motor, Wait("cmd_gate", D), down, C, y, v)
      /\ Command(c.cmd_gate, c.cmd_mux, c.contactor, Wait("cmd_mux", D),
                 Wait("cmd_gate", D), down, v)
  BY DEF Counted
<1>6. Wait("cmd_mux", E) = Wait("cmd_mux", D)
  BY OtherWaits
<1> HIDE DEF E
<1>7. h.cmd_gate = c.cmd_gate /\ h.contactor = c.contactor /\ h.plc_link = c.plc_link
      /\ h.field_eval = c.field_eval /\ h.encoder_link = c.encoder_link
      /\ h.sensor_link = c.sensor_link /\ h.m6 = c.m6
  BY <1>1 DEF OtherThan
<1>8. CASE ~Up("cmd_mux")
  BY <1>2, <1>5, <1>6, <1>8, CommandFrame DEF E
<1>9. CASE Up("cmd_mux") /\ ~c.cmd_mux.auto
  <2>1. Command(h.cmd_gate, h.cmd_mux, h.contactor, Wait("cmd_mux", E),
                Wait("cmd_gate", D), down, v)
    BY <1>3, <1>5, <1>6, <1>7, CommandHeard
  <2>2. Counted(h, E, down, C, d, y, v)
    BY <1>5, <1>7, <2>1, CommandFrame DEF E
  <2>3. QED
    BY <1>2, <1>9, <2>2 DEF E
<1>10. CASE Up("cmd_mux") /\ c.cmd_mux.auto
  <2>1. Full \in {0, Full}
    OBVIOUS
  <2>2. v = 0 \/ down \cap {"nav", "hmi", "cmd_mux"} = {}
    BY <1>3, <1>10 DEF OfTick, Up
  <2>3. /\ n \in Cells
        /\ n.field_eval = c.field_eval /\ n.encoder_link = c.encoder_link
        /\ n.sensor_link = c.sensor_link /\ n.m6 = c.m6 /\ n.plc_link = c.plc_link
    BY <1>1, <1>7, <2>1, CommandEffect
  <2>4. Gate(n.cmd_gate, n.contactor, c.plc_link.msg.motor, Wait("cmd_gate", D), down, C, y, v)
    BY <1>1, <1>4, <1>5, <1>7, <2>1, GateHears
  <2> HIDE DEF n
  <2>5. Command(n.cmd_gate, n.cmd_mux, n.contactor, Wait("cmd_mux", E),
                Wait("cmd_gate", D), down, v)
    BY <2>2, <2>3, CommandHears
  <2>6. Counted(n, E, down, C, d, y, v)
    BY <2>3, <2>4, <2>5, CommandFrame DEF E
  <2>7. QED
    BY <1>2, <1>10, <2>6 DEF E
<1>11. QED
  BY <1>8, <1>9, <1>10

\* The window's turn.
LEMMA HmiTurn ==
    ASSUME ChainTypeOK, NEW C, NEW d \in Devices, NEW y \in Nat, NEW v \in Nat,
           OfTick(C, d, y, v), NEW D, Placed("hmi", D), Due("hmi"),
           NEW c \in Cells, c.cmd_mux.auto = cell.cmd_mux.auto,
           Counted(c, D, down, C, d, y, v)
    PROVE  Counted(HmiTick(c), D \cup {"hmi"}, down, C, d, y, v)
<1> DEFINE n == CbCmd(c, Full)
           E == D \cup {"hmi"}
<1>1. HmiTick(c) = IF Up("cmd_mux") /\ ~c.cmd_mux.auto THEN n ELSE c
  BY DEF HmiTick, MuxPublish
<1>2. "hmi" \notin down /\ Blame(down, C)
  BY DueMeans DEF Up, OfTick
<1>3. Wait("cmd_gate", D) \in 0 .. 2 /\ c.plc_link.msg.motor \in BOOLEAN
  BY WaitTypes, CellParts DEF Links, Answers
<1>4. /\ Gate(c.cmd_gate, c.contactor, c.plc_link.msg.motor, Wait("cmd_gate", D), down, C, y, v)
      /\ Command(c.cmd_gate, c.cmd_mux, c.contactor, Wait("cmd_mux", D),
                 Wait("cmd_gate", D), down, v)
  BY DEF Counted
<1>5. Wait("cmd_mux", E) = Wait("cmd_mux", D)
  BY OtherWaits
<1> HIDE DEF E
<1>6. CASE ~(Up("cmd_mux") /\ ~c.cmd_mux.auto)
  BY <1>1, <1>4, <1>5, <1>6, CommandFrame DEF E
<1>7. CASE Up("cmd_mux") /\ ~c.cmd_mux.auto
  <2>1. Full \in {0, Full}
    OBVIOUS
  <2>2. v = 0 \/ down \cap {"nav", "hmi", "cmd_mux"} = {}
    BY <1>2, <1>7 DEF OfTick, Up
  <2>3. /\ n \in Cells
        /\ n.field_eval = c.field_eval /\ n.encoder_link = c.encoder_link
        /\ n.sensor_link = c.sensor_link /\ n.m6 = c.m6 /\ n.plc_link = c.plc_link
    BY <2>1, CommandEffect
  <2>4. Gate(n.cmd_gate, n.contactor, c.plc_link.msg.motor, Wait("cmd_gate", D), down, C, y, v)
    BY <1>3, <1>4, <2>1, GateHears
  <2> HIDE DEF n
  <2>5. Command(n.cmd_gate, n.cmd_mux, n.contactor, Wait("cmd_mux", E),
                Wait("cmd_gate", D), down, v)
    BY <2>2, <2>3, CommandHears
  <2>6. Counted(n, E, down, C, d, y, v)
    BY <2>3, <2>4, <2>5, CommandFrame DEF E
  <2>7. QED
    BY <1>1, <1>7, <2>6 DEF E
<1>8. QED
  BY <1>6, <1>7

\* The mux's turn.
LEMMA MuxTurn ==
    ASSUME ChainTypeOK, NEW C, NEW d \in Devices, NEW y \in Nat, NEW v \in Nat,
           OfTick(C, d, y, v), NEW D, Placed("cmd_mux", D), Due("cmd_mux"),
           NEW c \in Cells, c.cmd_mux.auto = cell.cmd_mux.auto,
           Counted(c, D, down, C, d, y, v)
    PROVE  Counted(MuxTick(c), D \cup {"cmd_mux"}, down, C, d, y, v)
<1> DEFINE cmd == IF c.cmd_mux.auto /\ c.cmd_mux.heard >= STATUS_STALE THEN 0 ELSE Full
           n == CbCmd(c, cmd)
           E == D \cup {"cmd_mux"}
<1>1. MuxTick(c) = IF c.cmd_mux.auto THEN n ELSE c
  BY DEF MuxTick, MuxPublish
<1>2. /\ "cmd_mux" \notin down /\ Blame(down, C) /\ cmd \in {0, Full}
      /\ c.cmd_mux.auto \in BOOLEAN
  BY DueMeans, CellParts DEF Up, OfTick, Muxes
<1>3. Wait("cmd_gate", D) \in 0 .. 2 /\ c.plc_link.msg.motor \in BOOLEAN
      /\ Wait("cmd_mux", D) \in 0 .. 2 /\ Wait("cmd_mux", E) = 0
  BY WaitTypes, OwnWait, DueMeans, CellParts DEF Links, Answers, Placed
<1>4. /\ Gate(c.cmd_gate, c.contactor, c.plc_link.msg.motor, Wait("cmd_gate", D), down, C, y, v)
      /\ Command(c.cmd_gate, c.cmd_mux, c.contactor, Wait("cmd_mux", D),
                 Wait("cmd_gate", D), down, v)
  BY DEF Counted
<1> HIDE DEF E
<1>5. CASE ~c.cmd_mux.auto
  <2>1. Command(c.cmd_gate, c.cmd_mux, c.contactor, Wait("cmd_mux", E),
                Wait("cmd_gate", D), down, v)
    <3>1. CASE "nav" \in down
      <4>1. v = 0
        BY <1>5, <3>1 DEF OfTick, Up
      <4>2. QED
        BY <4>1, CommandHears
    <3>2. CASE "nav" \notin down
      BY <1>4, <3>2 DEF Command
    <3>3. QED
      BY <3>1, <3>2
  <2>2. Counted(c, E, down, C, d, y, v)
    BY <1>4, <2>1, CommandFrame DEF E
  <2>3. QED
    BY <1>1, <1>5, <2>2 DEF E
<1>6. CASE c.cmd_mux.auto
  <2>1. /\ n \in Cells /\ n.cmd_mux = c.cmd_mux
        /\ n.field_eval = c.field_eval /\ n.encoder_link = c.encoder_link
        /\ n.sensor_link = c.sensor_link /\ n.m6 = c.m6 /\ n.plc_link = c.plc_link
    BY <1>2, CommandEffect
  <2>2. Gate(n.cmd_gate, n.contactor, c.plc_link.msg.motor, Wait("cmd_gate", D), down, C, y, v)
    BY <1>2, <1>3, <1>4, GateHears
  <2>3. Command(n.cmd_gate, n.cmd_mux, n.contactor, 0, Wait("cmd_gate", D), down, v)
    <3>1. CASE v = 0 \/ down \cap {"nav", "hmi", "cmd_mux"} = {}
      <4> HIDE DEF n
      <4>1. Command(n.cmd_gate, n.cmd_mux, n.contactor, Wait("cmd_mux", E),
                    Wait("cmd_gate", D), down, v)
        BY <2>1, <3>1, CommandHears
      <4>2. QED
        BY <1>3, <4>1
    <3>2. CASE v # 0 /\ "nav" \in down
      <4>1. Up("cmd_gate") /\ down \cap {"hmi", "cmd_mux"} = {}
        BY <1>2, <3>2 DEF Up, Blame
      <4>2. ~c.contactor.off \/ c.contactor.terminal = 0
        BY <1>4 DEF Gate
      <4>3. n.cmd_gate.cmd = cmd /\ (cmd = 0 => n.contactor.terminal = 0)
        BY <1>2, <4>1, <4>2, CommandEffect
      <4>4. c.cmd_mux.heard >= STATUS_STALE => cmd = 0
        BY <1>6
      <4>5. c.cmd_gate \in Gates /\ c.cmd_mux \in Muxes
        BY CellParts
      <4> HIDE DEF n, cmd
      <4>6. c.cmd_mux.heard >= STATUS_STALE => n.cmd_gate.cmd = 0 /\ n.contactor.terminal = 0
        BY <4>3, <4>4
      <4>7. Command(n.cmd_gate, c.cmd_mux, n.contactor, 0, Wait("cmd_gate", D), down, v)
        BY <1>3, <1>4, <4>1, <4>5, <4>6, CommandForwards
      <4>8. QED
        BY <2>1, <4>7
    <3>3. "hmi" \in down => v = 0
      BY <1>6 DEF OfTick, Up
    <3>4. QED
      BY <1>2, <3>1, <3>2, <3>3
  <2> HIDE DEF n
  <2>4. Command(n.cmd_gate, n.cmd_mux, n.contactor, Wait("cmd_mux", E),
                Wait("cmd_gate", D), down, v)
    BY <1>3, <2>3
  <2>5. Counted(n, E, down, C, d, y, v)
    BY <2>1, <2>2, <2>4, CommandFrame DEF E
  <2>6. QED
    BY <1>1, <1>6, <2>5 DEF E
<1>7. QED
  BY <1>5, <1>6

\* The gate speaks, or it does not.
LEMMA GateEffect ==
    ASSUME NEW c \in Cells, c.contactor.off => c.contactor.terminal = 0
    PROVE  LET n == GateTick(c)
           IN  /\ n \in Cells /\ OtherThan("contactor", c, n)
               /\ n.contactor.off = c.contactor.off
               /\ n.contactor.terminal # 0 =>
                     /\ c.cmd_gate.motor /\ c.cmd_gate.heard < STATUS_STALE /\ ~c.contactor.off
                     /\ c.cmd_gate.cmdHeard < CMD_STALE
                     /\ c.contactor.terminal # 0 \/ c.cmd_gate.cmd # 0
<1> DEFINE g == c.cmd_gate
           n == GatePublish(c)
<1>1. n \in Cells /\ OtherThan("contactor", c, n) /\ Lets(c, n)
  BY PublishEffect
<1>2. g.heard \in 0 .. STATUS_STALE /\ g.cmdHeard \in 0 .. CMD_STALE
  BY CellParts DEF Gates
<1>3. GateTick(c) = IF ~g.motor \/ g.heard >= STATUS_STALE \/ g.cmdHeard >= CMD_STALE
                    THEN n ELSE c
  BY DEF GateTick
<1> HIDE DEF n
<1>4. CASE ~g.motor \/ g.heard >= STATUS_STALE \/ g.cmdHeard >= CMD_STALE
  BY <1>1, <1>3, <1>4 DEF Lets
<1>5. CASE ~(~g.motor \/ g.heard >= STATUS_STALE \/ g.cmdHeard >= CMD_STALE)
  BY <1>2, <1>3, <1>5, Ages DEF OtherThan
<1>6. QED
  BY <1>4, <1>5

\* The gate's turn.
LEMMA GateTurn ==
    ASSUME ChainTypeOK, NEW C, NEW d \in Devices, NEW y \in Nat, NEW v \in Nat,
           OfTick(C, d, y, v), NEW D, Placed("cmd_gate", D), Due("cmd_gate"),
           NEW c \in Cells, Counted(c, D, down, C, d, y, v)
    PROVE  Counted(GateTick(c), D \cup {"cmd_gate"}, down, C, d, y, v)
<1> DEFINE n == GateTick(c)
           E == D \cup {"cmd_gate"}
           motor == c.plc_link.msg.motor
<1>1. /\ Gate(c.cmd_gate, c.contactor, motor, Wait("cmd_gate", D), down, C, y, v)
      /\ Command(c.cmd_gate, c.cmd_mux, c.contactor, Wait("cmd_mux", D),
                 Wait("cmd_gate", D), down, v)
  BY DEF Counted
<1>2. /\ "cmd_gate" \notin down /\ c.cmd_gate \in Gates /\ c.contactor \in Contacts
      /\ c.cmd_mux \in Muxes /\ motor \in BOOLEAN
  BY DueMeans, CellParts DEF Up, Links, Answers
<1>3. Wait("cmd_gate", D) \in 0 .. 2 /\ Wait("cmd_mux", D) \in 0 .. 2 /\ Wait("cmd_gate", E) = 0
  BY WaitTypes, OwnWait, DueMeans DEF Placed
<1>4. c.contactor.off => c.contactor.terminal = 0
  BY <1>1 DEF Gate
<1>5. /\ OtherThan("contactor", c, n)
      /\ n.contactor.off = c.contactor.off
      /\ n.contactor.terminal # 0 =>
            /\ c.cmd_gate.motor /\ c.cmd_gate.heard < STATUS_STALE /\ ~c.contactor.off
            /\ c.cmd_gate.cmdHeard < CMD_STALE
            /\ c.contactor.terminal # 0 \/ c.cmd_gate.cmd # 0
  BY <1>4, GateEffect
<1>6. /\ n.field_eval = c.field_eval /\ n.encoder_link = c.encoder_link
      /\ n.sensor_link = c.sensor_link /\ n.m6 = c.m6 /\ n.plc_link = c.plc_link
      /\ n.cmd_mux = c.cmd_mux /\ n.cmd_gate = c.cmd_gate
  BY <1>5 DEF OtherThan
<1>7. /\ Wait("field_eval", E) = Wait("field_eval", D) /\ Wait("cmd_mux", E) = Wait("cmd_mux", D)
      /\ Rest("encoder_link", E) = Rest("encoder_link", D) /\ Rest("m6", E) = Rest("m6", D)
      /\ Rest("plc_link", E) = Rest("plc_link", D)
  BY OtherWaits, ZenonT(60)
<1>8. Scanned(E) = Scanned(D)
  BY ScannedTurns DEF ChainTypeOK
<1>9. Cycled(E) = Cycled(D)
  BY CycledTurns
<1> HIDE DEF n, E
<1>10. Gate(n.cmd_gate, n.contactor, motor, 0, down, C, y, v)
  <2>1. n.contactor.terminal # 0 => \/ c.contactor.off /\ c.contactor.terminal # 0
                                    \/ /\ c.cmd_gate.motor /\ c.cmd_gate.heard < STATUS_STALE
                                       /\ ~c.contactor.off
    BY <1>5
  <2>2. 0 \in 0 .. 2
    OBVIOUS
  <2> HIDE DEF motor
  <2>3. QED
    BY <1>1, <1>2, <1>3, <1>5, <1>6, <2>1, <2>2, GateLets
<1>11. Command(n.cmd_gate, n.cmd_mux, n.contactor, Wait("cmd_mux", D), 0, down, v)
  <2>1. n.contactor.terminal # 0 => c.contactor.terminal # 0 \/ c.cmd_gate.cmd # 0
    BY <1>5
  <2>2. c.cmd_gate.cmdHeard >= CMD_STALE => n.contactor.terminal = 0
    BY <1>2, <1>5, Ages DEF Gates
  <2>3. QED
    BY <1>1, <1>2, <1>3, <1>6, <2>1, <2>2, CommandLets
<1>12. Link(n.sensor_link, n.encoder_link, n.m6.pf[d], n.field_eval.device[d].pf,
            Rest("encoder_link", D), Rest("m6", D), down, C, d, y, v)
  <2>1. Link(c.sensor_link, c.encoder_link, c.m6.pf[d], c.field_eval.device[d].pf,
             Rest("encoder_link", D), Rest("m6", D), down, C, d, y, v)
    BY DEF Counted
  <2>2. QED
    BY <1>6, <2>1
<1>13. /\ Eye(n.field_eval, Wait("field_eval", D), Scanned(D), down, C, d, y, v)
       /\ Writer(n.m6, Rest("m6", D), down, C, d, y, v)
       /\ Plc(n.plc_link, n.m6.out, Cycled(D), Rest("plc_link", D), down, C, y, v)
  BY <1>6 DEF Counted
<1>14. Gate(n.cmd_gate, n.contactor, n.plc_link.msg.motor, 0, down, C, y, v)
  BY <1>6, <1>10
<1>15. Counted(n, E, down, C, d, y, v)
  BY <1>3, <1>7, <1>8, <1>9, <1>11, <1>12, <1>13, <1>14 DEF Counted
<1>16. QED
  BY <1>15 DEF n, E

\* A turn leaves the mode and the reset device as they are.
LEMMA TurnTypes ==
    ASSUME ChainTypeOK, NEW p \in Timers, NEW c \in Cells, c.contactor.off => c.contactor.terminal = 0
    PROVE  LET n == Turn(c, p)
           IN  n \in Cells /\ n.cmd_mux.auto = c.cmd_mux.auto /\ n.m6.ack = c.m6.ack
<1> DEFINE Same(n) == n \in Cells /\ n.cmd_mux.auto = c.cmd_mux.auto /\ n.m6.ack = c.m6.ack
<1>1. /\ c.m6 \in Writers /\ c.sensor_link \in Senders /\ c.sensor_link.out \in Datagrams \cup {None}
      /\ body \in [Devices -> Spots]
  BY CellParts DEF Senders, ChainTypeOK
<1>2. Same(ScanTick(c))
  BY <1>1, ScanEffect DEF OtherThan
<1>3. Same(FieldEvalTick(c))
  BY EvalEffect
<1>4. Same(EncoderTick(c))
  BY EncoderEffect
<1>5. Same(WriterCycle(c))
  BY <1>1, CycleEffect, CycleTypes
<1>6. Same(PlcLinkTick(c))
  <2>1. [c.m6 EXCEPT !.out = None].ack = c.m6.ack
    BY <1>1 DEF Writers
  <2>2. QED
    BY <2>1, RelayEffect
<1>7. Same(NavTick(c))
  <2> DEFINE h == [c EXCEPT !.cmd_mux.heard = 0]
  <2>1. /\ h \in Cells /\ OtherThan("cmd_mux", c, h) /\ h.cmd_mux.auto = c.cmd_mux.auto
        /\ MuxPublish(h) = CbCmd(h, Full)
    BY NavEffect
  <2>2. NavTick(c) = IF ~Up("cmd_mux") THEN c ELSE IF c.cmd_mux.auto THEN CbCmd(h, Full) ELSE h
    BY <2>1 DEF NavTick
  <2> HIDE DEF h
  <2>3. Same(h)
    BY <2>1 DEF OtherThan
  <2>4. Same(CbCmd(h, Full))
    BY <2>1, <2>3, CommandEffect
  <2>5. QED
    BY <2>2, <2>3, <2>4
<1>8. Same(HmiTick(c))
  <2>1. HmiTick(c) \in {c, CbCmd(c, Full)}
    BY DEF HmiTick, MuxPublish
  <2>2. Same(CbCmd(c, Full))
    BY CommandEffect
  <2>3. QED
    BY <2>1, <2>2
<1>9. Same(MuxTick(c))
  <2>1. MuxTick(c) \in {c, CbCmd(c, Full), CbCmd(c, 0)}
    BY DEF MuxTick, MuxPublish
  <2>2. Same(CbCmd(c, Full)) /\ Same(CbCmd(c, 0))
    BY CommandEffect
  <2>3. QED
    BY <2>1, <2>2
<1>10. Same(GateTick(c))
  BY GateEffect DEF OtherThan
<1> HIDE DEF Same
<1>11. Same(c)
  BY DEF Same
<1>12. Same(Turn(c, p))
  <2>1. CASE ~Due(p)
    BY <1>11, <2>1, Turns
  <2>2. CASE Due(p)
    BY <1>2, <1>3, <1>4, <1>5, <1>6, <1>7, <1>8, <1>9, <1>10, <2>2, Turns DEF Timers, Parts
  <2>3. QED
    BY <2>1, <2>2
<1>13. QED
  BY <1>12 DEF Same

\* Any node's turn keeps what counts.
LEMMA TurnCounts ==
    ASSUME ChainTypeOK, NEW C, NEW d \in Devices, NEW y \in Nat, NEW v \in Nat,
           OfTick(C, d, y, v), NEW p, NEW D, Placed(p, D),
           NEW c \in Cells, c.cmd_mux.auto = cell.cmd_mux.auto,
           Counted(c, D, down, C, d, y, v)
    PROVE  Counted(Turn(c, p), D \cup {p}, down, C, d, y, v)
<1>1. p \in Timers
  BY DEF Placed
<1>2. CASE ~Due(p)
  BY <1>1, <1>2, IdleTurn, Turns
<1>3. CASE Due(p)
  <2>1. CASE p = "scanner"
    BY <1>3, <2>1, ScannerTurn, Turns
  <2>2. CASE p = "field_eval"
    BY <1>3, <2>2, EvalTurn, Turns
  <2>3. CASE p = "encoder_link"
    BY <1>3, <2>3, EncoderTurn, Turns
  <2>4. CASE p = "m6"
    BY <1>3, <2>4, WriterTurn, Turns
  <2>5. CASE p = "plc_link"
    BY <1>3, <2>5, RelayTurn, Turns
  <2>6. CASE p = "nav"
    BY <1>3, <2>6, NavTurn, Turns
  <2>7. CASE p = "hmi"
    BY <1>3, <2>7, HmiTurn, Turns
  <2>8. CASE p = "cmd_mux"
    BY <1>3, <2>8, MuxTurn, Turns
  <2>9. CASE p = "cmd_gate"
    BY <1>3, <2>9, GateTurn, Turns
  <2>10. QED
    BY <1>1, <2>1, <2>2, <2>3, <2>4, <2>5, <2>6, <2>7, <2>8, <2>9 DEF Timers, Parts
<1>4. QED
  BY <1>2, <1>3

-----------------------------------------------------------------------------
(* A tick's turns, one after the other. *)

\* A set of naturals that is not empty has a least element.
LEMMA LeastNatural ==
    ASSUME NEW S \in SUBSET Nat, NEW x \in S
    PROVE  \E m \in S : \A y \in S : m <= y
<1> DEFINE less == {pair \in Nat \X Nat : pair[1] < pair[2]}
<1>1. \E m \in S : \A y \in S : ~ (<<y, m>> \in less)
  <2>1. IsWellFoundedOn(less, Nat)
    BY NatLessThanWellFounded DEF OpToRel
  <2> HIDE DEF less
  <2>2. QED
    BY <2>1, WFMin
<1>2. ASSUME NEW m \in S, NEW y \in S, ~(<<y, m>> \in less)
      PROVE  m <= y
  <2>1. m \in Nat /\ y \in Nat
    OBVIOUS
  <2>2. ~(y < m)
    BY <1>2, <2>1
  <2>3. QED
    BY <2>1, <2>2
<1>3. QED
  BY <1>1, <1>2

\* What FoldLeft(Turn, a, q) says of every set of the first n indices.
Folding(f, a, q, n) ==
    f = [s \in SUBSET (1 .. n) |->
            IF s = {} THEN a ELSE Turn(f[s \ {Max(s)}], q[Max(s)])]

\* There is such a function, for every number of turns.
LEMMA FoldExists ==
    ASSUME NEW a, NEW q, NEW n \in Nat
    PROVE  \E f : Folding(f, a, q, n)
<1> DEFINE bad == {m \in Nat : ~ \E f : Folding(f, a, q, m)}
<1>1. SUFFICES ASSUME n \in bad PROVE FALSE
  OBVIOUS
<1>2. PICK m \in bad : \A k \in bad : m <= k
  <2> HIDE DEF bad
  <2>1. bad \in SUBSET Nat
    BY DEF bad
  <2>2. QED
    BY <1>1, <2>1, LeastNatural
<1>3. m \in Nat /\ ~ \E f : Folding(f, a, q, m)
  BY <1>2
<1>4. CASE m = 0
  <2>1. 1 .. 0 = {}
    OBVIOUS
  <2>2. Folding([s \in SUBSET {} |-> a], a, q, 0)
    BY <2>1 DEF Folding
  <2>3. QED
    BY <1>3, <1>4, <2>2
<1>5. CASE m # 0
  <2>1. m - 1 \in Nat /\ ~(m <= m - 1)
    BY <1>3, <1>5
  <2>2. m - 1 \notin bad
    BY <1>2, <2>1
  <2>3. PICK f : Folding(f, a, q, m - 1)
    BY <2>1, <2>2
  <2> DEFINE g == [s \in SUBSET (1 .. m) |->
                      IF m \in s THEN Turn(f[s \ {m}], q[m]) ELSE f[s]]
  <2>4. ASSUME NEW s \in SUBSET (1 .. m)
        PROVE  g[s] = IF s = {} THEN a ELSE Turn(g[s \ {Max(s)}], q[Max(s)])
    <3>1. s \ {m} \in SUBSET (1 .. m - 1)
      BY <1>3
    <3>2. CASE m \in s
      <4>1. \A x \in s : x \in Int /\ m >= x
        BY <1>3
      <4>2. Max(s) = m
        <5>1. \A x \in s : (\A y \in s : x >= y) => x = m
          BY <3>2, <4>1, <1>3
        <5>2. QED
          BY <3>2, <4>1, <5>1 DEF Max
      <4>3. g[s \ {m}] = f[s \ {m}]
        BY <3>1
      <4>4. QED
        BY <3>2, <4>2, <4>3
    <3>3. CASE m \notin s
      <4>1. s \in SUBSET (1 .. m - 1) /\ s \ {Max(s)} \in SUBSET (1 .. m - 1)
        BY <3>1, <3>3
      <4>2. f[s] = IF s = {} THEN a ELSE Turn(f[s \ {Max(s)}], q[Max(s)])
        BY <2>3, <4>1 DEF Folding
      <4>3. g[s] = f[s] /\ g[s \ {Max(s)}] = f[s \ {Max(s)}]
        BY <3>3, <4>1
      <4>4. QED
        BY <4>2, <4>3
    <3>4. QED
      BY <3>2, <3>3
  <2>5. g = [s \in SUBSET (1 .. m) |-> g[s]]
    OBVIOUS
  <2> HIDE DEF g
  <2>6. Folding(g, a, q, m)
    BY <2>4, <2>5 DEF Folding
  <2>7. QED
    BY <1>3, <2>6
<1>6. QED
  BY <1>4, <1>5

\* What holds before the first turn and is handed on by each holds after the last.
LEMMA TurnedAll ==
    ASSUME NEW a, NEW q, NEW n \in Nat, DOMAIN q = 1 .. n, NEW S,
           a \in S[0],
           \A i \in 1 .. n : \A b \in S[i - 1] : Turn(b, q[i]) \in S[i]
    PROVE  FoldLeft(Turn, a, q) \in S[n]
<1>1. FoldLeft(Turn, a, q) = (CHOOSE f : Folding(f, a, q, n))[1 .. n]
  BY DEF FoldLeft, MapThenFoldSet, Folding
<1>2. PICK f : f = (CHOOSE g : Folding(g, a, q, n)) /\ Folding(f, a, q, n)
  BY FoldExists
<1> DEFINE bad == {k \in Nat : k <= n /\ f[1 .. k] \notin S[k]}
<1>3. SUFFICES ASSUME f[1 .. n] \notin S[n] PROVE FALSE
  BY <1>1, <1>2
<1>4. PICK k \in bad : \A j \in bad : k <= j
  <2>1. n \in bad /\ bad \in SUBSET Nat
    BY <1>3
  <2> HIDE DEF bad
  <2>2. QED
    BY <2>1, LeastNatural
<1>5. k \in Nat /\ k <= n /\ f[1 .. k] \notin S[k] /\ 1 .. k \in SUBSET (1 .. n)
  BY <1>4
<1>6. f[1 .. k] = IF 1 .. k = {} THEN a ELSE Turn(f[(1 .. k) \ {Max(1 .. k)}], q[Max(1 .. k)])
  BY <1>2, <1>5 DEF Folding
<1>7. k # 0
  <2>1. 1 .. 0 = {}
    OBVIOUS
  <2>2. QED
    BY <1>5, <1>6, <2>1
<1>8. Max(1 .. k) = k /\ (1 .. k) \ {k} = 1 .. k - 1 /\ 1 .. k # {}
  <2>1. k \in 1 .. k /\ \A x \in 1 .. k : x \in Int /\ k >= x
    BY <1>5, <1>7
  <2>2. \A x \in 1 .. k : (\A y \in 1 .. k : x >= y) => x = k
    BY <1>5, <2>1
  <2>3. Max(1 .. k) = k
    BY <2>1, <2>2 DEF Max
  <2>4. (1 .. k) \ {k} = 1 .. k - 1
    BY <1>5, <1>7
  <2>5. QED
    BY <2>1, <2>3, <2>4
<1>9. k - 1 \notin bad /\ k - 1 \in Nat /\ k - 1 <= n
  BY <1>4, <1>5, <1>7
<1>10. f[1 .. k - 1] \in S[k - 1]
  BY <1>9
<1>11. k \in 1 .. n /\ f[1 .. k] = Turn(f[1 .. k - 1], q[k])
  <2> HIDE DEF bad
  <2>1. k \in 1 .. n
    BY <1>5, <1>7
  <2>2. f[1 .. k] = Turn(f[(1 .. k) \ {Max(1 .. k)}], q[Max(1 .. k)])
    BY <1>6, <1>8, Zenon
  <2>3. QED
    BY <1>8, <2>1, <2>2, Zenon
<1>12. Turn(f[1 .. k - 1], q[k]) \in S[k]
  BY <1>10, <1>11
<1>13. QED
  BY <1>5, <1>11, <1>12

-----------------------------------------------------------------------------
(* A truck that is locked stays locked. *)

\* The truck is locked during a tick, or the reset of this tick has unlocked it.
Lock(c, D) ==
    \/ Locked(c)
    \/ "m6" \in D /\ Up("m6") /\ c.m6.latched = {} /\ cell.m6.ack > 0

\* plc_link keeps a locked truck stopped.
LEMMA RelayLocks ==
    ASSUME NEW c \in Cells, Stopped(c), Up("plc_link")
    PROVE  Stopped(PlcLinkTick(c))
<1> DEFINE n == PlcLinkTick(c)
           b == Relayed(c.plc_link, c.m6.out)
<1>1. /\ n.plc_link = b /\ n.m6 = [c.m6 EXCEPT !.out = None]
      /\ IF Up("cmd_gate") THEN n.cmd_gate.motor = b.msg.motor /\ n.cmd_gate.heard = 0
         ELSE n.cmd_gate = c.cmd_gate
      /\ n.contactor = Demand(c.contactor, ~b.msg.motor)
  BY RelayEffect
<1>2. c.m6 \in Writers /\ c.plc_link \in Links /\ c.contactor \in Contacts
  BY CellParts
<1>3. c.m6.out \in Answers \cup {None}
  BY <1>2 DEF Writers
<1>4. ~b.msg.motor
  BY <1>2, <1>3, RelayedTypes DEF Stopped
<1> HIDE DEF n, b
<1>5. n.m6.out = None
  BY <1>1, <1>2, WriterTaken DEF Writers
<1>6. n.contactor.terminal = 0
  BY <1>1, <1>2 DEF Demand, Contacts, Stopped
<1>7. Stopped(n)
  BY <1>1, <1>4, <1>5, <1>6 DEF Stopped
<1>8. QED
  BY <1>7 DEF n

\* So does a command that comes through the gate.
LEMMA CommandLocks ==
    ASSUME NEW c \in Cells, Stopped(c), NEW cmd \in {0, Full}
    PROVE  Stopped(CbCmd(c, cmd)) /\ CbCmd(c, cmd).m6 = c.m6
<1> DEFINE n == CbCmd(c, cmd)
<1>1. /\ n.m6 = c.m6 /\ n.plc_link = c.plc_link
      /\ ~Up("cmd_gate") => n = c
      /\ Up("cmd_gate") =>
            /\ n.cmd_gate.motor = c.cmd_gate.motor /\ n.cmd_gate.heard = c.cmd_gate.heard
            /\ n.contactor.terminal # 0 =>
                  IF c.contactor.off THEN c.contactor.terminal # 0
                  ELSE c.cmd_gate.motor /\ c.cmd_gate.heard < STATUS_STALE
  BY CommandEffect
<1> HIDE DEF n
<1>2. Stopped(n)
  BY <1>1, Ages DEF Stopped
<1>3. QED
  BY <1>1, <1>2 DEF n

\* A turn leaves the truck locked, unless it is the writer's and clears its last latch.
LEMMA TurnLocks ==
    ASSUME ChainTypeOK, NEW p \in Timers, NEW D, p \notin D,
           NEW c \in Cells, c.m6.ack = cell.m6.ack,
           c.contactor.off => c.contactor.terminal = 0, Lock(c, D)
    PROVE  Lock(Turn(c, p), D \cup {p})
<1> DEFINE Same(n) == n.m6 = c.m6 /\ n.plc_link = c.plc_link /\ n.cmd_gate = c.cmd_gate
                      /\ n.contactor = c.contactor
           Keeps(n) == n.m6.latched = c.m6.latched /\ (Stopped(c) => Stopped(n))
<1>1. \A n : Same(n) => Keeps(n)
  BY DEF Stopped
<1>2. body \in [Devices -> Spots]
  BY DEF ChainTypeOK
<1>3. Keeps(ScanTick(c)) /\ Keeps(FieldEvalTick(c)) /\ Keeps(EncoderTick(c)) /\ Keeps(c)
  <2>1. Same(ScanTick(c))
    BY <1>2, ScanEffect DEF OtherThan
  <2>2. Same(FieldEvalTick(c))
    BY EvalEffect
  <2>3. Same(EncoderTick(c))
    BY EncoderEffect
  <2> HIDE DEF Keeps
  <2>4. Same(c)
    OBVIOUS
  <2> HIDE DEF Same
  <2>5. QED
    BY <1>1, <2>1, <2>2, <2>3, <2>4
<1>4. Up("plc_link") => Keeps(PlcLinkTick(c))
  <2>1. c.m6 \in Writers
    BY CellParts
  <2>2. PlcLinkTick(c).m6 = [c.m6 EXCEPT !.out = None]
    BY RelayEffect
  <2>3. PlcLinkTick(c).m6.latched = c.m6.latched
    BY <2>1, <2>2 DEF Writers
  <2>4. QED
    BY <2>3, RelayLocks
<1>5. ASSUME NEW cmd \in {0, Full} PROVE Keeps(CbCmd(c, cmd))
  <2>1. CbCmd(c, cmd).m6 = c.m6
    BY CommandEffect
  <2>2. QED
    BY <2>1, CommandLocks
<1>6. Keeps(NavTick(c))
  <2> DEFINE h == [c EXCEPT !.cmd_mux.heard = 0]
  <2>1. /\ h \in Cells /\ OtherThan("cmd_mux", c, h) /\ MuxPublish(h) = CbCmd(h, Full)
    BY NavEffect
  <2>2. NavTick(c) = IF ~Up("cmd_mux") THEN c ELSE IF c.cmd_mux.auto THEN CbCmd(h, Full) ELSE h
    BY <2>1 DEF NavTick
  <2> HIDE DEF h
  <2>3. Same(h) /\ (Stopped(c) => Stopped(h))
    BY <2>1 DEF OtherThan, Stopped
  <2>4. CbCmd(h, Full).m6 = h.m6 /\ (Stopped(h) => Stopped(CbCmd(h, Full)))
    BY <2>1, CommandEffect, CommandLocks
  <2>5. Keeps(h) /\ Keeps(CbCmd(h, Full))
    BY <2>3, <2>4
  <2> HIDE DEF Keeps
  <2>6. QED
    BY <1>3, <2>2, <2>5
<1>7. Keeps(HmiTick(c)) /\ Keeps(MuxTick(c))
  <2>1. /\ HmiTick(c) \in {c, CbCmd(c, Full)}
        /\ MuxTick(c) \in {c, CbCmd(c, Full), CbCmd(c, 0)}
    BY DEF HmiTick, MuxTick, MuxPublish
  <2> HIDE DEF Keeps
  <2>2. QED
    BY <1>3, <1>5, <2>1
<1>8. Up("cmd_gate") => Keeps(GateTick(c))
  <2>1. /\ OtherThan("contactor", c, GateTick(c))
        /\ GateTick(c).contactor.terminal # 0 =>
              c.cmd_gate.motor /\ c.cmd_gate.heard < STATUS_STALE
    BY GateEffect
  <2>2. QED
    BY <2>1, Ages DEF OtherThan, Stopped
<1>9. CASE p # "m6" \/ ~Due("m6")
  <2>1. Keeps(Turn(c, p))
    <3> HIDE DEF Keeps
    <3>1. CASE Due(p)
      BY <1>3, <1>4, <1>5, <1>6, <1>7, <1>8, <1>9, <3>1, Turns DEF Timers, Parts, Due
    <3>2. CASE ~Due(p)
      BY <1>3, <3>2, Turns
    <3>3. QED
      BY <3>1, <3>2
  <2>2. QED
    BY <2>1 DEF Lock, Locked
<1>10. CASE p = "m6" /\ Due("m6")
  <2> DEFINE n == WriterCycle(c)
  <2>1. Turn(c, p) = n /\ Up("m6") /\ Locked(c)
    BY <1>10, Turns DEF Due, Lock
  <2>2. n.m6 = Cycle(c.m6, c.sensor_link.out) /\ n.plc_link = c.plc_link
        /\ n.cmd_gate = c.cmd_gate /\ n.contactor = c.contactor
    BY CycleEffect
  <2>3. c.m6 \in Writers /\ c.sensor_link.out \in Datagrams \cup {None}
    BY CellParts DEF Senders
  <2>4. /\ n.m6.out.motor <=> n.m6.latched = {}
        /\ c.m6.latched # {} /\ n.m6.latched = {} => c.m6.ack > 0
    BY <2>2, <2>3, CycleTypes
  <2> HIDE DEF n
  <2>5. CASE n.m6.latched = {}
    BY <1>10, <2>1, <2>4, <2>5 DEF Lock, Locked
  <2>6. CASE n.m6.latched # {}
    BY <2>1, <2>2, <2>4, <2>6 DEF Lock, Locked, Stopped
  <2>7. QED
    BY <2>5, <2>6
<1>11. QED
  BY <1>9, <1>10

\* So much for every turn of a tick.
LEMMA TickCounts ==
    ASSUME ChainTypeOK, NEW C, NEW Y \in [Devices -> Nat], NEW v \in Nat,
           \A d \in Devices : /\ OfTick(C, d, Y[d], v)
                              /\ Counted(cell, {}, down, C, d, Y[d], v),
           NEW locked \in BOOLEAN, locked => Locked(cell)
    PROVE  LET c == FoldLeft(Turn, cell, order)
           IN  /\ c \in Cells /\ c.m6.ack = cell.m6.ack
               /\ \A d \in Devices : Counted(c, Timers, down, C, d, Y[d], v)
               /\ locked => Lock(c, Timers)
<1> DEFINE n == Len(order)
           Fine(c, D) == /\ c.cmd_mux.auto = cell.cmd_mux.auto /\ c.m6.ack = cell.m6.ack
                         /\ \A d \in Devices : Counted(c, D, down, C, d, Y[d], v)
                         /\ locked => Lock(c, D)
           S == [i \in 0 .. n |-> {c \in Cells : Fine(c, Prefix(i))}]
           after == FoldLeft(Turn, cell, order)
<1>1. order \in Orders /\ cell \in Cells
  BY DEF ChainTypeOK
<1>2. n \in Nat /\ DOMAIN order = 1 .. n
  <2>1. order \in Seq(Timers)
    BY <1>1, ChainConstants
  <2>2. QED
    BY <2>1
<1>3. Prefix(0) = {} /\ Prefix(n) = Timers
  BY <1>1, AllPlaced
<1>4. cell \in S[0]
  <2>1. Fine(cell, {})
    BY DEF Lock
  <2> HIDE DEF Fine
  <2>2. QED
    BY <1>1, <1>2, <1>3, <2>1, SMTT(40)
<1>5. ASSUME NEW i \in 1 .. n, NEW c \in S[i - 1]
      PROVE  Turn(c, order[i]) \in S[i]
  <2>1. i - 1 \in 0 .. n /\ i \in 0 .. n
    BY <1>2
  <2>2. c \in Cells /\ Fine(c, Prefix(i - 1))
    BY <2>1
  <2> DEFINE p == order[i]
             D == Prefix(i - 1)
  <2>3. Placed(p, D) /\ Prefix(i) = D \cup {p} /\ p \in Timers
    BY <1>1, Placing
  <2>4. p \notin D
    BY <2>3 DEF Placed
  <2>5. c.contactor.off => c.contactor.terminal = 0
    <3>1. PICK d \in Devices : TRUE
      BY ChainConstants
    <3>2. Counted(c, D, down, C, d, Y[d], v)
      BY <2>2
    <3>3. QED
      BY <3>2 DEF Counted, Gate
  <2>6. Turn(c, p) \in Cells /\ Turn(c, p).cmd_mux.auto = c.cmd_mux.auto
        /\ Turn(c, p).m6.ack = c.m6.ack
    BY <2>2, <2>3, <2>5, TurnTypes
  <2>7. ASSUME NEW d \in Devices
        PROVE  Counted(Turn(c, p), D \cup {p}, down, C, d, Y[d], v)
    <3>1. OfTick(C, d, Y[d], v) /\ Counted(c, D, down, C, d, Y[d], v) /\ Y[d] \in Nat
      BY <2>2
    <3>2. c \in Cells /\ c.cmd_mux.auto = cell.cmd_mux.auto
      BY <2>2
    <3> HIDE DEF p, D
    <3>3. QED
      BY <2>3, <3>1, <3>2, TurnCounts
  <2>8. ASSUME locked PROVE Lock(Turn(c, p), D \cup {p})
    <3>1. c.m6.ack = cell.m6.ack /\ Lock(c, D) /\ c \in Cells
      BY <2>2, <2>8
    <3> HIDE DEF p, D
    <3>2. QED
      BY <2>3, <2>4, <2>5, <3>1, TurnLocks
  <2>9. Fine(Turn(c, p), Prefix(i))
    BY <2>2, <2>3, <2>6, <2>7, <2>8
  <2> HIDE DEF Fine, p
  <2>10. Turn(c, p) \in S[i]
    BY <2>1, <2>6, <2>9
  <2>11. QED
    BY <2>10 DEF p
<1>6. after \in S[n]
  <2> HIDE DEF S, n
  <2>1. QED
    BY <1>2, <1>4, <1>5, TurnedAll
<1>7. after \in Cells /\ Fine(after, Timers)
  <2> HIDE DEF Fine, after
  <2>1. QED
    BY <1>2, <1>3, <1>6
<1>8. QED
  BY <1>7

\* Shorter times are bounded too.
LEMMA CountedSooner ==
    ASSUME NEW C, NEW d \in Devices, NEW y \in Nat, NEW v \in Nat, NEW c \in Cells,
           Counted(c, {}, down, C, d, y, v), NEW z \in Nat, z <= y, NEW u \in Nat, u <= v
    PROVE  Counted(c, {}, down, C, d, z, u)
<1>1. /\ c.field_eval \in Eyes /\ c.encoder_link \in Encoders /\ c.sensor_link \in Senders
      /\ c.m6 \in Writers /\ c.plc_link \in Links /\ c.cmd_mux \in Muxes /\ c.cmd_gate \in Gates
      /\ c.m6.pf[d] \in BOOLEAN /\ c.field_eval.device[d].pf \in BOOLEAN
      /\ c.plc_link.msg.motor \in BOOLEAN
  BY CellParts DEF Writers, Eyes, Seen, Links, Answers
<1>2. /\ Wait("field_eval", {}) \in 0 .. 2 /\ Wait("cmd_gate", {}) \in 0 .. 2
      /\ Wait("cmd_mux", {}) \in 0 .. 2 /\ Rest("m6", {}) \in 0 .. 1
      /\ Rest("encoder_link", {}) \in 0 .. 1 /\ Rest("plc_link", {}) \in 0 .. 1
      /\ Scanned({}) \in BOOLEAN /\ Cycled({}) \in BOOLEAN
  BY WaitTypes
<1>3. Eye(c.field_eval, Wait("field_eval", {}), Scanned({}), down, C, d, z, u)
  <2>1. Eye(c.field_eval, Wait("field_eval", {}), Scanned({}), down, C, d, y, v)
    BY DEF Counted
  <2> DEFINE w == Wait("field_eval", {})
             s == Scanned({})
  <2>2. w \in 0 .. 2 /\ s \in BOOLEAN
    BY <1>2
  <2> HIDE DEF w, s
  <2>3. Eye(c.field_eval, w, s, down, C, d, z, u)
    BY <1>1, <2>1, <2>2, EyeSooner DEF w, s
  <2>4. QED
    BY <2>3 DEF w, s
<1>4. Link(c.sensor_link, c.encoder_link, c.m6.pf[d], c.field_eval.device[d].pf,
           Rest("encoder_link", {}), Rest("m6", {}), down, C, d, z, u)
  <2>1. Link(c.sensor_link, c.encoder_link, c.m6.pf[d], c.field_eval.device[d].pf,
             Rest("encoder_link", {}), Rest("m6", {}), down, C, d, y, v)
    BY DEF Counted
  <2> DEFINE re == Rest("encoder_link", {})
             rm == Rest("m6", {})
             held == c.m6.pf[d]
             seen == c.field_eval.device[d].pf
  <2>2. re \in 0 .. 1 /\ rm \in 0 .. 1 /\ held \in BOOLEAN /\ seen \in BOOLEAN
    BY <1>1, <1>2
  <2>3. Link(c.sensor_link, c.encoder_link, held, seen, re, rm, down, C, d, y, v)
    BY <2>1
  <2> HIDE DEF re, rm, held, seen
  <2>4. Link(c.sensor_link, c.encoder_link, held, seen, re, rm, down, C, d, z, u)
    <3> DEFINE l == c.sensor_link
               e == c.encoder_link
    <3>1. l.heard \in 0 .. 5 /\ e.heard \in 0 .. 6 /\ SendBound(C) \in Nat
      BY <1>1, Ages DEF Senders, Encoders, SendBound
    <3> HIDE DEF l, e
    <3>2. QED
      BY <2>2, <2>3, <3>1 DEF Link, l, e
  <2>5. QED
    BY <2>4 DEF re, rm, held, seen
<1>5. Writer(c.m6, Rest("m6", {}), down, C, d, z, u)
  BY <1>1, <1>2, WriterSooner DEF Counted
<1>6. Plc(c.plc_link, c.m6.out, Cycled({}), Rest("plc_link", {}), down, C, z, u)
  BY <1>1, <1>2, PlcSooner DEF Counted
<1>7. Gate(c.cmd_gate, c.contactor, c.plc_link.msg.motor, Wait("cmd_gate", {}), down, C, z, u)
  BY <1>1, <1>2, GateSooner DEF Counted
<1>8. Command(c.cmd_gate, c.cmd_mux, c.contactor, Wait("cmd_mux", {}),
              Wait("cmd_gate", {}), down, u)
  BY <1>1, <1>2, CommandSooner DEF Counted
<1>9. QED
  BY <1>3, <1>4, <1>5, <1>6, <1>7, <1>8 DEF Counted

\* A tick passes.
LEMMA OlderAges ==
    ASSUME NEW a \in Nat, NEW s \in Nat
    PROVE  Older(a, s) \in 0 .. s /\ Older(a, s) <= a + 1 /\ (1 <= s => Older(a, s) >= 1)
           /\ (a >= s => Older(a, s) = s)
BY DEF Older

\* Every field of a node but the ones that age.
LEMMA AgedEffect ==
    ASSUME NEW c \in Cells
    PROVE  LET n == Aged(c)
           IN  /\ n \in Cells
               /\ n.field_eval.raw = c.field_eval.raw
               /\ \A d \in Devices : n.field_eval.device[d] =
                     [c.field_eval.device[d] EXCEPT !.seen = Older(@, SCAN_STALE)]
               /\ n.encoder_link = [c.encoder_link EXCEPT !.heard = Older(@, ENC_STALE)]
               /\ n.sensor_link = [c.sensor_link EXCEPT !.heard = Older(@, ENCODERS_STALE)]
               /\ n.m6.pf = c.m6.pf /\ n.m6.latched = c.m6.latched /\ n.m6.out = c.m6.out
               /\ n.m6.heard = Older(c.m6.heard, SENSOR_STALE)
               /\ n.plc_link = [c.plc_link EXCEPT !.heard = Older(@, LINK_STALE)]
               /\ n.hmi = c.hmi /\ n.contactor = c.contactor
               /\ n.cmd_mux = [c.cmd_mux EXCEPT !.heard = Older(@, STATUS_STALE)]
               /\ n.cmd_gate.motor = c.cmd_gate.motor /\ n.cmd_gate.cmd = c.cmd_gate.cmd
               /\ n.cmd_gate.heard = Older(c.cmd_gate.heard, STATUS_STALE)
               /\ n.cmd_gate.cmdHeard = Older(c.cmd_gate.cmdHeard, CMD_STALE)
<1> DEFINE e == c.field_eval
           x == [d \in Devices |-> [e.device[d] EXCEPT !.seen = Older(@, SCAN_STALE)]]
           e1 == [e EXCEPT !.heard = Older(@, STATUS_STALE)]
           e2 == [e1 EXCEPT !.device = x]
           r == [c.encoder_link EXCEPT !.heard = Older(@, ENC_STALE)]
           l == [c.sensor_link EXCEPT !.heard = Older(@, ENCODERS_STALE)]
           m1 == [c.m6 EXCEPT !.heard = Older(@, SENSOR_STALE)]
           m2 == [m1 EXCEPT !.ack = IF @ > 0 THEN @ - 1 ELSE 0]
           b == [c.plc_link EXCEPT !.heard = Older(@, LINK_STALE)]
           q == [c.cmd_mux EXCEPT !.heard = Older(@, STATUS_STALE)]
           g1 == [c.cmd_gate EXCEPT !.heard = Older(@, STATUS_STALE)]
           g2 == [g1 EXCEPT !.cmdHeard = Older(@, CMD_STALE)]
           c1 == [c EXCEPT !.field_eval = e2]
           c2 == [c1 EXCEPT !.encoder_link = r]
           c3 == [c2 EXCEPT !.sensor_link = l]
           c4 == [c3 EXCEPT !.m6 = m2]
           c5 == [c4 EXCEPT !.plc_link = b]
           c6 == [c5 EXCEPT !.cmd_mux = q]
           c7 == [c6 EXCEPT !.cmd_gate = g2]
<1>1. /\ e \in Eyes /\ c.encoder_link \in Encoders /\ c.sensor_link \in Senders
      /\ c.m6 \in Writers /\ c.plc_link \in Links /\ c.cmd_mux \in Muxes /\ c.cmd_gate \in Gates
  BY CellParts
<1>2. \A a \in Nat, s \in Nat : Older(a, s) \in 0 .. s
  BY OlderAges
<1>3. Aged(c) = c7
  <2> DEFINE e3 == [e EXCEPT !.heard = Older(@, STATUS_STALE),
                             !.device = [d \in Devices |-> Unseen(@[d])]]
             m3 == [c.m6 EXCEPT !.heard = Older(@, SENSOR_STALE),
                                !.ack = IF @ > 0 THEN @ - 1 ELSE 0]
             g3 == [c.cmd_gate EXCEPT !.heard = Older(@, STATUS_STALE),
                                      !.cmdHeard = Older(@, CMD_STALE)]
  <2>1. e3 = e2
    BY <1>1 DEF Eyes, Unseen
  <2>2. m3 = m2
    BY <1>1 DEF Writers
  <2>3. g3 = g2
    BY <1>1 DEF Gates
  <2>4. Aged(c) = [c EXCEPT !.field_eval = e3, !.m6 = m3, !.cmd_gate = g3,
                            !.plc_link.heard = Older(@, LINK_STALE),
                            !.encoder_link.heard = Older(@, ENC_STALE),
                            !.sensor_link.heard = Older(@, ENCODERS_STALE),
                            !.cmd_mux.heard = Older(@, STATUS_STALE)]
    BY DEF Aged
  <2> HIDE DEF e3, m3, g3, e2, m2, g2
  <2>5. QED
    BY <2>1, <2>2, <2>3, <2>4 DEF Cells
<1>4. e2 \in Eyes /\ e2.raw = e.raw /\ e2.device = x
  <2>1. e1 \in Eyes /\ e1.raw = e.raw
    BY <1>1, <1>2, Ages, SMTT(40) DEF Eyes
  <2>2. x \in [Devices -> Seen]
    <3>1. ASSUME NEW d \in Devices
          PROVE  [e.device[d] EXCEPT !.seen = Older(@, SCAN_STALE)] \in Seen
      <4>1. e.device[d] \in Seen
        BY <1>1 DEF Eyes
      <4>2. e.device[d].seen \in 0 .. 10
        BY <4>1, Ages DEF Seen
      <4>3. Older(e.device[d].seen, SCAN_STALE) \in 0 .. SCAN_STALE
        BY <4>2, Ages DEF Older
      <4>4. QED
        BY <4>1, <4>3 DEF Seen
    <3>2. QED
      BY <3>1
  <2> HIDE DEF e1, x
  <2>3. QED
    BY <2>1, <2>2 DEF Eyes
<1>5. r \in Encoders /\ l \in Senders /\ b \in Links /\ q \in Muxes
  BY <1>1, <1>2, Ages, SMTT(40) DEF Encoders, Senders, Links, Muxes
<1>6. /\ m2 \in Writers /\ m2.pf = c.m6.pf /\ m2.latched = c.m6.latched /\ m2.out = c.m6.out
      /\ m2.heard = Older(c.m6.heard, SENSOR_STALE)
  <2>1. /\ m1 \in Writers /\ m1.pf = c.m6.pf /\ m1.latched = c.m6.latched /\ m1.out = c.m6.out
        /\ m1.heard = Older(c.m6.heard, SENSOR_STALE)
    BY <1>1, <1>2, Ages, SMTT(40) DEF Writers
  <2> HIDE DEF m1
  <2>2. m1.ack \in 0 .. ACK_PULSE
    BY <2>1 DEF Writers
  <2>3. (IF m1.ack > 0 THEN m1.ack - 1 ELSE 0) \in 0 .. ACK_PULSE
    BY <2>2, Ages
  <2>4. QED
    BY <2>1, <2>3 DEF Writers
<1>7. /\ g2 \in Gates /\ g2.motor = c.cmd_gate.motor /\ g2.cmd = c.cmd_gate.cmd
      /\ g2.heard = Older(c.cmd_gate.heard, STATUS_STALE)
      /\ g2.cmdHeard = Older(c.cmd_gate.cmdHeard, CMD_STALE)
  <2>1. /\ g1 \in Gates /\ g1.motor = c.cmd_gate.motor /\ g1.cmd = c.cmd_gate.cmd
        /\ g1.heard = Older(c.cmd_gate.heard, STATUS_STALE)
        /\ g1.cmdHeard = c.cmd_gate.cmdHeard
    BY <1>1, <1>2, Ages DEF Gates
  <2> HIDE DEF g1
  <2>2. QED
    BY <1>2, <2>1, Ages, SMTT(40) DEF Gates
<1> HIDE DEF e2, r, l, m2, b, q, g2
<1>8. c1 \in Cells /\ c1.field_eval = e2 /\ OtherThan("field_eval", c, c1)
  BY <1>4, SetEye
<1> HIDE DEF c1
<1>9. c2 \in Cells /\ c2.encoder_link = r /\ OtherThan("encoder_link", c1, c2)
  BY <1>5, <1>8, SetEncoder
<1> HIDE DEF c2
<1>10. c3 \in Cells /\ c3.sensor_link = l /\ OtherThan("sensor_link", c2, c3)
  BY <1>5, <1>9, SetSender
<1> HIDE DEF c3
<1>11. c4 \in Cells /\ c4.m6 = m2 /\ OtherThan("m6", c3, c4)
  BY <1>6, <1>10, SetWriter
<1> HIDE DEF c4
<1>12. c5 \in Cells /\ c5.plc_link = b /\ OtherThan("plc_link", c4, c5)
  BY <1>5, <1>11, SetPlc
<1> HIDE DEF c5
<1>13. c6 \in Cells /\ c6.cmd_mux = q /\ OtherThan("cmd_mux", c5, c6)
  BY <1>5, <1>12, SetMux
<1> HIDE DEF c6
<1>14. c7 \in Cells /\ c7.cmd_gate = g2 /\ OtherThan("cmd_gate", c6, c7)
  BY <1>7, <1>13, SetGate
<1> HIDE DEF c7
<1>15. /\ c7.field_eval = e2 /\ c7.encoder_link = r /\ c7.sensor_link = l /\ c7.m6 = m2
       /\ c7.plc_link = b /\ c7.hmi = c.hmi /\ c7.contactor = c.contactor /\ c7.cmd_mux = q
       /\ c7.cmd_gate = g2
  BY <1>8, <1>9, <1>10, <1>11, <1>12, <1>13, <1>14 DEF OtherThan
<1>16. QED
  BY <1>3, <1>4, <1>6, <1>7, <1>14, <1>15 DEF r, l, b, q

\* Between two ticks every age is one at least.
LEMMA AgedRests ==
    ASSUME NEW c \in Cells
    PROVE  Rested(Aged(c))
<1> DEFINE n == Aged(c)
<1>1. /\ n.encoder_link.heard = Older(c.encoder_link.heard, ENC_STALE)
      /\ n.sensor_link.heard = Older(c.sensor_link.heard, ENCODERS_STALE)
      /\ n.plc_link.heard = Older(c.plc_link.heard, LINK_STALE)
      /\ n.cmd_mux.heard = Older(c.cmd_mux.heard, STATUS_STALE)
      /\ n.cmd_gate.heard = Older(c.cmd_gate.heard, STATUS_STALE)
      /\ n.cmd_gate.cmdHeard = Older(c.cmd_gate.cmdHeard, CMD_STALE)
  <2>1. /\ n.encoder_link = [c.encoder_link EXCEPT !.heard = Older(c.encoder_link.heard, ENC_STALE)]
        /\ n.sensor_link = [c.sensor_link EXCEPT !.heard = Older(c.sensor_link.heard, ENCODERS_STALE)]
        /\ n.plc_link = [c.plc_link EXCEPT !.heard = Older(c.plc_link.heard, LINK_STALE)]
        /\ n.cmd_mux = [c.cmd_mux EXCEPT !.heard = Older(c.cmd_mux.heard, STATUS_STALE)]
        /\ n.cmd_gate.heard = Older(c.cmd_gate.heard, STATUS_STALE)
        /\ n.cmd_gate.cmdHeard = Older(c.cmd_gate.cmdHeard, CMD_STALE)
    BY AgedEffect
  <2>2. /\ c.encoder_link \in Encoders /\ c.sensor_link \in Senders
        /\ c.plc_link \in Links /\ c.cmd_mux \in Muxes
    BY CellParts
  <2> HIDE DEF n
  <2>3. n.encoder_link.heard = Older(c.encoder_link.heard, ENC_STALE)
    BY <2>1, <2>2 DEF Encoders
  <2>4. n.sensor_link.heard = Older(c.sensor_link.heard, ENCODERS_STALE)
    BY <2>1, <2>2 DEF Senders
  <2>5. n.plc_link.heard = Older(c.plc_link.heard, LINK_STALE)
    BY <2>1, <2>2 DEF Links
  <2>6. n.cmd_mux.heard = Older(c.cmd_mux.heard, STATUS_STALE)
    BY <2>1, <2>2 DEF Muxes
  <2>7. QED
    BY <2>1, <2>3, <2>4, <2>5, <2>6
<1>2. /\ c.encoder_link.heard \in Nat /\ c.sensor_link.heard \in Nat /\ c.plc_link.heard \in Nat
      /\ c.cmd_mux.heard \in Nat /\ c.cmd_gate.heard \in Nat /\ c.cmd_gate.cmdHeard \in Nat
  BY CellParts, Ages DEF Encoders, Senders, Links, Muxes, Gates
<1> HIDE DEF n
<1>3. \A a \in Nat, s \in {5, 6} : Older(a, s) >= 1
  BY DEF Older
<1>4. Rested(n)
  BY <1>1, <1>2, <1>3, Ages DEF Rested
<1>5. QED
  BY <1>4 DEF n

\* The tick ends: every age and both counts are one more.
LEMMA CountedAges ==
    ASSUME phase \in Phases, odd \in 0 .. 1, odd' = 1 - odd, UNCHANGED <<phase, order>>,
           NEW X, NEW C, NEW d \in Devices, NEW y \in Nat, NEW v \in Nat, NEW c \in Cells,
           Counted(c, Timers, X, C, d, y, v)
    PROVE  Counted(Aged(c), {}, X, C, d, y + 1, v + 1)'
<1> DEFINE n == Aged(c)
<1>1. /\ c.field_eval \in Eyes /\ c.encoder_link \in Encoders /\ c.sensor_link \in Senders
      /\ c.m6 \in Writers /\ c.plc_link \in Links /\ c.cmd_mux \in Muxes /\ c.cmd_gate \in Gates
      /\ c.m6.pf[d] \in BOOLEAN /\ c.field_eval.device[d].pf \in BOOLEAN
      /\ c.plc_link.msg.motor \in BOOLEAN
  BY CellParts DEF Writers, Eyes, Seen, Links, Answers
<1>2. /\ "field_eval" \in Timers /\ "cmd_gate" \in Timers /\ "cmd_mux" \in Timers
      /\ "m6" \in Timers /\ "encoder_link" \in Timers /\ "plc_link" \in Timers
      /\ "field_eval" \in Slow /\ "cmd_gate" \in Slow /\ "cmd_mux" \in Slow
  BY DEF Timers, Parts, Slow
<1>3. /\ Wait("field_eval", Timers) \in 0 .. 1 /\ Wait("cmd_gate", Timers) \in 0 .. 1
      /\ Wait("cmd_mux", Timers) \in 0 .. 1
      /\ Wait("field_eval", {})' = Wait("field_eval", Timers) + 1
      /\ Wait("cmd_gate", {})' = Wait("cmd_gate", Timers) + 1
      /\ Wait("cmd_mux", {})' = Wait("cmd_mux", Timers) + 1
      /\ Rest("m6", Timers) = 0 /\ Rest("encoder_link", Timers) = 0
      /\ Rest("plc_link", Timers) = 0
      /\ Rest("m6", {})' = 1 /\ Rest("encoder_link", {})' = 1 /\ Rest("plc_link", {})' = 1
      /\ Scanned({})' = Scanned(Timers) /\ Cycled({})' = Cycled(Timers)
  BY <1>2, NextWaits
<1>4. Scanned(Timers) \in BOOLEAN /\ Cycled(Timers) \in BOOLEAN
  BY WaitTypes
<1>5. /\ n.field_eval.raw = c.field_eval.raw
      /\ n.field_eval.device[d] = [c.field_eval.device[d] EXCEPT !.seen = Older(@, SCAN_STALE)]
      /\ n.encoder_link = [c.encoder_link EXCEPT !.heard = Older(@, ENC_STALE)]
      /\ n.sensor_link = [c.sensor_link EXCEPT !.heard = Older(@, ENCODERS_STALE)]
      /\ n.m6.pf = c.m6.pf /\ n.m6.latched = c.m6.latched /\ n.m6.out = c.m6.out
      /\ n.m6.heard = Older(c.m6.heard, SENSOR_STALE)
      /\ n.plc_link = [c.plc_link EXCEPT !.heard = Older(@, LINK_STALE)]
      /\ n.contactor = c.contactor
      /\ n.cmd_mux = [c.cmd_mux EXCEPT !.heard = Older(@, STATUS_STALE)]
      /\ n.cmd_gate.motor = c.cmd_gate.motor /\ n.cmd_gate.cmd = c.cmd_gate.cmd
      /\ n.cmd_gate.heard = Older(c.cmd_gate.heard, STATUS_STALE)
      /\ n.cmd_gate.cmdHeard = Older(c.cmd_gate.cmdHeard, CMD_STALE)
  BY AgedEffect
<1>6. /\ n.plc_link.msg = c.plc_link.msg /\ n.plc_link.heard = Older(c.plc_link.heard, LINK_STALE)
      /\ n.cmd_mux.heard = Older(c.cmd_mux.heard, STATUS_STALE)
      /\ n.field_eval.device[d].pf = c.field_eval.device[d].pf
  <2>1. c.field_eval.device[d] \in Seen
    BY <1>1 DEF Eyes
  <2>2. QED
    BY <1>1, <1>5, <2>1 DEF Links, Muxes, Seen
<1> DEFINE z == y + 1
           u == v + 1
           we == Wait("field_eval", Timers)
           wg == Wait("cmd_gate", Timers)
           wm == Wait("cmd_mux", Timers)
           te == Wait("field_eval", {})'
           tg == Wait("cmd_gate", {})'
           tm == Wait("cmd_mux", {})'
           s == Scanned(Timers)
           motor == c.plc_link.msg.motor
<1>7. /\ z = y + 1 /\ u = v + 1 /\ te = we + 1 /\ tg = wg + 1 /\ tm = wm + 1
      /\ we \in 0 .. 1 /\ wg \in 0 .. 1 /\ wm \in 0 .. 1 /\ s \in BOOLEAN /\ motor \in BOOLEAN
      /\ Eye(c.field_eval, we, s, X, C, d, y, v)
      /\ Gate(c.cmd_gate, c.contactor, motor, wg, X, C, y, v)
      /\ Command(c.cmd_gate, c.cmd_mux, c.contactor, wm, wg, X, v)
  BY <1>1, <1>3, <1>4 DEF Counted
<1> HIDE DEF n, z, u, we, wg, wm, te, tg, tm, s, motor
<1>8. Eye(n.field_eval, te, s, X, C, d, z, u)
  <2> DEFINE e == c.field_eval
             m == n.field_eval
  <2>1. /\ e \in Eyes /\ Eye(e, we, s, X, C, d, y, v)
        /\ m.raw = e.raw /\ m.device[d] = [e.device[d] EXCEPT !.seen = Older(@, SCAN_STALE)]
    BY <1>1, <1>5, <1>7
  <2> HIDE DEF e, m
  <2>2. Eye(m, te, s, X, C, d, z, u)
    BY <1>7, <2>1, EyeAges
  <2>3. QED
    BY <2>2 DEF e, m
<1>9. Link(n.sensor_link, n.encoder_link, n.m6.pf[d], n.field_eval.device[d].pf,
           1, 1, X, C, d, y + 1, v + 1)
  <2> DEFINE held == c.m6.pf[d]
             seen == c.field_eval.device[d].pf
             l == n.sensor_link
             f == n.encoder_link
  <2>1. Link(c.sensor_link, c.encoder_link, held, seen, 0, 0, X, C, d, y, v)
    BY <1>3 DEF Counted
  <2>2. held \in BOOLEAN /\ seen \in BOOLEAN
    BY <1>1
  <2>3. l = [c.sensor_link EXCEPT !.heard = Older(@, ENCODERS_STALE)]
        /\ f = [c.encoder_link EXCEPT !.heard = Older(@, ENC_STALE)]
    BY <1>5
  <2> HIDE DEF held, seen, l, f
  <2>4. Link(l, f, held, seen, 1, 1, X, C, d, y + 1, v + 1)
    BY <1>1, <2>1, <2>2, <2>3, LinkAges
  <2>5. QED
    BY <1>5, <1>6, <2>4 DEF held, seen, l, f
<1>10. Writer(n.m6, 1, X, C, d, y + 1, v + 1)
  <2>1. Writer(c.m6, 0, X, C, d, y, v)
    BY <1>3 DEF Counted
  <2>2. QED
    BY <1>1, <1>5, <2>1, WriterAges
<1>11. Plc(n.plc_link, n.m6.out, Cycled(Timers), 1, X, C, y + 1, v + 1)
  <2>1. Plc(c.plc_link, c.m6.out, Cycled(Timers), 0, X, C, y, v)
    BY <1>3 DEF Counted
  <2>2. QED
    BY <1>1, <1>5, <1>6, <2>1, PlcAges
<1>12. Gate(n.cmd_gate, c.contactor, motor, tg, X, C, z, u)
  <2> DEFINE g == c.cmd_gate
             h == n.cmd_gate
             k == c.contactor
  <2>1. /\ g \in Gates /\ Gate(g, k, motor, wg, X, C, y, v)
        /\ h.motor = g.motor /\ h.heard = Older(g.heard, STATUS_STALE)
    BY <1>1, <1>5, <1>7
  <2> HIDE DEF g, h, k
  <2>2. Gate(h, k, motor, tg, X, C, z, u)
    BY <1>7, <2>1, GateAges
  <2>3. QED
    BY <2>2 DEF g, h, k
<1>13. Command(n.cmd_gate, n.cmd_mux, c.contactor, tm, tg, X, u)
  <2> DEFINE g == c.cmd_gate
             h == n.cmd_gate
             x == c.cmd_mux
             m == n.cmd_mux
             k == c.contactor
  <2>1. /\ g \in Gates /\ x \in Muxes /\ Command(g, x, k, wm, wg, X, v)
        /\ h.cmd = g.cmd /\ h.cmdHeard = Older(g.cmdHeard, CMD_STALE)
        /\ m.heard = Older(x.heard, STATUS_STALE)
    BY <1>1, <1>5, <1>6, <1>7
  <2> HIDE DEF g, h, x, m, k
  <2>2. Command(h, m, k, tm, tg, X, u)
    BY <1>7, <2>1, CommandAges
  <2>3. QED
    BY <2>2 DEF g, h, x, m, k
<1>14. /\ Eye(n.field_eval, Wait("field_eval", {})', Scanned({})', X, C, d, y + 1, v + 1)
       /\ Gate(n.cmd_gate, n.contactor, n.plc_link.msg.motor, Wait("cmd_gate", {})', X, C,
               y + 1, v + 1)
       /\ Command(n.cmd_gate, n.cmd_mux, n.contactor, Wait("cmd_mux", {})',
                  Wait("cmd_gate", {})', X, v + 1)
  BY <1>3, <1>5, <1>6, <1>8, <1>12, <1>13 DEF z, u, te, tg, tm, s, motor
<1>15. Counted(n, {}, X, C, d, y + 1, v + 1)'
  BY <1>3, <1>9, <1>10, <1>11, <1>14 DEF Counted
<1>16. QED
  BY <1>15 DEF n

-----------------------------------------------------------------------------
(* A tick. *)

\* Who has had a body in its field for Reaction ticks has stopped the truck.
LEMMA Overdue ==
    ASSUME NEW C, Blame(down, C), NEW d \in Devices, NEW y \in Nat, y >= 18, NEW v \in Nat,
           NEW c \in Cells, NEW wg \in 0 .. 1, NEW s \in BOOLEAN,
           Writer(c.m6, 0, down, C, d, y, v), Plc(c.plc_link, c.m6.out, s, 0, down, C, y, v),
           Gate(c.cmd_gate, c.contactor, c.plc_link.msg.motor, wg, down, C, y, v)
    PROVE  Locked(c)
<1>1. c.m6 \in Writers /\ c.plc_link \in Links /\ c.cmd_gate \in Gates
  BY CellParts
<1>2. /\ c.m6.heard \in 0 .. 8 /\ c.plc_link.heard \in 0 .. 6 /\ c.cmd_gate.heard \in 0 .. 5
      /\ SENSOR_STALE = 8 /\ LINK_STALE = 6 /\ STATUS_STALE = 5
  BY <1>1, Ages DEF Writers, Links, Gates
<1>3. SendBound(C) \in {6, 14} /\ (C \cap Sensors # {} => SendBound(C) = 6)
  BY DEF SendBound, Blame, Sensors
<1>4. EnableBound(C) <= 17 /\ EnableBound(C) \in Nat
  BY <1>3 DEF EnableBound
<1>5. "m6" \notin down => ~c.m6.pf[d]
  BY <1>2, <1>3 DEF Writer
<1>6. c.m6.out # None => ~c.m6.out.motor
  BY <1>2, <1>5 DEF Writer, Plc, Blame
<1>7. Up("plc_link") => ~c.plc_link.msg.motor
  BY <1>2, <1>4 DEF Plc, Up
<1>8. Up("cmd_gate") => ~c.cmd_gate.motor \/ c.cmd_gate.heard = STATUS_STALE
  BY <1>2, <1>7 DEF Gate, Up, Blame
<1>9. c.contactor.terminal = 0
  BY <1>2, <1>7 DEF Gate, Up, Blame
<1>10. Up("m6") => c.m6.latched # {}
  BY <1>5 DEF Writer, Up
<1>11. QED
  BY <1>6, <1>7, <1>8, <1>9, <1>10 DEF Locked, Stopped

\* No age that grows unlocks the truck.
LEMMA LockedAges ==
    ASSUME NEW c \in Cells, Locked(c), UNCHANGED down
    PROVE  Locked(Aged(c))'
<1> DEFINE n == Aged(c)
<1>1. /\ n.m6.latched = c.m6.latched /\ n.m6.out = c.m6.out
      /\ n.plc_link.msg = c.plc_link.msg
      /\ n.cmd_gate.motor = c.cmd_gate.motor
      /\ n.cmd_gate.heard = Older(c.cmd_gate.heard, STATUS_STALE)
      /\ n.contactor = c.contactor
  BY AgedEffect, CellParts DEF Links
<1> HIDE DEF n
<1>2. c.cmd_gate.heard = STATUS_STALE => n.cmd_gate.heard = STATUS_STALE
  BY <1>1, Ages DEF Older
<1>3. Locked(n)'
  BY <1>1, <1>2 DEF Locked, Stopped, Up
<1>4. QED
  BY <1>3 DEF n

\* What a tick takes over, and what it leaves behind.
LEMMA TickPasses ==
    ASSUME ChainTypeOK, ChainInv, Tick, NEW C \in SUBSET Parts, Culprits(C),
           \A d \in Devices : Counted(cell, {}, down, C, d, inside[d] + 1, Silence + 1)
    PROVE  LET c == FoldLeft(Turn, cell, order)
           IN  /\ c \in Cells /\ Blame(down, C)
               /\ Silence' \in Nat /\ inside' \in [Devices -> 0 .. Reaction]
               /\ \A d \in Devices :
                     Counted(c, Timers, down, C, d, inside'[d], Silence')
               /\ owed /\ OwedInv => Lock(c, Timers)
<1> DEFINE Y == inside'
           v == Silence'
           locked == owed /\ OwedInv
<1>1. /\ cell \in Cells /\ Reaction \in Nat /\ inside \in [Devices -> 0 .. Reaction]
      /\ silent \in 0 .. Reaction /\ owed \in BOOLEAN
  BY ChainConstants DEF ChainTypeOK
<1>2. /\ inside' = [d \in Devices |-> IF Violated(d) THEN Older(inside[d], Reaction) ELSE 0]
      /\ silent' = (IF Quiet THEN Older(silent, Reaction) ELSE 0)
      /\ UNCHANGED <<body, down>>
  BY DEF Tick
<1>3. Blame(down, C)
  BY DEF Culprits, Blame
<1>4. /\ inside' \in [Devices -> 0 .. Reaction]
      /\ \A d \in Devices : inside'[d] <= inside[d] + 1
      /\ \A d \in Devices : body[d] > 10 => inside'[d] = 0
  <2>1. \A d \in Devices : inside[d] \in 0 .. Reaction
    BY <1>1
  <2>2. \A d \in Devices : Older(inside[d], Reaction) \in 0 .. Reaction
                           /\ Older(inside[d], Reaction) <= inside[d] + 1
    BY <1>1, <2>1 DEF Older
  <2>3. \A d \in Devices : body[d] > 10 => ~Violated(d)
    <3>1. body \in [Devices -> Nat]
      BY BodyTypes DEF ChainTypeOK
    <3>2. FIELDS[1].pf = 10
      BY DEF FIELDS
    <3>3. QED
      BY <3>1, <3>2 DEF Violated
  <2> HIDE DEF Y
  <2>4. QED
    BY <1>1, <1>2, <2>1, <2>2, <2>3
<1>5. /\ silent' \in 0 .. Reaction /\ silent' <= silent + 1
      /\ silent' # 0 => Quiet
  BY <1>1, <1>2 DEF Older
<1>6. /\ v \in Nat /\ v <= Silence + 1 /\ Silence + 1 \in Nat
      /\ v # 0 => Quiet /\ down # {}
  BY <1>1, <1>2, <1>5 DEF Silence
<1>7. /\ v # 0 /\ ~Up("nav") => cell.cmd_mux.auto
      /\ v # 0 /\ ~Up("hmi") => ~cell.cmd_mux.auto
  BY <1>3, <1>6 DEF Quiet, Up, Blame, Supervision
<1>8. Y \in [Devices -> Nat] /\ \A d \in Devices : inside[d] \in Nat /\ Y[d] \in Nat
  BY <1>1, <1>4
<1> HIDE DEF Y, v
<1>9. ASSUME NEW d \in Devices
      PROVE  OfTick(C, d, Y[d], v) /\ Counted(cell, {}, down, C, d, Y[d], v)
  <2>1. OfTick(C, d, Y[d], v)
    BY <1>3, <1>4, <1>6, <1>7 DEF OfTick, Y
  <2>2. PICK y : y = inside[d] + 1
    OBVIOUS
  <2>3. PICK u : u = Silence + 1
    OBVIOUS
  <2>4. y \in Nat /\ u \in Nat /\ Y[d] \in Nat /\ Y[d] <= y /\ v <= u /\ v \in Nat
    BY <1>4, <1>6, <1>8, <2>2, <2>3 DEF Y
  <2>5. Counted(cell, {}, down, C, d, y, u)
    BY <2>2, <2>3
  <2>6. Counted(cell, {}, down, C, d, Y[d], v)
    BY <1>1, <2>4, <2>5, CountedSooner
  <2>7. QED
    BY <2>1, <2>6
<1>10. locked \in BOOLEAN /\ (locked => Locked(cell))
  BY DEF OwedInv
<1> HIDE DEF locked
<1>11. LET c == FoldLeft(Turn, cell, order)
       IN  /\ c \in Cells
           /\ \A d \in Devices : Counted(c, Timers, down, C, d, Y[d], v)
           /\ locked => Lock(c, Timers)
  BY <1>1, <1>6, <1>8, <1>9, <1>10, TickCounts
<1>12. QED
  BY <1>3, <1>4, <1>6, <1>11 DEF Y, v, locked

\* A tick keeps the types,
LEMMA TickTypes ==
    ASSUME ChainTypeOK, ChainInv, Tick
    PROVE  ChainTypeOK'
<1> DEFINE c == FoldLeft(Turn, cell, order)
<1>1. PICK C \in SUBSET Parts : Culprits(C) /\
          \A d \in Devices : Counted(cell, {}, down, C, d, inside[d] + 1, Silence + 1)
  BY DEF ChainInv
<1>2. c \in Cells /\ inside' \in [Devices -> 0 .. Reaction]
  BY <1>1, TickPasses
<1>3. cell' = Aged(c) /\ odd' = 1 - odd /\ owed' \in BOOLEAN
      /\ silent' = (IF Quiet THEN Older(silent, Reaction) ELSE 0)
      /\ UNCHANGED <<order, phase, body, down, moves, faults>>
  BY DEF Tick
<1> HIDE DEF c
<1>4. cell' \in Cells
  BY <1>2, <1>3, AgedEffect
<1>5. silent' \in 0 .. Reaction
  BY <1>3, ChainConstants DEF Older, ChainTypeOK
<1>6. odd' \in 0 .. 1
  BY <1>3 DEF ChainTypeOK
<1>7. QED
  BY <1>2, <1>3, <1>4, <1>5, <1>6 DEF ChainTypeOK

\* what counts,
LEMMA TickInv ==
    ASSUME ChainTypeOK, ChainInv, Tick
    PROVE  ChainInv'
<1>1. PICK C \in SUBSET Parts : Culprits(C) /\
          \A d \in Devices : Counted(cell, {}, down, C, d, inside[d] + 1, Silence + 1)
  BY DEF ChainInv
<1>2. PICK c : c = FoldLeft(Turn, cell, order)
  OBVIOUS
<1>3. /\ c \in Cells /\ Silence' \in Nat /\ inside' \in [Devices -> 0 .. Reaction]
      /\ \A d \in Devices : Counted(c, Timers, down, C, d, inside'[d], Silence')
  BY <1>1, <1>2, TickPasses
<1>4. cell' = Aged(c) /\ odd' = 1 - odd /\ UNCHANGED <<order, phase, down, faults>>
      /\ silent' = (IF Quiet THEN Older(silent, Reaction) ELSE 0)
  BY <1>2 DEF Tick
<1>5. Rested(cell')
  BY <1>3, <1>4, AgedRests
<1>6. faults = 0 => ~Quiet
  <2>1. faults = 0 => down = {}
    BY <1>1 DEF Culprits
  <2>2. QED
    BY <2>1 DEF Quiet, Up
<1>7. faults' = 0 => silent' = 0
  BY <1>4, <1>6
<1>8. Culprits(C)'
  BY <1>1, <1>4 DEF Culprits
<1>9. ASSUME NEW d \in Devices
      PROVE  Counted(cell, {}, down, C, d, inside[d] + 1, Silence + 1)'
  <2>1. PICK y : y = inside'[d]
    OBVIOUS
  <2>2. PICK v : v = Silence'
    OBVIOUS
  <2>3. y \in Nat /\ v \in Nat /\ Counted(c, Timers, down, C, d, y, v)
    BY <1>3, <2>1, <2>2, ChainConstants
  <2>4. /\ phase \in Phases /\ odd \in 0 .. 1 /\ odd' = 1 - odd
        /\ UNCHANGED <<phase, order>> /\ down' = down
    BY <1>4 DEF ChainTypeOK
  <2>5. PICK X : X = down
    OBVIOUS
  <2>6. Counted(c, Timers, X, C, d, y, v)
    BY <2>3, <2>5
  <2>7. Counted(Aged(c), {}, X, C, d, y + 1, v + 1)'
    BY <1>3, <2>3, <2>4, <2>6, CountedAges
  <2>8. QED
    BY <1>4, <2>1, <2>2, <2>4, <2>5, <2>7 DEF Counted
<1>10. QED
  BY <1>1, <1>5, <1>7, <1>8, <1>9 DEF ChainInv

\* and a truck that a body has stopped locked until it is reset.
LEMMA TickOwes ==
    ASSUME ChainTypeOK, ChainInv, OwedInv, Tick, Reaction >= 18
    PROVE  OwedInv'
<1> DEFINE c == FoldLeft(Turn, cell, order)
<1>1. PICK C \in SUBSET Parts : Culprits(C) /\
          \A d \in Devices : Counted(cell, {}, down, C, d, inside[d] + 1, Silence + 1)
  BY DEF ChainInv
<1>2. /\ c \in Cells /\ Blame(down, C) /\ Silence' \in Nat
      /\ inside' \in [Devices -> 0 .. Reaction]
      /\ \A d \in Devices : Counted(c, Timers, down, C, d, inside'[d], Silence')
      /\ owed => Lock(c, Timers)
  BY <1>1, TickPasses
<1>3. /\ cell' = Aged(c) /\ UNCHANGED down /\ odd' = 1 - odd /\ UNCHANGED <<phase, order>>
      /\ owed' = ((owed \/ \E d \in Devices : inside'[d] = Reaction)
                  /\ ~(cell.m6.ack > 0 /\ cell.m6.latched # {} /\ c.m6.latched = {}))
  BY DEF Tick
<1> HIDE DEF c
<1>4. SUFFICES ASSUME owed' PROVE Locked(c)
  BY <1>2, <1>3, LockedAges DEF OwedInv
<1>5. CASE owed
  BY <1>2, <1>3, <1>4, <1>5 DEF Lock, Locked, OwedInv
<1>6. CASE \E d \in Devices : inside'[d] = Reaction
  <2>1. PICK d \in Devices : inside'[d] = Reaction
    BY <1>6
  <2>2. PICK v : v = Silence'
    OBVIOUS
  <2>3. Reaction \in Nat /\ v \in Nat /\ Counted(c, Timers, down, C, d, Reaction, v)
    BY <1>2, <2>1, <2>2, ChainConstants
  <2>4. /\ Wait("cmd_gate", Timers) \in 0 .. 1 /\ Cycled(Timers) \in BOOLEAN
        /\ Rest("m6", Timers) = 0 /\ Rest("plc_link", Timers) = 0
    <3>1. /\ phase \in Phases /\ odd \in 0 .. 1
      BY DEF ChainTypeOK
    <3>2. "cmd_gate" \in Timers /\ "m6" \in Timers /\ "plc_link" \in Timers
      BY DEF Timers, Parts
    <3>3. QED
      BY <1>3, <3>1, <3>2, NextWaits, WaitTypes
  <2> DEFINE wg == Wait("cmd_gate", Timers)
             s == Cycled(Timers)
  <2>5. /\ Writer(c.m6, 0, down, C, d, Reaction, v)
        /\ Plc(c.plc_link, c.m6.out, s, 0, down, C, Reaction, v)
        /\ Gate(c.cmd_gate, c.contactor, c.plc_link.msg.motor, wg, down, C, Reaction, v)
        /\ wg \in 0 .. 1 /\ s \in BOOLEAN
    BY <2>3, <2>4 DEF Counted
  <2> HIDE DEF wg, s
  <2>6. QED
    BY <1>2, <2>3, <2>5, Overdue
<1>7. QED
  BY <1>3, <1>4, <1>5, <1>6

-----------------------------------------------------------------------------
\* What happens between two ticks.
LEMMA EventFrame ==
    ASSUME UNCHANGED <<order, phase, odd>>
    PROVE  /\ \A p \in Parts : Wait(p, {})' = Wait(p, {})
           /\ \A p \in Parts : Rest(p, {})' = 1 /\ Rest(p, {}) = 1
           /\ Scanned({})' = Scanned({}) /\ Cycled({})' = Cycled({})
BY DEF Wait, Rest, Scanned, Cycled, OnTick, Before

\* A node as its __init__ leaves it.
LEMMA FreshTypes ==
    /\ Fresh \in Cells
    /\ Fresh.field_eval \in Eyes /\ Fresh.encoder_link \in Encoders
    /\ Fresh.sensor_link \in Senders /\ Fresh.m6 \in Writers /\ Fresh.plc_link \in Links
    /\ Fresh.cmd_mux \in Muxes /\ Fresh.cmd_gate \in Gates
    /\ Fresh.hmi = [auto |-> FALSE] /\ Fresh.contactor = [off |-> FALSE, terminal |-> 0]
    /\ Fresh.cmd_mux = [auto |-> FALSE, heard |-> STATUS_STALE]
<1>1. Fresh.field_eval \in Eyes
  <2> DEFINE x == [pf |-> FALSE, wf |-> FALSE, pfc |-> 0, wfc |-> 0, seen |-> SCAN_STALE]
  <2>1. x \in Seen
    BY Ages DEF Seen, N_SCAN
  <2>2. Fresh.field_eval = [raw |-> [d \in Devices |-> None], case |-> 3,
                            heard |-> STATUS_STALE, device |-> [d \in Devices |-> x]]
    BY DEF Fresh
  <2> HIDE DEF x
  <2>3. QED
    BY <2>1, <2>2, Ages DEF Eyes, Spotted
<1>2. Fresh.encoder_link \in Encoders /\ Fresh.sensor_link \in Senders
  BY Ages DEF Fresh, Encoders, Senders
<1>3. Fresh.m6 \in Writers
  BY Ages DEF Fresh, Writers
<1>4. Fresh.plc_link \in Links
  BY Ages DEF Fresh, Links, FAILSAFE, Answers
<1>5. Fresh.cmd_mux \in Muxes /\ Fresh.cmd_gate \in Gates
  BY Ages DEF Fresh, Muxes, Gates
<1>6. /\ Fresh.hmi = [auto |-> FALSE] /\ Fresh.contactor = [off |-> FALSE, terminal |-> 0]
      /\ Fresh.cmd_mux = [auto |-> FALSE, heard |-> STATUS_STALE]
  BY DEF Fresh
<1>7. Fresh.hmi \in Windows /\ Fresh.contactor \in Contacts
  BY <1>6 DEF Windows, Contacts, Speeds
<1>8. Fresh = [field_eval |-> Fresh.field_eval, encoder_link |-> Fresh.encoder_link,
               sensor_link |-> Fresh.sensor_link, m6 |-> Fresh.m6,
               plc_link |-> Fresh.plc_link, hmi |-> Fresh.hmi, cmd_mux |-> Fresh.cmd_mux,
               cmd_gate |-> Fresh.cmd_gate, contactor |-> Fresh.contactor]
  BY DEF Fresh
<1>9. Fresh \in Cells
  BY <1>1, <1>2, <1>3, <1>4, <1>5, <1>7, <1>8 DEF Cells
<1>10. QED
  BY <1>1, <1>2, <1>3, <1>4, <1>5, <1>6, <1>9

\* The window sets the mode, and a mux that is there takes it.
LEMMA ModeEffect ==
    ASSUME NEW c \in Cells, NEW auto \in BOOLEAN
    PROVE  LET n == ModeSet(c, auto)
           IN  /\ n \in Cells /\ n.cmd_mux.heard = c.cmd_mux.heard
               /\ n.field_eval = c.field_eval /\ n.encoder_link = c.encoder_link
               /\ n.sensor_link = c.sensor_link /\ n.m6 = c.m6 /\ n.plc_link = c.plc_link
               /\ n.cmd_gate = c.cmd_gate /\ n.contactor = c.contactor
<1> DEFINE h == [c.hmi EXCEPT !.auto = auto]
           x == [c.cmd_mux EXCEPT !.auto = IF Up("cmd_mux") THEN auto ELSE @]
           c1 == [c EXCEPT !.hmi = h]
           c2 == [c1 EXCEPT !.cmd_mux = x]
<1>1. c.hmi \in Windows /\ c.cmd_mux \in Muxes
  BY CellParts
<1>2. h \in Windows
  BY <1>1 DEF Windows
<1>3. x \in Muxes /\ x.heard = c.cmd_mux.heard
  BY <1>1 DEF Muxes
<1>4. ModeSet(c, auto) = c2
  BY DEF ModeSet, Cells
<1> HIDE DEF h, x
<1>5. c1 \in Cells /\ OtherThan("hmi", c, c1)
  BY <1>2, SetWindow
<1> HIDE DEF c1
<1>6. c2 \in Cells /\ c2.cmd_mux = x /\ OtherThan("cmd_mux", c1, c2)
  BY <1>3, <1>5, SetMux
<1>7. QED
  BY <1>3, <1>4, <1>5, <1>6 DEF OtherThan

\* The nodes' own state but for what the argument does not ask about.
Alike(n, c) ==
    /\ n.field_eval = c.field_eval /\ n.encoder_link = c.encoder_link
    /\ n.sensor_link = c.sensor_link /\ n.plc_link = c.plc_link
    /\ n.cmd_gate = c.cmd_gate /\ n.contactor = c.contactor
    /\ n.m6.pf = c.m6.pf /\ n.m6.latched = c.m6.latched /\ n.m6.heard = c.m6.heard
    /\ n.m6.out = c.m6.out /\ n.cmd_mux.heard = c.cmd_mux.heard

\* An event that none of the counted parts sees.
LEMMA EventKeeps ==
    ASSUME ChainInv, Alike(cell', cell),
           UNCHANGED <<order, phase, odd, inside, silent, owed, down, faults>>
    PROVE  ChainInv' /\ (OwedInv => OwedInv')
<1>1. PICK C \in SUBSET Parts : Culprits(C) /\
          \A d \in Devices : Counted(cell, {}, down, C, d, inside[d] + 1, Silence + 1)
  BY DEF ChainInv
<1>2. Silence' = Silence /\ inside' = inside
  BY DEF Silence
<1>3. Culprits(C)'
  BY <1>1 DEF Culprits
<1>4. /\ Wait("field_eval", {})' = Wait("field_eval", {})
      /\ Wait("cmd_gate", {})' = Wait("cmd_gate", {})
      /\ Wait("cmd_mux", {})' = Wait("cmd_mux", {})
      /\ Rest("m6", {})' = Rest("m6", {}) /\ Rest("encoder_link", {})' = Rest("encoder_link", {})
      /\ Rest("plc_link", {})' = Rest("plc_link", {})
      /\ Scanned({})' = Scanned({}) /\ Cycled({})' = Cycled({})
  BY EventFrame DEF Parts
<1>5. ASSUME NEW d \in Devices
      PROVE  Counted(cell, {}, down, C, d, inside[d] + 1, Silence + 1)'
  <2> DEFINE y == inside[d] + 1
             v == Silence + 1
  <2>1. y' = y /\ v' = v /\ down' = down
    BY <1>2
  <2>2. Counted(cell, {}, down, C, d, y, v)
    BY <1>1
  <2> HIDE DEF y, v
  <2>3. Writer(cell.m6, Rest("m6", {}), down, C, d, y, v)'
    BY <1>4, <2>1, <2>2 DEF Counted, Writer, Alike
  <2>4. Command(cell.cmd_gate, cell.cmd_mux, cell.contactor, Wait("cmd_mux", {}),
                Wait("cmd_gate", {}), down, v)'
    BY <1>4, <2>1, <2>2 DEF Counted, Command, Alike
  <2>5. Counted(cell, {}, down, C, d, y, v)'
    BY <1>4, <2>1, <2>2, <2>3, <2>4 DEF Counted, Alike
  <2>6. QED
    BY <2>5 DEF y, v
<1>6. Rested(cell')
  BY DEF ChainInv, Rested, Alike
<1>7. ChainInv'
  BY <1>1, <1>3, <1>5, <1>6 DEF ChainInv
<1>8. OwedInv => OwedInv'
  BY DEF OwedInv, Locked, Stopped, Up, Alike
<1>9. QED
  BY <1>7, <1>8

\* Bodies and the operator.
LEMMA MoveKeeps ==
    ASSUME ChainTypeOK, ChainInv, BodyMoves \/ EStop \/ Reset \/ SetMode
    PROVE  ChainTypeOK' /\ ChainInv' /\ (OwedInv => OwedInv')
<1>1. cell \in Cells /\ cell.m6 \in Writers /\ cell.hmi \in Windows
  BY CellParts DEF ChainTypeOK
<1>2. /\ UNCHANGED <<order, phase, odd, inside, silent, owed, down, faults>>
      /\ moves' \in Nat /\ body' \in [Devices -> Spots]
  BY DEF ChainTypeOK, BodyMoves, EStop, Reset, SetMode, Move, Event
<1>3. cell' \in Cells /\ Alike(cell', cell)
  <2>1. CASE BodyMoves
    BY <1>1, <2>1 DEF BodyMoves, Move, Event, Alike
  <2>2. CASE EStop
    <3> DEFINE m == [cell.m6 EXCEPT !.estop = ~@]
               n == [cell EXCEPT !.m6 = m]
    <3>1. cell' = n
      BY <2>2 DEF EStop, Move, Event
    <3>2. /\ m \in Writers /\ m.pf = cell.m6.pf /\ m.latched = cell.m6.latched
          /\ m.heard = cell.m6.heard /\ m.out = cell.m6.out
      BY <1>1 DEF Writers
    <3> HIDE DEF m
    <3>3. n \in Cells /\ n.m6 = m /\ OtherThan("m6", cell, n)
      BY <1>1, <3>2, SetWriter
    <3>4. QED
      BY <3>1, <3>2, <3>3 DEF Alike, OtherThan
  <2>3. CASE Reset
    <3> DEFINE m == [cell.m6 EXCEPT !.ack = ACK_PULSE]
               n == [cell EXCEPT !.m6 = m]
    <3>1. cell' = n
      BY <2>3 DEF Reset, Event
    <3>2. /\ m \in Writers /\ m.pf = cell.m6.pf /\ m.latched = cell.m6.latched
          /\ m.heard = cell.m6.heard /\ m.out = cell.m6.out
      BY <1>1, Ages DEF Writers
    <3> HIDE DEF m
    <3>3. n \in Cells /\ n.m6 = m /\ OtherThan("m6", cell, n)
      BY <1>1, <3>2, SetWriter
    <3>4. QED
      BY <3>1, <3>2, <3>3 DEF Alike, OtherThan
  <2>4. CASE SetMode
    <3>1. cell' = ModeSet(cell, ~cell.hmi.auto) /\ (~cell.hmi.auto) \in BOOLEAN
      BY <2>4 DEF SetMode, Move, Event
    <3>2. QED
      BY <1>1, <3>1, ModeEffect DEF Alike
  <2>5. QED
    BY <2>1, <2>2, <2>3, <2>4
<1>4. ChainTypeOK'
  BY <1>2, <1>3 DEF ChainTypeOK
<1>5. QED
  BY <1>2, <1>3, <1>4, EventKeeps

\* A process dies: nothing has been quiet before it.
LEMMA PartsDie ==
    ASSUME NEW p, NEW d \in Devices, NEW y \in Nat, NEW c \in Cells, Rested(c),
           Counted(c, {}, {}, {}, d, y, 1)
    PROVE  Counted(c, {}, {p}, {p}, d, y, 1)
<1> DEFINE we == Wait("field_eval", {})
           wg == Wait("cmd_gate", {})
           wm == Wait("cmd_mux", {})
           s == Scanned({})
           t == Cycled({})
           held == c.m6.pf[d]
           seen == c.field_eval.device[d].pf
<1>1. /\ we \in 1 .. 2 /\ wg \in 1 .. 2 /\ wm \in 1 .. 2 /\ s \in BOOLEAN
      /\ Rest("m6", {}) = 1 /\ Rest("encoder_link", {}) = 1 /\ Rest("plc_link", {}) = 1
  BY WaitTypes
<1>2. /\ c.field_eval \in Eyes /\ c.encoder_link \in Encoders /\ c.sensor_link \in Senders
      /\ c.m6 \in Writers /\ c.plc_link \in Links /\ c.cmd_mux \in Muxes /\ c.cmd_gate \in Gates
      /\ held \in BOOLEAN /\ seen \in BOOLEAN
  BY CellParts DEF Writers, Eyes, Seen
<1>3. /\ c.encoder_link.heard >= 1 /\ c.sensor_link.heard >= 1 /\ c.plc_link.heard >= 1
      /\ c.cmd_mux.heard >= 1 /\ c.cmd_gate.heard >= 1 /\ c.cmd_gate.cmdHeard >= 1
  BY DEF Rested
<1>4. /\ Eye(c.field_eval, we, s, {}, {}, d, y, 1)
      /\ Link(c.sensor_link, c.encoder_link, held, seen, 1, 1, {}, {}, d, y, 1)
      /\ Writer(c.m6, 1, {}, {}, d, y, 1)
      /\ Plc(c.plc_link, c.m6.out, t, 1, {}, {}, y, 1)
      /\ Gate(c.cmd_gate, c.contactor, c.plc_link.msg.motor, wg, {}, {}, y, 1)
  BY <1>1 DEF Counted
<1> HIDE DEF we, wg, wm, s, t, held, seen
<1>5. Eye(c.field_eval, we, s, {p}, {p}, d, y, 1)
  BY <1>1, <1>2, <1>4, EyeDies
<1>6. Link(c.sensor_link, c.encoder_link, held, seen, 1, 1, {p}, {p}, d, y, 1)
  BY <1>2, <1>3, <1>4, LinkDies, ZenonT(60)
<1>7. Writer(c.m6, 1, {p}, {p}, d, y, 1)
  BY <1>2, <1>4, WriterDies
<1>8. Plc(c.plc_link, c.m6.out, t, 1, {p}, {p}, y, 1)
  BY <1>2, <1>3, <1>4, PlcDies
<1>9. Gate(c.cmd_gate, c.contactor, c.plc_link.msg.motor, wg, {p}, {p}, y, 1)
  BY <1>1, <1>2, <1>3, <1>4, GateDies
<1>10. Command(c.cmd_gate, c.cmd_mux, c.contactor, wm, wg, {p}, 1)
  BY <1>1, <1>2, <1>3, CommandDies
<1>11. QED
  BY <1>1, <1>5, <1>6, <1>7, <1>8, <1>9, <1>10
  DEF Counted, we, wg, wm, s, t, held, seen

\* A process dies, the first one.
LEMMA DieKeeps ==
    ASSUME ChainTypeOK, ChainInv, Faults <= 1, NEW p \in Parts, Die(p)
    PROVE  ChainTypeOK' /\ ChainInv' /\ (OwedInv => OwedInv')
<1>1. PICK C \in SUBSET Parts : Culprits(C) /\
          \A d \in Devices : Counted(cell, {}, down, C, d, inside[d] + 1, Silence + 1)
  BY DEF ChainInv
<1>2. /\ faults < Faults /\ faults' = faults + 1 /\ down' = down \cup {p}
      /\ UNCHANGED <<cell, order, phase, odd, inside, silent, owed, body, moves>>
  BY DEF Die, Event
<1>3. faults = 0 /\ faults \in Nat
  BY <1>2, ChainConstants DEF ChainTypeOK
<1>4. C = {} /\ down = {} /\ silent = 0 /\ down' = {p}
  BY <1>1, <1>2, <1>3 DEF Culprits, ChainInv
<1>5. Silence = 0 /\ Silence' = 0 /\ faults' # 0
  BY <1>2, <1>3, <1>4 DEF Silence
<1>6. ChainTypeOK'
  BY <1>2, <1>3 DEF ChainTypeOK
<1>7. Culprits({p})'
  BY <1>4, <1>5 DEF Culprits
<1>8. cell \in Cells /\ Rested(cell) /\ \A d \in Devices : inside[d] \in Nat
  BY ChainConstants DEF ChainTypeOK, ChainInv
<1>9. ASSUME NEW d \in Devices
      PROVE  Counted(cell, {}, down, {p}, d, inside[d] + 1, Silence + 1)'
  <2>1. PICK y : y = inside[d] + 1
    OBVIOUS
  <2>2. PICK c : c = cell
    OBVIOUS
  <2>3. y \in Nat /\ c \in Cells /\ Rested(c)
    BY <1>8, <2>1, <2>2
  <2>4. Counted(c, {}, {}, {}, d, y, 1)
    BY <1>1, <1>4, <1>5, <2>1, <2>2
  <2>5. Counted(c, {}, {p}, {p}, d, y, 1)
    BY <2>3, <2>4, PartsDie
  <2>6. /\ Wait("field_eval", {})' = Wait("field_eval", {})
        /\ Wait("cmd_gate", {})' = Wait("cmd_gate", {})
        /\ Wait("cmd_mux", {})' = Wait("cmd_mux", {})
        /\ Rest("m6", {})' = Rest("m6", {})
        /\ Rest("encoder_link", {})' = Rest("encoder_link", {})
        /\ Rest("plc_link", {})' = Rest("plc_link", {})
        /\ Scanned({})' = Scanned({}) /\ Cycled({})' = Cycled({})
    BY <1>2, EventFrame DEF Parts
  <2>7. Counted(c, {}, {p}, {p}, d, y, 1)'
    BY <2>5, <2>6 DEF Counted
  <2>8. c = cell' /\ y = (inside[d] + 1)' /\ 1 = (Silence + 1)' /\ {p} = down'
    BY <1>2, <1>4, <1>5, <2>1, <2>2
  <2>9. QED
    BY <2>7, <2>8
<1>10. ChainInv'
  <2>1. Rested(cell')
    BY <1>2, <1>8
  <2>2. QED
    BY <1>5, <1>7, <1>9, <2>1 DEF ChainInv
<1>11. OwedInv => OwedInv'
  BY <1>2, <1>4 DEF OwedInv, Locked, Stopped, Up
<1>12. QED
  BY <1>6, <1>10, <1>11

\* What a process that comes back has forgotten.
Restarted(n, c, p) ==
    /\ n \in Cells /\ n.contactor = c.contactor
    /\ n.field_eval = (IF p = "field_eval" THEN Fresh.field_eval ELSE c.field_eval)
    /\ n.encoder_link = (IF p = "encoder_link" THEN Fresh.encoder_link ELSE c.encoder_link)
    /\ n.sensor_link = (IF p = "sensor_link" THEN Fresh.sensor_link
                        ELSE IF p = "m6" THEN [c.sensor_link EXCEPT !.out = None]
                        ELSE c.sensor_link)
    /\ n.m6 = (IF p = "m6" THEN Fresh.m6
               ELSE IF p = "plc_link" THEN [c.m6 EXCEPT !.out = None] ELSE c.m6)
    /\ n.plc_link = (IF p = "plc_link" THEN Fresh.plc_link ELSE c.plc_link)
    /\ n.cmd_gate = (IF p = "cmd_gate" THEN Fresh.cmd_gate ELSE c.cmd_gate)
    /\ n.cmd_mux.heard = (IF p = "cmd_mux" THEN STATUS_STALE ELSE c.cmd_mux.heard)

\* Only its own state, and what was in its socket.
LEMMA StartedEffect ==
    ASSUME NEW c \in Cells, c = cell, NEW p \in Parts
    PROVE  Restarted(Started(p), c, p)
<1> DEFINE n == Started(p)
<1>1. /\ c.sensor_link \in Senders /\ c.m6 \in Writers
  BY CellParts
<1>2. CASE p = "hmi"
  <2>1. n = ModeSet(c, FALSE)
    BY <1>2 DEF Started
  <2> HIDE DEF n
  <2>2. /\ n \in Cells /\ n.cmd_mux.heard = c.cmd_mux.heard
        /\ n.field_eval = c.field_eval /\ n.encoder_link = c.encoder_link
        /\ n.sensor_link = c.sensor_link /\ n.m6 = c.m6 /\ n.plc_link = c.plc_link
        /\ n.cmd_gate = c.cmd_gate /\ n.contactor = c.contactor
    BY <2>1, ModeEffect
  <2>3. QED
    BY <1>2, <2>2 DEF n, Restarted
<1>3. CASE p = "cmd_mux"
  <2> DEFINE auto == Up("hmi") /\ cell.hmi.auto
             x == [Fresh.cmd_mux EXCEPT !.auto = auto]
  <2>1. n = [c EXCEPT !.cmd_mux = x]
    BY <1>3 DEF Started
  <2>2. auto \in BOOLEAN
    BY CellParts DEF Windows
  <2> HIDE DEF auto
  <2>3. x \in Muxes /\ x.heard = STATUS_STALE
    BY <2>2, FreshTypes DEF Muxes
  <2> HIDE DEF n, x
  <2>4. n \in Cells /\ n.cmd_mux = x /\ OtherThan("cmd_mux", c, n)
    BY <2>1, <2>3, SetMux
  <2>5. QED
    BY <1>3, <2>3, <2>4 DEF OtherThan, n, Restarted
<1>4. CASE p = "m6"
  <2> DEFINE l == [c.sensor_link EXCEPT !.out = None]
             c1 == [c EXCEPT !.m6 = Fresh.m6]
             c2 == [c1 EXCEPT !.sensor_link = l]
  <2>1. n = c2
    BY <1>4 DEF Started, Cells
  <2>2. l \in Senders
    BY <1>1 DEF Senders
  <2> HIDE DEF n, l
  <2>3. c1 \in Cells /\ c1.m6 = Fresh.m6 /\ OtherThan("m6", c, c1)
    BY FreshTypes, SetWriter
  <2> HIDE DEF c1
  <2>4. c2 \in Cells /\ c2.sensor_link = l /\ OtherThan("sensor_link", c1, c2)
    BY <2>2, <2>3, SetSender
  <2>5. QED
    BY <1>4, <2>1, <2>3, <2>4 DEF OtherThan, l, n, Restarted
<1>5. CASE p = "plc_link"
  <2> DEFINE m == [c.m6 EXCEPT !.out = None]
             c1 == [c EXCEPT !.plc_link = Fresh.plc_link]
             c2 == [c1 EXCEPT !.m6 = m]
  <2>1. n = c2
    BY <1>5 DEF Started, Cells
  <2>2. m \in Writers
    BY <1>1 DEF Writers
  <2> HIDE DEF n, m
  <2>3. c1 \in Cells /\ c1.plc_link = Fresh.plc_link /\ OtherThan("plc_link", c, c1)
    BY FreshTypes, SetPlc
  <2> HIDE DEF c1
  <2>4. c2 \in Cells /\ c2.m6 = m /\ OtherThan("m6", c1, c2)
    BY <2>2, <2>3, SetWriter
  <2>5. QED
    BY <1>5, <2>1, <2>3, <2>4 DEF OtherThan, m, n, Restarted
<1>6. CASE p \in {"field_eval", "encoder_link", "sensor_link", "cmd_gate"}
  <2>1. n = [c EXCEPT ![p] = Fresh[p]]
    BY <1>6 DEF Started
  <2> HIDE DEF n
  <2>2. CASE p = "field_eval"
    <3>1. n = [c EXCEPT !.field_eval = Fresh.field_eval]
      BY <2>1, <2>2
    <3>2. n \in Cells /\ n.field_eval = Fresh.field_eval /\ OtherThan("field_eval", c, n)
      BY <3>1, FreshTypes, SetEye
    <3>3. QED
      BY <2>2, <3>2 DEF OtherThan, n, Restarted
  <2>3. CASE p = "encoder_link"
    <3>1. n = [c EXCEPT !.encoder_link = Fresh.encoder_link]
      BY <2>1, <2>3
    <3>2. n \in Cells /\ n.encoder_link = Fresh.encoder_link /\ OtherThan("encoder_link", c, n)
      BY <3>1, FreshTypes, SetEncoder
    <3>3. QED
      BY <2>3, <3>2 DEF OtherThan, n, Restarted
  <2>4. CASE p = "sensor_link"
    <3>1. n = [c EXCEPT !.sensor_link = Fresh.sensor_link]
      BY <2>1, <2>4
    <3>2. n \in Cells /\ n.sensor_link = Fresh.sensor_link /\ OtherThan("sensor_link", c, n)
      BY <3>1, FreshTypes, SetSender
    <3>3. QED
      BY <2>4, <3>2 DEF OtherThan, n, Restarted
  <2>5. CASE p = "cmd_gate"
    <3>1. n = [c EXCEPT !.cmd_gate = Fresh.cmd_gate]
      BY <2>1, <2>5
    <3>2. n \in Cells /\ n.cmd_gate = Fresh.cmd_gate /\ OtherThan("cmd_gate", c, n)
      BY <3>1, FreshTypes, SetGate
    <3>3. QED
      BY <2>5, <3>2 DEF OtherThan, n, Restarted
  <2>6. QED
    BY <1>6, <2>2, <2>3, <2>4, <2>5
<1>7. CASE p \in {"scanner", "encoder", "nav"}
  <2>1. n = c
    BY <1>7 DEF Started
  <2> HIDE DEF n
  <2>2. QED
    BY <1>7, <2>1 DEF n, Restarted
<1>8. QED
  BY <1>2, <1>3, <1>4, <1>5, <1>6, <1>7 DEF Parts

\* No node is quiet once the one that died is back.
LEMMA PartsReturn ==
    ASSUME NEW C, NEW X, X \subseteq C, NEW p \in X, \A q \in C : q = p,
           NEW d \in Devices, NEW y \in Nat, NEW v \in Nat, 1 <= v,
           NEW c \in Cells, NEW n, Restarted(n, c, p), Counted(c, {}, X, C, d, y, v)
    PROVE  Counted(n, {}, {}, C, d, y, 1)
<1> DEFINE we == Wait("field_eval", {})
           wg == Wait("cmd_gate", {})
           wm == Wait("cmd_mux", {})
           s == Scanned({})
           t == Cycled({})
           held == c.m6.pf[d]
           seen == c.field_eval.device[d].pf
           motor == c.plc_link.msg.motor
           new == n.m6.pf[d]
           sees == n.field_eval.device[d].pf
           lets == n.plc_link.msg.motor
<1>1. /\ we \in 1 .. 2 /\ wg \in 1 .. 2 /\ wm \in 1 .. 2 /\ s \in BOOLEAN
      /\ wg \in 0 .. 2 /\ wm \in 0 .. 2
      /\ Rest("m6", {}) = 1 /\ Rest("encoder_link", {}) = 1 /\ Rest("plc_link", {}) = 1
  BY WaitTypes
<1>2. /\ c.field_eval \in Eyes /\ c.encoder_link \in Encoders /\ c.sensor_link \in Senders
      /\ c.m6 \in Writers /\ c.plc_link \in Links /\ c.cmd_mux \in Muxes /\ c.cmd_gate \in Gates
      /\ held \in BOOLEAN /\ seen \in BOOLEAN /\ motor \in BOOLEAN
  BY CellParts DEF Writers, Eyes, Seen, Links, Answers
<1>3. /\ n \in Cells /\ n.sensor_link \in Senders
      /\ n.m6 \in Writers /\ n.cmd_mux \in Muxes /\ n.cmd_gate \in Gates
      /\ new \in BOOLEAN /\ sees \in BOOLEAN /\ lets \in BOOLEAN
  <2>1. n \in Cells
    BY DEF Restarted
  <2>2. QED
    BY <2>1, CellParts DEF Writers, Eyes, Seen, Links, Answers
<1>4. /\ Eye(c.field_eval, we, s, X, C, d, y, v)
      /\ Link(c.sensor_link, c.encoder_link, held, seen, 1, 1, X, C, d, y, v)
      /\ Writer(c.m6, 1, X, C, d, y, v)
      /\ Plc(c.plc_link, c.m6.out, t, 1, X, C, y, v)
      /\ Gate(c.cmd_gate, c.contactor, motor, wg, X, C, y, v)
  BY <1>1 DEF Counted
<1>5. /\ n.contactor = c.contactor
      /\ n.field_eval = (IF p = "field_eval" THEN Fresh.field_eval ELSE c.field_eval)
      /\ n.encoder_link = (IF p = "encoder_link" THEN Fresh.encoder_link ELSE c.encoder_link)
      /\ n.plc_link = (IF p = "plc_link" THEN Fresh.plc_link ELSE c.plc_link)
      /\ n.cmd_gate = (IF p = "cmd_gate" THEN Fresh.cmd_gate ELSE c.cmd_gate)
  BY DEF Restarted
<1>6. /\ p \notin {"m6", "sensor_link"} => n.sensor_link = c.sensor_link
      /\ p \in {"m6", "sensor_link"} => n.sensor_link.out = None
      /\ p = "m6" => /\ n.sensor_link.pair = c.sensor_link.pair
                     /\ n.sensor_link.heard = c.sensor_link.heard
  <2>1. Fresh.sensor_link.out = None
    BY DEF Fresh
  <2>2. QED
    BY <1>2, <2>1 DEF Restarted, Senders
<1>7. /\ p = "m6" => n.m6 = Fresh.m6 /\ new = FALSE /\ n.m6.out = None
      /\ p # "m6" => /\ n.m6.pf = c.m6.pf /\ n.m6.latched = c.m6.latched
                     /\ n.m6.heard = c.m6.heard /\ new = held
      /\ p = "plc_link" => n.m6.out = None
      /\ p \notin {"m6", "plc_link"} => n.m6.out = c.m6.out
  <2>1. Fresh.m6.out = None /\ Fresh.m6.pf = [b \in Devices |-> FALSE]
    BY DEF Fresh
  <2>2. QED
    BY <1>2, <2>1 DEF Restarted, Writers
<1>8. /\ p # "field_eval" => sees = seen
      /\ p # "plc_link" => lets = motor
      /\ \A q \in X : q = p
      /\ p \in C
  BY <1>5
<1> HIDE DEF we, wg, wm, s, t, held, seen, motor, new, sees, lets
<1>9. Eye(n.field_eval, we, s, {}, C, d, y, 1)
  <2>1. CASE p = "field_eval"
    BY <1>1, <1>5, <2>1, EyeStarts
  <2>2. CASE p # "field_eval"
    BY <1>1, <1>2, <1>4, <1>5, <1>8, <2>2, EyeReturns
  <2>3. QED
    BY <2>1, <2>2
<1>10. Link(n.sensor_link, n.encoder_link, new, sees, 1, 1, {}, C, d, y, 1)
  <2>1. CASE p \in {"m6", "sensor_link"}
    <3>1. n.encoder_link = c.encoder_link /\ sees = seen
      BY <1>5, <1>8, <2>1
    <3>2. \/ n.sensor_link.pair = c.sensor_link.pair
             /\ n.sensor_link.heard = c.sensor_link.heard /\ new = FALSE
          \/ "sensor_link" \in C
      BY <1>6, <1>7, <1>8, <2>1
    <3> DEFINE l == n.sensor_link
               e == c.encoder_link
               k == c.sensor_link
    <3>3. /\ k \in Senders /\ l.out = None /\ Link(k, e, held, seen, 1, 1, X, C, d, y, v)
          /\ \/ l.pair = k.pair /\ l.heard = k.heard /\ new = FALSE
             \/ "sensor_link" \in C
      BY <1>2, <1>4, <1>6, <2>1, <3>2
    <3> HIDE DEF l, e, k
    <3>4. Link(l, e, new, seen, 1, 1, {}, C, d, y, 1)
      BY <1>2, <1>3, <3>3 DEF Link, Sensors
    <3>5. QED
      BY <3>1, <3>4 DEF l, e, k
  <2>2. CASE p \notin {"m6", "sensor_link"}
    <3> DEFINE l == c.sensor_link
               e == c.encoder_link
               f == n.encoder_link
    <3>1. /\ l \in Senders /\ Link(l, e, held, seen, 1, 1, X, C, d, y, v) /\ "m6" \notin X
          /\ n.sensor_link = l /\ new = held
      BY <1>2, <1>4, <1>6, <1>7, <1>8, <2>2
    <3>2. e = f \/ C \cap {"encoder", "encoder_link", "sensor_link"} # {}
      BY <1>5, <1>8
    <3>3. sees = seen \/ C \cap Sensors # {}
      BY <1>8 DEF Sensors
    <3> HIDE DEF l, e, f
    <3>4. Link(l, f, held, sees, 1, 1, {}, C, d, y, 1)
      BY <1>2, <1>3, <3>1, <3>2, <3>3, LinkReturns
    <3>5. QED
      BY <3>1, <3>4 DEF f
  <2>3. QED
    BY <2>1, <2>2
<1>11. Writer(n.m6, 1, {}, C, d, y, 1)
  <2>1. CASE p = "m6"
    BY <1>7, <2>1, WriterStarts
  <2>2. CASE p # "m6"
    <3>1. "m6" \notin X /\ (n.m6.out = c.m6.out \/ n.m6.out = None)
      BY <1>7, <1>8, <2>2
    <3>2. QED
      BY <1>2, <1>4, <1>7, <2>2, <3>1, WriterReturns
  <2>3. QED
    BY <2>1, <2>2
<1>12. Plc(n.plc_link, n.m6.out, t, 1, {}, C, y, 1)
  <2>1. CASE p = "plc_link"
    BY <1>5, <1>7, <2>1, PlcStarts
  <2>2. CASE p # "plc_link"
    <3> DEFINE b == c.plc_link
               o == c.m6.out
               q == n.m6.out
    <3>1. /\ "plc_link" \notin X /\ n.plc_link = b /\ b \in Links
          /\ Plc(b, o, t, 1, X, C, y, v)
          /\ q = o \/ (q = None /\ "m6" \in C)
      BY <1>2, <1>4, <1>5, <1>7, <1>8, <2>2
    <3> HIDE DEF b, o, q
    <3>2. Plc(b, q, t, 1, {}, C, y, 1)
      BY <3>1, PlcReturns
    <3>3. QED
      BY <3>1, <3>2 DEF q
  <2>3. QED
    BY <2>1, <2>2
<1>13. Gate(n.cmd_gate, n.contactor, lets, wg, {}, C, y, 1)
  <2> DEFINE g == c.cmd_gate
             k == c.contactor
  <2>1. g \in Gates /\ n.contactor = k /\ Gate(g, k, motor, wg, X, C, y, v)
    BY <1>2, <1>4, <1>5
  <2> HIDE DEF g, k
  <2>2. CASE p = "cmd_gate"
    <3>1. n.cmd_gate = Fresh.cmd_gate /\ "plc_link" \notin C /\ lets = motor
      BY <1>5, <1>8, <2>2
    <3>2. Gate(Fresh.cmd_gate, k, motor, wg, {}, C, y, 1)
      BY <1>2, <2>1, <3>1, GateStarts
    <3>3. QED
      BY <2>1, <3>1, <3>2
  <2>3. CASE p # "cmd_gate"
    <3>1. n.cmd_gate = g /\ "cmd_gate" \notin X /\ (lets = motor \/ "plc_link" \in C)
      BY <1>5, <1>8, <2>3 DEF g
    <3>2. Gate(g, k, lets, wg, {}, C, y, 1)
      BY <1>1, <2>1, <3>1, GateReturns
    <3>3. QED
      BY <2>1, <3>1, <3>2
  <2>4. QED
    BY <2>2, <2>3
<1>14. Command(n.cmd_gate, n.cmd_mux, n.contactor, wm, wg, {}, 1)
  BY <1>1, <1>3, CommandFree
<1>15. QED
  BY <1>1, <1>9, <1>10, <1>11, <1>12, <1>13, <1>14
  DEF Counted, we, wg, wm, s, t, new, sees, lets

\* A process comes back.
LEMMA RestartKeeps ==
    ASSUME ChainTypeOK, ChainInv, NEW p \in Parts, Restart(p)
    PROVE  ChainTypeOK' /\ ChainInv' /\ (OwedInv => OwedInv')
<1>1. PICK C \in SUBSET Parts : Culprits(C) /\
          \A d \in Devices : Counted(cell, {}, down, C, d, inside[d] + 1, Silence + 1)
  BY DEF ChainInv
<1>2. PICK c : c = cell
  OBVIOUS
<1>3. PICK n : n = Started(p)
  OBVIOUS
<1>4. /\ p \in down /\ down' = down \ {p} /\ cell' = n
      /\ UNCHANGED <<order, phase, odd, inside, silent, owed, body, moves, faults>>
  BY <1>3 DEF Restart, Event, Up
<1>5. c \in Cells /\ Rested(c) /\ \A d \in Devices : inside[d] \in Nat
  BY <1>2, ChainConstants DEF ChainTypeOK, ChainInv
<1>6. Restarted(n, c, p)
  BY <1>2, <1>3, <1>5, StartedEffect
<1>7. down \subseteq C /\ (\A q \in C : q = p) /\ down' = {}
  BY <1>1, <1>4 DEF Culprits
<1>8. Silence' = 0 /\ Silence \in Nat
  BY <1>7 DEF Silence, ChainTypeOK
<1>9. ChainTypeOK'
  BY <1>4, <1>6 DEF ChainTypeOK, Restarted
<1>10. Culprits(C)'
  BY <1>1, <1>4, <1>7 DEF Culprits
<1>11. Rested(n)
  <2>1. /\ Fresh.encoder_link.heard >= 1 /\ Fresh.sensor_link.heard >= 1
        /\ Fresh.plc_link.heard >= 1
        /\ Fresh.cmd_gate.heard >= 1 /\ Fresh.cmd_gate.cmdHeard >= 1 /\ STATUS_STALE >= 1
    BY Ages DEF Fresh
  <2>2. c.sensor_link \in Senders
    BY <1>5, CellParts
  <2>3. n.sensor_link.heard >= 1
    BY <1>5, <1>6, <2>1, <2>2 DEF Restarted, Rested, Senders
  <2>4. QED
    BY <1>5, <1>6, <2>1, <2>3 DEF Restarted, Rested
<1>12. ASSUME NEW d \in Devices
       PROVE  Counted(cell, {}, down, C, d, inside[d] + 1, Silence + 1)'
  <2>1. PICK y : y = inside[d] + 1
    OBVIOUS
  <2>2. PICK v : v = Silence + 1
    OBVIOUS
  <2>3. PICK X : X = down
    OBVIOUS
  <2>4. y \in Nat /\ v \in Nat /\ 1 <= v /\ X \subseteq C /\ p \in X
    BY <1>4, <1>5, <1>7, <1>8, <2>1, <2>2, <2>3
  <2>5. Counted(c, {}, X, C, d, y, v)
    BY <1>1, <1>2, <2>1, <2>2, <2>3
  <2>6. Counted(n, {}, {}, C, d, y, 1)
    BY <1>5, <1>6, <1>7, <2>4, <2>5, PartsReturn
  <2>7. /\ Wait("field_eval", {})' = Wait("field_eval", {})
        /\ Wait("cmd_gate", {})' = Wait("cmd_gate", {})
        /\ Wait("cmd_mux", {})' = Wait("cmd_mux", {})
        /\ Rest("m6", {})' = Rest("m6", {})
        /\ Rest("encoder_link", {})' = Rest("encoder_link", {})
        /\ Rest("plc_link", {})' = Rest("plc_link", {})
        /\ Scanned({})' = Scanned({}) /\ Cycled({})' = Cycled({})
    BY <1>4, EventFrame DEF Parts
  <2>8. Counted(n, {}, {}, C, d, y, 1)'
    BY <2>6, <2>7 DEF Counted
  <2>9. n = cell' /\ y = (inside[d] + 1)' /\ 1 = (Silence + 1)' /\ {} = down'
    BY <1>4, <1>7, <1>8, <2>1
  <2>10. QED
    BY <2>8, <2>9
<1>13. ChainInv'
  <2>1. faults' = 0 => silent' = 0
    BY <1>4 DEF ChainInv
  <2>2. Rested(cell')
    BY <1>4, <1>11
  <2>3. QED
    BY <1>10, <1>12, <2>1, <2>2 DEF ChainInv
<1>14. OwedInv => OwedInv'
  <2>1. SUFFICES ASSUME OwedInv, owed PROVE Locked(cell)'
    BY <1>4 DEF OwedInv
  <2>2. Locked(c)
    BY <1>2, <2>1 DEF OwedInv
  <2>3. /\ Fresh.m6.out = None /\ Fresh.m6.latched = Inputs /\ Inputs # {}
        /\ Fresh.plc_link.msg.motor = FALSE /\ Fresh.cmd_gate.motor = FALSE
    BY DEF Fresh, FAILSAFE, Inputs
  <2>4. c.m6 \in Writers
    BY <1>5, CellParts
  <2>5. \A q \in Parts : q # p => (Up(q) /\ Up(q)')
    BY <1>7 DEF Up
  <2>6. /\ n.m6.out # None => ~n.m6.out.motor
        /\ n.m6.latched # {}
    <3>1. CASE p = "m6"
      BY <1>6, <2>3, <3>1 DEF Restarted
    <3>2. CASE p # "m6"
      BY <1>6, <2>2, <2>4, <2>5, <3>2 DEF Restarted, Locked, Stopped, Writers, Parts
    <3>3. QED
      BY <3>1, <3>2
  <2>7. ~n.plc_link.msg.motor
    BY <1>6, <2>2, <2>3, <2>5 DEF Restarted, Locked, Stopped, Parts
  <2>8. ~n.cmd_gate.motor \/ n.cmd_gate.heard = STATUS_STALE
    BY <1>6, <2>2, <2>3, <2>5 DEF Restarted, Locked, Stopped, Parts
  <2>9. n.contactor.terminal = 0
    BY <1>6, <2>2 DEF Restarted, Locked, Stopped
  <2>10. QED
    BY <1>4, <2>6, <2>7, <2>8, <2>9 DEF Locked, Stopped
<1>15. QED
  BY <1>9, <1>13, <1>14

-----------------------------------------------------------------------------
(* The first state. *)

\* The nodes as they start.
LEMMA InitCell ==
    ASSUME Init
    PROVE  cell \in Cells /\ Alike(cell, Fresh)
<1>1. PICK auto \in BOOLEAN : cell = [Fresh EXCEPT !.hmi.auto = auto, !.cmd_mux.auto = auto]
  BY DEF Init
<1> DEFINE h == [Fresh.hmi EXCEPT !.auto = auto]
           x == [Fresh.cmd_mux EXCEPT !.auto = auto]
           c1 == [Fresh EXCEPT !.hmi = h]
           c2 == [c1 EXCEPT !.cmd_mux = x]
<1>2. cell = c2
  BY <1>1, FreshTypes DEF Cells
<1>3. h \in Windows
  BY FreshTypes DEF Windows
<1>4. x \in Muxes /\ x.heard = Fresh.cmd_mux.heard
  BY FreshTypes DEF Muxes
<1> HIDE DEF h, x
<1>5. c1 \in Cells /\ OtherThan("hmi", Fresh, c1)
  BY <1>3, FreshTypes, SetWindow
<1> HIDE DEF c1
<1>6. c2 \in Cells /\ c2.cmd_mux = x /\ OtherThan("cmd_mux", c1, c2)
  BY <1>4, <1>5, SetMux
<1>7. QED
  BY <1>2, <1>4, <1>5, <1>6 DEF OtherThan, Alike

\* The first state is typed,
LEMMA InitTypes ==
    ASSUME Init
    PROVE  ChainTypeOK
<1>1. body \in [Devices -> Spots]
  BY DEF Init
<1>2. /\ cell \in Cells /\ order \in Orders /\ phase \in Phases /\ odd \in 0 .. 1
      /\ down \in SUBSET Parts /\ moves \in Nat /\ faults \in Nat /\ owed \in BOOLEAN
  <2>1. /\ order \in Orders /\ phase \in Phases /\ odd = 0 /\ down = {} /\ moves = 0
        /\ faults = 0 /\ owed = FALSE
    BY DEF Init
  <2>2. cell \in Cells
    BY InitCell
  <2>3. owed \in BOOLEAN
    BY <2>1, Zenon
  <2>4. odd \in 0 .. 1 /\ down \in SUBSET Parts /\ moves \in Nat /\ faults \in Nat
    BY <2>1
  <2>5. QED
    BY <2>1, <2>2, <2>3, <2>4
<1>3. inside \in [Devices -> 0 .. Reaction] /\ silent \in 0 .. Reaction
  BY ChainConstants DEF Init
<1>4. QED
  BY <1>1, <1>2, <1>3 DEF ChainTypeOK

\* and nothing is enabled in it.
LEMMA InitCounts ==
    ASSUME Init
    PROVE  ChainInv /\ OwedInv
<1>1. cell \in Cells /\ Alike(cell, Fresh)
  BY InitCell
<1>2. /\ down = {} /\ faults = 0 /\ silent = 0 /\ owed = FALSE
      /\ inside = [d \in Devices |-> 0] /\ Silence = 0
  BY DEF Init, Silence
<1>3. /\ cell.sensor_link = [pair |-> None, heard |-> ENCODERS_STALE, out |-> None]
      /\ cell.contactor = [off |-> FALSE, terminal |-> 0]
      /\ cell.cmd_gate.motor = FALSE /\ cell.cmd_gate.heard = STATUS_STALE
      /\ cell.cmd_gate.cmdHeard = CMD_STALE /\ cell.encoder_link.heard = ENC_STALE
      /\ cell.plc_link.heard = LINK_STALE /\ cell.cmd_mux.heard = STATUS_STALE
      /\ cell.m6.pf = [d \in Devices |-> FALSE] /\ cell.m6.latched = Inputs
      /\ cell.m6.out = None
  <2>1. /\ Fresh.sensor_link = [pair |-> None, heard |-> ENCODERS_STALE, out |-> None]
        /\ Fresh.cmd_gate.motor = FALSE /\ Fresh.cmd_gate.heard = STATUS_STALE
        /\ Fresh.cmd_gate.cmdHeard = CMD_STALE /\ Fresh.encoder_link.heard = ENC_STALE
        /\ Fresh.plc_link.heard = LINK_STALE /\ Fresh.m6.pf = [d \in Devices |-> FALSE]
        /\ Fresh.m6.latched = Inputs /\ Fresh.m6.out = None
    BY DEF Fresh
  <2>2. /\ Fresh.contactor = [off |-> FALSE, terminal |-> 0]
        /\ Fresh.cmd_mux.heard = STATUS_STALE
    BY DEF Fresh
  <2>3. QED
    BY <1>1, <2>1, <2>2 DEF Alike
<1>4. ASSUME NEW d \in Devices
      PROVE  Counted(cell, {}, {}, {}, d, 1, 1)
  <2>1. /\ Wait("cmd_mux", {}) \in 0 .. 2 /\ Wait("cmd_gate", {}) \in 0 .. 2
        /\ Rest("m6", {}) = 1 /\ Rest("encoder_link", {}) = 1 /\ Rest("plc_link", {}) = 1
        /\ Scanned({}) \in BOOLEAN
    BY WaitTypes
  <2>2. Eye(cell.field_eval, Wait("field_eval", {}), Scanned({}), {}, {}, d, 1, 1)
    <3>1. cell.field_eval = Fresh.field_eval
      BY <1>1 DEF Alike
    <3> DEFINE w == Wait("field_eval", {})
               s == Scanned({})
    <3>2. s \in BOOLEAN
      BY <2>1
    <3> HIDE DEF w, s
    <3>3. Eye(Fresh.field_eval, w, s, {}, {}, d, 1, 1)
      BY <3>2, EyeStarts
    <3>4. QED
      BY <3>1, <3>3 DEF w, s
  <2>3. Link(cell.sensor_link, cell.encoder_link, cell.m6.pf[d], cell.field_eval.device[d].pf,
             1, 1, {}, {}, d, 1, 1)
    BY <1>3 DEF Link
  <2>4. Writer(cell.m6, 1, {}, {}, d, 1, 1)
    BY <1>3 DEF Writer, Inputs
  <2>5. Plc(cell.plc_link, cell.m6.out, Cycled({}), 1, {}, {}, 1, 1)
    <3>1. cell.plc_link = Fresh.plc_link
      BY <1>1 DEF Alike
    <3>2. QED
      BY <1>3, <3>1, PlcStarts
  <2>6. Gate(cell.cmd_gate, cell.contactor, cell.plc_link.msg.motor, Wait("cmd_gate", {}),
             {}, {}, 1, 1)
    BY <1>3 DEF Gate
  <2>7. Command(cell.cmd_gate, cell.cmd_mux, cell.contactor, Wait("cmd_mux", {}),
                Wait("cmd_gate", {}), {}, 1)
    BY <1>1, <2>1, CommandFree, CellParts
  <2>8. QED
    BY <2>1, <2>2, <2>3, <2>4, <2>5, <2>6, <2>7 DEF Counted
<1>5. Rested(cell)
  BY <1>3, Ages DEF Rested
<1>6. Culprits({})
  BY <1>2 DEF Culprits
<1>7. \A d \in Devices : inside[d] + 1 = 1 /\ Silence + 1 = 1
  BY <1>2
<1>8. QED
  BY <1>2, <1>4, <1>5, <1>6, <1>7 DEF ChainInv, OwedInv

-----------------------------------------------------------------------------
(* The theorems. *)

\* A step of the chain.
LEMMA StepKeeps ==
    ASSUME Faults <= 1, ChainTypeOK, ChainInv, [Next]_vars
    PROVE  /\ ChainTypeOK' /\ ChainInv'
           /\ Reaction >= 18 /\ OwedInv => OwedInv'
<1>1. CASE Tick
  BY <1>1, TickTypes, TickInv, TickOwes
<1>2. CASE BodyMoves \/ EStop \/ Reset \/ SetMode
  BY <1>2, MoveKeeps
<1>3. ASSUME NEW p \in Parts, Die(p)
      PROVE  ChainTypeOK' /\ ChainInv' /\ (OwedInv => OwedInv')
  BY <1>3, DieKeeps
<1>4. ASSUME NEW p \in Parts, Restart(p)
      PROVE  ChainTypeOK' /\ ChainInv' /\ (OwedInv => OwedInv')
  BY <1>4, RestartKeeps
<1>5. CASE UNCHANGED vars
  <2>1. ChainTypeOK'
    BY <1>5 DEF vars, ChainTypeOK
  <2>2. Alike(cell', cell)
    BY <1>5 DEF vars, Alike
  <2>3. UNCHANGED <<order, phase, odd, inside, silent, owed, down, faults>>
    BY <1>5 DEF vars
  <2>4. QED
    BY <2>1, <2>2, <2>3, EventKeeps
<1>6. QED
  BY <1>1, <1>2, <1>3, <1>4, <1>5 DEF Next

\* With one process that dies at most, what the nodes keep stays in its types, and
\* what each of them keeps while the truck may drive bounds for how long a body has
\* been in a field and a node has been quiet (ipc/field_eval.py to sto_contactor.py).
THEOREM ChainCounts ==
    ASSUME Faults <= 1
    PROVE  Spec => [](ChainTypeOK /\ ChainInv)
<1>1. Init => ChainTypeOK /\ ChainInv
  BY InitTypes, InitCounts
<1>2. (ChainTypeOK /\ ChainInv) /\ [Next]_vars => (ChainTypeOK /\ ChainInv)'
  BY StepKeeps
<1>3. QED
  BY <1>1, <1>2, PTL DEF Spec

\* A truck that a body has stopped stays locked until it is reset.
LEMMA ChainOwes ==
    ASSUME Faults <= 1, Reaction >= 18
    PROVE  Spec => []OwedInv
<1>1. Init => OwedInv
  BY InitCounts
<1>2. (ChainTypeOK /\ ChainInv) /\ OwedInv /\ [Next]_vars => OwedInv'
  BY StepKeeps
<1>3. Spec => [](ChainTypeOK /\ ChainInv)
  BY ChainCounts
<1>4. QED
  BY <1>1, <1>2, <1>3, PTL DEF Spec

\* The terminal, the latches and the counters stay in their ranges.
THEOREM ChainTypeCorrect ==
    ASSUME Faults <= 1
    PROVE  Spec => []TypeOK
<1>1. ChainTypeOK /\ ChainInv => TypeOK
  <2> SUFFICES ASSUME ChainTypeOK PROVE TypeOK
    OBVIOUS
  <2>1. /\ cell \in Cells /\ cell.field_eval \in Eyes /\ cell.m6 \in Writers
        /\ cell.contactor \in Contacts /\ down \in SUBSET Parts
    BY CellParts DEF ChainTypeOK
  <2>2. cell.m6.latched \subseteq Inputs /\ cell.m6.ack \in 0 .. ACK_PULSE
    BY <2>1 DEF Writers
  <2>3. cell.contactor.terminal \in {0, Creep, Full}
    BY <2>1 DEF Contacts, Speeds
  <2>4. \A d \in Devices : cell.field_eval.device[d].pfc \in 0 .. N_SCAN - 1
    BY <2>1 DEF Eyes, Seen
  <2>5. QED
    BY <2>1, <2>2, <2>3, <2>4 DEF TypeOK
<1>2. Spec => [](ChainTypeOK /\ ChainInv)
  BY ChainCounts
<1>3. QED
  BY <1>1, <1>2, PTL

\* What counts for the nodes of a state, seen from the truck.
LEMMA StateCounts ==
    ASSUME ChainTypeOK, ChainInv
    PROVE  \E C \in SUBSET Parts :
              /\ Blame(down, C)
              /\ \A d \in Devices :
                    LET y == inside[d] + 1
                        v == Silence + 1
                    IN  /\ y \in Nat /\ v \in Nat
                        /\ Writer(cell.m6, 1, down, C, d, y, v)
                        /\ Plc(cell.plc_link, cell.m6.out, Cycled({}), 1, down, C, y, v)
                        /\ Gate(cell.cmd_gate, cell.contactor, cell.plc_link.msg.motor,
                                Wait("cmd_gate", {}), down, C, y, v)
                        /\ Command(cell.cmd_gate, cell.cmd_mux, cell.contactor,
                                   Wait("cmd_mux", {}), Wait("cmd_gate", {}), down, v)
<1>1. PICK C \in SUBSET Parts : Culprits(C) /\
          \A d \in Devices : Counted(cell, {}, down, C, d, inside[d] + 1, Silence + 1)
  BY DEF ChainInv
<1>2. Blame(down, C)
  BY <1>1 DEF Culprits, Blame
<1>3. Rest("m6", {}) = 1 /\ Rest("plc_link", {}) = 1
  BY WaitTypes
<1>4. Silence + 1 \in Nat /\ \A d \in Devices : inside[d] + 1 \in Nat
  BY ChainConstants DEF ChainTypeOK, Silence
<1>5. QED
  BY <1>1, <1>2, <1>3, <1>4 DEF Counted

\* The ages and waits of a state as numbers.
LEMMA CellAges ==
    ASSUME ChainTypeOK
    PROVE  /\ cell.plc_link.heard \in 0 .. 6 /\ LINK_STALE = 6
           /\ cell.cmd_gate.heard \in 0 .. 5 /\ STATUS_STALE = 5
           /\ cell.cmd_gate.cmdHeard \in 0 .. 5 /\ CMD_STALE = 5
           /\ cell.cmd_mux.heard \in 0 .. 5
           /\ Wait("cmd_gate", {}) \in 0 .. 2 /\ Wait("cmd_mux", {}) \in 0 .. 2
<1>1. cell.plc_link \in Links /\ cell.cmd_gate \in Gates /\ cell.cmd_mux \in Muxes
  BY CellParts DEF ChainTypeOK
<1>2. Wait("cmd_gate", {}) \in 0 .. 2 /\ Wait("cmd_mux", {}) \in 0 .. 2
  BY WaitTypes
<1>3. QED
  BY <1>1, <1>2, Ages DEF Links, Gates, Muxes

\* A body that stays in the smallest protective field for 18 ticks has stopped the
\* truck, whatever the phases of the nodes' timers, and whichever one process has died
\* and come back (field_step to cb_torque_off_demand).
THEOREM BodyAlwaysStops ==
    ASSUME Faults <= 1, Reaction >= 18
    PROVE  Spec => []BodyStops
<1>1. ChainTypeOK /\ ChainInv => BodyStops
  <2> SUFFICES ASSUME ChainTypeOK, ChainInv, NEW d \in Devices, inside[d] = Reaction
               PROVE  cell.contactor.terminal = 0
    BY DEF BodyStops
  <2>1. PICK C \in SUBSET Parts :
              /\ Blame(down, C)
              /\ \A e \in Devices :
                    LET y == inside[e] + 1
                        v == Silence + 1
                    IN  /\ y \in Nat /\ v \in Nat
                        /\ Writer(cell.m6, 1, down, C, e, y, v)
                        /\ Plc(cell.plc_link, cell.m6.out, Cycled({}), 1, down, C, y, v)
                        /\ Gate(cell.cmd_gate, cell.contactor, cell.plc_link.msg.motor,
                                Wait("cmd_gate", {}), down, C, y, v)
    BY StateCounts
  <2> DEFINE y == inside[d] + 1
             v == Silence + 1
             wg == Wait("cmd_gate", {})
  <2>2. /\ Plc(cell.plc_link, cell.m6.out, Cycled({}), 1, down, C, y, v)
        /\ Gate(cell.cmd_gate, cell.contactor, cell.plc_link.msg.motor, wg, down, C, y, v)
    BY <2>1
  <2>3. y \in Nat /\ y >= 19 /\ wg \in 0 .. 2
    BY CellAges, ChainConstants
  <2> HIDE DEF y, v, wg
  <2>4. EnableBound(C) \in Nat /\ EnableBound(C) <= 17
    BY <2>1 DEF EnableBound, SendBound, Blame, Sensors
  <2>5. "plc_link" \notin C => ~cell.plc_link.msg.motor
    BY <2>1, <2>2, <2>3, <2>4, CellAges DEF Plc, Blame
  <2>6. QED
    BY <2>2, <2>3, <2>5, CellAges DEF Gate
<1>2. Spec => [](ChainTypeOK /\ ChainInv)
  BY ChainCounts
<1>3. QED
  BY <1>1, <1>2, PTL

\* The silence of a process that supervises or commands the truck stops it within its
\* budget: 450 ms for the writer, 350 ms for the link back (README_m6.md:1123-1124), 16
\* ticks for any other.
THEOREM SilenceAlwaysStops ==
    ASSUME Faults <= 1, Reaction >= 16
    PROVE  Spec => []SilenceStops
<1>1. ChainTypeOK /\ ChainInv => SilenceStops
  <2> SUFFICES ASSUME ChainTypeOK, ChainInv, NEW p \in down, silent >= Budget(p), Quiet,
                      Up("cmd_gate")
               PROVE  cell.contactor.terminal = 0
    BY DEF SilenceStops
  <2>1. PICK C \in SUBSET Parts :
              /\ Blame(down, C)
              /\ \A d \in Devices :
                    LET y == inside[d] + 1
                        v == Silence + 1
                    IN  /\ y \in Nat /\ v \in Nat
                        /\ Writer(cell.m6, 1, down, C, d, y, v)
                        /\ Plc(cell.plc_link, cell.m6.out, Cycled({}), 1, down, C, y, v)
                        /\ Gate(cell.cmd_gate, cell.contactor, cell.plc_link.msg.motor,
                                Wait("cmd_gate", {}), down, C, y, v)
                        /\ Command(cell.cmd_gate, cell.cmd_mux, cell.contactor,
                                   Wait("cmd_mux", {}), Wait("cmd_gate", {}), down, v)
    BY StateCounts
  <2>2. PICK d \in Devices : TRUE
    BY ChainConstants
  <2> DEFINE y == inside[d] + 1
             v == Silence + 1
             wg == Wait("cmd_gate", {})
             wm == Wait("cmd_mux", {})
  <2>3. /\ Plc(cell.plc_link, cell.m6.out, Cycled({}), 1, down, C, y, v)
        /\ Gate(cell.cmd_gate, cell.contactor, cell.plc_link.msg.motor, wg, down, C, y, v)
        /\ Command(cell.cmd_gate, cell.cmd_mux, cell.contactor, wm, wg, down, v)
    BY <2>1
  <2>4. /\ v = silent + 1 /\ silent \in Nat /\ Reaction \in Nat
        /\ wg \in 0 .. 2 /\ wm \in 0 .. 2
    BY CellAges, ChainConstants DEF ChainTypeOK, Silence
  <2>5. /\ p \in Parts /\ p \in C /\ \A q \in C : q = p
        /\ p # "cmd_gate"
    BY <2>1 DEF Blame, Up, ChainTypeOK
  <2>6. v >= IF p = "m6" THEN 10 ELSE IF p = "plc_link" THEN 8 ELSE 17
    <3>1. Budget(p) = IF p = "m6" THEN 9 ELSE IF p = "plc_link" THEN 7 ELSE Reaction
      BY DEF Budget, Ticks
    <3>2. QED
      BY <2>4, <3>1
  <2> HIDE DEF y, v, wg, wm
  <2>7. CASE p = "plc_link"
    BY <2>3, <2>4, <2>5, <2>6, <2>7, CellAges DEF Gate
  <2>8. CASE p = "m6"
    <3>1. ~cell.plc_link.msg.motor
      BY <2>3, <2>4, <2>5, <2>6, <2>8, CellAges DEF Plc
    <3>2. "plc_link" \notin C
      BY <2>5, <2>8
    <3>3. QED
      BY <2>3, <3>1, <3>2 DEF Gate
  <2>9. CASE p \in Sensors \cup {"scanner"}
    <3>1. /\ C \cap (Sensors \cup {"scanner"}) # {}
          /\ "m6" \notin C /\ "plc_link" \notin C /\ "plc_link" \notin down
      BY <2>1, <2>5, <2>9 DEF Sensors, Blame
    <3>2. ~cell.plc_link.msg.motor
      BY <2>3, <2>4, <2>6, <2>9, <3>1, CellAges DEF Plc, Sensors
    <3>3. QED
      BY <2>3, <3>1, <3>2 DEF Gate
  <2>10. CASE p \in {"nav", "hmi", "cmd_mux"}
    BY <2>3, <2>4, <2>5, <2>6, <2>10, CellAges DEF Command
  <2>11. QED
    BY <2>5, <2>7, <2>8, <2>9, <2>10 DEF Parts, Sensors
<1>2. Spec => [](ChainTypeOK /\ ChainInv)
  BY ChainCounts
<1>3. QED
  BY <1>1, <1>2, PTL

\* Once a body has stopped it, the truck stays stopped until the F-PLC was reset, whatever
\* process dies and comes back meanwhile (_scan's latch, and FAILSAFE at every start).
THEOREM ResetBeforeRestart ==
    ASSUME Faults <= 1, Reaction >= 18
    PROVE  Spec => []NoRestartWithoutReset
<1>1. OwedInv => NoRestartWithoutReset
  BY DEF OwedInv, Locked, Stopped, NoRestartWithoutReset
<1>2. Spec => []OwedInv
  BY ChainOwes
<1>3. QED
  BY <1>1, <1>2, PTL
=============================================================================
