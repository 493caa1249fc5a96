---------------------------- MODULE HybridFabric ----------------------------
(***************************************************************************)
(* The hybrid switch of topology v3: an electrical leaf-spine fabric (EPS) *)
(* and a rotating optical circuit switch (OCS) on one Tofino, p4src/       *)
(* hybrid_arch.p4.  bfrt_python/setup_hybrid_arch.py fills its forwarding  *)
(* tables and setup_meas_timestamping.py its timestamp tables, entry by    *)
(* entry, while frames pass and the time slots go by.                      *)
(*                                                                         *)
(* A file is fixed, so the value of an entry follows from its key, and a   *)
(* table, which is cleared before it is filled in a fixed order, from the  *)
(* number of its entries.                                                  *)
(***************************************************************************)
EXTENDS Naturals, Sequences

CONSTANTS
  NumLeaves,  \* leaves are 1..NumLeaves; 4 in the code
  NumOptical, \* optical ports are 1..NumOptical; 8 in the code
  NumSlots,   \* slots are 0..NumSlots - 1; 8 in the code
  OtherMac,   \* a destination address of no electrical interface
  NoPort,     \* the output of a dropped frame
  Senders,    \* bound: the interfaces that send
  Targets,    \* bound: the addresses they send to
  MaxRuns     \* bound: runs of the two scripts

ASSUME SizeAssumption  == /\ NumLeaves \in Nat \ {0}
                          /\ NumOptical = 2 * NumLeaves
                          /\ NumSlots \in Nat \ {0}

VARIABLES
  filled,  \* filled[t]: number of entries of table t
  pc,      \* the runtime call a script makes next
  runs,    \* number of runs started
  done,    \* the scripts whose last run made all its calls
  slot,    \* the current time slot
  frame    \* the frame that is followed through the switch

scriptVars == <<filled, pc, runs, done>>
vars == <<scriptVars, slot, frame>>

-----------------------------------------------------------------------------
(* The ports of topology v3.  Uplink 1 of a leaf goes to spine 1, uplink 3 *)
(* to spine 2; FPGA f has its first interface on a leaf and its second on  *)
(* optical port f.  An interface is named by the port it is cabled to.     *)

Port(tier, id, pos) == [tier |-> tier, id |-> id, pos |-> pos]
Opt(i)       == Port("opt", 0, i)
Downlink(f)  == Port("leaf", (f + 1) \div 2, IF f % 2 = 1 THEN 2 ELSE 4)
Uplink(l, s) == Port("leaf", l, 2 * s - 1)

Fpgas      == 1..(2 * NumLeaves)
LeafPorts  == {Port("leaf", l, k) : l \in 1..NumLeaves, k \in 1..4}
SpinePorts == {Port("spine", s, l) : s \in 1..2, l \in 1..NumLeaves}
OptPorts   == {Opt(i) : i \in 1..NumOptical}
Downlinks  == {Downlink(f) : f \in Fpgas}
Ports      == LeafPorts \union SpinePorts \union OptPorts
Hosted     == Downlinks \union OptPorts

\* The far end of a port between leaf and spine.
Peer(p) == IF p.tier = "spine" THEN Uplink(p.pos, p.id)
                               ELSE Port("spine", (p.pos + 1) \div 2, p.id)

ASSUME NoPortAssumption == NoPort \notin Ports

ASSUME BoundAssumption == /\ Senders \subseteq Hosted
                          /\ Targets \subseteq Downlinks \union {OtherMac}
                          /\ MaxRuns \in Nat

-----------------------------------------------------------------------------
(* What the scripts install.                                               *)

\* The n-th element of a loop nest: the digit of n - 1 with the given weight.
Digit(n, weight, base) == (((n - 1) \div weight) % base) + 1

PortOrder ==
  [n \in 1..(4 * NumLeaves) |-> Port("leaf", Digit(n, 4, NumLeaves), Digit(n, 1, 4))]
    \o [n \in 1..(2 * NumLeaves) |-> Port("spine", Digit(n, NumLeaves, 2), Digit(n, 1, NumLeaves))]
    \o [n \in 1..NumOptical |-> Opt(n)]

\* The keys of t_eps_forward: for downlinks and spine ports all addresses,
\* for uplinks those of their own leaf.  Entries for selected_spine = 1 are
\* left out: the pipeline resets the field to 0 and never sets it.
EpsOrder ==
  LET F == 2 * NumLeaves IN
  [n \in 1..(F * F) |-> <<Downlink(Digit(n, F, F)), Downlink(Digit(n, 1, F))>>]
    \o [n \in 1..(F * F) |->
          <<Port("spine", Digit(n, NumLeaves * F, 2), Digit(n, F, NumLeaves)), Downlink(Digit(n, 1, F))>>]
    \o [n \in 1..(2 * F) |->
          LET l == Digit(n, 4, NumLeaves)
          IN  <<Uplink(l, Digit(n, 2, 2)), Downlink(2 * l - 2 + Digit(n, 1, 2))>>]

\* Faulty: the spine looks up the leaf the frame came from.
EpsRuleBack(p, mac) ==
  IF p.tier = "spine" THEN p
  ELSE IF mac.id = p.id THEN mac
  ELSE Uplink(p.id, 1)

\* The port t_eps_forward names for a key.
EpsRule(p, mac) ==
  IF p.tier = "spine" THEN Port("spine", p.id, mac.id)
  ELSE IF mac.id = p.id THEN mac
  ELSE Uplink(p.id, 1)

\* Faulty: the first slot is left out.
OcsOrderLate == [n \in 1..((NumSlots - 1) * NumOptical) |->
                   <<Digit(n, 1, NumOptical), Digit(n, NumOptical, NumSlots)>>]

\* The keys of t_ocs_schedule, slot by slot.
OcsOrder == [n \in 1..(NumSlots * NumOptical) |->
               <<Digit(n, 1, NumOptical), Digit(n, NumOptical, NumSlots) - 1>>]

\* Faulty: the rotation is not taken modulo the number of ports.
RotateStuck(i, s) == IF i + s + 1 > NumOptical THEN NumOptical ELSE i + s + 1

\* The optical port that port i is switched onto in slot s.
Rotate(i, s) == ((i + s) % NumOptical) + 1

\* Both interfaces of every FPGA.
NicOrder == [n \in 1..(4 * NumLeaves) |->
               LET f == Digit(n, 2, 2 * NumLeaves)
               IN  IF n % 2 = 1 THEN Downlink(f) ELSE Opt(f)]

Tables == {"t_set_port_kind", "t_eps_forward", "t_ocs_schedule", "t_meas_ingress", "t_meas_egress"}
Order(t) == CASE t = "t_set_port_kind" -> PortOrder
              [] t = "t_eps_forward"   -> EpsOrder
              [] t = "t_ocs_schedule"  -> OcsOrder
              [] OTHER                 -> NicOrder
Size(t)     == Len(Order(t))
Has(t, key) == \E n \in 1..filled[t] : Order(t)[n] = key

-----------------------------------------------------------------------------
(* The scripts, one step per runtime call.                                 *)

Scripts == {"hybrid", "meas"}
Idle    == <<"idle", "idle">>
Clearing(t) == <<"clear", t>>
Filling(t)  == <<"push", t>>
FirstTable(s) == IF s = "hybrid" THEN "t_set_port_kind" ELSE "t_meas_ingress"

\* The frame is sent in NoFrame's place.
NoFrame == [state |-> "none", at |-> NoPort, src |-> NoPort, dst |-> OtherMac,
            hops |-> 0, ts4 |-> 0, ts5 |-> 0, stable |-> {}]

\* The switch is new, or earlier runs have filled all tables.
Init ==
  /\ \/ filled = [t \in Tables |-> 0] /\ done = {}
     \/ filled = [t \in Tables |-> Size(t)] /\ done = Scripts
  /\ pc = Idle
  /\ runs = 0
  /\ slot \in 0..(NumSlots - 1)
  /\ frame = NoFrame

Start(s) ==
  /\ pc = Idle
  /\ runs < MaxRuns
  /\ runs' = runs + 1
  /\ pc' = Clearing(FirstTable(s))
  /\ done' = done \ {s}
  /\ frame' = [frame EXCEPT !.stable = @ \ {s}]
  /\ UNCHANGED <<filled, slot>>

\* Faulty: the clear of the optical schedule is left out.
ClearNotOcs(t) ==
  /\ pc = Clearing(t)
  /\ filled' = [filled EXCEPT ![t] = IF t = "t_ocs_schedule" THEN @ ELSE 0]
  /\ pc' = CASE t = "t_meas_ingress" -> Clearing("t_meas_egress")
             [] t = "t_meas_egress"  -> Filling("t_meas_ingress")
             [] OTHER                -> Filling(t)
  /\ UNCHANGED <<runs, done, slot, frame>>

\* Both timestamp tables are cleared before the first of them is filled.
Clear(t) ==
  /\ pc = Clearing(t)
  /\ filled' = [filled EXCEPT ![t] = 0]
  /\ pc' = CASE t = "t_meas_ingress" -> Clearing("t_meas_egress")
             [] t = "t_meas_egress"  -> Filling("t_meas_ingress")
             [] OTHER                -> Filling(t)
  /\ UNCHANGED <<runs, done, slot, frame>>

\* The call after the last entry of a table.
AfterTable(t) == CASE t = "t_set_port_kind" -> Clearing("t_eps_forward")
                   [] t = "t_eps_forward"   -> Clearing("t_ocs_schedule")
                   [] OTHER                 -> Idle

\* The timestamp tables get an entry in turn.
Push(t) ==
  /\ pc = Filling(t)
  /\ filled' = [filled EXCEPT ![t] = @ + 1]
  /\ pc' = IF t = "t_meas_ingress"          THEN Filling("t_meas_egress")
           ELSE IF filled[t] + 1 = Size(t)  THEN AfterTable(t)
           ELSE IF t = "t_meas_egress"      THEN Filling("t_meas_ingress")
           ELSE pc
  /\ done' = IF pc' = Idle THEN done \union {IF t = "t_ocs_schedule" THEN "hybrid" ELSE "meas"}
                           ELSE done
  /\ UNCHANGED <<runs, slot, frame>>

\* A call raises, or the operator interrupts the script.
Abort ==
  /\ pc # Idle
  /\ pc' = Idle
  /\ UNCHANGED <<filled, runs, done, slot, frame>>

-----------------------------------------------------------------------------
(* The switch.                                                             *)

\* Three bits of the global timestamp: they wrap.
Tick ==
  /\ slot' = (slot + 1) % NumSlots
  /\ UNCHANGED <<scriptVars, frame>>

\* An interface sends a measurement frame.
Send(src, dst) ==
  /\ frame.state \notin {"arrived", "queued"}
  /\ frame' = [NoFrame EXCEPT !.state = "arrived", !.at = src, !.src = src,
                              !.dst = dst, !.stable = done]
  /\ UNCHANGED <<scriptVars, slot>>

IsOcs(p) == p.tier = "opt" /\ Has("t_set_port_kind", p)

OcsOut(i, s) == IF Has("t_ocs_schedule", <<i, s>>) THEN Opt(Rotate(i, s)) ELSE NoPort

EpsOut(p, mac) == IF Has("t_eps_forward", <<p, mac>>) THEN EpsRule(p, mac) ELSE NoPort

\* Faulty: T4 is stamped on every pass.
IngressStampAlways ==
  /\ frame.state = "arrived"
  /\ LET p   == frame.at
         out == IF IsOcs(p) THEN OcsOut(p.pos, slot) ELSE EpsOut(p, frame.dst)
     IN  frame' = [frame EXCEPT !.state = IF out = NoPort THEN "dropped" ELSE "queued",
                                !.at    = out,
                                !.ts4   = frame.hops + 1]
  /\ UNCHANGED <<scriptVars, slot>>

\* The ingress pipeline.  Frames are told apart in time by their passes.
Ingress ==
  /\ frame.state = "arrived"
  /\ LET p   == frame.at
         out == IF IsOcs(p) THEN OcsOut(p.pos, slot) ELSE EpsOut(p, frame.dst)
     IN  frame' = [frame EXCEPT !.state = IF out = NoPort THEN "dropped" ELSE "queued",
                                !.at    = out,
                                !.ts4   = IF Has("t_meas_ingress", p) THEN frame.hops + 1 ELSE @]
  /\ UNCHANGED <<scriptVars, slot>>

\* The egress pipeline, after any time in a queue, and the cable behind it.
Egress ==
  /\ frame.state = "queued"
  /\ LET p == frame.at
         stamped == [frame EXCEPT !.ts5 = IF Has("t_meas_egress", p) THEN frame.hops + 1 ELSE @]
     IN  frame' = IF p \in Hosted
                  THEN [stamped EXCEPT !.state = "delivered"]
                  ELSE [stamped EXCEPT !.state = "arrived", !.at = Peer(p), !.hops = @ + 1]
  /\ UNCHANGED <<scriptVars, slot>>

Next ==
  \/ \E s \in Scripts : Start(s)
  \/ \E t \in Tables : Clear(t) \/ Push(t)
  \/ Abort
  \/ Tick
  \/ \E src \in Senders, dst \in Targets : Send(src, dst)
  \/ Ingress
  \/ Egress

\* Time goes on.  Nothing else is owed.
Spec == Init /\ [][Next]_vars /\ WF_vars(Tick)

-----------------------------------------------------------------------------
(* Properties.                                                             *)

\* Type invariant.
TypeOK ==
  /\ DOMAIN filled = Tables /\ \A t \in Tables : filled[t] \in 0..Size(t)
  /\ pc \in {Idle} \union {Clearing(t) : t \in Tables} \union {Filling(t) : t \in Tables}
  /\ runs \in 0..MaxRuns /\ done \subseteq Scripts /\ slot \in 0..(NumSlots - 1)
  /\ frame.state \in {"none", "arrived", "queued", "dropped", "delivered"}
  /\ frame.at \in Ports \union {NoPort} /\ frame.src \in Hosted \union {NoPort}
  /\ frame.stable \subseteq done

\* An electrical frame goes up and down at most once, whatever is in the tables, and
\* reaches no other interface than the one it is for; once the tables are
\* complete and left alone it reaches it (setup_hybrid_arch.py:101-251).
ElectricalDelivery ==
  frame.src \in Downlinks =>
    /\ frame.hops <= 2
    /\ frame.state = "delivered" => frame.at = frame.dst
    /\ "hybrid" \in frame.stable /\ frame.dst \in Downlinks => frame.state # "dropped"

\* In no slot, and with no partly filled table, do two optical ports share an
\* output: the schedule is a matching (setup_hybrid_arch.py:6, 274).
Matching ==
  \A s \in 0..(NumSlots - 1) : \A i, j \in 1..NumOptical :
    i # j /\ OcsOut(i, s) = OcsOut(j, s) => OcsOut(i, s) = NoPort

\* Once the tables are complete and no run follows, every port is switched onto every other
\* one again and again, for the slots wrap (hybrid_arch.p4:289-293).
OpticalPairsMeet ==
  \A i, j \in 1..NumOptical :
    i # j => (<>[](done = Scripts) => []<>(OcsOut(i, slot) = Opt(j) /\ IsOcs(Opt(i))))

\* T4 is taken when a frame first enters and T5 when it last leaves, never on
\* the passes between, however often the tables are filled anew
\* meanwhile; and both are there if they were left alone
\* (setup_meas_timestamping.py:62-99).
StampsBracketTransit ==
  /\ frame.ts4 \in {0, 1}
  /\ frame.ts5 # 0 => frame.state = "delivered" /\ frame.ts5 = frame.hops + 1
  /\ frame.state = "delivered" /\ "meas" \in frame.stable => frame.ts4 # 0 /\ frame.ts5 # 0
=============================================================================
