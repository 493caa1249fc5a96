--------------------------- MODULE FctMeasurement ---------------------------
(***************************************************************************)
(* Flow completion times from one endless packet stream: the switch's      *)
(* packet generator numbers packets and every pass through the pipeline    *)
(* stamps them (infra/switch_tofino/p4src/hybrid_arch.p4, programmed by    *)
(* bfrt_python/config_fct_pktgen.py); fct_pktgen_recv cuts what arrives    *)
(* into flows of a fixed number of consecutive packets                     *)
(* (src/vartest/sources/fct_pktgen_recv.c).                                *)
(***************************************************************************)
EXTENDS Integers, Sequences

CONSTANTS
  StampSlots,  \* timestamps the pipeline has a branch for: 8
  HdrSlots,    \* timestamps the header has room for: HOPVAR_TS_SLOTS
  Expected,    \* pkt_cnt_expected
  FlowCount,   \* flow_count
  Wrap,        \* 2^48, the modulus of a timestamp
  MaxPkts,     \* bound: packets generated
  MaxPasses,   \* bound: passes of a packet through the pipeline
  MaxTicks     \* bound: steps of the clock

ASSUME SlotAssumption  == StampSlots \in Nat \ {0} /\ HdrSlots \in Nat
                            /\ StampSlots <= HdrSlots
ASSUME FlowAssumption  == Expected \in Nat \ {0} /\ FlowCount \in Nat \ {0}
ASSUME BoundAssumption == /\ Wrap \in Nat \ {0} /\ MaxPkts \in Nat
                          /\ MaxPasses \in Nat /\ MaxTicks \in 0..(Wrap - 1)

VARIABLES
  clock,      \* time, in units of a timestamp, unbounded
  epoch,      \* the clock's value when the experiment began
  seqReg,     \* pktgen_sequence_reg[0]
  fabric,     \* packets under way
  st,         \* the flow the receiver is putting together, see Fresh
  rows,       \* the rows of the CSV file
  running,    \* whether the receiver is in its loop
  keep,       \* keep_running: "set", or "cleared" with one recvfrom still
              \* blocked, or "seen", when the loop must test it next
  taken       \* history: the packets the receiver has read, in order

netVars  == <<clock, epoch, seqReg, fabric>>
recvVars == <<st, rows, running, keep, taken>>
vars == <<netVars, recvVars>>

\* A header: req_id, ts_count, HOPVAR_F_OVERFLOW and the stamps so far, kept
\* as unbounded times; Ts gives what slot n holds.
Ts(pkt, n) == IF n < Len(pkt.stamps) THEN pkt.stamps[n + 1] % Wrap ELSE 0

NoPacket == [req |-> 0, count |-> 0, overflow |-> FALSE, stamps |-> << >>]

\* flow_state_init.  started is cnt > 0, and expected_next_req_id is always
\* the successor of the last packet's req_id.
Fresh(id) == [flow |-> id, cnt |-> 0, first |-> NoPacket, last |-> NoPacket,
              outcome |-> "partial"]

Init ==
  /\ epoch \in 0..(Wrap - 1)
  /\ clock = epoch
  /\ seqReg = 0
  /\ fabric = {}
  /\ st = Fresh(1)
  /\ rows = << >>
  /\ running = TRUE
  /\ keep = "set"
  /\ taken = << >>

-----------------------------------------------------------------------------
(* The pipeline.                                                           *)

\* Faulty: the guard on the last slot is off by one.
StampedWrong(pkt) ==
  [pkt EXCEPT !.count = @ + 1,
              !.stamps = IF pkt.count <= StampSlots THEN Append(@, clock) ELSE @,
              !.overflow = @ \/ pkt.count > StampSlots]

\* One pass: the stamp goes to slot ts_count while there is a branch for it.
Stamped(pkt) ==
  [pkt EXCEPT !.count = @ + 1,
              !.stamps = IF pkt.count < StampSlots THEN Append(@, clock) ELSE @,
              !.overflow = @ \/ pkt.count >= StampSlots]

\* A packet from the generator's port is numbered and stamped in one pass.
Generate ==
  /\ seqReg < MaxPkts
  /\ seqReg' = seqReg + 1
  /\ fabric' = fabric \union {Stamped([NoPacket EXCEPT !.req = seqReg + 1])}
  /\ UNCHANGED <<clock, epoch, recvVars>>

Pass(pkt) ==
  /\ pkt.count < MaxPasses
  /\ fabric' = (fabric \ {pkt}) \union {Stamped(pkt)}
  /\ UNCHANGED <<clock, epoch, seqReg, recvVars>>

Lose(pkt) ==
  /\ fabric' = fabric \ {pkt}
  /\ UNCHANGED <<clock, epoch, seqReg, recvVars>>

Tick ==
  /\ clock < epoch + MaxTicks
  /\ clock' = clock + 1
  /\ UNCHANGED <<epoch, seqReg, fabric, recvVars>>

-----------------------------------------------------------------------------
(* The receiver.                                                           *)

\* Faulty: no test that the clock has not wrapped.
FctUnordered(s, n) ==
  LET from == Ts(s.first, 0)
      to   == Ts(s.last, n)
  IN  IF from # 0 /\ to # 0 THEN to - from ELSE 0

\* fct_hop<n>_ns of a row.
Fct(s, n) ==
  LET from == Ts(s.first, 0)
      to   == Ts(s.last, n)
  IN  IF from # 0 /\ to # 0 /\ to >= from THEN to - from ELSE 0

\* write_flow_row; first and last are kept whole for the properties.
Row(s, outcome) ==
  [flow |-> s.flow, cnt |-> s.cnt, first |-> s.first, last |-> s.last,
   fct |-> [n \in 0..(HdrSlots - 1) |-> Fct(s, n)], outcome |-> outcome]

\* start_flow_from_packet
Started(id, pkt) == [Fresh(id) EXCEPT !.cnt = 1, !.first = pkt, !.last = pkt]

\* append_packet_to_flow
Appended(s, pkt) == [s EXCEPT !.cnt = @ + 1, !.last = pkt]

Breaks(pkt) == st.cnt > 0 /\ pkt.req # st.last.req + 1

\* The end of the loop's body with flow s and rows rs: a flow with enough
\* packets is written and the next one is set up, unless it was the last.
Conclude(s, rs) ==
  IF s.cnt < Expected
  THEN st' = s /\ rows' = rs /\ running' = running
  ELSE /\ rows' = Append(rs, Row(s, "complete"))
       /\ st' = IF s.flow < FlowCount THEN Fresh(s.flow + 1)
                                      ELSE [s EXCEPT !.outcome = "complete"]
       /\ running' = (s.flow < FlowCount)

Read(pkt) ==
  /\ running /\ keep # "seen"
  /\ pkt \in fabric
  /\ fabric' = fabric \ {pkt}
  /\ taken' = Append(taken, pkt)
  /\ keep' = IF keep = "set" THEN keep ELSE "seen"
  /\ UNCHANGED <<clock, epoch, seqReg>>

\* Faulty: the packet that breaks a flow does not start the next one.
BreakDropsPacket(pkt) ==
  /\ Read(pkt) /\ Breaks(pkt)
  /\ st.flow < FlowCount
  /\ Conclude(Fresh(st.flow + 1), Append(rows, Row(st, "fail")))

\* Faulty: the broken flow keeps its first packet and its count.
BreakKeepsState(pkt) ==
  /\ Read(pkt) /\ Breaks(pkt)
  /\ st.flow < FlowCount
  /\ Conclude([Appended(st, pkt) EXCEPT !.flow = @ + 1], Append(rows, Row(st, "fail")))

\* A packet out of sequence fails the flow and starts the next one, or ends
\* the program (and is dropped) if it was the last flow.
Break(pkt) ==
  /\ Read(pkt) /\ Breaks(pkt)
  /\ IF st.flow < FlowCount
     THEN Conclude(Started(st.flow + 1, pkt), Append(rows, Row(st, "fail")))
     ELSE /\ rows' = Append(rows, Row(st, "fail"))
          /\ st' = [st EXCEPT !.outcome = "fail"]
          /\ running' = FALSE

Extend(pkt) ==
  /\ Read(pkt) /\ ~Breaks(pkt)
  /\ Conclude(IF st.cnt = 0 THEN Started(st.flow, pkt) ELSE Appended(st, pkt), rows)

\* SIGINT or SIGTERM.  A blocked recvfrom fails with EINTR or is restarted, so
\* that one more packet is read.
Interrupt ==
  /\ running /\ keep = "set"
  /\ keep' = "cleared"
  /\ UNCHANGED <<netVars, st, rows, running, taken>>

\* The loop's test fails or recvfrom does: a flow under way is written as it is.
Leave ==
  /\ running
  /\ running' = FALSE
  /\ rows' = IF st.cnt > 0 THEN Append(rows, Row(st, "partial")) ELSE rows
  /\ UNCHANGED <<netVars, st, keep, taken>>

Next ==
  \/ Generate
  \/ \E pkt \in fabric : Pass(pkt) \/ Lose(pkt) \/ Break(pkt) \/ Extend(pkt)
  \/ Tick
  \/ Interrupt
  \/ Leave

Spec == Init /\ [][Next]_vars
=============================================================================
