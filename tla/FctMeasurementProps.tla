------------------------- MODULE FctMeasurementProps -------------------------
(***************************************************************************)
(* The properties of FctMeasurement.                                       *)
(***************************************************************************)
EXTENDS FctMeasurement, SequencesExt

PacketOK(pkt) ==
  /\ pkt.req \in 0..MaxPkts /\ pkt.overflow \in BOOLEAN
  /\ pkt.stamps \in Seq(Nat) /\ Len(pkt.stamps) <= StampSlots
  /\ Len(pkt.stamps) <= pkt.count

\* Type invariant.
TypeOK ==
  /\ epoch \in Nat /\ clock \in epoch..(epoch + MaxTicks)
  /\ seqReg \in 0..MaxPkts
  /\ \A pkt \in fabric : PacketOK(pkt)
  /\ st.flow \in 1..FlowCount /\ st.cnt \in 0..Expected
  /\ PacketOK(st.first) /\ PacketOK(st.last)
  /\ running \in BOOLEAN /\ keep \in {"set", "cleared", "seen"}

\* The request ids a flow or row stands for.
Run(s) == [n \in 1..s.cnt |-> s.first.req + n - 1]

\* The flow under way, if it has no row yet.
Open == IF running /\ st.cnt > 0 THEN <<st>> ELSE << >>

\* Whatever the fabric loses or reorders, the rows cut the stream of packets
\* read into consecutive pieces: every packet belongs to exactly one row (or
\* to the flow under way), each row is a run of consecutive request ids, and
\* only a packet that breaks the very last flow is dropped (main loop,
\* fct_pktgen_recv.c:406-490).
Segmentation ==
  LET covered == FlattenSeq([k \in DOMAIN (rows \o Open) |-> Run((rows \o Open)[k])])
      read    == [n \in DOMAIN taken |-> taken[n].req]
  IN  \/ covered = read
      \/ /\ ~running /\ rows # << >> /\ Last(rows).outcome = "fail"
         /\ covered = Front(read)

\* A row says "complete" exactly when it has every packet of its flow and
\* "fail" only when a packet is missing from its run; flow ids have no holes,
\* at most flow_count rows are written and at most the last one is partial
\* (lines 428-447, 456-490).
RowsJustified ==
  /\ Len(rows) <= FlowCount
  /\ \A k \in DOMAIN rows :
       /\ rows[k].flow = k
       /\ rows[k].outcome = "complete" <=> rows[k].cnt = Expected
       /\ rows[k].outcome = "partial" => k = Len(rows) /\ ~running
       /\ rows[k].last.req = rows[k].first.req + rows[k].cnt - 1

\* A flow completion time is the true time between the first stamp of the
\* first packet and the stamp of that hop on the last one, or is given as 0:
\* in a run shorter than a period of the clock (BoundAssumption), a 48-bit
\* timestamp that wraps never yields a wrong positive value (write_flow_row,
\* lines 263-269).
FctTrueOrZero ==
  \A k \in DOMAIN rows : \A n \in 0..(HdrSlots - 1) :
     rows[k].fct[n] # 0 =>
       /\ n < Len(rows[k].last.stamps)
       /\ rows[k].fct[n] = rows[k].last.stamps[n + 1] - rows[k].first.stamps[1]
=============================================================================
