----------------------------- MODULE HopvarFlow -----------------------------
(***************************************************************************)
(* hopvar flow mode.  Senders (src/vartest/sources/hopvar_sender.c) cut    *)
(* flows into UDP packets; the receiver (hopvar_receiver.c) counts the     *)
(* packets of each flow in an open-addressing hash table, writes a row     *)
(* when a flow's count is reached and clears the flow's slot.              *)
(***************************************************************************)
EXTENDS Integers, Sequences, FiniteSets, FiniteSetsExt

CONSTANTS
  Senders,      \* sender processes
  Placements,   \* what the senders' start_flow_id may be, together
  NumFlows,     \* num_flows of each sender
  FlowSize,     \* flow_size_bytes
  AppBytes,     \* app_bytes_per_pkt
  MaxFlows,     \* MAX_FLOWS, the slots of the table
  FlowCount,    \* flow_count of the receiver, 0 for no limit
  PacketCount,  \* packet_count of the receiver, 0 for no limit
  MaxStrays,    \* bound: packets that are not of a flow
  MaxRepeats    \* bound: packets the network repeats

\* The flow ids of a sender that begins at start.
IdsFrom(start) == start..(start + NumFlows - 1)

ASSUME SizeAssumption ==
  /\ FlowSize \in Nat \ {0} /\ AppBytes \in Nat \ {0}
  /\ MaxFlows \in Nat \ {0} /\ NumFlows \in Nat \ {0}
  /\ FlowCount \in Nat /\ PacketCount \in Nat
  /\ MaxStrays \in Nat /\ MaxRepeats \in Nat
ASSUME FlowIdAssumption ==
  \A start \in Placements :
    /\ start \in [Senders -> Nat]
    /\ \A s, t \in Senders :
         s # t => IdsFrom(start[s]) \intersect IdsFrom(start[t]) = {}

VARIABLES
  startFlowId,  \* start_flow_id of each sender
  pos,      \* what each sender's loops send next: a flow id and a pkt_idx
  network,  \* packets sent and not yet delivered or lost
  tbl,      \* the flow table
  rows,     \* the rows of the CSV file
  read,     \* recv_pkt_cnt
  strays,   \* strays so far
  repeats,  \* packets the network repeated so far
  counted   \* history: the packets that were entered in the table

vars == <<startFlowId, pos, network, tbl, rows, read, strays, repeats,
          counted>>

FlowIds(s) == IdsFrom(startFlowId[s])

\* pkt_cnt of a flow: FlowSize / AppBytes, rounded up.
PktCnt == (FlowSize + AppBytes - 1) \div AppBytes

\* The copy is not in the packet: it tells the ones the network made apart.
Packet(flow, idx, copy) ==
  LET rem == FlowSize - idx * AppBytes
  IN  [flow |-> flow, idx |-> idx, copy |-> copy,
       bytes |-> IF rem < AppBytes THEN rem ELSE AppBytes]

Free == [used |-> FALSE, flow |-> 0, expected |-> 0, got |-> 0, bytes |-> 0]

Slots == 0..(MaxFlows - 1)

Init ==
  /\ startFlowId \in Placements
  /\ pos = [s \in Senders |-> [flow |-> startFlowId[s], idx |-> 0]]
  /\ network = {}
  /\ tbl = [i \in Slots |-> Free]
  /\ rows = << >>
  /\ read = 0
  /\ strays = 0 /\ repeats = 0
  /\ counted = {}

-----------------------------------------------------------------------------
(* A sender: the next packet of its flow, or the first of its next flow.   *)

Advance(p) == IF p.idx + 1 < PktCnt THEN [p EXCEPT !.idx = @ + 1]
                                    ELSE [flow |-> p.flow + 1, idx |-> 0]

\* sendto succeeds, or it fails or the packet is lost; the loop goes on either
\* way.
Send(s) ==
  /\ pos[s].flow \in FlowIds(s)
  /\ pos' = [pos EXCEPT ![s] = Advance(@)]
  /\ \/ network' = network \union {Packet(pos[s].flow, pos[s].idx, 0)}
     \/ UNCHANGED network
  /\ UNCHANGED <<startFlowId, tbl, rows, read, strays, repeats, counted>>

\* UDP and the fabric may repeat a packet.  Delivery is in any order, and not
\* bound to come: a packet that stays in the network is lost.
Repeat(pkt) ==
  /\ repeats < MaxRepeats
  /\ repeats' = repeats + 1
  /\ network' = network \union {Packet(pkt.flow, pkt.idx, repeats + 1)}
  /\ UNCHANGED <<startFlowId, pos, tbl, rows, read, strays, counted>>

-----------------------------------------------------------------------------
(* The receiver.                                                           *)

Running ==
  /\ FlowCount # 0 => Len(rows) < FlowCount
  /\ PacketCount # 0 => read < PacketCount

Probe(flow, i) == (flow + i) % MaxFlows

\* The numbers of probes after which the search for a flow's entry may stop.
Hits(flow) ==
  {i \in Slots : ~tbl[Probe(flow, i)].used \/ tbl[Probe(flow, i)].flow = flow}

\* Faulty: the flow ids of used slots are not compared.
FirstHitHome(flow) == Probe(flow, 0)

\* get_flow_state, when it does not return NULL.
FirstHit(flow) == Probe(flow, Min(Hits(flow)))

\* The entry of pkt's flow with pkt counted.
Entered(entry, pkt) ==
  [used |-> TRUE, flow |-> IF entry.used THEN entry.flow ELSE pkt.flow,
   expected |-> IF entry.got = 0 THEN PktCnt ELSE entry.expected,
   got |-> entry.got + 1, bytes |-> entry.bytes + pkt.bytes]

\* Faulty: a flow is complete one packet early.
CompleteEarly(entry) == entry.got + 1 >= entry.expected

\* Faulty: a flow is complete one packet late.
CompleteLate(entry) == entry.got > entry.expected

Complete(entry) == entry.got = entry.expected

\* Faulty: the slot of a completed flow is freed but not zeroed.
ReleasedDirty(entry) == [entry EXCEPT !.used = FALSE]

\* memset(st, 0, sizeof(*st))
Released(entry) == Free

\* A packet is counted in its flow's entry, whatever its idx; the last one
\* writes the row and clears the slot.
Counted(pkt) ==
  LET slot  == FirstHit(pkt.flow)
      entry == Entered(tbl[slot], pkt)
  IN  /\ counted' = counted \union {pkt}
      /\ IF Complete(entry)
         THEN /\ rows' = Append(rows, entry)
              /\ tbl' = [tbl EXCEPT ![slot] = Released(entry)]
         ELSE /\ rows' = rows
              /\ tbl' = [tbl EXCEPT ![slot] = entry]

Receive(pkt) ==
  /\ Running
  /\ network' = network \ {pkt}
  /\ read' = read + 1
  /\ IF Hits(pkt.flow) # {} THEN Counted(pkt) ELSE UNCHANGED <<tbl, rows, counted>>
  /\ UNCHANGED <<startFlowId, pos, strays, repeats>>

\* A packet that is too short or whose headers are not valid.
ReceiveStray ==
  /\ Running
  /\ strays < MaxStrays
  /\ strays' = strays + 1
  /\ read' = read + 1
  /\ UNCHANGED <<startFlowId, pos, network, tbl, rows, repeats, counted>>

Next ==
  \/ \E s \in Senders : Send(s)
  \/ \E pkt \in network : Repeat(pkt) \/ Receive(pkt)
  \/ ReceiveStray

Spec == Init /\ [][Next]_vars

-----------------------------------------------------------------------------
(* Properties.                                                             *)

Flows == UNION {FlowIds(s) : s \in Senders}

\* The packets of a flow that were entered in the table.
CountedOf(flow) == {pkt \in counted : pkt.flow = flow}

\* Each packet of a flow was received.
Arrived(flow) == {pkt.idx : pkt \in CountedOf(flow)} = 0..(PktCnt - 1)

\* A packet of a flow was received twice.
Doubled(flow) == \E p, q \in CountedOf(flow) : p # q /\ p.idx = q.idx

\* Type invariant.
TypeOK ==
  /\ startFlowId \in Placements
  /\ pos \in [Senders -> [flow : Nat, idx : 0..(PktCnt - 1)]]
  /\ network \subseteq {Packet(f, i, c) : f \in Flows, i \in 0..(PktCnt - 1), c \in 0..repeats}
  /\ \A i \in Slots : \/ tbl[i] = Free
                      \/ /\ tbl[i].used /\ tbl[i].flow \in Flows
                         /\ tbl[i].expected = PktCnt
                         /\ tbl[i].got \in 1..(PktCnt - 1)
                         /\ tbl[i].bytes \in Nat \ {0}
  /\ read \in Nat /\ (PacketCount # 0 => read <= PacketCount)
  /\ strays \in 0..MaxStrays /\ repeats \in 0..MaxRepeats

\* What the entries of a flow add up to, in the table or in the rows.
OfFlow(f, entries, field) ==
  SumFunction([k \in DOMAIN entries |->
                 IF entries[k].used /\ entries[k].flow = f THEN entries[k][field] ELSE 0])

\* No packet is counted for another flow, in two entries, or forgotten: a flow's
\* entries and rows account for the packets that arrived, a repeated one each
\* time, and their bytes, even when a freed slot has split the flow over several
\* entries (get_flow_state and the memset at hopvar_receiver.c:352).
PacketsAccounted ==
  \A f \in Flows :
    /\ OfFlow(f, tbl, "got") + OfFlow(f, rows, "got") = Cardinality(CountedOf(f))
    /\ OfFlow(f, tbl, "bytes") + OfFlow(f, rows, "bytes")
         = SumFunction([pkt \in CountedOf(f) |-> pkt.bytes])

\* A row stands for as many packets of its flow as the flow has (lines 318-359).
\* If the network repeated none of them, these are all the packets, with all
\* their bytes, and the row is the only one of its flow, whatever was lost,
\* reordered or misplaced in the table.  A repeated one may stand for one that is
\* missing, although the row says flow_complete (lines 149, 337).
RowsTruthful ==
  \A k \in DOMAIN rows :
    LET f == rows[k].flow
    IN  /\ Cardinality(CountedOf(f)) >= PktCnt
        /\ ~Doubled(f) => /\ Arrived(f) /\ rows[k].bytes = FlowSize
                          /\ \A m \in DOMAIN rows : rows[m].flow = f => m = k

\* No two flow ids share a home slot, as when a single sender numbers at most
\* MAX_FLOWS flows.
Apart == \A f, g \in Flows : f # g => f % MaxFlows # g % MaxFlows

\* "Aggregate packets into flows and analyze flow completion behavior"
\* (src/vartest/README.md:74): a flow whose packets have all been received is
\* written as complete.
ArrivedFlowHasRow ==
  \A f \in Flows : Arrived(f) => \E k \in DOMAIN rows : rows[k].flow = f

\* While no two flow ids share a home slot, the table refuses no packet and
\* every flow received in full has its row, whatever other flows have lost
\* and left unfinished in the table and whatever the network repeated
\* (get_flow_state).
ApartFlowHasRow ==
  Apart => ArrivedFlowHasRow /\ read = strays + Cardinality(counted)
=============================================================================
