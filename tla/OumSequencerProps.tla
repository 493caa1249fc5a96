-------------------------- MODULE OumSequencerProps --------------------------
(***************************************************************************)
(* The properties of OumSequencer.                                         *)
(***************************************************************************)
EXTENDS OumSequencer

\* Type invariant.
TypeOK ==
  /\ seqReg \in 0..MaxSeq
  /\ entry \subseteq [port : Ports, addr : {c.addr : c \in Configs}]
  /\ node \subseteq SUBSET Ports
  /\ mgid \in {"none", "empty", "attached"}
  /\ step \in Steps
  /\ loaded \in Configs
  /\ runs \in 0..MaxRuns
  /\ uplink \subseteq Packets
  /\ wire \subseteq Copy
  /\ received \in [Ports -> SUBSET Stamp]
  /\ log \in Seq(Seq(Packets))
  /\ boot \in 1..MaxBoots

\* Two replicas never disagree about what a sequence number of one power-on
\* stands for, whatever the links lost, repeated or reordered and however the
\* script reprogrammed the switch meanwhile (oum_seq_fetch_add, p4:258-263).
StampAgreement ==
  \A p, q \in Ports : \A m \in received[p], n \in received[q] :
     m.boot = n.boot /\ m.seq = n.seq => m.pkt = n.pkt

\* While a packet can be sequenced, the replication engine holds the complete
\* replica group of the very topology file the entry was made from: the script
\* takes the entry out before it touches the engine and puts it back last
\* (apply_nopaxos_tofino_sequencer.py:175-229), and no failure in between
\* leaves a half-programmed group reachable.
EntryImpliesGroup ==
  \A e \in entry :
     /\ mgid = "attached"
     /\ \E c \in Configs : /\ e = [port |-> c.client, addr |-> c.addr]
                           /\ node = {c.replicas}

\* A packet given a number leaves in the same step, under that number, for
\* every replica of the group its client's entry belongs to and nobody else.
NumberReachesGroup ==
  seqReg' > seqReg =>
    \E c \in Configs, pkt \in uplink :
      /\ pkt.port = c.client /\ pkt.addr = c.addr
      /\ {m \in wire' : m.boot = boot /\ m.seq = seqReg'} =
           {[boot |-> boot, seq |-> seqReg', pkt |-> pkt, to |-> p] :
              p \in c.replicas}

\* No number is burnt: the step that advances the register also multicasts to
\* the complete group (nopaxos_tofino_sequencer, p4:267-291), so a hole in
\* what a replica receives is always the fault of a link.
StampReachesGroup == [][NumberReachesGroup]_vars

\* The ordered multicast the sequencer promises.
Ordered == INSTANCE OrderedMulticast
             WITH Receivers <- Ports, obtained <- received

\* The switch, its script and the links implement an ordered multicast.
ImplementsOrderedMulticast == Ordered!Spec

\* The register counts per group (comments of nopaxos_tofino.p4:254 and :276):
\* the numbers given to a group's packets since power-on have no holes.
GroupSeqContiguous ==
  \A m \in wire : \A s \in 1..(m.seq - 1) : log[m.boot][s].group = m.pkt.group
=============================================================================
