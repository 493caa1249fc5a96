-------------------------- MODULE OumSequencerProofs --------------------------
(***************************************************************************)
(* Theorems about OumSequencer, for every set of ports, packets and        *)
(* topology files and every bound.                                         *)
(***************************************************************************)
EXTENDS OumSequencerProps, TLAPS

-----------------------------------------------------------------------------
(* The inductive invariant.                                                *)

\* A copy or stamp names a position of a log and carries what is there.
Logged(m) ==
  /\ m.boot \in DOMAIN log
  /\ m.seq \in DOMAIN log[m.boot]
  /\ m.pkt = log[m.boot][m.seq]

\* The register is the length of the open log, and whatever travels or was
\* received agrees with the logs.
LogInv ==
  /\ seqReg = Len(log[boot])
  /\ \A m \in wire : Logged(m)
  /\ \A p \in Ports : \A m \in received[p] : Logged(m)

\* What the script has already undone and redone at each of its calls.
ScriptInv ==
  /\ step \notin {"idle", "clear"} => entry = {} /\ loaded.client # NoPort
  /\ step \in {"mgidDelete", "mgidAdd", "push"} => node = {loaded.replicas}
  /\ step = "push" => mgid = "attached"
  /\ EntryImpliesGroup

IInv == TypeOK /\ LogInv /\ ScriptInv

-----------------------------------------------------------------------------
(* The switch and script state.                                            *)

LEMMA InitInv == Init => IInv
<1> SUFFICES ASSUME Init PROVE IInv
  OBVIOUS
<1> USE BoundAssumption DEF Init
<1>1. log = << << >> >> /\ boot = 1 /\ log[boot] = << >> /\ Len(log[boot]) = 0
  BY DEF boot
<1>2. TypeOK
  BY <1>1 DEF TypeOK, Steps, Copy, Stamp
<1>3. LogInv
  BY <1>1 DEF LogInv, Logged
<1>4. ScriptInv
  BY DEF ScriptInv, EntryImpliesGroup
<1> QED BY <1>2, <1>3, <1>4 DEF IInv

\* Every step keeps the order of the script's calls meaningful.
LEMMA ScriptStep == TypeOK /\ ScriptInv /\ [Next]_vars => ScriptInv'
<1> SUFFICES ASSUME TypeOK, ScriptInv, [Next]_vars PROVE ScriptInv'
  OBVIOUS
<1> USE DEF ScriptInv, EntryImpliesGroup
<1>1. CASE Clear \/ Abort \/ Restart \/ \E c \in Configs : Start(c)
  BY <1>1 DEF Clear, Abort, Restart, Start, switchVars
<1>2. CASE NodeDelete \/ NodeAdd
  BY <1>2 DEF NodeDelete, NodeAdd
<1>3. CASE MgidDelete \/ MgidAdd
  BY <1>3 DEF MgidDelete, MgidAdd
<1>4. CASE Push
  <2>1. entry' = {[port |-> loaded.client, addr |-> loaded.addr]}
    BY <1>4 DEF Push
  <2>2. /\ loaded \in Configs /\ mgid' = "attached"
        /\ node' = {loaded.replicas} /\ step' = "idle"
    BY <1>4 DEF Push, TypeOK
  <2> QED BY <2>1, <2>2
<1>5. ASSUME NEW pkt \in Packets, Send(pkt) \/ LoseUplink(pkt) \/ Sequence(pkt)
      PROVE  ScriptInv'
  BY <1>5 DEF Send, LoseUplink, Sequence, switchVars, scriptVars
<1>6. ASSUME NEW c \in wire, LoseCopy(c) \/ Receive(c)
      PROVE  ScriptInv'
  BY <1>6 DEF LoseCopy, Receive, switchVars, scriptVars
<1>7. CASE UNCHANGED vars
  BY <1>7 DEF vars, switchVars, scriptVars
<1> QED BY <1>1, <1>2, <1>3, <1>4, <1>5, <1>6, <1>7 DEF Next, Script

-----------------------------------------------------------------------------
(* The logs.                                                               *)

\* Stamping a packet extends the open log by it and changes no other entry.
LEMMA SequenceLog ==
  ASSUME TypeOK, LogInv, NEW pkt \in Packets, Sequence(pkt)
  PROVE  /\ log' \in Seq(Seq(Packets))
         /\ DOMAIN log' = DOMAIN log
         /\ \A b \in DOMAIN log : b # boot => log'[b] = log[b]
         /\ log'[boot] = Append(log[boot], pkt)
         /\ boot' = boot
<1>1. log' = [log EXCEPT ![boot] = Append(log[boot], pkt)]
  BY DEF Sequence
<1>2. boot \in DOMAIN log /\ log[boot] \in Seq(Packets)
  BY DEF TypeOK, boot
<1> QED BY <1>1, <1>2 DEF TypeOK, boot

\* Opening a new log leaves the old ones alone.
LEMMA RestartLog ==
  ASSUME TypeOK, Restart
  PROVE  /\ log' \in Seq(Seq(Packets))
         /\ DOMAIN log' = DOMAIN log \union {boot'}
         /\ boot' = boot + 1 /\ boot' \notin DOMAIN log
         /\ \A b \in DOMAIN log : log'[b] = log[b]
         /\ log'[boot'] = << >>
<1>1. log' = Append(log, << >>) /\ log \in Seq(Seq(Packets))
  BY DEF TypeOK, Restart
<1>2. << >> \in Seq(Packets)
  OBVIOUS
<1> QED BY <1>1, <1>2 DEF boot

LEMMA LogStep == TypeOK /\ LogInv /\ [Next]_vars => LogInv'
<1> SUFFICES ASSUME TypeOK, LogInv, [Next]_vars PROVE LogInv'
  OBVIOUS
<1> USE DEF LogInv, Logged
<1>1. ASSUME NEW pkt \in Packets, Sequence(pkt) PROVE LogInv'
  <2>1. log[boot] \in Seq(Packets) /\ boot \in DOMAIN log
    BY DEF TypeOK, boot
  <2> DEFINE new == Append(log[boot], pkt)
             LoggedNext(m) == /\ m.boot \in DOMAIN log'
                              /\ m.seq \in DOMAIN log'[m.boot]
                              /\ m.pkt = log'[m.boot][m.seq]
  <2>2. /\ DOMAIN log' = DOMAIN log /\ log'[boot] = new /\ boot' = boot
        /\ \A b \in DOMAIN log : b # boot => log'[b] = log[b]
    BY <1>1, SequenceLog
  <2>3. /\ Len(new) = seqReg + 1 /\ DOMAIN new = 1..(seqReg + 1)
        /\ DOMAIN log[boot] = 1..seqReg /\ new[seqReg + 1] = pkt
        /\ \A i \in 1..seqReg : new[i] = log[boot][i]
        /\ seqReg \in Nat
    BY <2>1 DEF TypeOK
  <2>4. \A m : Logged(m) => LoggedNext(m)
    BY <2>1, <2>2, <2>3
  <2>5. \A m \in wire' : LoggedNext(m)
    <3>1. ASSUME NEW m \in wire' \ wire PROVE LoggedNext(m)
      <4>1. m.boot = boot /\ m.seq = seqReg + 1 /\ m.pkt = pkt
        BY <1>1, <3>1 DEF Sequence
      <4> QED BY <2>1, <2>2, <2>3, <4>1
    <3> QED BY <2>4, <3>1
  <2>6. \A p \in Ports : \A m \in received'[p] : LoggedNext(m)
    BY <1>1, <2>4 DEF Sequence
  <2>7. seqReg' = Len(log'[boot'])
    BY <1>1, <2>2, <2>3 DEF Sequence
  <2> QED BY <2>5, <2>6, <2>7
<1>2. CASE Restart
  <2>1. \A m : Logged(m) => Logged(m)'
    BY <1>2, RestartLog
  <2>2. seqReg' = Len(log'[boot'])
    BY <1>2, RestartLog DEF Restart
  <2> QED BY <1>2, <2>1, <2>2 DEF Restart, netVars
<1>3. CASE Script
  BY <1>3 DEF Script, Start, Clear, NodeDelete, NodeAdd, MgidDelete, MgidAdd,
              Push, Abort, switchVars, netVars, boot
<1>4. ASSUME NEW pkt \in Packets, Send(pkt) \/ LoseUplink(pkt) PROVE LogInv'
  BY <1>4 DEF Send, LoseUplink, switchVars, boot
<1>5. ASSUME NEW c \in wire, LoseCopy(c) PROVE LogInv'
  BY <1>5 DEF LoseCopy, switchVars, boot
<1>6. ASSUME NEW c \in wire, Receive(c) PROVE LogInv'
  <2>1. /\ UNCHANGED <<seqReg, wire, log>>
        /\ received' = [received EXCEPT ![c.to] = @ \union {StampOf(c)}]
    BY <1>6 DEF Receive, switchVars
  <2>2. received \in [Ports -> SUBSET Stamp] /\ c.to \in Ports
    BY DEF TypeOK, Copy
  <2>3. Logged(StampOf(c))
    BY DEF StampOf
  <2>4. \A p \in Ports : \A m \in received'[p] : Logged(m)
    BY <2>1, <2>2, <2>3
  <2> QED BY <2>1, <2>4 DEF boot
<1>7. CASE UNCHANGED vars
  BY <1>7 DEF vars, switchVars, netVars, boot
<1> QED BY <1>1, <1>2, <1>3, <1>4, <1>5, <1>6, <1>7 DEF Next

-----------------------------------------------------------------------------
(* Types.                                                                  *)

LEMMA TypeStep == IInv /\ [Next]_vars => TypeOK'
<1> SUFFICES ASSUME IInv, [Next]_vars PROVE TypeOK'
  OBVIOUS
<1> USE BoundAssumption DEF IInv, TypeOK
<1>1. ASSUME NEW pkt \in Packets, Sequence(pkt) PROVE TypeOK'
  <2>1. boot \in 1..MaxBoots /\ seqReg + 1 \in 1..MaxSeq /\ GroupPorts \subseteq Ports
    BY <1>1 DEF Sequence, GroupPorts
  <2>2. wire' \subseteq Copy
    BY <1>1, <2>1 DEF Sequence, Copy
  <2>3. log' \in Seq(Seq(Packets)) /\ boot' \in 1..MaxBoots
    BY <1>1, <2>1, SequenceLog
  <2> QED BY <1>1, <2>1, <2>2, <2>3 DEF Sequence, scriptVars
<1>2. CASE Restart
  BY <1>2, RestartLog DEF Restart, Steps, netVars, boot
<1>3. ASSUME NEW c \in Configs, Start(c) PROVE TypeOK'
  BY <1>3 DEF Start, Steps, switchVars, netVars, boot
<1>4. CASE Clear
  BY <1>4 DEF Clear, Steps, netVars, boot
<1>5. CASE NodeDelete
  BY <1>5 DEF NodeDelete, Steps, netVars, boot
<1>6. CASE NodeAdd
  BY <1>6, ConfigAssumption DEF NodeAdd, ConfigType, Steps, netVars, boot
<1>7. CASE MgidDelete \/ MgidAdd
  BY <1>7 DEF MgidDelete, MgidAdd, Steps, netVars, boot
<1>8. CASE Push
  <2>1. loaded.client \in Ports
    BY <1>8, ConfigAssumption DEF Push, ConfigType, ScriptInv
  <2> QED BY <1>8, <2>1 DEF Push, Steps, netVars, boot
<1>9. CASE Abort
  BY <1>9 DEF Abort, Steps, switchVars, netVars, boot
<1>10. ASSUME NEW pkt \in Packets, Send(pkt) \/ LoseUplink(pkt) PROVE TypeOK'
  BY <1>10 DEF Send, LoseUplink, switchVars, scriptVars, boot
<1>11. ASSUME NEW c \in wire, LoseCopy(c) PROVE TypeOK'
  BY <1>11 DEF LoseCopy, switchVars, scriptVars, boot
<1>12. ASSUME NEW c \in wire, Receive(c) PROVE TypeOK'
  <2>1. c.to \in Ports /\ StampOf(c) \in Stamp
    BY DEF Copy, Stamp, StampOf
  <2>2. received' \in [Ports -> SUBSET Stamp]
    BY <1>12, <2>1 DEF Receive
  <2> QED BY <1>12, <2>2 DEF Receive, switchVars, scriptVars, boot
<1>13. CASE UNCHANGED vars
  BY <1>13 DEF vars, switchVars, scriptVars, netVars, boot
<1> QED BY <1>1, <1>2, <1>3, <1>4, <1>5, <1>6, <1>7, <1>8, <1>9, <1>10,
           <1>11, <1>12, <1>13 DEF Next, Script

-----------------------------------------------------------------------------
(* The theorems.                                                           *)

\* IInv is an invariant: every step of switch, script, hosts and links
\* preserves it.
THEOREM Invariance == Spec => []IInv
<1>1. IInv /\ [Next]_vars => IInv'
  BY ScriptStep, LogStep, TypeStep DEF IInv
<1> QED BY InitInv, <1>1, PTL DEF Spec

\* Type correctness of switch, script, links and logs.
THEOREM TypeCorrect == Spec => []TypeOK
<1>1. IInv => TypeOK
  BY DEF IInv
<1> QED BY Invariance, <1>1, PTL

\* No two replicas disagree about a sequence number of one power-on.
THEOREM Agreement == Spec => []StampAgreement
<1>1. IInv => StampAgreement
  BY DEF IInv, LogInv, Logged, StampAgreement
<1> QED BY Invariance, <1>1, PTL

\* A reachable sequencer entry always has its complete replica group behind
\* it, at whatever call the script stands or was cut off.
THEOREM GroupComplete == Spec => []EntryImpliesGroup
<1>1. IInv => EntryImpliesGroup
  BY DEF IInv, ScriptInv
<1> QED BY Invariance, <1>1, PTL

\* A packet that gets a number leaves under it for the whole replica group.
LEMMA SequenceReachesGroup ==
  ASSUME IInv, NEW pkt \in Packets, Sequence(pkt)
  PROVE  \E c \in Configs :
           /\ pkt.port = c.client /\ pkt.addr = c.addr
           /\ {m \in wire' : m.boot = boot /\ m.seq = seqReg'} =
                {[boot |-> boot, seq |-> seqReg', pkt |-> pkt, to |-> p] :
                   p \in c.replicas}
<1>1. PICK e \in entry : e.port = pkt.port /\ e.addr = pkt.addr
  BY DEF Sequence, Hits
<1>2. PICK c \in Configs : e = [port |-> c.client, addr |-> c.addr]
                           /\ node = {c.replicas}
  BY DEF IInv, ScriptInv, EntryImpliesGroup
<1>3. GroupPorts = c.replicas
  BY <1>2 DEF IInv, ScriptInv, EntryImpliesGroup, GroupPorts
<1>4. \A m \in wire : ~(m.boot = boot /\ m.seq = seqReg')
  <2>1. log[boot] \in Seq(Packets) /\ seqReg \in Nat
    BY DEF IInv, TypeOK, boot
  <2>2. seqReg' \notin DOMAIN log[boot]
    BY <2>1 DEF IInv, LogInv, Sequence
  <2> QED BY <2>2 DEF IInv, LogInv, Logged
<1>5. wire' = wire \union
        {[boot |-> boot, seq |-> seqReg', pkt |-> pkt, to |-> p] :
           p \in c.replicas}
  BY <1>3 DEF Sequence
<1>6. {m \in wire' : m.boot = boot /\ m.seq = seqReg'} =
        {[boot |-> boot, seq |-> seqReg', pkt |-> pkt, to |-> p] :
           p \in c.replicas}
  BY <1>4, <1>5
<1> QED BY <1>1, <1>2, <1>6

\* No sequence number is burnt.
THEOREM NoNumberBurnt == Spec => StampReachesGroup
<1>1. IInv /\ [Next]_vars => [NumberReachesGroup]_vars
  <2> SUFFICES ASSUME IInv, Next, seqReg' > seqReg PROVE NumberReachesGroup
    BY DEF NumberReachesGroup
  <2>1. seqReg \in Nat
    BY DEF IInv, TypeOK
  <2>2. PICK pkt \in Packets : Sequence(pkt)
    BY <2>1 DEF Next, Script, Start, Clear, NodeDelete, NodeAdd, MgidDelete,
                MgidAdd, Push, Abort, Restart, Send, LoseUplink, LoseCopy,
                Receive, switchVars
  <2>3. pkt \in uplink
    BY <2>2 DEF Sequence
  <2> QED BY <2>2, <2>3, SequenceReachesGroup DEF NumberReachesGroup
<1> QED BY Invariance, <1>1, PTL DEF Spec, StampReachesGroup

\* The switch, its script and the links implement an ordered multicast.
THEOREM Refinement == Spec => ImplementsOrderedMulticast
<1> USE DEF Ordered!Order, Ordered!Obtain, Ordered!Reopen, Ordered!Next, Ordered!vars
<1>1. Init => Ordered!Init
  BY DEF Init, Ordered!Init
<1>2. IInv /\ [Next]_vars => [Ordered!Next]_(Ordered!vars)
  <2> SUFFICES ASSUME IInv, [Next]_vars PROVE [Ordered!Next]_(Ordered!vars)
    OBVIOUS
  <2>1. ASSUME NEW pkt \in Packets, Sequence(pkt) PROVE Ordered!Order(pkt)
    BY <2>1 DEF Sequence, boot
  <2>2. CASE Restart
    BY <2>2 DEF Restart, netVars
  <2>3. ASSUME NEW c \in wire, Receive(c)
        PROVE  Ordered!Obtain(c.to, c.boot, c.seq)
    BY <2>3 DEF Receive, StampOf, IInv, LogInv, Logged
  <2>4. \A c \in wire : /\ c.to \in Ports /\ c.boot \in DOMAIN log
                        /\ c.seq \in DOMAIN log[c.boot]
    BY DEF IInv, LogInv, Logged, TypeOK, Copy
  <2>5. CASE Script
    BY <2>5 DEF Script, Start, Clear, NodeDelete, NodeAdd, MgidDelete,
                MgidAdd, Push, Abort, netVars
  <2>6. ASSUME NEW pkt \in Packets, Send(pkt) \/ LoseUplink(pkt)
        PROVE  UNCHANGED Ordered!vars
    BY <2>6 DEF Send, LoseUplink
  <2>7. ASSUME NEW c \in wire, LoseCopy(c) PROVE UNCHANGED Ordered!vars
    BY <2>7 DEF LoseCopy
  <2>8. CASE UNCHANGED vars
    BY <2>8 DEF vars, netVars
  <2> QED BY <2>1, <2>2, <2>3, <2>4, <2>5, <2>6, <2>7, <2>8 DEF Next
<1> QED BY Invariance, <1>1, <1>2, PTL
        DEF Spec, Ordered!Spec, ImplementsOrderedMulticast
=============================================================================
