----------------------------- MODULE ClosFabric -----------------------------
(***************************************************************************)
(* The leaf-spine fabric folded into one Tofino: the forwarding part of    *)
(* p4src/nopaxos_tofino.p4 handles a frame once per logical switch, and    *)
(* cables between ports of the same device carry it from one to the next.  *)
(* bfrt_python/apply_nopaxos_tofino_sequencer.py rewrites the four tables  *)
(* entry by entry while frames are under way.                              *)
(***************************************************************************)
EXTENDS Naturals, Sequences

CONSTANTS
  NumLeaves,  \* leaves are 1..NumLeaves
  NumSpines,  \* spines are 1..NumSpines
  Endpoints,  \* network interfaces cabled to the switch, each with its MAC
  GroupMac,   \* a destination address of no endpoint
  Topology,   \* the topology files by name, see FileType
  Cabled,     \* the name of the file that tells how the ports are really cabled
  NoPort,     \* the far end of a port that is not cabled
  Port0,      \* device port 0, which the tables name by default
  MaxRuns,    \* bound: runs of the script
  MaxHops     \* bound: fabric cables told apart, beyond two

Port(tier, id, pos) == [tier |-> tier, id |-> id, pos |-> pos]

Files == DOMAIN Topology
Ports == DOMAIN Topology[Cabled].role
Macs  == Endpoints \union {GroupMac}
Peer  == Topology[Cabled].peer

\* A topology file: the switch ports in order, their roles, the interfaces
\* that name a tofino_port, in order, these ports, and the far end of every
\* port.
FileType(f) ==
  /\ f.role \in [Ports -> {"server", "fabric", "unused"}]
  /\ f.ports \in Seq(Ports) /\ {f.ports[n] : n \in DOMAIN f.ports} = Ports
  /\ f.nics \in Seq(Endpoints)
  /\ f.tofinoPort \in [{f.nics[n] : n \in DOMAIN f.nics} -> Ports]
  /\ f.peer \in [Ports -> Ports \union Endpoints \union {NoPort}]

ASSUME PortAssumption  == Ports \subseteq [tier : {"leaf", "spine"}, id : Nat \ {0}, pos : Nat]
ASSUME FileAssumption  == Cabled \in Files /\ \A f \in Files : FileType(Topology[f])
ASSUME NamesAssumption == /\ GroupMac \notin Endpoints
                          /\ {NoPort, Port0} \intersect (Ports \union Endpoints) = {}
                          /\ Ports \intersect Endpoints = {}
ASSUME BoundAssumption == /\ NumLeaves \in Nat
                          /\ NumSpines \in Nat
                          /\ MaxRuns \in Nat
                          /\ MaxHops \in Nat /\ MaxHops > 2

VARIABLES
  table,      \* table[t]: the entries of t, each a key and a value
  step,       \* the runtime call the script makes next, 0 between runs
  loaded,     \* the file of the current or last run
  complete,   \* whether the last run made all its calls
  runs,       \* number of runs started
  tried,      \* history: the files of all runs so far
  frame       \* the frame that is followed through the fabric

scriptVars == <<step, loaded, complete, runs, tried>>
vars == <<table, scriptVars, frame>>

Tables == {"t_port_role", "t_dst_mac_classify", "t_leaf_uplink_v1",
           "t_spine_forward"}

\* at is the port a frame enters by, or the endpoint it has reached; hops
\* counts the fabric cables behind it (up to MaxHops); undisturbed holds if the tables were
\* complete when it was sent and no run has started since.
NoFrame == [state |-> "none", at |-> NoPort, dst |-> GroupMac, hops |-> 0,
            undisturbed |-> FALSE]

Init ==
  /\ table = [t \in Tables |-> {}]
  /\ step = 0
  /\ loaded \in Files
  /\ complete = FALSE
  /\ runs = 0
  /\ tried = {}
  /\ frame = NoFrame

-----------------------------------------------------------------------------
(* The runtime calls of a run on file f, table after table.                *)

ClearCall(t)      == [op |-> "clear", table |-> t]
PushCall(t, k, v) == [op |-> "push", table |-> t,
                      entry |-> [key |-> k, val |-> v]]

\* The elements of s that are in T, in the order of s.
Among(s, T) ==
  LET kept[n \in 0..Len(s)] ==
        IF n = 0 THEN <<>>
        ELSE IF s[n] \in T THEN Append(kept[n - 1], s[n]) ELSE kept[n - 1]
  IN  kept[Len(s)]

\* The ports that get a role: an unused leaf port gets no entry, an unused
\* spine port does.
WithRole(f) == {p \in Ports : p.tier = "spine" \/ f.role[p] # "unused"}

RoleVal(f, p) ==
  IF p.tier = "spine" THEN [kind |-> "K_SPINE_PORT", leaf |-> 0, spine |-> p.id]
  ELSE [kind |-> IF f.role[p] = "server" THEN "K_DOWNLINK" ELSE "K_LEAF_UPLINK",
        leaf |-> p.id, spine |-> 0]

RoleCalls(f) ==
  LET ps == Among(f.ports, WithRole(f))
  IN  <<ClearCall("t_port_role")>>
        \o [n \in DOMAIN ps |-> PushCall("t_port_role", ps[n], RoleVal(f, ps[n]))]

DstCalls(f) ==
  <<ClearCall("t_dst_mac_classify")>>
    \o [n \in DOMAIN f.nics |->
          LET p == f.tofinoPort[f.nics[n]]
          IN  PushCall("t_dst_mac_classify", f.nics[n], [leaf |-> p.id, port |-> p])]

UplinkPushes(ps) ==
  [n \in DOMAIN ps |-> PushCall("t_leaf_uplink_v1", ps[n].id, ps[n])]

Uplinks(f) == {p \in Ports : p.tier = "leaf" /\ f.role[p] = "fabric"}

\* Faulty: the role of the port is not looked at.
UplinkCallsAnyRole(f) ==
  <<ClearCall("t_leaf_uplink_v1")>>
    \o UplinkPushes(Among(f.ports, {p \in Ports : p.tier = "leaf"}))

\* One entry for every fabric port of a leaf, keyed by the leaf alone.
UplinkCalls(f) ==
  <<ClearCall("t_leaf_uplink_v1")>>
    \o UplinkPushes(Among(f.ports, Uplinks(f)))

\* Faulty: the loop over the leaves ends one short.
SpineCallsShort ==
  <<ClearCall("t_spine_forward")>>
    \o [n \in 1..(NumSpines * (NumLeaves - 1)) |->
          LET s == ((n - 1) \div (NumLeaves - 1)) + 1
              l == ((n - 1) % (NumLeaves - 1)) + 1
          IN  PushCall("t_spine_forward", <<s, l>>, Port("spine", s, l))]

\* Port Y of a spine is taken to lead to leaf Y, whatever the file says.
SpineCalls ==
  <<ClearCall("t_spine_forward")>>
    \o [n \in 1..(NumSpines * NumLeaves) |->
          LET s == ((n - 1) \div NumLeaves) + 1
              l == ((n - 1) % NumLeaves) + 1
          IN  PushCall("t_spine_forward", <<s, l>>, Port("spine", s, l))]

Program ==
  [name \in Files |->
     LET f == Topology[name]
     IN  RoleCalls(f) \o DstCalls(f) \o UplinkCalls(f) \o SpineCalls]

Start(name) ==
  /\ step = 0
  /\ runs < MaxRuns
  /\ step' = 1
  /\ loaded' = name
  /\ complete' = FALSE
  /\ runs' = runs + 1
  /\ tried' = tried \union {name}
  /\ frame' = [frame EXCEPT !.undisturbed = FALSE]
  /\ UNCHANGED table

\* Faulty: a push on a key that is there leaves two entries behind.
CallDuplicate ==
  /\ step # 0
  /\ LET c == Program[loaded][step] IN
       table' = [table EXCEPT ![c.table] =
                   IF c.op = "clear" THEN {} ELSE @ \union {c.entry}]
  /\ complete' = (step = Len(Program[loaded]))
  /\ step' = IF complete' THEN 0 ELSE step + 1
  /\ UNCHANGED <<loaded, runs, tried, frame>>

\* The next call.  Whether a push on a key that is there replaces the entry
\* or is refused is up to the runtime (Abort, if it raises).
Call ==
  /\ step # 0
  /\ LET c == Program[loaded][step] IN
       \/ c.op = "clear" /\ table' = [table EXCEPT ![c.table] = {}]
       \/ /\ c.op = "push"
          /\ table' = [table EXCEPT ![c.table] =
                         {e \in @ : e.key # c.entry.key} \union {c.entry}]
       \/ /\ c.op = "push"
          /\ \E e \in table[c.table] : e.key = c.entry.key
          /\ UNCHANGED table
  /\ complete' = (step = Len(Program[loaded]))
  /\ step' = IF complete' THEN 0 ELSE step + 1
  /\ UNCHANGED <<loaded, runs, tried, frame>>

\* A call raises, or the operator interrupts the script.
Abort ==
  /\ step # 0
  /\ step' = 0
  /\ UNCHANGED <<table, loaded, complete, runs, tried, frame>>

-----------------------------------------------------------------------------
(* The forwarding part of the ingress pipeline.                            *)

\* The value a table holds for a key, or its default.
Lookup(t, k, default) ==
  IF \E e \in table[t] : e.key = k
  THEN (CHOOSE e \in table[t] : e.key = k).val
  ELSE default

RoleOf(p)      == Lookup("t_port_role", p, [kind |-> "K_UNKNOWN", leaf |-> 0, spine |-> 0])
DstOf(mac)     == Lookup("t_dst_mac_classify", mac, [leaf |-> 0, port |-> Port0])
UplinkOf(leaf) == Lookup("t_leaf_uplink_v1", leaf, Port0)
SpineOf(spine, leaf) == Lookup("t_spine_forward", <<spine, leaf>>, Port0)

OrDrop(port) == IF port = Port0 THEN NoPort ELSE port

\* Faulty: what comes down from a spine is not told from what comes up.
EgressUplinkAsDownlink(p, mac) ==
  LET r == RoleOf(p)
      d == DstOf(mac)
  IN  IF d.leaf # 0 /\ d.leaf = r.leaf THEN d.port
      ELSE IF r.kind \in {"K_DOWNLINK", "K_LEAF_UPLINK"} THEN OrDrop(UplinkOf(r.leaf))
      ELSE IF r.kind = "K_SPINE_PORT" THEN OrDrop(SpineOf(r.spine, d.leaf))
      ELSE NoPort

\* The port a frame for mac that enters by p leaves by, NoPort if it is
\* dropped.  From a leaf uplink, port 0 is not taken for a drop.
Egress(p, mac) ==
  LET r == RoleOf(p)
      d == DstOf(mac)
  IN  IF d.leaf # 0 /\ d.leaf = r.leaf THEN d.port
      ELSE IF r.kind = "K_DOWNLINK"    THEN OrDrop(UplinkOf(r.leaf))
      ELSE IF r.kind = "K_SPINE_PORT"  THEN OrDrop(SpineOf(r.spine, d.leaf))
      ELSE IF r.kind = "K_LEAF_UPLINK" THEN d.port
      ELSE NoPort

\* An endpoint sends a frame; only one is followed, since they do not
\* influence each other.
Send(p, mac) ==
  /\ frame.state # "flying"
  /\ Peer[p] \in Endpoints \ {mac}
  /\ frame' = [state |-> "flying", at |-> p, dst |-> mac, hops |-> 0,
               undisturbed |-> complete /\ loaded = Cabled]
  /\ UNCHANGED <<table, scriptVars>>

\* Where a frame that leaves by port q goes.
FarEnd(q) == IF q \in Ports THEN Peer[q] ELSE NoPort

\* One pass through the pipeline, and the cable behind it.
Forward ==
  /\ frame.state = "flying"
  /\ LET q   == Egress(frame.at, frame.dst)
         far == FarEnd(q)
     IN  \/ /\ q = NoPort
            /\ frame' = [frame EXCEPT !.state = "dropped"]
         \/ /\ q # NoPort /\ far = NoPort
            /\ frame' = [frame EXCEPT !.state = "astray"]
         \/ /\ far \in Ports
            /\ frame' = [frame EXCEPT !.at = far, !.hops = IF @ < MaxHops THEN @ + 1 ELSE @]
         \/ /\ far \in Endpoints
            /\ frame' = [frame EXCEPT !.at = far, !.state = "delivered"]
  /\ UNCHANGED <<table, scriptVars>>

Next ==
  \/ \E name \in Files : Start(name)
  \/ Call
  \/ Abort
  \/ \E p \in Ports, mac \in Macs : Send(p, mac)
  \/ Forward

Spec == Init /\ [][Next]_vars

-----------------------------------------------------------------------------
(* Properties.                                                             *)

FrameType ==
  /\ frame \in [state : {"none", "flying", "delivered", "dropped", "astray"},
                at    : Ports \union Endpoints \union {NoPort},
                dst   : Macs, hops : 0..MaxHops, undisturbed : BOOLEAN]
  /\ frame.state = "flying" => frame.at \in Ports
  /\ frame.state = "delivered" => frame.at \in Endpoints

\* Type invariant; a table holds one entry per key.
TypeOK ==
  /\ DOMAIN table = Tables
  /\ \A t \in Tables : \A e, f \in table[t] : e.key = f.key => e = f
  /\ loaded \in Files /\ complete \in BOOLEAN /\ runs \in 0..MaxRuns
  /\ tried \subseteq Files
  /\ complete => step = 0
  /\ FrameType

\* What the script takes for granted of a file: endpoints are on server ports of
\* leaves, fabric ports of leaves are cabled to spines, and port Y of a spine, if
\* it is cabled, to a fabric port of leaf Y ("convention: spineX_pY goes to
\* dst_leaf Y", apply_nopaxos_tofino_sequencer.py:145).
FoldedClos ==
  LET f == Topology[Cabled] IN
    /\ \A p \in Ports : f.peer[p] \in Endpoints => p.tier = "leaf" /\ f.role[p] = "server"
    /\ \A p \in Uplinks(f) : f.peer[p] \in Ports /\ f.peer[p].tier = "spine"
    /\ \A p \in Ports : p.tier = "spine" /\ f.peer[p] # NoPort
                          => f.peer[p] \in Uplinks(f) /\ f.peer[p].id = p.pos
    /\ \A e \in DOMAIN f.tofinoPort :
         f.tofinoPort[e].tier = "leaf" /\ f.peer[f.tofinoPort[e]] = e

\* No cable is missing: a leaf with an endpoint has an uplink, and a spine that
\* a leaf is cabled to has a cable to every leaf with an endpoint.
FullyCabled ==
  LET f      == Topology[Cabled]
      hosted == {p \in Ports : f.peer[p] \in Endpoints}
  IN  /\ \A p \in hosted : \E q \in Uplinks(f) : q.id = p.id
      /\ \A q \in Uplinks(f), p \in hosted :
           /\ f.peer[q].id \in 1..NumSpines /\ p.id \in 1..NumLeaves
           /\ \E c \in Ports : c = Port("spine", f.peer[q].id, p.id) /\ f.peer[c] # NoPort

\* Every run so far was on the file that tells the real cabling.
RightFile == tried \subseteq {Cabled}

\* No frame circles in the folded fabric: it crosses at most two fabric
\* cables, one up and one down, whatever mixture of old and new entries the
\* four tables hold while it is under way (nopaxos_tofino.p4:351-387).
UpAndDownOnce == RightFile => frame.hops <= 2

\* An endpoint gets no frame that is addressed to another one, also while the
\* script writes the tables of the same file anew and while frames are between
\* two passes of the pipeline (set_dst and the uplink entries, p4:196-235).
NoMisdelivery ==
  RightFile /\ frame.state = "delivered" => frame.at = frame.dst

\* Once a run is complete, a frame for a known address that no later run
\* disturbs reaches its endpoint and is not lost, whatever the tables held before
\* that run and wherever earlier runs stopped: the spine sends it "out the
\* spine port that leads to that leaf" (comment of nopaxos_tofino.p4:236).
Delivery ==
  frame.undisturbed /\ frame.dst \in DOMAIN Topology[Cabled].tofinoPort
    => frame.state = "flying" \/ frame.at = frame.dst
=============================================================================
