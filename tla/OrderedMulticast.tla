-------------------------- MODULE OrderedMulticast --------------------------
(***************************************************************************)
(* What the in-switch sequencer promises to the replica group: an ordered  *)
(* but unreliable multicast.  Every power-on of the switch opens a log of  *)
(* its own; a packet is given the next position of the open log; a         *)
(* receiver may obtain any position of any log, in any order, any number   *)
(* of times or never, but what it obtains under a position is what the log *)
(* holds there.                                                            *)
(***************************************************************************)
EXTENDS Naturals, Sequences

CONSTANTS
  Packets,    \* what clients may send to the group
  Receivers   \* who may obtain ordered packets

VARIABLES
  log,        \* one sequence of packets for each power-on, the open one last
  obtained    \* obtained[r]: the set of [boot, seq, pkt] that r has got

vars == <<log, obtained>>

Init ==
  /\ log = << << >> >>
  /\ obtained = [r \in Receivers |-> {}]

\* pkt gets the next position of the open log.
Order(pkt) ==
  /\ log' = [log EXCEPT ![Len(log)] = Append(@, pkt)]
  /\ UNCHANGED obtained

\* r obtains the packet at position i of log b.
Obtain(r, b, i) ==
  /\ obtained' = [obtained EXCEPT
                    ![r] = @ \union {[boot |-> b, seq |-> i, pkt |-> log[b][i]]}]
  /\ UNCHANGED log

\* The sequencer loses its state and opens a new, empty log.
Reopen ==
  /\ log' = Append(log, << >>)
  /\ UNCHANGED obtained

Next ==
  \/ \E pkt \in Packets : Order(pkt)
  \/ \E r \in Receivers, b \in DOMAIN log :
        \E i \in DOMAIN log[b] : Obtain(r, b, i)
  \/ Reopen

Spec == Init /\ [][Next]_vars
=============================================================================
