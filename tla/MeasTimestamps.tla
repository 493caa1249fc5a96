--------------------------- MODULE MeasTimestamps ---------------------------
(***************************************************************************)
(* One-way measurement: vartest/sources/meas_sender.c sends numbered       *)
(* requests and reads their transmit timestamps from the error queue of    *)
(* its socket, meas_receiver.c writes a row per request with the receive   *)
(* timestamp of the socket, and tools/process_meas_compose_ts.py joins the *)
(* three files.  A timestamp is named by the request it was taken of.      *)
(***************************************************************************)
EXTENDS Naturals, Sequences, FiniteSets

CONSTANTS
  Count,       \* requests are 1..Count, in the order of sending
  DrainBurst,  \* requests between two looks at the error queue; 64 in the code
  FinalRetry,  \* looks after the last request; 1000 in the code
  IdleExit,    \* receive timeouts in a row that end the receiver
  MaxDup       \* bound: datagrams the network repeats

ASSUME CountAssumption == Count \in Nat \ {0} /\ DrainBurst \in Nat \ {0}
ASSUME RetryAssumption == FinalRetry \in Nat \ {0} /\ IdleExit \in Nat \ {0}
ASSUME BoundAssumption == MaxDup \in Nat

VARIABLES
  spc,      \* the sender: "send", "drain", "final", "done" or "error"
  sent,     \* requests sent
  tries,    \* looks at the error queue after the last request
  txRows,   \* sender_tx_ts.csv: row k is of request k; its timestamp
  stamping, \* requests whose transmit timestamp is not in the error queue yet
  lost,     \* history: requests whose timestamp never gets there
  errq,     \* the error queue
  net,      \* datagrams under way or in the receiver's socket, as request and copy
  dups,     \* copies the network has made
  rpc,      \* the receiver: "run" or "done"
  idle,     \* timeouts since the last datagram
  room,     \* whether msg_controllen leaves room for a timestamp
  rxRows    \* receiver.csv

sender   == <<spc, sent, tries, txRows>>
nic      == <<stamping, lost, errq>>
receiver == <<rpc, idle, room, rxRows>>
network  == <<net, dups>>
vars     == <<sender, nic, network, receiver>>

Requests == 1..Count
None     == 0  \* no timestamp

\* What a datagram brings along: a hardware timestamp, only a software one,
\* no timestamp at all.
StampKinds == {"hw", "sw", "none"}

Init ==
  /\ spc = "send" /\ sent = 0 /\ tries = 0 /\ txRows = <<>>
  /\ stamping = {} /\ lost = {} /\ errq = <<>>
  /\ net = {} /\ dups = 0
  /\ rpc = "run" /\ idle = 0
  /\ room = TRUE /\ rxRows = <<>>

-----------------------------------------------------------------------------
(* The sender.                                                             *)

AfterSend(n) == IF n % DrainBurst = 0 THEN "drain" ELSE IF n = Count THEN "final" ELSE "send"

\* sendto or recvmsg fails, and the sender gives up.
Fails ==
  /\ spc \notin {"done", "error"}
  /\ spc' = "error"
  /\ UNCHANGED <<sent, tries, txRows, nic, network, receiver>>

Send ==
  /\ spc = "send"
  /\ sent' = sent + 1
  /\ stamping' = stamping \union {sent'}
  /\ net' = net \union {<<sent', 0>>}
  /\ spc' = AfterSend(sent')
  /\ UNCHANGED <<tries, txRows, lost, errq, dups, receiver>>

\* Faulty: the index also moves on for an entry without a timestamp.
DrainOneBlankCounts ==
  /\ spc \in {"drain", "final"}
  /\ errq # <<>>
  /\ errq' = Tail(errq)
  /\ txRows' = IF Len(txRows) < sent THEN Append(txRows, Head(errq)) ELSE txRows
  /\ UNCHANGED <<spc, sent, tries, stamping, lost, network, receiver>>

\* One recvmsg of drain_tx_timestamps: the next timestamp is taken for the
\* one of the next request without one, whatever id it carries.
DrainOne ==
  /\ spc \in {"drain", "final"}
  /\ errq # <<>>
  /\ errq' = Tail(errq)
  /\ txRows' = IF Head(errq) # None /\ Len(txRows) < sent
               THEN Append(txRows, Head(errq)) ELSE txRows
  /\ UNCHANGED <<spc, sent, tries, stamping, lost, network, receiver>>

\* Faulty: the loop after the last request waits for all timestamps.
DrainEndUnbounded ==
  /\ spc \in {"drain", "final"}
  /\ errq = <<>>
  /\ spc' = IF spc = "drain" THEN IF sent = Count THEN "final" ELSE "send"
            ELSE IF Len(txRows) >= Count THEN "done" ELSE "final"
  /\ UNCHANGED <<sent, tries, txRows, nic, network, receiver>>

\* The error queue is empty: drain_tx_timestamps returns.
DrainEnd ==
  /\ spc \in {"drain", "final"}
  /\ errq = <<>>
  /\ IF spc = "drain"
     THEN spc' = (IF sent = Count THEN "final" ELSE "send") /\ UNCHANGED tries
     ELSE /\ tries' = tries + 1
          /\ spc' = IF Len(txRows) >= Count \/ tries' = FinalRetry THEN "done" ELSE "final"
  /\ UNCHANGED <<sent, txRows, nic, network, receiver>>

Sender == Send \/ DrainOne \/ DrainEnd

-----------------------------------------------------------------------------
(* The network card and the network.                                       *)

\* Timestamps are taken in the order of sending; one can be lost, or its
\* place be taken by an entry without one.
StampTx ==
  /\ stamping # {}
  /\ LET r == CHOOSE n \in stamping : \A k \in stamping : n <= k IN
       /\ stamping' = stamping \ {r}
       /\ \/ errq' = Append(errq, r) /\ UNCHANGED lost
          \/ errq' = Append(errq, None) /\ lost' = lost \union {r}
          \/ UNCHANGED errq /\ lost' = lost \union {r}
  /\ UNCHANGED <<sender, network, receiver>>

\* Datagrams take one path and stay in order; one that is overtaken, or never
\* received, is lost.
Behind(e, d) == e[1] > d[1] \/ (e[1] = d[1] /\ e[2] > d[2])

Duplicate(d) ==
  /\ d \in net /\ dups < MaxDup
  /\ dups' = dups + 1
  /\ net' = net \union {<<d[1], dups'>>}
  /\ UNCHANGED <<sender, nic, receiver>>

-----------------------------------------------------------------------------
(* The receiver.                                                           *)

\* Faulty: rx_hw_ns keeps the value of the row before.
RowOfStale(d, kind) ==
  [req |-> d[1], rx |-> IF room /\ kind = "hw" THEN d[1]
                        ELSE IF rxRows = <<>> THEN None ELSE rxRows[Len(rxRows)].rx]

RowOf(d, kind) == [req |-> d[1], rx |-> IF room /\ kind = "hw" THEN d[1] ELSE None]

\* Faulty: the header is looked at first, and a datagram with a bad one stays
\* in the socket.
ReceivePeeks(d, kind, good) ==
  /\ rpc = "run" /\ d \in net
  /\ net' = {e \in net : Behind(e, d) \/ (e = d /\ ~good)}
  /\ idle' = 0
  /\ room' = (room /\ kind # "none")
  /\ rxRows' = IF good THEN Append(rxRows, RowOf(d, kind)) ELSE rxRows
  /\ UNCHANGED <<sender, nic, dups, rpc>>

\* recvmsg returns a datagram and stores the length of its control messages
\* in msg_controllen, the room for those of the next one.  One that is short
\* or has a bad header makes no row.
Receive(d, kind, good) ==
  /\ rpc = "run" /\ d \in net
  /\ net' = {e \in net : Behind(e, d)}
  /\ idle' = 0
  /\ room' = (room /\ kind # "none")
  /\ rxRows' = IF good THEN Append(rxRows, RowOf(d, kind)) ELSE rxRows
  /\ UNCHANGED <<sender, nic, dups, rpc>>

\* Faulty: a timeout counts as activity.
TimeoutIdleReset ==
  /\ rpc = "run"
  /\ idle' = 1
  /\ rpc' = IF idle' = IdleExit THEN "done" ELSE "run"
  /\ UNCHANGED <<sender, nic, network, room, rxRows>>

\* recvmsg times out before a datagram is there; enough times in a row, and the receiver ends.
Timeout ==
  /\ rpc = "run"
  /\ idle' = idle + 1
  /\ rpc' = IF idle' = IdleExit THEN "done" ELSE "run"
  /\ UNCHANGED <<sender, nic, network, room, rxRows>>

\* SIGINT or SIGTERM; a blocked recvmsg returns, for it has a timeout.
Signal ==
  /\ rpc = "run"
  /\ rpc' = "done"
  /\ UNCHANGED <<sender, nic, network, idle, room, rxRows>>

Receiver ==
  \/ \E d \in net, kind \in StampKinds, good \in BOOLEAN : Receive(d, kind, good)
  \/ Timeout

Next ==
  \/ Sender \/ Fails \/ StampTx \/ Receiver \/ Signal
  \/ \E d \in net : Duplicate(d)

\* Both programs are scheduled again and again; a failure is not owed.
Spec == Init /\ [][Next]_vars /\ WF_vars(Sender) /\ WF_vars(Receiver)
=============================================================================
