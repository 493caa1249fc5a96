------------------------ MODULE MeasTimestampsProps -------------------------
(***************************************************************************)
(* What the three files say, and the table they are joined into.           *)
(***************************************************************************)
EXTENDS MeasTimestamps

\* The row of the joined table of request r and row k of receiver.csv.
JoinedRow(r, k) == [req |-> r,
                    tx  |-> IF r \in DOMAIN txRows THEN txRows[r] ELSE None,
                    rx  |-> IF k = 0 THEN None ELSE rxRows[k].rx,
                    row |-> k]

RowsOf(r) == {k \in DOMAIN rxRows : rxRows[k].req = r}

\* Faulty: an inner join.
JoinedInner == UNION {{JoinedRow(r, k) : k \in RowsOf(r)} : r \in 1..sent}

\* load_and_merge: sender.csv left-joined with the two other files on req_id.
\* row is the row of receiver.csv, 0 where there is none; the same request
\* received twice makes two rows.
Joined ==
  UNION {{JoinedRow(r, k) : k \in IF RowsOf(r) = {} THEN {0} ELSE RowsOf(r)} :
         r \in 1..sent}

\* Type invariant.
TypeOK ==
  /\ spc \in {"send", "drain", "final", "done", "error"}
  /\ sent \in 0..Count /\ tries \in 0..FinalRetry
  /\ \A k \in DOMAIN txRows : txRows[k] \in 1..sent
  /\ stamping \subseteq 1..sent /\ lost \subseteq 1..sent
  /\ \A k \in DOMAIN errq : errq[k] \in {None} \union 1..sent
  /\ net \subseteq (1..sent) \X (0..MaxDup) /\ dups \in 0..MaxDup
  /\ rpc \in {"run", "done"} /\ idle \in 0..IdleExit
  /\ room \in BOOLEAN
  /\ \A k \in DOMAIN rxRows : rxRows[k].rx \in {None, rxRows[k].req}

\* The timestamp in row k of sender_tx_ts.csv is the one of request k plus the
\* number of timestamps lost before it: right as long as none is lost, then
\* shifted, and never one of an earlier request, so that tx_hw_ns - phc_usr_tx
\* is not negative (meas_sender.c:121-134).
ShiftedByLosses ==
  \A k \in DOMAIN txRows :
    /\ txRows[k] = k + Cardinality({r \in lost : r < txRows[k]})
    /\ txRows[k] \notin lost

\* The joined table counts every request that no row of the receiver speaks of
\* once, as lost, and every row of the receiver once
\* (process_meas_compose_ts.py:72-74, summarize).
LossesCounted ==
  LET missing == {j \in Joined : j.row = 0} IN
    /\ {j.req : j \in missing} = 1..sent \ {rxRows[k].req : k \in DOMAIN rxRows}
    /\ Cardinality(missing) = Cardinality({j.req : j \in missing})
    /\ \A k \in DOMAIN rxRows : Cardinality({j \in Joined : j.row = k}) = 1

\* Upper bounds on the steps the two programs still have to make: a request is
\* sent, its timestamp read and a look at the error queue ended, and the looks after
\* the last one; a datagram, and timeouts up to the one that ends the receiver.
SenderAhead ==
  3 * (Count - sent) + Cardinality(stamping) + Len(errq) + (FinalRetry - tries)
    + (IF spc = "drain" THEN 1 ELSE 0)
ReceiverAhead ==
  IdleExit * ((Count - sent) + (MaxDup - dups) + Cardinality(net)) + (IdleExit - idle)

\* Each step of the sender brings its end nearer, and no timestamp, however late,
\* takes it further away: 3 * Count + FinalRetry steps are enough, whatever is lost
\* (meas_sender.c:69-137, 281-353).
SenderAdvances ==
  [][SenderAhead' \in 0..SenderAhead /\ (Sender => SenderAhead' < SenderAhead)]_vars

\* Each step of the receiver brings its end nearer although a datagram sets its
\* count of timeouts back, whatever the network does (meas_receiver.c:161-186).
ReceiverAdvances ==
  [][ReceiverAhead' \in 0..ReceiverAhead /\ (Receiver => ReceiverAhead' < ReceiverAhead)]_vars

\* The sender ends whatever timestamps are lost: it does not wait for them for
\* ever (meas_sender.c:342-353).
SenderEnds == <>(spc \in {"done", "error"})

\* The receiver ends by itself once nothing comes any more
\* (meas_receiver.c:168-179).
ReceiverEnds == <>(rpc = "done")
=============================================================================
