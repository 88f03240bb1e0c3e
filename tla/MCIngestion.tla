---------------------------- MODULE MCIngestion ----------------------------
(* Small instances of ingestion for TLC. *)
EXTENDS IngestionProperties, TLC

CONSTANTS lot, gate, client1, client2

\* The lot shrinks; the second file adds the gate.
MCConfig == << lot :> [total |-> 2],
               lot :> [total |-> 1] @@ gate :> [total |-> NULL] >>

Obs(g, l, e, amount, at, label, method) ==
    [amount |-> amount, gate_id |-> g, parking_lot_id |-> l, event_type |-> e,
     timestamp |-> at, source_label |-> label, collection_method |-> method]

Lot(amount, at) == Obs(NULL, lot, NULL, amount, at, "REAL", "manual_count")
Gate(amount, at) == Obs(gate, NULL, NULL, amount, at, "REAL", "cv_auto")
Event(amount, at) == Obs(NULL, NULL, "exam", amount, at, "REAL", "manual_count")
TooLong == [Event(1, 1) EXCEPT !.event_type = "a text of more than 64 characters"]
BlankLot(o) == [o EXCEPT !.parking_lot_id = Blank]

One(o) == [via |-> "one", rows |-> <<o>>]
Csv(rows) == [via |-> "csv", rows |-> rows]
CvBatch(rows) == [via |-> "cv_batch", rows |-> rows]

MCTooLarge == {TooLong}

\* Two clients with keys of their own: one uploads, one calls row by row.
MCRequests ==
    client1 :> {Csv(<<Lot(2, 1), Lot(1, 1)>>), Csv(<<Event(3, 1), Event(2, 1)>>),
                Csv(<<Lot(3, 2), Malformed>>), CvBatch(<<BlankLot(Gate(1, 1))>>),
                CvBatch(<<Event(2, 2), TooLong, Event(3, 1)>>)}
    @@ client2 :> {One(Gate(1, 2)), One(Obs(gate, lot, NULL, 1, 2, "REAL", "cv_auto"))}
MCRows == client1 :> 3 @@ client2 :> 2

\* Two clients who both send the same count.
MCSharedKey == client1 :> {One(Lot(1, 1))} @@ client2 :> {One(Lot(2, 1))}

MCSharedRows == client1 :> 1 @@ client2 :> 1
============================================================================
