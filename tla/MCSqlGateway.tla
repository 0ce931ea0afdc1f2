---------------------------- MODULE MCSqlGateway ----------------------------
(* SqlGateway with two connections over a table of three keys.  A scenario  *)
(* fixes what the clients send; failures, the cleaner and the layouts that  *)
(* follow each other are chosen so that each question has a small instance. *)
EXTENDS SqlGateway

CONSTANTS a, b

Tablet(id, epoch, start, end) == [tablet |-> id, epoch |-> epoch, start |-> start, end |-> end]
Ranges(seq) == [hash |-> FALSE, tablets |-> seq]
Buckets(epoch) ==
    [hash |-> TRUE, tablets |-> <<Tablet(1, epoch, 0, Beyond), Tablet(2, epoch, 0, Beyond)>>]

Whole == Ranges(<<Tablet(1, 1, 0, Beyond)>>)
Halves == Ranges(<<Tablet(1, 1, 0, 2), Tablet(2, 1, 2, Beyond)>>)
\* The whole table split before key 2, or before key 3, and the halves split again.
SplitLow == Ranges(<<Tablet(1, 2, 0, 2), Tablet(2, 1, 2, Beyond)>>)
SplitHigh == Ranges(<<Tablet(1, 2, 0, 3), Tablet(2, 1, 3, Beyond)>>)
Thirds == Ranges(<<Tablet(1, 1, 0, 2), Tablet(2, 2, 2, 3), Tablet(3, 1, 3, Beyond)>>)
\* The second half was merged into the first one.
Merged == Ranges(<<Tablet(1, 2, 0, Beyond)>>)

Do(op) == [op |-> op, keys |-> {}]
At(op, keys) == [op |-> op, keys |-> keys]

Scenario(first, second, layouts, rows, failures, cleaner, capacity) ==
    [script |-> (a :> first @@ b :> second), layouts |-> layouts, rows |-> rows,
     failures |-> failures, cleaner |-> cleaner, capacity |-> capacity]

\* A writer over two tablets beside a reader: materialised, streamed, repeated in
\* one transaction, and with writes of its own.
Writer == <<Do("begin"), At("update", {1}), At("insert", {3}), Do("commit")>>
Deleter == <<Do("begin"), At("delete", {1}), At("update", {2}), Do("commit")>>
Readers == {<<Do("scan")>>, <<Do("stream")>>, <<Do("begin"), Do("scan"), Do("stream"), Do("rollback")>>,
            <<Do("begin"), At("insert", {3}), Do("stream"), Do("commit")>>}
Pairs == {<<Writer, Halves>>, <<Deleter, Halves>>, <<Deleter, Buckets(1)>>}
Reads == {Scenario(p[1], r, <<p[2]>>, {1, 2}, FALSE, c, 2) : p \in Pairs, r \in Readers, c \in BOOLEAN}
\* The layout changes under a reader, alone or beside a writer over two tablets.
Moves == {Scenario(<<>>, <<Do(op)>>, ls, {1, 2, 3}, FALSE, FALSE, 2) :
            op \in {"scan", "stream"}, ls \in {<<Whole, SplitLow>>, <<Whole, SplitHigh>>, <<Halves, Merged>>,
                                            <<Whole, SplitHigh, Merged>>, <<Buckets(1), Buckets(2)>>}}
MovesAndWrites == {Scenario(Writer, <<Do(op)>>, <<Halves, Thirds>>, {1, 2}, FALSE, FALSE, 2) :
                     op \in {"scan", "stream"}}
\* Two commits, requests that fail at any step, a cleaner.
Late == <<At("update", {2})>>
Commits == {Scenario(Writer, w, <<Halves>>, {1, 2}, TRUE, n = 1, n) : w \in {Late, Writer}, n \in 1..2}
\* Statements out of place, and an insert of a row that is there.
Odd == {Scenario(<<Do("commit"), Do("begin"), Do("begin"), At("insert", {1}), At("update", {3}), Do("commit")>>,
                 <<At("insert", {1, 3})>>, <<Halves>>, {1}, FALSE, FALSE, 1)}
\* A reader that scans twice in one transaction beside a one-tablet commit.
OnePhase == {Scenario(<<At("update", {1})>>, <<Do("begin"), Do("scan"), Do("scan"), Do("commit")>>,
                      <<Halves>>, {1}, FALSE, FALSE, 1)}

AllScenarios == Reads \cup Moves \cup MovesAndWrites \cup Commits \cup Odd
=============================================================================
