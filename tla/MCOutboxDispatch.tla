-------------------------- MODULE MCOutboxDispatch --------------------------
(* Small instances of OutboxDispatch for TLC.                               *)
EXTENDS OutboxDispatchProperties, TLC

CONSTANTS d1, d2, d3

OneRow == {1}
TwoRows == {1, 2}
OneLoop == {d1}
TwoLoops == {d1, d2}
ThreeLoops == {d1, d2, d3}
\* The loops that start with the processes; d3 is d1's after a reconnection.
OneProcess == [d \in Dispatchers |-> "A"]
TwoProcesses == [d \in Dispatchers |-> IF d = d2 THEN "B" ELSE "A"]

\* Two backoffs and one takeover of a lock.
TakeOver == {0, 2, 61, 63, 130}
\* All the backoffs of a row, each at its earliest.
SevenBackoffs == {0, 2, 6, 14, 30, 62, 122, 190}

AnyFailure == {"publish", "circuit", "mark", "query", "crash", "reconnect"}
Recoverable == {"publish", "circuit", "mark", "crash"}
=============================================================================
