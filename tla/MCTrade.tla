------------------------------- MODULE MCTrade -------------------------------
EXTENDS Trade

CONSTANTS p1, p2, p3, i1, i2

\* p1 and p2 have an item each, p2 has the gold and no second place, so that an item
\* for gold fits only one way round; p3 is there to be asked while the others trade.
Places == [p \in Players |-> IF p = p1 THEN 2 ELSE 1]
Belongings == [p \in Players |-> CASE p = p1 -> {i1} [] p = p2 -> {i2} [] OTHER -> {}]
Gold == [p \in Players |-> IF p = p2 THEN 2 ELSE 0]

=============================================================================
