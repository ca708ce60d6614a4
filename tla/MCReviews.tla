------------------------------ MODULE MCReviews ------------------------------
(* Small instances of Reviews for TLC. *)
EXTENDS Reviews, TLC
CONSTANTS p1, p2
Boards == {p1, p2}
Symmetry == Permutations(Boards)
One == {{p1}, {p2}}
SomeAnchors == {Anchor(2026, 26, -13), Anchor(2027, 1, 2), Anchor(2027, 1, -13)}
Mine == [mine |-> TRUE, created |-> -20]
SomeTickets == {Mine, [mine |-> FALSE, created |-> -20], [mine |-> FALSE, created |-> 0]}

\* Days and zones: one board, the three ways to defer. Day 0 is a Saturday.
Days == [zone : {-1, 0, 1}, weekday : {6}, dates : {{2}}, anchors : {{Anchor(2027, 1, -13)}},
         tickets : {{Mine}}, pages : One, faults : {{}}, time : {6}, edits : {2}, messages : {1}]
\* Anchors: they are entered, replaced and deleted.
Calendar == [zone : {0}, weekday : {6}, dates : {{}}, anchors : {SomeAnchors},
             tickets : {SomeTickets}, pages : One, faults : {{}}, time : {2}, edits : {3}, messages : {0}]
\* Replies: two boards at once, a review that stays far away.
Chat == [zone : {0}, weekday : {0}, dates : {{9}}, anchors : {{}},
         tickets : {{Mine}}, pages : {Boards}, faults : {{}}, time : {6}, edits : {1}, messages : {1}]
\* Several replies and failures, one board.
LongChat == [zone : {0}, weekday : {0}, dates : {{9}}, anchors : {{}},
             tickets : {{Mine}}, pages : One, faults : {{"api", "db"}}, time : {6}, edits : {1}, messages : {2}]
SomePlaces == Days \cup Calendar \cup Chat \cup LongChat
=============================================================================
