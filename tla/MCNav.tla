------------------------------- MODULE MCNav -------------------------------
(* Instances of Nav.                                                         *)
EXTENDS Nav

CONSTANTS crate, guard, none

(* A ring of corridors through four chunks, with a border of three tiles     *)
(* between the upper two.  The crate stands on that border and cuts off its  *)
(* corner; the guard stands in the way from there down to the destination.   *)
Ring == {<<1, 1>>, <<2, 1>>, <<3, 1>>, <<0, 2>>, <<1, 2>>, <<2, 2>>}
        \cup {<<0, 3>>, <<1, 3>>, <<2, 3>>, <<2, 4>>, <<3, 4>>}
        \cup {<<4, 1>>, <<5, 1>>, <<5, 2>>} \cup {<<4, 4>>, <<5, 4>>, <<5, 3>>}
RingDests == {<<5, 4>>}
RingSources == {<<0, 3>>, <<1, 3>>}
RingCovers == [o \in Objects |-> IF o = crate THEN {<<1, 3>>} ELSE {<<2, 4>>}]

(* Three chunks in a row.  The first has a second island at the place that   *)
(* the destination has in the second chunk; the destination is nearer to the *)
(* third chunk than to the first.                                            *)
Row == {<<0, 1>>, <<0, 2>>, <<2, 2>>} \cup {<<0, 3>>, <<0, 4>>, <<1, 4>>, <<2, 4>>, <<2, 5>>} \cup {<<2, 6>>}
RowDests == {<<2, 5>>}
RowSources == {<<0, 1>>}
RowCovers == [o \in Objects |-> {<<2, 2>>}]

(* Three chunks in a row.  The border of the last two has a portal on each   *)
(* side of a wall; the crate on the upper one leaves the left corner of it   *)
(* to the way that comes from the first chunk, and the rest of the middle    *)
(* chunk, with the destination, to the way back from the third.              *)
Loop == {<<1, 0>>, <<1, 1>>, <<1, 2>>}
        \cup {<<1, 3>>, <<1, 4>>, <<1, 5>>, <<2, 5>>, <<3, 5>>, <<3, 4>>, <<4, 4>>, <<5, 4>>, <<5, 5>>}
        \cup {<<1, 6>>, <<2, 6>>, <<3, 6>>, <<1, 7>>, <<2, 7>>, <<3, 7>>, <<4, 7>>, <<5, 7>>, <<5, 6>>}
LoopDests == {<<3, 4>>}
LoopSources == {<<1, 1>>}
LoopCovers == [o \in Objects |-> {<<2, 5>>, <<3, 6>>}]
=============================================================================
