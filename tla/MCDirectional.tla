--------------------------- MODULE MCDirectional ---------------------------
(* The directional engine for the model checker: one symbol, either product,
   three orders on linear (an entry, a leg or a close, another entry) and four
   on spot (where the stop and its replacement are orders too); six for a second
   spot entry that is protected again. *)
EXTENDS DirectionalEngine

BothKinds == {"linear", "spot"}
LinearOnly == {"linear"}
SpotOnly == {"spot"}
FewOrders == [linear |-> 3, spot |-> 4]
FourOrders == [linear |-> 4]
FourSpotOrders == [spot |-> 4]
SixSpotOrders == [spot |-> 6]
AllFaults == {"crash", "lost", "unread", "odd"}
UnreadOnly == {"unread"}
NoFaults == {}
=============================================================================
