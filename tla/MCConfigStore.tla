--------------------------- MODULE MCConfigStore ---------------------------
(***************************************************************************)
(* Instances of ConfigStore for TLC: two stations, one or two entities,    *)
(* two contents.                                                           *)
(***************************************************************************)
EXTENDS ConfigStore

CONSTANTS s1, s2, e1, e2, k1, k2, v1, v2

\* Which stations, entities and kinds an instance has.
TwoStations == {s1, s2}
OneStation == {s1}
TwoEntities == {e1, e2}
OneEntity == {e1}
TwoKinds == {k1, k2}
OneKind == {k1}
TwoValues == {v1, v2}
OneValue == {v1}

SameKind == [e \in Entity |-> k1]
OwnKinds == [e \in Entity |-> IF e = e1 THEN k1 ELSE k2]

InOrder == [e \in Entity |-> IF e = e1 THEN 1 ELSE 2]

NoExempt == {}
SecondExempt == {e2}

\* The plant at the start: the first entity has a row, the second has none;
\* or both have.
FirstOnly == [e \in Entity |-> IF e = e1 THEN v1 ELSE NoValue]
Both == [e \in Entity |-> v1]

NoStation == {}
Second == {s2}

\* What operators ask for: anything, or one of two saves that write the same
\* two rows in opposite orders.
Anything == [Entity -> Content]
Crossing == {[e \in Entity |-> IF e = e1 THEN NoValue ELSE v2],
             [e \in Entity |-> IF e = e1 THEN v2 ELSE NoValue]}

ByFirst == [e \in Entity |-> s1]

NoFaults == {}
LossFaults == {"read", "link"}
ReattachFaults == {"detach"}
SurvivedFaults == FaultKind \ {"detach"}
=============================================================================
