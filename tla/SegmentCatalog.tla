--------------------------- MODULE SegmentCatalog ---------------------------
(***************************************************************************)
(* What Segment storage promises (ADR 0003): a Segment is absent or whole. *)
(* It appears at once, is never changed afterwards, and a crash may lose a *)
(* recently published Segment but can never leave part of one.             *)
(***************************************************************************)
CONSTANTS Ids, Segment, NoSegment

VARIABLE catalog   \* [Ids -> Segment \cup {NoSegment}]

Init == catalog = [id \in Ids |-> NoSegment]

Publish(id) ==
    /\ catalog[id] = NoSegment
    /\ \E segment \in Segment : catalog' = [catalog EXCEPT ![id] = segment]

Lose ==
    \E lost \in SUBSET Ids :
        catalog' = [id \in Ids |-> IF id \in lost THEN NoSegment ELSE catalog[id]]

Next == (\E id \in Ids : Publish(id)) \/ Lose

Spec == Init /\ [][Next]_catalog
=============================================================================
