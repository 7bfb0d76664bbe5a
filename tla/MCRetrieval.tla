---------------------------- MODULE MCRetrieval -----------------------------
(***************************************************************************)
(* A small instance of Retrieval: two ids, three payloads of which two are *)
(* equally far from one query and one has a NaN in its metadata, queries   *)
(* with NaN distances of either sign, and JSON predicates of every op.     *)
(***************************************************************************)
EXTENDS Retrieval

CONSTANTS v1, v2, v3, q1, q2

MCValues == {v1, v2, v3}
MCNaNs == {-9, 9}

MCSchema ==
    <<[name |-> "price", type |-> "F64"], [name |-> "live", type |-> "Bool"],
      [name |-> "title", type |-> "String"]>>

Row(price, live, title) ==
    [price |-> [type |-> "F64", v |-> price],
     live |-> [type |-> "Bool", v |-> live],
     title |-> [type |-> "String", v |-> title]]

MCMeta ==
    [v \in MCValues |-> CASE v = v1 -> Row(1, 0, 0)
                          [] v = v2 -> Row(9, 1, 1)
                          [] v = v3 -> Row(2, 1, 0)]

\* q1 ties v1 and v2; q2 is NaN from v1 (sign set) and from v3 (sign clear).
MCScore ==
    [q \in {q1, q2} |->
        [v \in MCValues |->
            CASE q = q1 -> (IF v = v3 THEN 1 ELSE 3)
              [] q = q2 -> (CASE v = v1 -> -9 [] v = v2 -> 0 [] v = v3 -> 9)]]

Real(n) == [kind |-> "real", v |-> n]
Boolean(n) == [kind |-> "bool", v |-> n]
Leaf(op, column, value) == [op |-> op, column |-> column, value |-> value]

MCNodes ==
    { <<Leaf("lt", "price", Real(2))>>, <<Leaf("eq", "live", Boolean(1))>>,
      <<Leaf("lte", "price", [kind |-> "integer", v |-> 1])>>,
      <<Leaf("gt", "live", Boolean(0))>>, <<Leaf("eq", "missing", Real(1))>>,
      <<Leaf("eq", "price", [kind |-> "null", v |-> 0])>>,
      <<Leaf("eq", "title", [kind |-> "string", v |-> 0])>>,
      <<[op |-> "in", column |-> "price", values |-> <<Real(2), Real(1)>>]>>,
      <<[op |-> "in", column |-> "missing", values |-> <<>>]>>,
      <<Leaf("gte", "price", Real(2)), [op |-> "not", child |-> 1]>>,
      <<Leaf("gt", "price", Real(1)), Leaf("ne", "live", Boolean(1)),
        [op |-> "or", children |-> {1, 2}]>>,
      <<[op |-> "and", children |-> {}]>>,
      <<[op |-> "near"]>> }

R(id, value) == [id |-> id, value |-> value]

MCBatches ==
    { <<R(1, v1)>>, <<R(1, v3)>>, <<R(2, v2), R(1, v1)>>,
      <<R(2, v2), R(2, v3)>>, <<R(2, v1), R(1, Malformed)>> }
=============================================================================
