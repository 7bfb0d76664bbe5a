----------------------------- MODULE Predicates -----------------------------
(***************************************************************************)
(* Metadata Schemas (table.rs), Predicate Trees (search.rs) and the JSON   *)
(* form the browser session reads them from (ferrite-wasm).                *)
(*                                                                         *)
(* A schema is a sequence of [name, type].  A value is [type, v], where v  *)
(* is its rank among the values of its type.  A tree is the sequence of    *)
(* its nodes in the order a walk leaves them: each child comes before its  *)
(* parent and the root comes last.  A node is a leaf [op, column, value],  *)
(* a set leaf [op, column, values], a combinator [op, children] or a       *)
(* negation [op, child], where children and child are positions in the     *)
(* tree.  The JSON form has the same shape with a scalar [kind, v] in      *)
(* place of each value, and may carry an unknown op.  Error texts are left *)
(* out: an operation accepts or refuses.                                   *)
(***************************************************************************)
EXTENDS Ranking

CONSTANTS
    BadNames,  \* column names that are blank or contain a NUL
    Refused    \* an Err

ColumnTypes == {"Bool", "I64", "F64", "String"}

OrderingOps == {"lt", "lte", "gt", "gte"}
LeafOps == {"eq", "ne"} \cup OrderingOps

-----------------------------------------------------------------------------
(* Schemas *)

\* No name is blank or contains a NUL.
NamesAreUsable(columns) ==
    \A i \in DOMAIN columns : columns[i].name \notin BadNames

\* MetadataSchema::new accepts the declaration.
SchemaAccepts(columns) ==
    /\ NamesAreUsable(columns)
    /\ \A i, j \in DOMAIN columns :
          columns[i].name = columns[j].name => i = j

\* MetadataSchema::column: the declaration of a name, if there is one.
Declared(schema, name) == \E i \in DOMAIN schema : schema[i].name = name

TypeOf(schema, name) ==
    schema[CHOOSE i \in DOMAIN schema : schema[i].name = name].type

\* The metadata half of validate_record: every column once, of its type.
MetadataFits(schema, metadata) ==
    /\ DOMAIN metadata = {schema[i].name : i \in DOMAIN schema}
    /\ \A i \in DOMAIN schema :
          metadata[schema[i].name].type = schema[i].type

-----------------------------------------------------------------------------
(* Comparing values *)

IsNaN(value) == value.type = "F64" /\ value.v \in NaNs

\* MetadataValue's derived ==: a NaN equals nothing.
Equal(a, b) == a.type = b.type /\ a.v = b.v /\ ~IsNaN(a)

\* compare_values returns an Ordering and not None.
Comparable(a, b) ==
    /\ a.type = b.type
    /\ a.type # "String"
    /\ ~IsNaN(a) /\ ~IsNaN(b)

-----------------------------------------------------------------------------
(* Validating a tree against a schema, and evaluating it on a row *)

\* validate_value: the literal has the declared type.
LiteralFits(schema, column, value) ==
    /\ Declared(schema, column)
    /\ value.type = TypeOf(schema, column)

LeafIsValid(schema, leaf) ==
    /\ LiteralFits(schema, leaf.column, leaf.value)
    /\ leaf.value.type # "String"
    /\ ~(leaf.op \in OrderingOps /\ leaf.value.type = "Bool")

NodeIsValid(schema, node) ==
    CASE node.op \in LeafOps -> LeafIsValid(schema, node)
      [] node.op = "in" ->
            /\ Declared(schema, node.column)
            /\ \A i \in DOMAIN node.values :
                  /\ LiteralFits(schema, node.column, node.values[i])
                  /\ node.values[i].type # "String"
      [] OTHER -> TRUE

\* Every node is visited, and the first Err is the answer.
Validate(schema, tree) ==
    \A i \in DOMAIN tree : NodeIsValid(schema, tree[i])

\* A bug a review must rule out: gte is computed as "not lt".
LeafHoldsTotal(op, actual, value) ==
    CASE op = "eq" -> Equal(actual, value)
      [] op = "ne" -> ~Equal(actual, value)
      [] op = "lt" -> Comparable(actual, value) /\ actual.v < value.v
      [] op = "lte" -> Comparable(actual, value) /\ actual.v <= value.v
      [] op = "gt" -> Comparable(actual, value) /\ actual.v > value.v
      [] op = "gte" -> ~(Comparable(actual, value) /\ actual.v < value.v)

LeafHolds(op, actual, value) ==
    CASE op = "eq" -> Equal(actual, value)
      [] op = "ne" -> ~Equal(actual, value)
      [] op = "lt" -> Comparable(actual, value) /\ actual.v < value.v
      [] op = "lte" -> Comparable(actual, value) /\ actual.v <= value.v
      [] op = "gt" -> Comparable(actual, value) /\ actual.v > value.v
      [] op = "gte" -> Comparable(actual, value) /\ actual.v >= value.v

\* One node, given which of the nodes before it hold.  A leaf on a column the
\* row does not have is false, whatever its op.
NodeHolds(node, holds, metadata) ==
    CASE node.op \in LeafOps ->
            /\ node.column \in DOMAIN metadata
            /\ LeafHolds(node.op, metadata[node.column], node.value)
      [] node.op = "in" ->
            /\ node.column \in DOMAIN metadata
            /\ \E i \in DOMAIN node.values :
                  Equal(metadata[node.column], node.values[i])
      [] node.op = "and" -> \A child \in node.children : holds[child]
      [] node.op = "or" -> \E child \in node.children : holds[child]
      [] node.op = "not" -> ~holds[node.child]

MatchesRow(tree, metadata) ==
    LET holds[i \in DOMAIN tree] == NodeHolds(tree[i], holds, metadata)
    IN  holds[Len(tree)]

-----------------------------------------------------------------------------
(* The JSON form *)

\* Which JSON scalars a column type takes.  An integral number is also an f64.
Takes(type, raw) ==
    \/ type = "Bool" /\ raw.kind = "bool"
    \/ type = "I64" /\ raw.kind = "integer"
    \/ type = "F64" /\ raw.kind \in {"integer", "real"}
    \/ type = "String" /\ raw.kind = "string"

\* typed_scalar
TypedScalar(schema, column, raw) ==
    IF Declared(schema, column) /\ Takes(TypeOf(schema, column), raw)
    THEN [type |-> TypeOf(schema, column), v |-> raw.v]
    ELSE Refused

\* collect() over a sequence of results: the first Err wins.
Collect(results) ==
    IF \E i \in DOMAIN results : results[i] = Refused THEN Refused ELSE results

ParsedLeaf(schema, node) ==
    LET value == TypedScalar(schema, node.column, node.value)
    IN  IF value = Refused THEN Refused
        ELSE [op |-> node.op, column |-> node.column, value |-> value]

\* The column of an empty `in` is not looked up.
ParsedSet(schema, node) ==
    LET values == Collect([i \in DOMAIN node.values |->
                              TypedScalar(schema, node.column, node.values[i])])
    IN  IF values = Refused THEN Refused
        ELSE [op |-> "in", column |-> node.column, values |-> values]

ParsedNode(schema, node) ==
    CASE node.op \in LeafOps -> ParsedLeaf(schema, node)
      [] node.op = "in" -> ParsedSet(schema, node)
      [] node.op \in {"and", "or", "not"} -> node
      [] OTHER -> Refused

ParsePredicate(schema, nodes) ==
    Collect([i \in DOMAIN nodes |-> ParsedNode(schema, nodes[i])])
=============================================================================
