--------------------------- MODULE SchemaSemantics ---------------------------
(***************************************************************************)
(* Schema nodes, generated values and the pure meaning of                  *)
(* OpenApiExampleBuilder._generate (perf-dms-document-alias-only/data/     *)
(* generate_document_alias_data.py).                                       *)
(*                                                                         *)
(* A schema node is the dict the code inspects, reduced to the keys it     *)
(* looks at: "$ref", "allOf", "oneOf", "anyOf", and for every other node   *)
(* "type", the presence of "properties", "additionalProperties" and        *)
(* "items", and "minItems".  Leaf values (strings, numbers) are abstracted *)
(* to the path and call site that determine them: the hashing and          *)
(* formatting of _hash_string/_sample_* is a pure function of exactly      *)
(* these, for a fixed (doc_index, base_seed).  A boolean is the k-th draw  *)
(* of the per-document random stream context.rng.                          *)
(***************************************************************************)
EXTENDS Integers, Sequences, SequencesExt, TLC

CONSTANTS
    Schemas,       \* components.schemas: schema name -> schema node
    Names,         \* every name a $ref or build() may use (visit_counts keys)
    MaxDepth,      \* self._max_depth
    MaxRefVisits   \* self._max_ref_visits

ASSUME MaxDepth \in Nat /\ MaxRefVisits \in Nat /\ DOMAIN Schemas \subseteq Names

(* ---- schema nodes ---- *)
RefNode(n)   == [kind |-> "ref", name |-> n]
AllOfNode(s) == [kind |-> "allOf", items |-> s]
OneOfNode(s) == [kind |-> "oneOf", items |-> s]
AnyOfNode(s) == [kind |-> "anyOf", items |-> s]
NullNode     == [kind |-> "null"]
\* addl is "absent", "false", "true" or "schema" (then addlSchema = <<node>>);
\* items = <<>> stands for a missing or empty "items" (the code uses {}).
TypedNode(type, hasProps, props, addl, addlSchema, hasItems, items, minItems) ==
    [kind |-> "typed", type |-> type, hasProps |-> hasProps, props |-> props,
     addl |-> addl, addlSchema |-> addlSchema, hasItems |-> hasItems,
     items |-> items, minItems |-> minItems]
EmptyNode == TypedNode("none", FALSE, <<>>, "absent", <<>>, FALSE, <<>>, 1)

(* ---- generated values ---- *)
NullVal         == [t |-> "null"]
StrVal(p, tag)  == [t |-> "str", path |-> p, tag |-> tag]
LeafVal(ty, p)  == [t |-> ty, path |-> p]
BoolVal(k)      == [t |-> "bool", draw |-> k]
ObjVal(f)       == [t |-> "obj", fields |-> f]
ArrVal(s)       == [t |-> "arr", elems |-> s]

\* Type inference when "type" is absent.
Kind(node) ==
    IF node.kind # "typed" THEN node.kind
    ELSE IF node.type # "none" THEN node.type
    ELSE IF node.hasProps \/ node.addl # "absent" THEN "object"
    ELSE IF node.hasItems THEN "array"
    ELSE "none"

Composite == {"ref", "allOf", "oneOf", "anyOf", "object", "array"}

DepthPlaceholder(path) == StrVal(path, "depth_limit")
RefPlaceholder(name, path) == StrVal(path \o <<name, "ref">>, "ref")

\* count = max(1, min(2, int(schema.get("minItems", 1) or 1)))
ItemCount(node) ==
    LET m == IF node.minItems = 0 THEN 1 ELSE node.minItems
    IN  IF m > 2 THEN 2 ELSE IF m < 1 THEN 1 ELSE m

ItemSchema(node) == IF node.items = <<>> THEN EmptyNode ELSE node.items[1]

Call(node, path, key) == [node |-> node, path |-> path, key |-> key]

\* The recursive calls a composite node makes, in the order the code makes them.
ChildCalls(node, path) ==
    CASE Kind(node) = "ref" ->
            <<Call(Schemas[node.name], path \o <<node.name>>, "")>>
      [] Kind(node) = "allOf" ->
            [i \in DOMAIN node.items |-> Call(node.items[i], path, "")]
      [] Kind(node) \in {"oneOf", "anyOf"} ->
            <<Call(node.items[1], path, "")>>
      [] Kind(node) = "object" ->
            [i \in DOMAIN node.props |->
                Call(node.props[i][2], path \o <<node.props[i][1]>>, node.props[i][1])]
            \o (IF node.addl = "schema"
                THEN <<Call(node.addlSchema[1], path \o <<"additionalPropertyExample">>,
                            "additionalPropertyExample")>>
                ELSE <<>>)
      [] Kind(node) = "array" ->
            [i \in 1..ItemCount(node) |->
                Call(ItemSchema(node), path \o <<<<"item0", "item1">>[i]>>, "")]

\* allOf: later dict branches overwrite earlier keys; a non-dict is the fallback.
AllOfStep(st, v) ==
    IF v.t = "obj" THEN [st EXCEPT !.agg = v.fields @@ @]
                   ELSE [st EXCEPT !.fallback = v]

AllOfResult(vals) ==
    LET st == FoldLeft(AllOfStep, [agg |-> <<>>, fallback |-> NullVal], vals)
    IN  IF DOMAIN st.agg # {} THEN ObjVal(st.agg) ELSE st.fallback

ObjectResult(node, path, calls, vals) ==
    LET declared == FoldLeft(LAMBDA f, i : (calls[i].key :> vals[i]) @@ f,
                             <<>>, [i \in DOMAIN calls |-> i])
    IN  ObjVal(IF node.addl = "true"
               THEN ("additionalPropertyExample" :> StrVal(path, "extra")) @@ declared
               ELSE declared)

\* The value a composite node returns once its recursive calls returned vals.
Assemble(node, path, vals) ==
    CASE Kind(node) \in {"ref", "oneOf", "anyOf"} -> vals[1]
      [] Kind(node) = "allOf"  -> AllOfResult(vals)
      [] Kind(node) = "object" -> ObjectResult(node, path, ChildCalls(node, path), vals)
      [] Kind(node) = "array"  -> ArrVal(vals)

\* Leaves other than boolean: _sample_string/_sample_integer/_sample_number,
\* or the "value" placeholder for an untyped or unknown node.
Leaf(node, path) ==
    IF Kind(node) \in {"string", "integer", "number"}
    THEN LeafVal(Kind(node), path) ELSE StrVal(path, "value")

\* An error the code raises (KeyError for a missing $ref target, IndexError
\* for an empty oneOf/anyOf) before the node produces a value.
Raises(node, visits) ==
    \/ Kind(node) = "ref" /\ visits[node.name] < MaxRefVisits
                          /\ node.name \notin DOMAIN Schemas
    \/ Kind(node) \in {"oneOf", "anyOf"} /\ node.items = <<>>

(***************************************************************************)
(* The builder as the specification describes it: the ref-visit budget is  *)
(* passed by value, so each subtree sees the budget of its call stack.     *)
(***************************************************************************)
Outcome(v, k) == [ok |-> TRUE, val |-> v, k |-> k]
Failure == [ok |-> FALSE, val |-> NullVal, k |-> 0]

RECURSIVE Gen(_, _, _, _, _), GenCalls(_, _, _, _, _)
Gen(node, path, depth, visits, k) ==
    IF depth > MaxDepth THEN Outcome(DepthPlaceholder(path), k)
    ELSE IF node.kind = "null" THEN Outcome(NullVal, k)
    ELSE IF Kind(node) = "ref" /\ visits[node.name] >= MaxRefVisits
         THEN Outcome(RefPlaceholder(node.name, path), k)
    ELSE IF Raises(node, visits) THEN Failure
    ELSE IF Kind(node) \in Composite
         THEN LET inner == IF Kind(node) = "ref"
                           THEN [visits EXCEPT ![node.name] = @ + 1] ELSE visits
                  r == GenCalls(ChildCalls(node, path), depth + 1, inner, k, <<>>)
              IN  IF r.ok THEN Outcome(Assemble(node, path, r.val), r.k) ELSE r
    ELSE IF Kind(node) = "boolean" THEN Outcome(BoolVal(k), k + 1)
    ELSE Outcome(Leaf(node, path), k)

GenCalls(calls, depth, visits, k, vals) ==
    IF Len(vals) = Len(calls) THEN Outcome(vals, k)
    ELSE LET c == calls[Len(vals) + 1]
             r == Gen(c.node, c.path, depth, visits, k)
         IN  IF r.ok THEN GenCalls(calls, depth, visits, r.k, Append(vals, r.val))
             ELSE r

\* build(schema_name): the root is wrapped in a $ref with path (schema_name,).
BuildOutcome(root) ==
    Gen(RefNode(root), <<root>>, 0, [n \in Names |-> 0], 0)
=============================================================================
