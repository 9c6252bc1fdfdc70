--------------------------- MODULE MCSchemaBuilder ---------------------------
(***************************************************************************)
(* A components.schemas block that reaches every branch of _generate:      *)
(* self- and mutual $ref cycles, a $ref used by three siblings, nesting    *)
(* past max_depth, allOf/oneOf/anyOf, inferred object and array types,     *)
(* additionalProperties true and as a schema, a null subschema, and the    *)
(* schemas that make build() raise.                                        *)
(***************************************************************************)
EXTENDS SchemaBuilder

Obj(props) == TypedNode("object", TRUE, props, "absent", <<>>, FALSE, <<>>, 1)
Prim(t)    == TypedNode(t, FALSE, <<>>, "absent", <<>>, FALSE, <<>>, 1)
Arr(item, m) == TypedNode("array", FALSE, <<>>, "absent", <<>>, TRUE, <<item>>, m)

MCSchemas ==
    [ Section |-> Obj(<< <<"id", Prim("string")>>,
                         <<"courseReference", RefNode("Course")>>,
                         <<"classPeriods", Arr(RefNode("Period"), 3)>>,
                         <<"flag", Prim("boolean")>>,
                         <<"meta", AllOfNode(<<Obj(<< <<"a", Prim("integer")>> >>),
                                               Obj(<< <<"a", Prim("number")>>,
                                                      <<"b", Prim("boolean")>> >>)>>)>>,
                         <<"choice", OneOfNode(<<Prim("string"), Prim("integer")>>)>> >>),
      Course  |-> Obj(<< <<"sectionReference", RefNode("Section")>>,
                         <<"active", Prim("boolean")>>,
                         <<"code", AnyOfNode(<<RefNode("Tag")>>)>> >>),
      Period  |-> TypedNode("none", TRUE, << <<"n", Prim("integer")>>,
                                            <<"x", NullNode>> >>,
                            "schema", <<Prim("string")>>, FALSE, <<>>, 1),
      Tag     |-> TypedNode("none", FALSE, <<>>, "absent", <<>>, TRUE, <<>>, 0),
      Triple  |-> Obj(<< <<"p", RefNode("Leaf")>>, <<"q", RefNode("Leaf")>>,
                         <<"r", RefNode("Leaf")>> >>),
      Leaf    |-> TypedNode("object", FALSE, <<>>, "true", <<>>, FALSE, <<>>, 1),
      Loop    |-> Obj(<< <<"self", RefNode("Loop")>>, <<"flag", Prim("boolean")>>,
                         <<"again", RefNode("Loop")>> >>),
      Deep    |-> AllOfNode(<<OneOfNode(<<AllOfNode(<<AnyOfNode(<<AllOfNode(
                    <<AllOfNode(<<AllOfNode(<<Prim("string")>>)>>)>>)>>)>>)>>)>>),
      Bad     |-> Obj(<< <<"ok", Prim("integer")>>, <<"m", RefNode("Missing")>> >>),
      Odd     |-> Obj(<< <<"o", OneOfNode(<<>>)>> >>),
      Free    |-> AllOfNode(<<Obj(<<>>), Obj(<<>>)>>) ]

MCNames == DOMAIN MCSchemas \cup {"Missing"}
MCRoots == {"Section", "Triple", "Loop", "Deep", "Bad", "Odd", "Free", "Missing"}
=============================================================================
