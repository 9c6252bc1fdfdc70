--------------------------- MODULE MCAliasOnlyMain ---------------------------
(***************************************************************************)
(* A components.schemas block with a section schema that builds, an        *)
(* assessment schema whose $ref is unresolved, and resource cycles that    *)
(* use the SCHEMA_BY_RESOURCE names, an explicit resource:schema entry,    *)
(* an explicit schema that does not exist and a resource without a        *)
(* schema.                                                                 *)
(***************************************************************************)
EXTENDS AliasOnlyMain

Obj(props) == TypedNode("object", TRUE, props, "absent", <<>>, FALSE, <<>>, 1)

MCSchemas ==
    [ edFi_section    |-> Obj(<< <<"sectionIdentifier", TypedNode("string",
                               FALSE, <<>>, "absent", <<>>, FALSE, <<>>, 1)>> >>),
      edFi_assessment |-> Obj(<< <<"assessmentFamily", RefNode("edFi_family")>> >>) ]

MCNames == DOMAIN MCSchemas \cup {"edFi_family", "edFi_studentAcademicRecord",
                                  "edFi_course"}

Entry(n, s) == [name |-> n, schema |-> s]

MCRawCycles ==
    { << Entry("sections", None) >>,
      << Entry("sections", None), Entry("assessments", None) >>,
      << Entry("sections", None), Entry("courses", "edFi_course") >>,
      << Entry("mySections", "edFi_section"), Entry("sections", None) >>,
      << Entry("sections", None), Entry("courses", None) >>,
      << >> }

MCAliasArgs == {None, 2, 3}

\* Two uuid7 endings, and stand-ins for the last bytes of the md5 digests
\* of alias:1, alias:2, ... (any fixed bytes will do).
MCUuidBytes == {5, 250}

MCOpenApiFiles == {"ok", "missing", "not_json", "no_components", "no_schemas"}
MCAliasDigestByte == [i \in 1..8 |-> (i * 113) % 256]
=============================================================================
