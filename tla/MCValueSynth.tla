---------------------------- MODULE MCValueSynth ----------------------------
(***************************************************************************)
(* Schemas for the leaf synthesizers: every string format with key names   *)
(* of 2 and 12 characters (hash strings of 23 and 33 characters), length   *)
(* bounds below, between and above those lengths, an enum; integer bounds  *)
(* below zero, at zero and above, every kind of exclusive bound, and       *)
(* multipleOf 0, 2 and 3, at two documents and two path lengths.           *)
(***************************************************************************)
EXTENDS ValueSynth

Lengths == {None, 0, 5, 30, 40}

StringRequests(formats) ==
    [fmt : formats, enum : {None, 3}, minLength : Lengths,
     maxLength : Lengths, keyLen : {2, 12}]

\* The formats that reach _apply_length_constraints.
MCStrClamped == StringRequests({"none", "uuid", "uri", "byte", "email"})

ExclNone     == [k |-> "none"]
ExclBool(b)  == [k |-> "bool", b |-> b]
ExclNum(n)   == [k |-> "num", n |-> n]

IntegerRequests(bounds, excls) ==
    [minimum : {None} \cup bounds, maximum : {None} \cup bounds,
     exMin : excls, exMax : excls, multipleOf : {None, 0, 2, 3},
     doc : {1, 2}, pathLen : {1, 3}]

\* Exclusive bounds as spec 4.1 lists them: absent, true, numeric.
MCIntSpec == IntegerRequests({-3, 0, 5, 9},
                             {ExclNone, ExclBool(TRUE), ExclNum(2), ExclNum(6)})
\* OpenAPI 3.0's default exclusiveMinimum/exclusiveMaximum: false.
MCIntFalse == IntegerRequests({0, 5, 9}, {ExclNone, ExclBool(FALSE)})
\* Numbers in tenths: bounds -3, 0, 2.5, 2 and 5, whole exclusive bounds
\* 2 and 5, multipleOf 0.5 and 2, and documents whose fraction is 0.022,
\* 0.032, 0.991, 0.001, 0 and 0.01 (document 235 at path length 1).
MCNumNone == {}

MCNum ==
    [fmt : {"none", "double"}, minimum : {None, -30, 0, 25},
     maximum : {None, 20, 50},
     exMin : {ExclNone, ExclBool(TRUE), ExclNum(20)},
     exMax : {ExclNone, ExclBool(TRUE), ExclNum(50)},
     multipleOf : {None, 0, 5, 20}, doc : {1, 58, 235}, pathLen : {1, 3}]

\* Numeric exclusive bounds 2 and 2.1: each is moved 0.1 inwards, the two
\* cross, and the clamp keeps the moved minimum.
MCNumClose ==
    [fmt : {"none"}, minimum : {None}, maximum : {None},
     exMin : {ExclNum(20)}, exMax : {ExclNum(21)},
     multipleOf : {None}, doc : {1, 58}, pathLen : {1}]
=============================================================================
