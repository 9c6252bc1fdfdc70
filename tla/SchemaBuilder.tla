---------------------------- MODULE SchemaBuilder ----------------------------
(***************************************************************************)
(* OpenApiExampleBuilder.build and _generate                               *)
(* (perf-dms-document-alias-only/data/generate_document_alias_data.py).    *)
(*                                                                         *)
(* The recursion of _generate is an explicit call stack: one frame per     *)
(* active call.  A frame is entered (the guards of _generate, in the       *)
(* order the code tests them), then, for a composite node, calls its       *)
(* children one at a time, then assembles its value and returns it to the  *)
(* caller.  visit_counts is the single dict the code threads through every *)
(* call: it is incremented before a $ref is expanded and restored after    *)
(* it returns, and rng is the per-document random.Random stream (a count   *)
(* of the draws made so far).                                              *)
(***************************************************************************)
EXTENDS SchemaSemantics, FiniteSets

CONSTANT Roots     \* schema names build() is called with

VARIABLES
    root,          \* schema_name of this build() call
    status,        \* "idle", "running", "done" or "failed" (an exception)
    stack,         \* the active _generate calls, innermost last
    visit_counts,  \* ref name -> visits (0 stands for a popped key)
    rng,           \* number of draws made from context.rng
    result         \* the value build() returned

vars == <<root, status, stack, visit_counts, rng, result>>

Frame(node, path, depth) ==
    [node |-> node, path |-> path, depth |-> depth, pc |-> "enter",
     acc |-> <<>>, val |-> NullVal]

Top == stack[Len(stack)]
SetTop(f) == [stack EXCEPT ![Len(stack)] = f]
Yield(v) == stack' = SetTop([Top EXCEPT !.pc = "done", !.val = v])

\* Mutants: the count is never restored; the key is always popped.
RestoreVisitsNever(vc, n) == vc
RestoreVisitsPopAlways(vc, n) == [vc EXCEPT ![n] = 0]

\* Lines 118-121: pop the key when the count is back to one, else decrement.
RestoreVisits(vc, n) ==
    IF vc[n] <= 1 THEN [vc EXCEPT ![n] = 0] ELSE [vc EXCEPT ![n] = @ - 1]

\* Mutant: the budget test of line 106 written as visits > max_ref_visits.
RefBudgetLeftOffByOne(vc, n) == vc[n] <= MaxRefVisits

\* Line 106: visits >= self._max_ref_visits emits the placeholder.
RefBudgetLeft(vc, n) == vc[n] < MaxRefVisits

Init ==
    /\ root \in Roots
    /\ status = "idle"
    /\ stack = <<>>
    /\ visit_counts = [n \in Names |-> 0]
    /\ rng = 0
    /\ result = NullVal

\* build(): a fresh context and visit_counts, the root wrapped in a $ref.
Build ==
    /\ status = "idle"
    /\ root \in DOMAIN Schemas
    /\ status' = "running"
    /\ stack' = <<Frame(RefNode(root), <<root>>, 0)>>
    /\ visit_counts' = [n \in Names |-> 0]
    /\ rng' = 0
    /\ UNCHANGED <<root, result>>

BuildUnknownSchema ==
    /\ status = "idle"
    /\ root \notin DOMAIN Schemas
    /\ status' = "failed"
    /\ UNCHANGED <<root, stack, visit_counts, rng, result>>

Entering == status = "running" /\ Top.pc = "enter"

EnterDepthLimit ==
    /\ Entering /\ Top.depth > MaxDepth
    /\ Yield(DepthPlaceholder(Top.path))
    /\ UNCHANGED <<root, status, visit_counts, rng, result>>

EnterNull ==
    /\ Entering /\ Top.depth <= MaxDepth /\ Top.node.kind = "null"
    /\ Yield(NullVal)
    /\ UNCHANGED <<root, status, visit_counts, rng, result>>

EnterRefExhausted ==
    /\ Entering /\ Top.depth <= MaxDepth /\ Kind(Top.node) = "ref"
    /\ ~RefBudgetLeft(visit_counts, Top.node.name)
    /\ Yield(RefPlaceholder(Top.node.name, Top.path))
    /\ UNCHANGED <<root, status, visit_counts, rng, result>>

\* KeyError from _resolve_ref (after the count was raised) or IndexError
\* from oneOf[0]/anyOf[0]: the exception unwinds every call.
EnterRaise ==
    /\ Entering /\ Top.depth <= MaxDepth /\ Top.node.kind # "null"
    /\ Raises(Top.node, visit_counts)
    /\ status' = "failed"
    /\ stack' = <<>>
    /\ visit_counts' = IF Kind(Top.node) = "ref"
                       THEN [visit_counts EXCEPT ![Top.node.name] = @ + 1]
                       ELSE visit_counts
    /\ UNCHANGED <<root, rng, result>>

EnterComposite ==
    /\ Entering /\ Top.depth <= MaxDepth /\ Kind(Top.node) \in Composite
    /\ Kind(Top.node) = "ref" => RefBudgetLeft(visit_counts, Top.node.name)
    /\ ~Raises(Top.node, visit_counts)
    /\ stack' = SetTop([Top EXCEPT !.pc = "iter"])
    /\ visit_counts' = IF Kind(Top.node) = "ref"
                       THEN [visit_counts EXCEPT ![Top.node.name] = @ + 1]
                       ELSE visit_counts
    /\ UNCHANGED <<root, status, rng, result>>

EnterBoolean ==
    /\ Entering /\ Top.depth <= MaxDepth /\ Kind(Top.node) = "boolean"
    /\ Yield(BoolVal(rng))
    /\ rng' = rng + 1
    /\ UNCHANGED <<root, status, visit_counts, result>>

EnterLeaf ==
    /\ Entering /\ Top.depth <= MaxDepth /\ Top.node.kind # "null"
    /\ Kind(Top.node) \notin Composite \cup {"boolean"}
    /\ Yield(Leaf(Top.node, Top.path))
    /\ UNCHANGED <<root, status, visit_counts, rng, result>>

\* The next recursive call of a composite node, at depth + 1.
Descend ==
    LET calls == ChildCalls(Top.node, Top.path)
        c == calls[Len(Top.acc) + 1]
    IN  /\ status = "running" /\ Top.pc = "iter"
        /\ Len(Top.acc) < Len(calls)
        /\ stack' = Append(stack, Frame(c.node, c.path, Top.depth + 1))
        /\ UNCHANGED <<root, status, visit_counts, rng, result>>

\* All recursive calls returned: assemble the value; a $ref restores its count.
Finish ==
    /\ status = "running" /\ Top.pc = "iter"
    /\ Len(Top.acc) = Len(ChildCalls(Top.node, Top.path))
    /\ Yield(Assemble(Top.node, Top.path, Top.acc))
    /\ visit_counts' = IF Kind(Top.node) = "ref"
                       THEN RestoreVisits(visit_counts, Top.node.name)
                       ELSE visit_counts
    /\ UNCHANGED <<root, status, rng, result>>

Return ==
    /\ status = "running" /\ Top.pc = "done" /\ Len(stack) > 1
    /\ stack' = LET caller == stack[Len(stack) - 1]
                IN  Append(SubSeq(stack, 1, Len(stack) - 2),
                           [caller EXCEPT !.acc = Append(@, Top.val)])
    /\ UNCHANGED <<root, status, visit_counts, rng, result>>

Complete ==
    /\ status = "running" /\ Top.pc = "done" /\ Len(stack) = 1
    /\ status' = "done"
    /\ result' = Top.val
    /\ stack' = <<>>
    /\ UNCHANGED <<root, visit_counts, rng>>

Next ==
    \/ Build \/ BuildUnknownSchema
    \/ EnterDepthLimit \/ EnterNull \/ EnterRefExhausted \/ EnterRaise
    \/ EnterComposite \/ EnterBoolean \/ EnterLeaf
    \/ Descend \/ Finish \/ Return \/ Complete

\* build() runs in one thread and never blocks.
Spec == Init /\ [][Next]_vars /\ WF_vars(Next)

-----------------------------------------------------------------------------
TypeOK ==
    /\ root \in Names
    /\ status \in {"idle", "running", "done", "failed"}
    /\ visit_counts \in [Names -> 0..MaxRefVisits]
    /\ rng \in Nat
    /\ \A i \in DOMAIN stack :
          /\ stack[i].pc \in {"enter", "iter", "done"}
          /\ stack[i].depth = i - 1

\* The shared visit_counts dict always equals, for each name, the number of
\* $ref expansions of that name on the current call stack: siblings never
\* see a budget consumed by a subtree that has already returned.
VisitCountsMatchStack ==
    status = "running" =>
        \A n \in Names :
            visit_counts[n] =
                Cardinality({i \in DOMAIN stack :
                                /\ Kind(stack[i].node) = "ref"
                                /\ stack[i].node.name = n
                                /\ stack[i].pc = "iter"})

\* build() implements the copy-on-recurse semantics of the specification
\* and always returns: refinement of AbstractBuilder, with a running build
\* seen as not yet started.
Abstract == INSTANCE AbstractBuilder
    WITH status <- IF status = "running" THEN "idle" ELSE status
BuilderRefinesAbstract == Abstract!Spec

\* allOf "merges results if objects" (spec 4.2): an allOf whose branches
\* all produced dicts returns a dict.
AllOfOfObjectsIsObject ==
    \A i \in DOMAIN stack :
        ( /\ stack[i].pc = "done" /\ Kind(stack[i].node) = "allOf"
          /\ stack[i].acc # <<>>
          /\ \A j \in DOMAIN stack[i].acc : stack[i].acc[j].t = "obj" )
        => stack[i].val.t = "obj"
=============================================================================
