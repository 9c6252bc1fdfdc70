--------------------------- MODULE MCEdgeGenerator ---------------------------
(***************************************************************************)
(* Arguments of generate_deterministic_data.py for model checking:         *)
(* --documents up to 21 (documents 1 and 21 are 10x hubs, 6, 11 and 16 are *)
(* 3x), targets below, inside and above the sum of the ceilinged budgets,  *)
(* and the degenerate inputs of lines 179-185 (a negative target, zero     *)
(* documents, zero weight), with 3 or 16 partitions.                       *)
(***************************************************************************)
EXTENDS EdgeGenerator

MCDocCounts == {0, 1, 2, 3, 6, 21}
MCRefCounts == {-1, 0, 3, 10, 30}
MCAvgRefs   == {0, 1, 3}

\* Last uuid bytes: a document's partition and its alias's partition differ
\* for most documents and agree for some (documents 1, 5, 9 and others).
MCPartitionCounts == {3, 16}
MCDocUuidByte   == [index \in 1..21 |-> (index * 37 + 11) % 256]
MCAliasUuidByte == [row \in 0..20 |-> (row * 113 + 48) % 256]
=============================================================================
