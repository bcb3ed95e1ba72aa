----------------------------- MODULE MCPastLinks -----------------------------
(* Instances of PastLinks for TLC: dates that make up to two ranges,       *)
(* and a chunk size of two days or the default week.                       *)
EXTENDS PastLinks

FewDays == {0, 2, 3}

FewSizes == {0, 2}
=============================================================================
