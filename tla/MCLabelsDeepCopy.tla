--------------------------- MODULE MCLabelsDeepCopy ---------------------------
(***************************************************************************)
(* A nil Requirement, one with a nil slice, and ones whose slice is empty, *)
(* holds one or two values; two heap cells, one for the original's array  *)
(* and one for the copy's.                                                 *)
(***************************************************************************)
EXTENDS LabelsDeepCopy

MCOrigins ==
  {Nil, [cell |-> Nil, elems |-> <<>>]}
  \cup {[cell |-> "c1", elems |-> e] : e \in {<<>>, <<"a">>, <<"a", "b">>}}
=============================================================================
