---------------------------- MODULE LabelsDeepCopy ----------------------------
(***************************************************************************)
(* Requirement.DeepCopy and DeepCopyInto of                               *)
(* pkg/k8s/slim/k8s/apis/labels/zz_generated.deepcopy.go over a small     *)
(* heap.  A Requirement is abstracted to its one reference field, the     *)
(* strValues slice: Nil or the heap cell of its backing array (length and *)
(* elements).  After the copy, the holders of the original and of the     *)
(* copy go on writing elements of their own slice.                        *)
(***************************************************************************)
EXTENDS Integers, Sequences

CONSTANTS
  Values,     \* strings a slice element can hold
  Cells,      \* heap cells for backing arrays
  Nil,        \* a nil pointer or a nil slice
  Origins,    \* the Requirements the copy may start from (Nil included)
  MaxWrites   \* bound on element writes after the copy

VARIABLES
  heap,       \* cell -> sequence of values, or Nil while unallocated
  in,         \* the receiver: Nil or [strValues |-> Nil or a cell]
  out,        \* DeepCopy's result, Nil before the copy and for a nil receiver
  copied,     \* whether DeepCopy has returned
  snap,       \* the receiver's elements when the copy returned
  writes      \* element writes so far, and through whom: a set of "in"/"out"

vars == <<heap, in, out, copied, snap, writes>>

\* The elements of a Requirement's slice, <<>> for a nil slice.
Elems(r) == IF r = Nil \/ r.strValues = Nil THEN <<>> ELSE heap[r.strValues]

Init ==
  /\ \E o \in Origins :
       /\ in = IF o = Nil THEN Nil ELSE [strValues |-> o.cell]
       /\ heap = [c \in Cells |-> IF o /= Nil /\ c = o.cell THEN o.elems ELSE Nil]
  /\ out = Nil
  /\ copied = FALSE
  /\ snap = <<>>
  /\ writes = <<>>

-----------------------------------------------------------------------------
\* A fresh cell: make([]string, n) allocates one the program does not hold.
Fresh == CHOOSE c \in Cells : heap[c] = Nil

\* Variant of DeepCopyInto without the nil check: a nil slice comes out
\* as an empty one.
DeepCopyIntoAlwaysMake(src) ==
  IF src.strValues = Nil
    THEN [r |-> [strValues |-> Fresh], heap |-> [heap EXCEPT ![Fresh] = <<>>]]
    ELSE [r |-> [strValues |-> Fresh],
          heap |-> [heap EXCEPT ![Fresh] = heap[src.strValues]]]

\* Variant of DeepCopyInto that keeps only `*out = *in`.
DeepCopyIntoShallow(src) == [r |-> src, heap |-> heap]

\* DeepCopyInto: `*out = *in`, then a non-nil strValues gets a new backing
\* array of the same length with the elements copied into it.
DeepCopyInto(src) ==
  IF src.strValues = Nil
    THEN [r |-> src, heap |-> heap]
    ELSE [r |-> [src EXCEPT !.strValues = Fresh],
          heap |-> [heap EXCEPT ![Fresh] = heap[src.strValues]]]

\* DeepCopy: nil for a nil receiver, else new(Requirement) filled by
\* DeepCopyInto.
DeepCopy ==
  /\ ~copied
  /\ IF in = Nil
       THEN UNCHANGED <<heap, out>>
       ELSE LET res == DeepCopyInto(in)
            IN  /\ out' = res.r
                /\ heap' = res.heap
  /\ copied' = TRUE
  /\ snap' = Elems(in)
  /\ UNCHANGED <<in, writes>>

\* The holder of the original ("in") or of the copy ("out") overwrites an
\* element of its slice.
Write(who) ==
  LET r == IF who = "in" THEN in ELSE out
  IN  /\ copied
      /\ Len(writes) < MaxWrites
      /\ r /= Nil
      /\ r.strValues /= Nil
      /\ \E k \in DOMAIN heap[r.strValues], v \in Values :
            heap' = [heap EXCEPT ![r.strValues][k] = v]
      /\ writes' = Append(writes, who)
      /\ UNCHANGED <<in, out, copied, snap>>

Next == DeepCopy \/ Write("in") \/ Write("out")

Spec == Init /\ [][Next]_vars

-----------------------------------------------------------------------------
(* Properties.                                                             *)

\* The copy shares no memory with the original: however often the holder
\* of the copy writes its elements, the original keeps the elements it had
\* when DeepCopy returned, unless its own holder wrote them.
OriginalUntouched ==
  (copied /\ \A k \in DOMAIN writes : writes[k] = "out")
    => Elems(in) = snap

\* DeepCopy is exact: a nil receiver gives nil, a nil slice stays nil and
\* a non-nil one (empty included) stays non-nil, as reflect.DeepEqual
\* tells them apart.
NilnessPreserved ==
  copied =>
    /\ (in = Nil) <=> (out = Nil)
    /\ in /= Nil => ((in.strValues = Nil) <=> (out.strValues = Nil))
=============================================================================
