---------------------------- MODULE BTFDescriptor ----------------------------
(***************************************************************************)
(* Descriptor Encoding (api.ConfigBTFArg, spec 3 and 6): a fixed array of  *)
(* MaxBTFArgDepth slots, each {Offset: u32, IsPointer, IsInitialized}.     *)
(* The array type lives outside src/ and is modelled from the spec.        *)
(*                                                                         *)
(* ReaderOps is how the kernel-side consumer reads the array (spec 3):     *)
(* for each initialized slot in order, add Offset to the address, then     *)
(* dereference if IsPointer.  AddrOps puts such an operation sequence in   *)
(* a canonical form (zero additions dropped, consecutive additions         *)
(* summed) so that two encodings that compute the same address compare    *)
(* equal.                                                                  *)
(***************************************************************************)
EXTENDS Integers, Sequences, SequencesExt

CONSTANT MaxBTFArgDepth

ASSUME MaxBTFArgDepth \in Nat \ {0}

Slots == 0 .. MaxBTFArgDepth - 1

\* The zero value of ConfigBTFArg: what a fresh Go array holds.
EmptyArg == [Offset |-> 0, IsPointer |-> FALSE, IsInitialized |-> FALSE]

\* Offset is a u32; the byte offset of a member of a kernel struct never
\* comes near 2^32 (nor does TLC's integer range), so the uint32
\* conversion of the member offset is the identity here.
ConfigBTFArg == [Offset : Nat, IsPointer : BOOLEAN,
                 IsInitialized : BOOLEAN]

EmptyArgs == [k \in Slots |-> EmptyArg]

Add(n) == [op |-> "add", n |-> n]
Deref  == [op |-> "deref", n |-> 0]

ReaderOps(args) ==
  FoldLeft(LAMBDA acc, k :
             IF args[k].IsInitialized
               THEN acc \o <<Add(args[k].Offset)>>
                        \o (IF args[k].IsPointer THEN <<Deref>> ELSE <<>>)
               ELSE acc,
           <<>>, [j \in 1 .. MaxBTFArgDepth |-> j - 1])

AddrOps(ops) ==
  FoldLeft(LAMBDA acc, o :
             CASE o.op = "add" /\ o.n = 0 -> acc
               [] o.op = "add" /\ acc /= <<>> /\ Last(acc).op = "add" ->
                    [acc EXCEPT ![Len(acc)] = Add(@.n + o.n)]
               [] OTHER -> Append(acc, o),
           <<>>, ops)
=============================================================================
