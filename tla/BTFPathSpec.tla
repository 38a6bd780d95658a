----------------------------- MODULE BTFPathSpec -----------------------------
(***************************************************************************)
(* What a resolution promises, in one atomic step: for a request (hook,    *)
(* argument index, dotted path, caller) either an error naming the kind    *)
(* and the offending segment, or the address computation the kernel-side   *)
(* reader must perform to reach the field, as a canonical sequence of      *)
(* additions and dereferences (BTFDescriptor!AddrOps), together with the   *)
(* field's type.  No slots, flags or step index appear here: BTFResolve,   *)
(* which fills the descriptor array step by step, implements this module  *)
(* under the mapping res <- the reader's reading of the array.             *)
(***************************************************************************)
EXTENDS BTFTypes, BTFDescriptor

CONSTANT Requests

VARIABLES req, res

Pending == [status |-> "pending", seg |-> "", ops |-> <<>>, type |-> NoType]
Ok(ops, ty) == [status |-> "ok", seg |-> "", ops |-> ops, type |-> ty]
Fail(kind, seg, ty) == [status |-> kind, seg |-> seg, ops |-> <<>>, type |-> ty]

\* Prefix the address computation of a successful result.
Then(ops, r) == IF r.status = "ok" THEN [r EXCEPT !.ops = ops \o @] ELSE r

(***************************************************************************)
(* The fields reachable by name in an aggregate: its own members, the     *)
(* members of an anonymous struct member and the members of a union       *)
(* member, each at its offset from the start of the aggregate.  A lower  *)
(* level wins over a higher one.                                          *)
(***************************************************************************)
Fields(t) ==
  LET ms == Members(t)
      Nested(k, lvl) ==
        {[name |-> im.name, off |-> ms[k].off + im.off, type |-> im.type,
          level |-> lvl] : im \in {Members(ms[k].type)[j] :
                                     j \in DOMAIN Members(ms[k].type)}}
  IN  {[name |-> ms[k].name, off |-> ms[k].off, type |-> ms[k].type,
        level |-> 0] : k \in DOMAIN ms}
      \cup UNION {Nested(k, 1) : k \in {k \in DOMAIN ms :
                    ms[k].name = "" /\ KindOf(ms[k].type) = "struct"}}
      \cup UNION {Nested(k, 2) : k \in {k \in DOMAIN ms :
                    KindOf(ms[k].type) = "union"}}

Field(t, s) ==
  LET named == {f \in Fields(t) : f.name = s}
  IN  CHOOSE f \in named : \A g \in named : f.level <= g.level

\* The walk of the named segments from type t, used slots already taken.
RECURSIVE Walk(_, _, _)
Walk(t, segs, used) ==
  LET n == ResolveNestedTypes(t)
      s == Head(segs)
  IN  IF segs = <<>> THEN Ok(<<>>, n)
      ELSE IF used = MaxBTFArgDepth THEN Fail("MaxDepthExceeded", "", NoType)
      ELSE IF s = "" /\ KindOf(n) = "ptr"
        THEN Then(<<Deref>>, Walk(Target(n), Tail(segs), used + 1))
      ELSE IF s = "" \/ ~IsAggregate(n) THEN Fail("UnexpectedType", s, n)
      ELSE IF \A f \in Fields(n) : f.name /= s
        THEN Fail("AttributeNotFound", s, n)
      ELSE LET f  == Field(n, s)
               ft == ResolveNestedTypes(f.type)
               read == KindOf(ft) = "ptr" \/ (Len(segs) = 1 /\ KindOf(ft) = "int")
           IN  Then(<<Add(f.off)>> \o (IF read THEN <<Deref>> ELSE <<>>),
                    Walk(IF KindOf(ft) = "ptr" THEN Target(ft) ELSE ft,
                         Tail(segs), used + 1))

\* A root that is itself a pointer is dereferenced once per pointer level
\* (4.4), qualifiers and typedefs between the levels looked through.
RECURSIVE Lead(_, _, _)
Lead(t, segs, used) ==
  LET n == ResolveNestedTypes(t)
  IN  IF KindOf(n) /= "ptr" THEN Walk(t, segs, used)
      ELSE IF used = MaxBTFArgDepth THEN Fail("MaxDepthExceeded", "", NoType)
      ELSE Then(<<Deref>>, Lead(Target(n), segs, used + 1))

Promise(r) ==
  LET p    == FindBTFFuncParamFromHook(r.hook, r.arg)
      base == IF KindOf(p.param) = "ptr" THEN Target(p.param) ELSE p.param
      w    == IF r.flow = "padded" THEN Lead(base, r.segs, 0)
                                   ELSE Walk(ResolveNestedTypes(base), r.segs, 0)
  IN  IF p.err /= "" THEN Fail(p.err, "", NoType)
      ELSE [w EXCEPT !.ops = AddrOps(@)]

Init == req \in Requests /\ res = Pending

Resolve == res = Pending /\ res' = Promise(req) /\ UNCHANGED req

Spec == Init /\ [][Resolve]_<<req, res>>
=============================================================================
