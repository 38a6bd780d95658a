------------------------------ MODULE BTFResolve ------------------------------
(***************************************************************************)
(* One policy-load resolution of a BTF argument path, as the callers in    *)
(* pkg/btf/btf_test.go drive it:                                           *)
(*   1. locate the hook's parameter (findBTFFuncParamFromHookWithSpec) and *)
(*      strip one pointer level from its type, as every caller does;       *)
(*   2. build the path: either buildPathFromString (split on ".", one ""   *)
(*      padding segment per remaining pointer level, a depth check that    *)
(*      only reports) or the plain split of testPathIsAccessible, which    *)
(*      normalizes the root instead;                                       *)
(*   3. ResolveBTFPath: one step per path segment, each writing one slot   *)
(*      of the descriptor array, until the path is exhausted, a step      *)
(*      fails or the depth MaxBTFArgDepth is reached.                      *)
(* ResolveBTFPath itself is not under src/ and is modelled from spec 4.3.  *)
(***************************************************************************)
EXTENDS BTFTypes, BTFDescriptor

CONSTANT Requests   \* set of [hook, arg, segs, flow]; flow \in {"padded", "split"}

VARIABLES
  req,      \* the request: hook name, argument index, dotted path, caller
  phase,    \* "locate", "build", "resolve", "done"
  root,     \* the root type after the caller strips one pointer level
  path,     \* the path handed to ResolveBTFPath
  i,        \* ResolveBTFPath's step index, also the slot written next
  cur,      \* the current type of the walk
  out,      \* the caller's [MaxBTFArgDepth]ConfigBTFArg array
  err,      \* the error returned, NoErr while none
  final     \* the last resolved type returned on success

vars == <<req, phase, root, path, i, cur, out, err, final>>

MaxDepthExceeded == "MaxDepthExceeded"
UnexpectedType == "UnexpectedType"
AttributeNotFound == "AttributeNotFound"

NoErr == [kind |-> "", seg |-> "", type |-> NoType]
Error(kind, seg, ty) == [kind |-> kind, seg |-> seg, type |-> ty]

-----------------------------------------------------------------------------
(* Helpers of the callers in btf_test.go.                                  *)

\* `if ty, ok := t.(*btf.Pointer); ok { t = ty.Target }`
StripPointer(t) == IF KindOf(t) = "ptr" THEN Target(t) ELSE t

\* Variant that appends the padding after the path instead of before it.
RECURSIVE AddPaddingAppended(_, _)
AddPaddingAppended(t, p) ==
  IF KindOf(t) = "ptr" THEN AddPaddingAppended(Target(t), p \o <<"">>)
                       ELSE p

\* addPaddingOnNestedPtr: one "" in front per raw (unnormalized) pointer level.
RECURSIVE AddPaddingOnNestedPtr(_, _)
AddPaddingOnNestedPtr(t, p) ==
  IF KindOf(t) = "ptr" THEN AddPaddingOnNestedPtr(Target(t), <<"">> \o p)
                       ELSE p

-----------------------------------------------------------------------------
(* Member lookup of ResolveBTFPath (spec 4.3 step 2a): a direct member by  *)
(* name, else a member of an anonymous struct member, else a member of a   *)
(* union member; the first in member order at the first level that has    *)
(* one.  A nested member's offset is the enclosing member's offset plus   *)
(* its own.                                                                *)
NotFound == [found |-> FALSE, off |-> 0, type |-> NoType]

FindMember(t, s) ==
  LET ms == Members(t)
      Has(k) == \E j \in DOMAIN Members(ms[k].type) :
                   Members(ms[k].type)[j].name = s
      direct == {k \in DOMAIN ms : ms[k].name = s}
      anon   == {k \in DOMAIN ms : ms[k].name = "" /\
                                   KindOf(ms[k].type) = "struct" /\ Has(k)}
      unions == {k \in DOMAIN ms : KindOf(ms[k].type) = "union" /\ Has(k)}
      Inner(k) ==
        LET im == Members(ms[k].type)
            j  == Min({x \in DOMAIN im : im[x].name = s})
        IN  [found |-> TRUE, off |-> ms[k].off + im[j].off, type |-> im[j].type]
  IN  CASE direct /= {} ->
             LET k == Min(direct)
             IN  [found |-> TRUE, off |-> ms[k].off, type |-> ms[k].type]
        [] anon /= {}   -> Inner(Min(anon))
        [] unions /= {} -> Inner(Min(unions))
        [] OTHER        -> NotFound

-----------------------------------------------------------------------------
Init ==
  /\ req \in Requests
  /\ phase = "locate"
  /\ root = NoType
  /\ path = <<>>
  /\ i = 0
  /\ cur = NoType
  /\ out = EmptyArgs
  /\ err = NoErr
  /\ final = NoType

\* findBTFFuncParamFromHookWithSpec succeeds; the caller strips one pointer.
Locate ==
  LET r == FindBTFFuncParamFromHook(req.hook, req.arg)
  IN  /\ phase = "locate"
      /\ r.err = ""
      /\ root' = StripPointer(r.param)
      /\ phase' = "build"
      /\ UNCHANGED <<req, path, i, cur, out, err, final>>

\* findBTFFuncParamFromHookWithSpec fails: the caller stops.
LocateFails ==
  LET r == FindBTFFuncParamFromHook(req.hook, req.arg)
  IN  /\ phase = "locate"
      /\ r.err /= ""
      /\ err' = Error(r.err, "", NoType)
      /\ phase' = "done"
      /\ UNCHANGED <<req, root, path, i, cur, out, final>>

\* buildResolveBTFConfig: buildPathFromString then ResolveBTFPath(root).
\* The depth check of buildPathFromString is t.Errorf: it does not stop.
BuildPaddedPath ==
  /\ phase = "build"
  /\ req.flow = "padded"
  /\ path' = AddPaddingOnNestedPtr(root, req.segs)
  /\ cur' = root
  /\ phase' = "resolve"
  /\ UNCHANGED <<req, root, i, out, err, final>>

\* testPathIsAccessible: strings.Split, ResolveBTFPath(ResolveNestedTypes(root)).
BuildSplitPath ==
  /\ phase = "build"
  /\ req.flow = "split"
  /\ path' = req.segs
  /\ cur' = ResolveNestedTypes(root)
  /\ phase' = "resolve"
  /\ UNCHANGED <<req, root, i, out, err, final>>

-----------------------------------------------------------------------------
(* ResolveBTFPath, one action per outcome of a step.                      *)
Seg == path[i + 1]
Cur == ResolveNestedTypes(cur)

\* Variant whose depth guard lets a step write slot MaxBTFArgDepth.
SteppingPastDepth ==
  /\ phase = "resolve"
  /\ i < Len(path)
  /\ i <= MaxBTFArgDepth

Stepping ==
  /\ phase = "resolve"
  /\ i < Len(path)
  /\ i < MaxBTFArgDepth

PadStepNoInit ==
  /\ Stepping
  /\ Seg = ""
  /\ KindOf(Cur) = "ptr"
  /\ out' = [out EXCEPT ![i] = [Offset |-> 0, IsPointer |-> TRUE,
                                IsInitialized |-> FALSE]]
  /\ cur' = ResolveNestedTypes(Target(Cur))
  /\ i' = i + 1
  /\ UNCHANGED <<req, phase, root, path, err, final>>

\* Step 1: a padding segment dereferences the current pointer.
PadStep ==
  /\ Stepping
  /\ Seg = ""
  /\ KindOf(Cur) = "ptr"
  /\ out' = [out EXCEPT ![i] = [Offset |-> 0, IsPointer |-> TRUE,
                                IsInitialized |-> TRUE]]
  /\ cur' = ResolveNestedTypes(Target(Cur))
  /\ i' = i + 1
  /\ UNCHANGED <<req, phase, root, path, err, final>>

\* Step 2: a named segment selects a member; a pointer member is pre-chased
\* and a scalar at the last segment is flagged as read-through.
FieldStep ==
  LET m    == FindMember(Cur, Seg)
      mt   == ResolveNestedTypes(m.type)
      last == i + 1 = Len(path)
  IN  /\ Stepping
      /\ Seg /= ""
      /\ IsAggregate(Cur)
      /\ m.found
      /\ out' = [out EXCEPT ![i] =
                   [Offset |-> m.off,
                    IsPointer |-> KindOf(mt) = "ptr" \/ (last /\ KindOf(mt) = "int"),
                    IsInitialized |-> TRUE]]
      /\ cur' = IF KindOf(mt) = "ptr" THEN ResolveNestedTypes(Target(mt)) ELSE mt
      /\ i' = i + 1
      /\ UNCHANGED <<req, phase, root, path, err, final>>

\* A step applied to the wrong kind of type, or naming no member.
StepFails ==
  /\ Stepping
  /\ \/ /\ Seg = ""
        /\ KindOf(Cur) /= "ptr"
        /\ err' = Error(UnexpectedType, Seg, Cur)
     \/ /\ Seg /= ""
        /\ ~IsAggregate(Cur)
        /\ err' = Error(UnexpectedType, Seg, Cur)
     \/ /\ Seg /= ""
        /\ IsAggregate(Cur)
        /\ ~FindMember(Cur, Seg).found
        /\ err' = Error(AttributeNotFound, Seg, Cur)
  /\ phase' = "done"
  /\ UNCHANGED <<req, root, path, i, cur, out, final>>

\* Step 3: the array is full and the path is not exhausted.
DepthExceeded ==
  /\ phase = "resolve"
  /\ i < Len(path)
  /\ i = MaxBTFArgDepth
  /\ err' = Error(MaxDepthExceeded, "", NoType)
  /\ phase' = "done"
  /\ UNCHANGED <<req, root, path, i, cur, out, final>>

\* Step 4: the path is exhausted; the last resolved type is returned.
Finish ==
  /\ phase = "resolve"
  /\ i = Len(path)
  /\ final' = cur
  /\ phase' = "done"
  /\ UNCHANGED <<req, root, path, i, cur, out, err>>

Next ==
  \/ Locate \/ LocateFails
  \/ BuildPaddedPath \/ BuildSplitPath
  \/ PadStep \/ FieldStep \/ StepFails \/ DepthExceeded \/ Finish

Spec == Init /\ [][Next]_vars /\ WF_vars(Next)

-----------------------------------------------------------------------------
(* Properties.                                                             *)

TypeOK ==
  /\ req \in Requests
  /\ phase \in {"locate", "build", "resolve", "done"}
  /\ root \in Types \cup {NoType}
  /\ i \in 0 .. MaxBTFArgDepth
  /\ cur \in Types \cup {NoType}
  /\ out \in [Slots -> ConfigBTFArg]
  /\ final \in Types \cup {NoType}

\* What the reader of the array computes, once the resolution is over.
Outcome ==
  IF phase /= "done"
    THEN [status |-> "pending", seg |-> "", ops |-> <<>>, type |-> NoType]
  ELSE IF err = NoErr
    THEN [status |-> "ok", seg |-> "", ops |-> AddrOps(ReaderOps(out)),
          type |-> final]
  ELSE [status |-> err.kind, seg |-> err.seg, ops |-> <<>>, type |-> err.type]

\* Spec 8: a path that needs more than MaxBTFArgDepth steps fails with
\* MaxDepthExceeded "and performs no partial writes into the output array".
\* buildPathFromString only reports an over-deep path (t.Errorf), so the
\* path reaches ResolveBTFPath, which writes slot by slot (4.3 step 3).
NoPartialWriteOnDepth ==
  (phase = "done" /\ err.kind = MaxDepthExceeded) => out = EmptyArgs

Abstract == INSTANCE BTFPathSpec WITH res <- Outcome

\* The step-by-step resolution implements the atomic promise: every error
\* is the one the path calls for, naming the offending segment, and on
\* success the reader of the descriptor array reaches exactly the field's
\* address (offsets of anonymous and union members included, one
\* dereference per pointer hop and per leading pointer level).
ImplementsPathSpec == Abstract!Spec
=============================================================================
