----------------------------- MODULE BTFReference -----------------------------
(***************************************************************************)
(* The resolver written out by hand in pkg/btf/btf_test.go                 *)
(* (manuallyResolveBTFPath and its helpers), the expected value of         *)
(* testAssertEqualPath: assert.Equal(buildExpectedBTFConfig(...),          *)
(* buildResolveBTFConfig(...)).  It ends "ok" with its btfArgs, "fatal"  *)
(* when a helper's error reaches fatalOnError (t.Fatal) or "panic" when a *)
(* slot index leaves the Go array.                                         *)
(***************************************************************************)
EXTENDS BTFResolve

Panic == [status |-> "panic", args |-> EmptyArgs]

\* The element of a set of one.
Only(S) == CHOOSE x \in S : TRUE

\* getBTFStruct: a type assertion on the raw type, no normalization.
GetBTFStruct(t) == KindOf(t) = "struct"

\* The first member of list im named s, as a set of at most one member.
FirstNamed(im, s) ==
  LET hit == {j \in DOMAIN im : im[j].name = s}
  IN  IF hit = {} THEN {} ELSE {im[Min(hit)]}

\* findMemberInBTFStruct, one member m: m itself if its name matches, else
\* a match among the members of m when m is an anonymous struct, or a
\* union (named or not).  A nested match is the inner btf.Member: its
\* offset is relative to the inner aggregate.
MemberMatch(m, s) ==
  IF m.name = s THEN {m}
  ELSE IF \/ KindOf(m.type) = "struct" /\ m.name = ""
          \/ KindOf(m.type) = "union"
    THEN FirstNamed(Members(m.type), s)
  ELSE {}

\* findMemberInBTFStruct: the members in order, the first that matches.
FirstMatch(ms, s) ==
  LET ks == {k \in DOMAIN ms : MemberMatch(ms[k], s) /= {}}
  IN  IF ks = {} THEN {} ELSE MemberMatch(ms[Min(ks)], s)

FindMemberInBTFStruct(st, s) == FirstMatch(Members(st), s)

PtrArg(off) == [Offset |-> off, IsPointer |-> TRUE, IsInitialized |-> TRUE]

NoMember == [ok |-> FALSE]

\* The config of member m whose type normalizes to ty, and the struct it
\* leads to through one pointer, whose target must itself be a raw struct.
StructConfig(m, ty) ==
  LET next == IF KindOf(ty) = "ptr" THEN Target(ty) ELSE ty
  IN  IF ~GetBTFStruct(next) THEN NoMember
      ELSE [ok |-> TRUE, next |-> next,
            cfg |-> [Offset |-> m.off, IsPointer |-> KindOf(ty) = "ptr",
                     IsInitialized |-> TRUE]]

\* The config of the last member m, whose type normalizes to ty: a pointer
\* or an int is flagged.
TypeConfig(m, ty) ==
  [ok |-> TRUE,
   cfg |-> [Offset |-> m.off, IsPointer |-> KindOf(ty) \in {"ptr", "int"},
            IsInitialized |-> TRUE]]

\* getConfigAndNextStruct over the member found (a set of at most one).
StructOf(found) ==
  IF found = {} THEN NoMember
  ELSE StructConfig(Only(found), ResolveNestedTypes(Only(found).type))

\* getConfigAndNextType over the member found.
TypeOf(found) ==
  IF found = {} THEN NoMember
  ELSE TypeConfig(Only(found), ResolveNestedTypes(Only(found).type))

GetConfigAndNextStruct(st, s) == StructOf(FindMemberInBTFStruct(st, s))

GetConfigAndNextType(st, s) == TypeOf(FindMemberInBTFStruct(st, s))

\* resolveNestedPtr: one pointer slot per raw pointer level of the root.
RECURSIVE ResolveNestedPtr(_, _, _)
ResolveNestedPtr(t, args, k) ==
  IF KindOf(t) /= "ptr" THEN [status |-> "ok", args |-> args, type |-> t, i |-> k]
  ELSE IF k >= MaxBTFArgDepth THEN Panic
  ELSE ResolveNestedPtr(Target(t), [args EXCEPT ![k] = PtrArg(0)], k + 1)

-----------------------------------------------------------------------------
(* manuallyResolveBTFPath run by the test as steps of the model, one per   *)
(* iteration of its loop, on the padded path the resolver was given.      *)
(* buildExpectedBTFConfig and buildResolveBTFConfig are pure functions of  *)
(* the same root and path, so the model runs the reference once the       *)
(* resolution is over.                                                     *)

VARIABLES
  mpc,     \* "idle", "loop", then "ok", "fatal" or "panic"
  mst,     \* currentStruct
  margs,   \* the reference's btfArgs
  mk       \* its loop index i

refVars == <<mpc, mst, margs, mk>>

RefInit == Init /\ mpc = "idle" /\ mst = NoType /\ margs = EmptyArgs /\ mk = 0

\* The current path component of the reference's loop.
MSeg == path[mk + 1]

\* The loop stops at t.Fatal, or at an index past the Go array.
Stop(outcome) == mpc' = outcome /\ UNCHANGED <<mst, margs, mk>>

\* resolveNestedPtr, then getBTFStruct of what is left of the root.
StartWith(lead) ==
  IF lead.status /= "ok" THEN Stop("panic")
  ELSE IF ~GetBTFStruct(lead.type) THEN Stop("fatal")
  ELSE /\ mpc' = "loop"
       /\ mst' = lead.type
       /\ margs' = lead.args
       /\ mk' = lead.i

ManualStart ==
  /\ mpc = "idle"
  /\ phase = "done"
  /\ req.flow = "padded"
  /\ StartWith(ResolveNestedPtr(root, EmptyArgs, 0))

\* The loop condition i < len(p) fails: btfArgs is returned.
ManualDone ==
  /\ mpc = "loop"
  /\ mk >= Len(path)
  /\ Stop("ok")

\* An empty component: btfArgs[i] is reset, then getBTFPointer of the
\* root (not a pointer after resolveNestedPtr) fails.
ManualPadding ==
  /\ mpc = "loop"
  /\ mk < Len(path)
  /\ MSeg = ""
  /\ Stop(IF mk >= MaxBTFArgDepth THEN "panic" ELSE "fatal")

\* A helper's result r: t.Fatal on an error, a panic past the array.
Checked(r, Then) ==
  IF ~r.ok THEN Stop("fatal")
  ELSE IF mk >= MaxBTFArgDepth THEN Stop("panic")
  ELSE Then

\* A component before the last: getConfigAndNextStruct.
StructStep(r) ==
  Checked(r, /\ mst' = r.next
             /\ margs' = [margs EXCEPT ![mk] = r.cfg]
             /\ mk' = mk + 1
             /\ UNCHANGED mpc)

ManualStruct ==
  /\ mpc = "loop"
  /\ MSeg /= ""
  /\ mk < Len(path) - 1
  /\ StructStep(GetConfigAndNextStruct(mst, MSeg))

\* The last component: getConfigAndNextType, and btfArgs is returned.
LastStep(r) ==
  Checked(r, /\ margs' = [margs EXCEPT ![mk] = r.cfg]
             /\ mpc' = "ok"
             /\ UNCHANGED <<mst, mk>>)

ManualLast ==
  /\ mpc = "loop"
  /\ MSeg /= ""
  /\ mk = Len(path) - 1
  /\ LastStep(GetConfigAndNextType(mst, MSeg))

Manual == ManualStart \/ ManualDone \/ ManualPadding \/ ManualStruct \/ ManualLast

RefNext == (Next /\ UNCHANGED refVars) \/ (Manual /\ UNCHANGED vars)

RefSpec == RefInit /\ [][RefNext]_<<vars, refVars>>

-----------------------------------------------------------------------------
\* testAssertEqualPath: wherever ResolveBTFPath succeeds on a padded path,
\* the hand-written resolver of the test computes the same descriptor array.
ReferenceAgrees ==
  (mpc \in {"ok", "fatal", "panic"} /\ err = NoErr)
    => mpc = "ok" /\ margs = out
=============================================================================
