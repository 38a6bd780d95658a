------------------------------ MODULE BTFTypes ------------------------------
(***************************************************************************)
(* The Type Source: a loaded BTF type graph, immutable and shared by every *)
(* resolution.  A type is an identifier of Types; BTF maps it to a record  *)
(* of uniform shape                                                        *)
(*   [kind, name, target, members, params]                                 *)
(* where kind is one of TypeKinds, target is the wrapped type of a         *)
(* pointer, typedef or qualifier, members the ordered member list of a     *)
(* struct or union (records [name, off, type], name "" when anonymous,    *)
(* off the byte offset in the containing aggregate) and params the         *)
(* ordered parameter list of a function (records [name, type]).  The graph *)
(* may be cyclic through pointers.                                          *)
(*                                                                         *)
(* Also here: the two type-graph operations the resolver relies on, the   *)
(* Type Normalizer (ResolveNestedTypes) and the Hook Parameter Locator     *)
(* (findBTFFuncParamFromHookWithSpec).  Neither is under src/: both are    *)
(* modelled from the spec, sections 4.1 and 4.2.                           *)
(***************************************************************************)
EXTENDS Integers, Sequences, FiniteSets

CONSTANTS
  Types,            \* identifiers of the types of the loaded graph
  BTF,              \* [Types -> type record]
  NoType            \* a value that is no type (nil)

TypeKinds == {"struct", "union", "ptr", "int", "typedef", "const",
              "volatile", "restrict", "func"}

\* Wrapper kinds the normalizer looks through.
Wrappers == {"typedef", "const", "volatile", "restrict"}

ASSUME /\ NoType \notin Types
       /\ \A t \in Types : BTF[t].kind \in TypeKinds

KindOf(t) == IF t = NoType THEN "none" ELSE BTF[t].kind
IsAggregate(t) == KindOf(t) \in {"struct", "union"}
Members(t) == BTF[t].members
Target(t) == BTF[t].target

(***************************************************************************)
(* ResolveNestedTypes: unwrap typedef/const/volatile/restrict layers until *)
(* a non-wrapper kind.  Never follows a pointer, so it terminates on a     *)
(* graph whose wrapper chains are finite (spec 4.2).                       *)
(***************************************************************************)
RECURSIVE ResolveNestedTypes(_)
ResolveNestedTypes(t) ==
  IF KindOf(t) \in Wrappers THEN ResolveNestedTypes(Target(t)) ELSE t

(***************************************************************************)
(* findBTFFuncParamFromHookWithSpec(spec, hook, argIndex): the function    *)
(* named hook, then its parameter argIndex (0-based).  The result is a     *)
(* record [err, param]; err is "" on success.  The parameter type is       *)
(* returned as declared, not normalized (spec 4.1).                        *)
(***************************************************************************)
HookNotFound == "HookNotFound"
NotAFunction == "NotAFunction"
ArgIndexOutOfRange == "ArgIndexOutOfRange"

FindBTFFuncParamFromHook(hook, argIndex) ==
  LET fns   == {t \in Types : BTF[t].kind = "func" /\ BTF[t].name = hook}
      named == {t \in Types : BTF[t].name = hook}
  IN  IF fns = {}
        THEN [err |-> IF named = {} THEN HookNotFound ELSE NotAFunction,
              param |-> NoType]
      ELSE LET ps == BTF[CHOOSE f \in fns : TRUE].params
           IN  IF argIndex >= Len(ps)
                 THEN [err |-> ArgIndexOutOfRange, param |-> NoType]
                 ELSE [err |-> "", param |-> ps[argIndex + 1].type]
=============================================================================
