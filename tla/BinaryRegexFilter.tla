-------------------------- MODULE BinaryRegexFilter --------------------------
(***************************************************************************)
(* The binary regex filters of pkg/filters/binary_regex.go, built for one *)
(* tetragon.Filter and applied to one event.                               *)
(*                                                                         *)
(* The three OnBuildFilter methods run in the order BinaryRegex,           *)
(* ParentBinaryRegex, AncestorBinaryRegex; each adds one FilterFunc when   *)
(* its field is set (a non-nil slice, empty or not) and the first error   *)
(* ends the build.  The event passes when every FilterFunc built accepts  *)
(* it.  Composing the builders this way is what BuildFilterList does with *)
(* them (pkg/filters/filters.go, outside src/).                            *)
(*                                                                         *)
(* A regular expression is abstracted to whether regexp.Compile accepts   *)
(* it and the binaries MatchString finds it in (an unanchored search).    *)
(* CheckAncestorsEnabled(ff.EventSet) is abstracted to a boolean of the   *)
(* request.                                                                *)
(***************************************************************************)
EXTENDS Integers, Sequences, SequencesExt

CONSTANTS
  Binaries,   \* process binaries
  Regex,      \* pattern -> [valid: compiles, matches: SUBSET Binaries]
  Requests,   \* set of [filter, ancestorsEnabled, event]
  Nil         \* a nil slice or a nil *tetragon.Process

VARIABLES
  req,      \* the filter, whether ancestors are enabled, the event
  phase,    \* the next builder to run, then "match", then "done"
  fs,       \* the FilterFuncs built so far: [level, patterns]
  err,      \* "" or the error that ended the build
  verdict   \* whether the event passes, once matched

vars == <<req, phase, fs, err, verdict>>

Patterns == DOMAIN Regex

-----------------------------------------------------------------------------
\* filterByBinaryRegex: compile every pattern, failing at the first that
\* does not compile; the FilterFunc is the level with the compiled patterns.
FilterByBinaryRegex(pats, level) ==
  IF \E k \in DOMAIN pats : ~Regex[pats[k]].valid
    THEN [err |-> "compile", f |-> Nil]
    ELSE [err |-> "", f |-> [level |-> level, pats |-> pats]]

\* Variant that also looks at the parent for the ancestor level.
ProcessesWithParent(level, ev) ==
  CASE level = "process" -> <<ev.process>>
    [] level = "parent"  -> <<ev.parent>>
    [] level = "ancestor" -> <<ev.parent>> \o ev.ancestors

\* The processes a FilterFunc looks at: GetProcess, GetParent, GetAncestors.
Processes(level, ev) ==
  CASE level = "process" -> <<ev.process>>
    [] level = "parent"  -> <<ev.parent>>
    [] level = "ancestor" -> ev.ancestors

\* The FilterFunc: no process (or a nil first one) rejects the event; else
\* it passes when some pattern matches some process's binary.
FilterFunc(f, ev) ==
  LET ps == Processes(f.level, ev)
  IN  /\ ps /= <<>>
      /\ ps[1] /= Nil
      /\ \E k \in DOMAIN ps, j \in DOMAIN f.pats :
            ps[k] \in Regex[f.pats[j]].matches

Init ==
  /\ req \in Requests
  /\ phase = "process"
  /\ fs = <<>>
  /\ err = ""
  /\ verdict = Nil

\* The common part of the three OnBuildFilter methods, for field pats.
Build(pats, level, next) ==
  LET r == FilterByBinaryRegex(pats, level)
  IN  IF pats = Nil THEN /\ phase' = next /\ UNCHANGED <<fs, err>>
      ELSE IF r.err /= "" THEN /\ err' = r.err /\ phase' = "done"
                               /\ UNCHANGED fs
      ELSE /\ fs' = Append(fs, r.f) /\ phase' = next /\ UNCHANGED err

\* BinaryRegexFilter.OnBuildFilter.
BinaryRegexOnBuildFilter ==
  /\ phase = "process"
  /\ Build(req.filter.binaryRegex, "process", "parent")
  /\ UNCHANGED <<req, verdict>>

\* ParentBinaryRegexFilter.OnBuildFilter.
ParentBinaryRegexOnBuildFilter ==
  /\ phase = "parent"
  /\ Build(req.filter.parentBinaryRegex, "parent", "ancestor")
  /\ UNCHANGED <<req, verdict>>

\* AncestorBinaryRegexFilter.OnBuildFilter: CheckAncestorsEnabled first.
AncestorBinaryRegexOnBuildFilter ==
  LET pats == req.filter.ancestorBinaryRegex
  IN  /\ phase = "ancestor"
      /\ IF pats /= Nil /\ ~req.ancestorsEnabled
           THEN /\ err' = "ancestors" /\ phase' = "done" /\ UNCHANGED fs
           ELSE Build(pats, "ancestor", "match")
      /\ UNCHANGED <<req, verdict>>

\* The built FilterFuncs applied to the event: all must accept it.
Match ==
  /\ phase = "match"
  /\ verdict' = \A k \in DOMAIN fs : FilterFunc(fs[k], req.event)
  /\ phase' = "done"
  /\ UNCHANGED <<req, fs, err>>

Next ==
  \/ BinaryRegexOnBuildFilter
  \/ ParentBinaryRegexOnBuildFilter
  \/ AncestorBinaryRegexOnBuildFilter
  \/ Match

Spec == Init /\ [][Next]_vars /\ WF_vars(Next)

-----------------------------------------------------------------------------
(* What a filter promises, stated over the request alone.                 *)

\* The binaries a field is about: the process's, the parent's, or every
\* ancestor's; a nil process contributes none.
Looked(field, ev) ==
  CASE field = "binaryRegex"         -> {ev.process} \ {Nil}
    [] field = "parentBinaryRegex"   -> {ev.parent} \ {Nil}
    [] field = "ancestorBinaryRegex" -> ToSet(ev.ancestors)

SetFields(r) == {fd \in DOMAIN r.filter : r.filter[fd] /= Nil}

Rejected(r) ==
  \/ \E fd \in SetFields(r) : \E p \in ToSet(r.filter[fd]) : ~Regex[p].valid
  \/ "ancestorBinaryRegex" \in SetFields(r) /\ ~r.ancestorsEnabled

Passes(r) ==
  \A fd \in SetFields(r) :
     \E b \in Looked(fd, r.event), p \in ToSet(r.filter[fd]) :
        b \in Regex[p].matches

\* A built filter accepts an event exactly when, for every regex field the
\* filter sets, one of its patterns is found in the binary of one of the
\* processes that field is about (the process, the parent, the recorded
\* ancestors and not the parent), and the build fails exactly when a set
\* field has a pattern that does not compile or asks for ancestors that
\* the event set cannot carry.
FilterKeepsPromise ==
  phase = "done" =>
    IF Rejected(req) THEN err /= "" ELSE err = "" /\ verdict = Passes(req)
=============================================================================
