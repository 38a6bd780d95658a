------------------------- MODULE MCBinaryRegexFilter -------------------------
(***************************************************************************)
(* The binaries and patterns of pkg/filters/binary_regex_test.go.  The    *)
(* match table is what Go's regexp finds: "iptable" and "systemd" are     *)
(* found anywhere in a binary, the anchored systemd pattern only in the   *)
(* exact path, "*" does not compile and the empty pattern is found in     *)
(* every binary.                                                           *)
(***************************************************************************)
EXTENDS BinaryRegexFilter, TLC

IPT == "/sbin/iptables"
SD  == "/usr/lib/systemd/systemd"
JD  == "/usr/lib/systemd/systemd-journald"
SH  == "/bin/bash"

MCBinaries == {IPT, SD, JD, SH}

MCRegex ==
  "iptable" :> [valid |-> TRUE, matches |-> {IPT}]
  @@ "systemd" :> [valid |-> TRUE, matches |-> {SD, JD}]
  @@ "^/usr/lib/systemd/systemd$" :> [valid |-> TRUE, matches |-> {SD}]
  @@ "bash" :> [valid |-> TRUE, matches |-> {SH}]
  @@ "zsh" :> [valid |-> TRUE, matches |-> {}]
  @@ "*" :> [valid |-> FALSE, matches |-> {}]
  @@ "" :> [valid |-> TRUE, matches |-> MCBinaries]

\* Field values: unset, set but empty, the tests' lists, an invalid
\* pattern alone and after a valid one, the empty pattern.
ProcessFields == {Nil, <<>>, <<"iptable", "systemd">>,
                  <<"^/usr/lib/systemd/systemd$">>, <<"*">>, <<"">>}
ParentFields == {Nil, <<"bash", "zsh">>, <<"bash", "*">>}
AncestorFields == {Nil, <<"bash", "zsh">>, <<"*">>}

Procs == MCBinaries \cup {Nil}

MCEvents ==
  [process : Procs, parent : Procs,
   ancestors : UNION {[1 .. n -> MCBinaries] : n \in 0 .. 2}]

MCRequests ==
  [filter : [binaryRegex : ProcessFields, parentBinaryRegex : ParentFields,
             ancestorBinaryRegex : AncestorFields],
   ancestorsEnabled : BOOLEAN, event : MCEvents]
=============================================================================
