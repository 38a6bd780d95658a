------------------------------- MODULE CmdRef -------------------------------
(***************************************************************************)
(* pkg/cmdref/cmdref.go: GenMarkdown, with its linkHandler and            *)
(* filePrepend, driving cobra's doc.GenMarkdownTreeCustom over a command   *)
(* tree.                                                                   *)
(*                                                                         *)
(* cobra (not in this repository) is the environment, as its doc package   *)
(* behaves: GenMarkdownTreeCustom walks the tree children first, skipping  *)
(* a child that is not available (hidden, deprecated, or neither runnable  *)
(* nor with available children) or is an additional help topic, and then  *)
(* writes <CommandPath with spaces as "_">.md: os.Create, the prepended    *)
(* text, then GenMarkdownCustom.  GenMarkdownCustom's "SEE ALSO" lists the *)
(* parent and the same children, each link passed through linkHandler; a *)
(* command with a parent first takes DisableAutoGenTag from any ancestor   *)
(* that has it (VisitParents), and the page ends with "Auto generated by  *)
(* spf13/cobra" unless the flag is set.  The first error returns up the    *)
(* recursion; GenMarkdown logs it and calls os.Exit(1).                    *)
(*                                                                         *)
(* Names and links are sequences of characters: linkHandler's rewriting   *)
(* is the property's subject.  The text of a page is abstracted to what   *)
(* the property reads: its head, its links and the auto-generated line.   *)
(***************************************************************************)
EXTENDS Naturals, Sequences, SequencesExt

CONSTANTS
  Cmds,     \* the cobra commands of the tree
  Root,     \* the command given to GenMarkdown
  Parent,   \* command -> its parent command, NoCmd for the root
  Name,     \* command -> its name, a sequence of characters
  NoCmd

VARIABLES
  shown,   \* the commands IsAvailableCommand() and not a help topic
  noTag,   \* command -> its DisableAutoGenTag field
  k,       \* the number of pages GenMarkdownTreeCustom has finished
  files,   \* basename -> the page in the directory
  pc       \* "start" | "walk" | "done" | "exit"

vars == <<shown, noTag, k, files, pc>>

Md   == <<".", "m", "d">>
Html == <<".", "h", "t", "m", "l">>

\* The text filePrepend returns, and a file os.Create truncated and left
\* empty.
DoNotEdit == "do-not-edit"
Truncated == [head |-> "", links |-> {}, autogen |-> FALSE]

-----------------------------------------------------------------------------
\* cmd.CommandPath(): the names from the root, separated by spaces.
RECURSIVE CommandPath(_)
CommandPath(c) ==
  IF Parent[c] = NoCmd THEN Name[c]
  ELSE CommandPath(Parent[c]) \o <<" ">> \o Name[c]

\* strings.ReplaceAll(path, " ", "_") + ".md": a page's basename and the
\* link cobra writes to it.
MdName(c) ==
  [x \in DOMAIN CommandPath(c) |->
     IF CommandPath(c)[x] = " " THEN "_" ELSE CommandPath(c)[x]] \o Md

RECURSIVE Ancestors(_)
Ancestors(c) == IF Parent[c] = NoCmd THEN {} ELSE {Parent[c]} \cup Ancestors(Parent[c])

ShownChildren(c, sh) == {d \in Cmds : Parent[d] = c /\ d \in sh}

\* The order in which GenMarkdownTreeCustom writes the pages: the shown
\* children's subtrees, then the command itself.
RECURSIVE TreeOrder(_, _), ListOrder(_, _)
TreeOrder(c, sh) == ListOrder(SetToSeq(ShownChildren(c, sh)), sh) \o <<c>>
ListOrder(s, sh) ==
  IF s = <<>> THEN <<>> ELSE TreeOrder(Head(s), sh) \o ListOrder(Tail(s), sh)

Order == TreeOrder(Root, shown)

\* A variant of linkHandler that leaves the link as cobra wrote it.
LinkHandlerUnchanged(s) == s

\* linkHandler: strings.Replace(s, ".md", ".html", 1), the first occurrence.
LinkHandler(s) == ReplaceFirstSubSeq(Html, Md, s)

\* filePrepend: the same comment whatever the file name.
FilePrepend(filename) == DoNotEdit

\* GenMarkdownCustom's SEE ALSO links: the parent's page, then the pages
\* of the shown children.
Links(c) ==
  {LinkHandler(MdName(p)) : p \in {q \in {Parent[c]} : q /= NoCmd}}
  \cup {LinkHandler(MdName(d)) : d \in ShownChildren(c, shown)}

\* DisableAutoGenTag after GenMarkdownCustom's VisitParents.
NoTagAfter(c) == noTag[c] \/ \E a \in Ancestors(c) : noTag[a]

Page(c) ==
  [head |-> FilePrepend(MdName(c)), links |-> Links(c),
   autogen |-> ~NoTagAfter(c)]

Write(b, p) == files' = [x \in DOMAIN files \cup {b} |-> IF x = b THEN p ELSE files[x]]

-----------------------------------------------------------------------------
Init ==
  /\ shown \in SUBSET (Cmds \ {Root})
  /\ noTag = [c \in Cmds |-> FALSE]
  /\ k = 0
  /\ files = <<>>
  /\ pc = "start"

\* GenMarkdown: cmd.DisableAutoGenTag = true on the command it is given,
\* then GenMarkdownTreeCustom.
GenMarkdown ==
  /\ pc = "start"
  /\ noTag' = [noTag EXCEPT ![Root] = TRUE]
  /\ pc' = "walk"
  /\ UNCHANGED <<shown, k, files>>

\* The next page is written, and its command takes the ancestors' flag.
WritePage ==
  /\ pc = "walk"
  /\ k < Len(Order)
  /\ LET c == Order[k + 1] IN
       /\ Write(MdName(c), Page(c))
       /\ noTag' = [noTag EXCEPT ![c] = NoTagAfter(c)]
  /\ k' = k + 1
  /\ UNCHANGED <<shown, pc>>

\* os.Create fails: the error reaches GenMarkdown, which exits.
CreateFails ==
  /\ pc = "walk"
  /\ k < Len(Order)
  /\ pc' = "exit"
  /\ UNCHANGED <<shown, noTag, k, files>>

\* os.Create truncated the file, then writing to it fails.
WriteFails ==
  /\ pc = "walk"
  /\ k < Len(Order)
  /\ Write(MdName(Order[k + 1]), Truncated)
  /\ pc' = "exit"
  /\ UNCHANGED <<shown, noTag, k>>

\* GenMarkdownTreeCustom returns nil for the root: GenMarkdown returns.
Finish ==
  /\ pc = "walk"
  /\ k = Len(Order)
  /\ pc' = "done"
  /\ UNCHANGED <<shown, noTag, k, files>>

Next == GenMarkdown \/ WritePage \/ CreateFails \/ WriteFails \/ Finish

Spec == Init /\ [][Next]_vars

-----------------------------------------------------------------------------
(* Properties.                                                             *)

\* The page the docs site renders from a basename X.md: X.html.
HtmlOf(b) == SubSeq(b, 1, Len(b) - 3) \o Html

\* When GenMarkdown returns, every command it documents has a page in the
\* directory that starts with filePrepend's warning, has no "Auto
\* generated by spf13/cobra" line (the DisableAutoGenTag set on the root
\* reaches every page, though children are written before their parents),
\* and whose SEE ALSO links, after linkHandler, all name the rendered page
\* of a page in the directory.
GeneratedDocsConsistent ==
  pc = "done" =>
    \A x \in 1 .. Len(Order) :
      LET b == MdName(Order[x]) IN
        /\ b \in DOMAIN files
        /\ files[b].head = DoNotEdit
        /\ ~files[b].autogen
        /\ \A l \in files[b].links : \E y \in DOMAIN files : l = HtmlOf(y)
=============================================================================
