------------------------------- MODULE MCCmdRef -------------------------------
(***************************************************************************)
(* A command tree of the shape of tetragon's CLIs: a root, two            *)
(* subcommands, one of them with a subcommand of its own, and a third      *)
(* level below that.  Names are short sequences of characters; "md" is a  *)
(* name, so a link contains "md" before its ".md" suffix.                 *)
(***************************************************************************)
EXTENDS CmdRef

CONSTANTS root, get, md, md_x, md_x_d

MCCmds == {root, get, md, md_x, md_x_d}

MCParent == [c \in MCCmds |->
               CASE c = root -> NoCmd
                 [] c \in {get, md} -> root
                 [] c = md_x -> md
                 [] c = md_x_d -> md_x]

MCName == [c \in MCCmds |->
             CASE c = root -> <<"t">>
               [] c = get -> <<"g">>
               [] c = md -> <<"m", "d">>
               [] c = md_x -> <<"x">>
               [] c = md_x_d -> <<"d">>]
=============================================================================
