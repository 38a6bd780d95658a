\* Every choice of which of the four subcommands are shown.
CONSTANTS
  root = root
  get = get
  md = md
  md_x = md_x
  md_x_d = md_x_d
  NoCmd = NoCmd
  Cmds <- MCCmds
  Root = root
  Parent <- MCParent
  Name <- MCName
SPECIFICATION Spec
INVARIANT GeneratedDocsConsistent
\* GenMarkdown returns or exits: the program ends there.
CHECK_DEADLOCK FALSE
