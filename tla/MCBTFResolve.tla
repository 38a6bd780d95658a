---------------------------- MODULE MCBTFResolve ----------------------------
(***************************************************************************)
(* A miniature of the kernel BTF the tests of pkg/btf resolve against:     *)
(* the hooks and struct layouts they name (security_bprm_check,            *)
(* wake_up_new_task, security_inode_copy_up, do_sys_open, linux_binprm),   *)
(* with the same shapes: pointers to structs, an anonymous struct in       *)
(* mm_struct, an anonymous union in inode and in qstr, typedef'd structs   *)
(* behind a pointer (pgd_t) and by value (kuid_t), a const-qualified      *)
(* pointee, a double pointer parameter and a self-referential task_struct. *)
(* The union of inode sits at a non-zero offset as it does in the kernel. *)
(***************************************************************************)
EXTENDS BTFResolve, TLC

T(kind, name, target, members, params) ==
  [kind |-> kind, name |-> name, target |-> target,
   members |-> members, params |-> params]
M(name, off, type) == [name |-> name, off |-> off, type |-> type]
P(name, type) == [name |-> name, type |-> type]

Struct(name, ms) == T("struct", name, NoType, ms, <<>>)
Union(name, ms)  == T("union", name, NoType, ms, <<>>)
Ptr(t)           == T("ptr", "", t, <<>>, <<>>)
Wrap(k, name, t) == T(k, name, t, <<>>, <<>>)
IntT(name)       == T("int", name, NoType, <<>>, <<>>)
Func(name, ps)   == T("func", name, NoType, <<>>, ps)

MCBTF == [
  int |-> IntT("int"), long |-> IntT("long"), char |-> IntT("char"),
  uid_t |-> Wrap("typedef", "uid_t", "int"),
  c_char |-> Wrap("const", "", "char"), p_c_char |-> Ptr("c_char"),
  linux_binprm |-> Struct("linux_binprm",
                     <<M("mm", 16, "p_mm_struct"), M("file", 64, "p_file")>>),
  p_linux_binprm |-> Ptr("linux_binprm"),
  mm_struct |-> Struct("mm_struct", <<M("", 0, "mm_anon")>>),
  mm_anon |-> Struct("", <<M("pgd", 80, "p_pgd_t"), M("arg_start", 296, "long")>>),
  p_mm_struct |-> Ptr("mm_struct"),
  pgd_t |-> Wrap("typedef", "pgd_t", "pgd_anon"),
  pgd_anon |-> Struct("", <<M("pgd", 0, "long")>>),
  p_pgd_t |-> Ptr("pgd_t"),
  file |-> Struct("file", <<M("f_path", 16, "path"), M("f_inode", 32, "p_inode")>>),
  p_file |-> Ptr("file"),
  path |-> Struct("path", <<M("dentry", 8, "p_dentry")>>),
  dentry |-> Struct("dentry", <<M("d_name", 32, "qstr"), M("d_inode", 48, "p_inode")>>),
  p_dentry |-> Ptr("dentry"),
  qstr |-> Struct("qstr", <<M("", 0, "qstr_u"), M("name", 8, "p_c_char")>>),
  qstr_u |-> Union("", <<M("hash_len", 0, "long")>>),
  inode |-> Struct("inode", <<M("i_mode", 0, "int"), M("", 328, "inode_u")>>),
  inode_u |-> Union("", <<M("i_pipe", 0, "p_c_char"), M("i_dir_seq", 0, "int")>>),
  p_inode |-> Ptr("inode"),
  cred |-> Struct("cred", <<M("uid", 4, "kuid_t")>>),
  kuid_t |-> Wrap("typedef", "kuid_t", "kuid_anon"),
  kuid_anon |-> Struct("", <<M("val", 0, "uid_t")>>),
  p_cred |-> Ptr("cred"), pp_cred |-> Ptr("p_cred"),
  task_struct |-> Struct("task_struct",
                    <<M("parent", 8, "p_task_struct"),
                      M("sched_task_group", 16, "p_task_group")>>),
  p_task_struct |-> Ptr("task_struct"),
  task_group |-> Struct("task_group", <<M("css", 0, "cgroup_subsys_state")>>),
  p_task_group |-> Ptr("task_group"),
  cgroup_subsys_state |-> Struct("cgroup_subsys_state", <<M("id", 8, "int")>>),
  f_wake_up_new_task |-> Func("wake_up_new_task", <<P("p", "p_task_struct")>>),
  f_security_bprm_check |-> Func("security_bprm_check",
                                 <<P("bprm", "p_linux_binprm")>>),
  f_security_inode_copy_up |-> Func("security_inode_copy_up",
                                    <<P("src", "p_dentry"), P("new", "pp_cred")>>),
  f_do_sys_open |-> Func("do_sys_open", <<P("dfd", "int"), P("filename", "p_c_char")>>)
]

MCTypes == DOMAIN MCBTF

\* Path components the enumerated paths are built from.
Segments == {"file", "f_path", "dentry", "d_name", "name", "f_inode",
             "i_dir_seq", "mm", "arg_start", "pgd", "uid", "val", "parent",
             "sched_task_group", "css", "id", "fail"}

\* The paths of the tests, longer ones reaching the depth bound, and an
\* empty component as strings.Split yields for "mm..pgd".
NamedPaths ==
  { <<"file", "f_path", "dentry", "d_name", "name">>,
    <<"file", "f_path", "dentry", "d_inode", "i_dir_seq">>,
    <<"file", "f_inode", "i_dir_seq">>, <<"mm", "pgd", "pgd">>,
    <<"mm", "pgd", "fail">>, <<"sched_task_group", "css", "id">>,
    <<"parent", "parent", "parent", "parent", "sched_task_group">>,
    <<"parent", "parent", "parent", "parent", "parent", "parent">>,
    <<"mm", "", "pgd">> }

Paths == UNION {[1 .. n -> Segments] : n \in 1 .. 2} \cup NamedPaths

Hooks == { <<"wake_up_new_task", 0>>, <<"security_bprm_check", 0>>,
           <<"security_inode_copy_up", 1>>, <<"do_sys_open", 0>> }

\* The locator's failing requests of the tests: unknown hook, a struct
\* name, an argument index past the parameters.
BadHooks == { <<"fake_hook", 0>>, <<"linux_binprm", 0>>,
              <<"wake_up_new_task", 10>> }

MCRequests ==
  {[hook |-> h[1], arg |-> h[2], segs |-> p, flow |-> f] :
     h \in Hooks, p \in Paths, f \in {"padded", "split"}}
  \cup {[hook |-> h[1], arg |-> h[2], segs |-> <<"p">>, flow |-> "padded"] :
          h \in BadHooks}
=============================================================================
