---------------------------- MODULE MCBTFReference ----------------------------
(***************************************************************************)
(* testAssertEqualPath on the miniature kernel BTF of MCBTFResolve: its   *)
(* four requests, resolved through buildResolveBTFConfig and compared     *)
(* with buildExpectedBTFConfig.                                           *)
(***************************************************************************)
EXTENDS MCBTFResolve, BTFReference

EqualPathRequests ==
  {[hook |-> "security_bprm_check", arg |-> 0, segs |-> p, flow |-> "padded"] :
     p \in {<<"file", "f_path", "dentry", "d_name", "name">>,
            <<"mm", "arg_start">>, <<"file", "f_inode", "i_dir_seq">>}}
  \cup {[hook |-> "security_inode_copy_up", arg |-> 1, segs |-> <<"uid", "val">>,
         flow |-> "padded"]}
=============================================================================
