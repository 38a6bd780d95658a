------------------------- MODULE MCCgidmapPodHooks -------------------------
(***************************************************************************)
(* Two pods with UUIDs and one whose UID does not parse, two containers:  *)
(* enough for a pod to be created, change its containers and be deleted   *)
(* while the watch is broken, and for the other pod to change meanwhile.  *)
(***************************************************************************)
EXTENDS CgidmapPodHooks

MCPods == {"p1", "p2", "bad"}
MCBadUIDs == {"bad"}
MCContainers == {"c1", "c2"}
=============================================================================
