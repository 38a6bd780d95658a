--------------------------- MODULE CgidmapPodHooks ---------------------------
(***************************************************************************)
(* The pod hooks of pkg/cgidmap/podhooks.go and the pod informer that      *)
(* drives them.                                                            *)
(*                                                                         *)
(* registerPodCallbacks runs once, before the informer starts: if         *)
(* GlobalMap fails nothing is registered; otherwise Add, Update and       *)
(* Delete handlers are added that keep the cgroup-id map m in step with   *)
(* the pods: updatePodHandler calls m.Update(podID, container IDs),       *)
(* deletePodHandler calls m.Update(podID, nil).  A pod whose UID does not *)
(* parse as a UUID is skipped by both.                                    *)
(*                                                                         *)
(* The environment is the API server and client-go's shared informer, not *)
(* code of this repository: the informer's store follows the watch; the   *)
(* watch can break, and the changes made meanwhile are never seen; the    *)
(* reflector then lists again and the store is replaced, which notifies   *)
(* Add or Update for every listed pod and, for a pod the store knows but  *)
(* the list lacks, Delete with a cache.DeletedFinalStateUnknown tombstone *)
(* holding the last known object.  One listener calls the handlers, one   *)
(* notification at a time, in the order the store changed.  The          *)
(* informer's DeltaFIFO is folded into the store: the store here is what  *)
(* the informer knows, queued deltas included.                            *)
(*                                                                         *)
(* A map entry with no containers and no entry at all are both {}: the    *)
(* model abstracts cgidmap.Map to pod -> set of container IDs.            *)
(***************************************************************************)
EXTENDS Integers, Sequences, SequencesExt

CONSTANTS
  Pods,        \* pod UIDs
  BadUIDs,     \* the UIDs among them that uuid.Parse rejects
  Containers,  \* container IDs
  MaxChanges,  \* bound on the API server's pod changes
  MaxDrops     \* bound on broken watches

ASSUME BadUIDs \subseteq Pods

VARIABLES
  api,         \* pod -> "unborn" | "live" | "gone"
  running,     \* pod -> its containers at the API server
  changes,     \* number of pod changes so far
  watch,       \* "up" | "down": whether the informer sees changes
  drops,       \* number of broken watches so far
  store,       \* pod -> containers in the informer's store, or Absent
  pending,     \* notifications not yet handled, in order
  registered,  \* "init", "yes" or "no": registerPodCallbacks' outcome
  m            \* the cgidmap: pod -> container IDs

vars == <<api, running, changes, watch, drops, store, pending, registered, m>>

\* A pod in a view of the pods: Absent, or Present(its containers).
Absent == <<>>
Present(cs) == <<cs>>

\* A notification: kind, pod, its containers (the new object), the old
\* object's containers for an update, and whether a delete came as a tombstone.
Note(kind, p, cs, old, tomb) ==
  [kind |-> kind, pod |-> p, cids |-> cs, old |-> old, tomb |-> tomb]

Notification ==
  [kind : {"add", "update", "delete"}, pod : Pods, cids : SUBSET Containers,
   old : {Absent} \cup {Present(cs) : cs \in SUBSET Containers}, tomb : BOOLEAN]

\* Notifications reach the handlers only once they are registered.
Notify(ns) == IF registered = "yes" THEN pending \o ns ELSE pending

-----------------------------------------------------------------------------
(* The API server and the informer (environment).                          *)

Init ==
  /\ api = [p \in Pods |-> "unborn"]
  /\ running = [p \in Pods |-> {}]
  /\ changes = 0
  /\ watch = "down"
  /\ drops = 0
  /\ store = [p \in Pods |-> Absent]
  /\ pending = <<>>
  /\ registered = "init"
  /\ m = [p \in Pods |-> {}]

\* A pod change at the API server, seen by the informer while its watch is up.
Change(p, st, cs, n) ==
  /\ changes < MaxChanges
  /\ changes' = changes + 1
  /\ api' = [api EXCEPT ![p] = st]
  /\ running' = [running EXCEPT ![p] = cs]
  /\ IF watch = "up"
       THEN /\ store' = [store EXCEPT ![p] = IF st = "live" THEN Present(cs) ELSE Absent]
            /\ pending' = Notify(<<n>>)
       ELSE UNCHANGED <<store, pending>>
  /\ UNCHANGED <<watch, drops, registered, m>>

PodCreated(p, cs) ==
  /\ api[p] = "unborn"
  /\ Change(p, "live", cs, Note("add", p, cs, Absent, FALSE))

\* The kubelet reports a container started or gone.
PodUpdated(p, cs) ==
  /\ api[p] = "live"
  /\ cs /= running[p]
  /\ Change(p, "live", cs, Note("update", p, cs, store[p], FALSE))

PodDeleted(p) ==
  /\ api[p] = "live"
  /\ Change(p, "gone", running[p], Note("delete", p, running[p], Absent, FALSE))

\* The watch breaks (a lost API server connection): later changes are lost.
WatchBroken ==
  /\ watch = "up"
  /\ drops < MaxDrops
  /\ watch' = "down"
  /\ drops' = drops + 1
  /\ UNCHANGED <<api, running, changes, store, pending, registered, m>>

\* The reflector lists and replaces the store: the first list after the
\* informer starts, and every list after a broken watch.
Relist ==
  LET listed == {p \in Pods : api[p] = "live"}
      known  == {p \in Pods : store[p] /= Absent}
      Listed(p) == IF store[p] = Absent THEN Note("add", p, running[p], Absent, FALSE)
                   ELSE Note("update", p, running[p], store[p], FALSE)
      Tomb(p) == Note("delete", p, store[p][1], Absent, TRUE)
  IN  /\ registered /= "init"
      /\ watch = "down"
      /\ watch' = "up"
      /\ store' = [p \in Pods |-> IF p \in listed THEN Present(running[p]) ELSE Absent]
      /\ pending' = Notify(SetToSeq({Listed(p) : p \in listed})
                           \o SetToSeq({Tomb(p) : p \in known \ listed}))
      /\ UNCHANGED <<api, running, changes, drops, registered, m>>

-----------------------------------------------------------------------------
(* podhooks.go                                                             *)

\* registerPodCallbacks: GlobalMap succeeds and the handlers are added.
RegisterPodCallbacks ==
  /\ registered = "init"
  /\ registered' = "yes"
  /\ UNCHANGED <<api, running, changes, watch, drops, store, pending, m>>

\* registerPodCallbacks: GlobalMap fails (cgidmap disabled or broken);
\* nothing is registered.
RegisterFails ==
  /\ registered = "init"
  /\ registered' = "no"
  /\ UNCHANGED <<api, running, changes, watch, drops, store, pending, m>>

\* updatePodHandler: m.Update(podID, podhelpers.PodContainersIDs(pod)),
\* unless the UID does not parse.
UpdatePodHandler(p, cs) ==
  m' = IF p \in BadUIDs THEN m ELSE [m EXCEPT ![p] = cs]

\* deletePodHandler: m.Update(podID, nil), unless the UID does not parse.
DeletePodHandler(p) ==
  m' = IF p \in BadUIDs THEN m ELSE [m EXCEPT ![p] = {}]

\* The listener hands the next notification to a handler.
Handle(kind) ==
  /\ pending /= <<>>
  /\ Head(pending).kind = kind
  /\ pending' = Tail(pending)
  /\ UNCHANGED <<api, running, changes, watch, drops, store, registered>>

\* AddFunc.
AddFunc ==
  /\ Handle("add")
  /\ UpdatePodHandler(Head(pending).pod, Head(pending).cids)

\* Variant of UpdateFunc that reads the old object instead of the new one.
UpdateFuncOldObject ==
  /\ Handle("update")
  /\ UpdatePodHandler(Head(pending).pod, Head(pending).old[1])

\* UpdateFunc(_, newObj): the new object.
UpdateFunc ==
  /\ Handle("update")
  /\ UpdatePodHandler(Head(pending).pod, Head(pending).cids)

\* Variant of DeleteFunc with no case for cache.DeletedFinalStateUnknown.
DeleteFuncNoTombstone ==
  /\ Handle("delete")
  /\ IF Head(pending).tomb THEN UNCHANGED m
                           ELSE DeletePodHandler(Head(pending).pod)

\* DeleteFunc: a *corev1.Pod, or the pod inside a DeletedFinalStateUnknown.
DeleteFunc ==
  /\ Handle("delete")
  /\ DeletePodHandler(Head(pending).pod)

Environment ==
  \/ \E p \in Pods, cs \in SUBSET Containers : PodCreated(p, cs) \/ PodUpdated(p, cs)
  \/ \E p \in Pods : PodDeleted(p)
  \/ WatchBroken
  \/ Relist

Hooks ==
  \/ RegisterPodCallbacks \/ RegisterFails
  \/ AddFunc \/ UpdateFunc \/ DeleteFunc

Next == Environment \/ Hooks

\* The reflector retries its list for ever and the listener drains its
\* buffer; the API server and the network owe nothing.
Spec == Init /\ [][Next]_vars /\ WF_vars(Relist) /\ WF_vars(Hooks)

-----------------------------------------------------------------------------
(* Properties.                                                             *)

TypeOK ==
  /\ api \in [Pods -> {"unborn", "live", "gone"}]
  /\ running \in [Pods -> SUBSET Containers]
  /\ changes \in 0 .. MaxChanges
  /\ watch \in {"up", "down"}
  /\ drops \in 0 .. MaxDrops
  /\ store \in [Pods -> {Absent} \cup {Present(cs) : cs \in SUBSET Containers}]
  /\ pending \in Seq(Notification)
  /\ registered \in {"init", "yes", "no"}
  /\ m \in [Pods -> SUBSET Containers]

\* The containers the map should hold for pod p, given a view of the pods.
Expected(view, p) == IF view[p] = Absent THEN {} ELSE view[p][1]

ApiView == [p \in Pods |-> IF api[p] = "live" THEN Present(running[p]) ELSE Absent]

\* Whenever the handlers have caught up with the informer, the cgidmap holds
\* exactly the containers of the pods the informer knows, for every pod
\* with a parseable UID: no container of a pod deleted while the watch was
\* broken is left behind, and no update is applied with stale containers.
AgreesWithStore ==
  (registered = "yes" /\ pending = <<>>)
    => \A p \in Pods \ BadUIDs : m[p] = Expected(store, p)

\* Once registered, the cgidmap eventually holds, for ever, the containers
\* of the pods at the API server, however the watch broke meanwhile.
Converges ==
  (registered = "yes")
    ~> [](\A p \in Pods \ BadUIDs : m[p] = Expected(ApiView, p))
=============================================================================
