# TLA+ models of tetragon: BTF argument paths, pod hooks, filters and test harness

This directory holds TLA+ modules and TLC configurations for the repository
under `src/`. Its core is the translation engine of `spec.md`. At policy-load
time, that engine turns a hook name, an argument index and a dotted field path
(`file.f_path.dentry.d_name.name`) into a fixed array of
`{Offset, IsPointer, IsInitialized}` descriptors for the kernel-side reader.
The other files under `src/` are inventoried below: the cgidmap pod hooks,
the binary regex filters, the generated deepcopy of label requirements, the
sensor test harness and the `cmdref` doc
generator have modules of their own; the rest is left out, for the
reasons under "Not modelled".

## Inventory

### Components

| Component | Code | State | Operations |
|---|---|---|---|
| Type Source | `cilium/ebpf/btf`, loaded by `observerFindBTF`/`InitCachedBTF` (not in `src/`) | the type graph: immutable after load, may be cyclic through pointers | lookup by name, members with offsets, function parameters, pointer target |
| Hook Parameter Locator | `findBTFFuncParamFromHookWithSpec` (not in `src/`; callers in `pkg/btf/btf_test.go`) | none | locate, failing with HookNotFound, NotAFunction or ArgIndexOutOfRange |
| Type Normalizer | `ResolveNestedTypes` (not in `src/`) | none | unwrap typedef/const/volatile/restrict layers |
| Path Resolver | `ResolveBTFPath` (not in `src/`) | the caller's array, the step index, the current type | pad step, field step (pre-chasing pointers), failure, depth exceeded, finish |
| Path construction | `buildPathFromString`, `addPaddingOnNestedPtr`, `testPathIsAccessible` (`btf_test.go`) | the padded path | split, pad once per leading pointer, a depth check that only reports |
| Test reference resolver | `manuallyResolveBTFPath`, `findMemberInBTFStruct`, `getConfigAndNext*`, `resolveNestedPtr` (`btf_test.go`) | a local array | compute the array `testAssertEqualPath` expects |
| Descriptor Encoding | `api.ConfigBTFArg`, `api.MaxBTFArgDepth` (not in `src/`) | the fixed array | the kernel-side reading: add Offset, dereference when IsPointer |
| Binary regex filters | `pkg/filters/binary_regex.go` | compiled patterns captured by a closure | build (compiling every pattern), match a process, its parent or its ancestors |
| cgidmap pod hooks | `pkg/cgidmap/podhooks.go` | the shared cgroup-id map (`Map.Update`) | register, then add/update/delete handlers called by the pod informer; tombstones for missed deletions |
| Disabled policyfilter | `pkg/policyfilter/disabled.go` | none | every method returns a constant error or nil; `DelPolicy(NoFilterPolicyID)` succeeds |
| Label requirement deepcopy | `pkg/k8s/slim/k8s/apis/labels/zz_generated.deepcopy.go` | the copy and the heap arrays it may share | `DeepCopy`, `DeepCopyInto` |
| Sensor test harness | `pkg/testutils/sensors/testrun_linux.go` | the bpffs map directory `test<sensor>`, which outlives the process | configure, set up logging (may `log.Fatal`), set the map prefix and defer its removal, `InitCachedBTF`, `m.Run`, the deferred removal |
| Command reference | `pkg/cmdref/cmdref.go`, driving cobra's `doc.GenMarkdownTreeCustom` | the markdown directory, each command's `DisableAutoGenTag` | set the root's flag, walk the tree writing one page per shown command with `filePrepend`'s head and `linkHandler`'s links; `os.Exit(1)` on the first error |
| Others | `tracing_policy_types.go`, tests of code outside `src/` | — | type declarations |

### How the components interact

1. A test caller asks the Locator for a parameter and strips one pointer level
   from its type.
2. The caller builds the path. `buildPathFromString` pads the path with one
   `""` per remaining raw pointer level. `testPathIsAccessible` splits the
   path and normalizes the root instead.
3. The caller calls `ResolveBTFPath`. Each step normalizes the current type
   through the Normalizer. A step looks members up in the Type Source and
   writes one slot of the caller's array.
4. `testAssertEqualPath` compares that array with the one the test's own
   reference resolver computes.
5. Resolutions share only the immutable type graph. Spec section 5 says there
   is no concurrency to model. What is hard to test is the many shapes of the
   type graph and the path: anonymous and union members at non-zero offsets,
   typedef'd and qualified pointers, double pointers, cycles, paths at the
   depth bound, and the order of the member search.

The pod hooks are the only code here driven by events. The informer calls
them one notification at a time, in the order its store changed; when its
watch breaks it misses every change until the reflector lists again, and a
pod deleted meanwhile then arrives as a `DeletedFinalStateUnknown`
tombstone. The filters are built once per `tetragon.Filter` and applied to
every event. The test harness matters across processes: the bpffs directory
its tests pin maps into survives the process.

### What makes each component correct

- **Resolver.** On success, the kernel reader of the array computes exactly
  the address of the named field. That means every offset, including those
  inside anonymous aggregates, one dereference per pointer hop, and a read of
  a scalar leaf. Every failure is the right kind and names the offending
  segment. The initialized slots form a prefix. No slot lies past
  `MaxBTFArgDepth`.
- **Locator.** It returns the right error kind. On success it returns the
  declared type unchanged.
- **Test reference.** It must compute what the resolver computes, or
  `testAssertEqualPath` checks the wrong thing.
- **Filters.** A filter matches iff some selected process's binary matches
  some pattern. A nil process never matches. One bad pattern fails the whole
  build.
- **Pod hooks.** Once the handlers have caught up with the informer, the map
  holds exactly the containers of the pods the informer knows, including
  after a tombstone; and it converges to the API server's pods.
- **Deepcopy.** The copy shares no backing array with the original, and a
  nil slice stays nil while an empty one stays empty.
- **Test harness.** A run's tests do not see maps pinned by an earlier run.

## Modules

| Module | Models | State / actions |
|---|---|---|
| `BTFTypes` | Type Source, Normalizer (`ResolveNestedTypes`, RECURSIVE), Locator (`FindBTFFuncParamFromHook`) | constants `Types`, `BTF`, `NoType` |
| `BTFDescriptor` | `ConfigBTFArg`, the array and the kernel reader (`ReaderOps`), and the canonical address computation `AddrOps` | constant `MaxBTFArgDepth` |
| `BTFResolve` | one resolution as the tests drive it | variables `req, phase, root, path, i, cur, out, err, final`; actions `Locate`, `LocateFails`, `BuildPaddedPath`, `BuildSplitPath`, `PadStep`, `FieldStep`, `StepFails`, `DepthExceeded`, `Finish` |
| `BTFPathSpec` | the abstract promise | variables `req, res`. A single `Resolve` step yields the error, or the address computation plus the field type |
| `BTFReference` | the test's hand resolver (`manuallyResolveBTFPath` and helpers), run after the resolution as `testAssertEqualPath` runs it | variables `mpc, mst, margs, mk` (its outcome, current struct, `btfArgs`, loop index); actions `ManualStart`, `ManualPadding`, `ManualStruct`, `ManualLast`, `ManualDone`; the helpers (`findMemberInBTFStruct`, `getConfigAndNext*`, `resolveNestedPtr`) are operators |
| `MCBTFResolve`, `MCBTFReference` | model instances: a miniature kernel type graph and the request sets | — |
| `CgidmapPodHooks` | `registerPodCallbacks` and its three handlers, `updatePodHandler`, `deletePodHandler`; the API server and informer as environment | variables `api, running, changes, watch, drops, store, pending, registered, m`; environment `PodCreated`, `PodUpdated`, `PodDeleted`, `WatchBroken`, `Relist`; code `RegisterPodCallbacks`, `RegisterFails`, `AddFunc`, `UpdateFunc`, `DeleteFunc` |
| `BinaryRegexFilter` | the three `OnBuildFilter` methods, `filterByBinaryRegex` and its `FilterFunc` | variables `req, phase, fs, err, verdict`; actions one per builder, then `Match` |
| `LabelsDeepCopy` | `Requirement.DeepCopy` / `DeepCopyInto` over a heap of backing arrays | variables `heap, in, out, copied, snap, writes`; actions `DeepCopy`, `Write("in")`, `Write("out")` |
| `SensorTestRun` | `TestSensorsRun` over successive runs of one test package | variables `pc, debug, btf, dir, runs`; one action per step, `Cleanup` for the deferred removal, `Rerun` |
| `MCCgidmapPodHooks`, `MCBinaryRegexFilter`, `MCLabelsDeepCopy`, `MCCmdRef` | model instances | — |

**Pod hooks: code and environment.** Only the handlers and their
registration are code of this repository. The API server and client-go's
shared informer are modelled as client-go documents them: a store that
follows the watch while it is up, a watch that can break (every change made
while it is down is lost), a relist that replaces the store and notifies Add
or Update for every listed pod and a tombstone Delete for every known pod the
list lacks, and one listener handing notifications to the handlers in order.
The informer's DeltaFIFO is folded into the store. `cgidmap.Map` (outside
`src/`) is abstracted to pod -> set of container IDs, with `Update(id, nil)`
emptying the entry. `podhelpers.PodContainersIDs` is the pod's set of
container IDs. The type-assertion failure branches of the handlers cannot
happen with a pod informer and are left out.

**Filters: regular expressions.** A pattern is abstracted to whether
`regexp.Compile` accepts it and the set of binaries `MatchString` finds it
in; `MCBinaryRegexFilter` gives that table for the tests' patterns and
binaries (an unanchored search, `*` invalid, `""` found everywhere).
`CheckAncestorsEnabled` (outside `src/`) is a boolean of the request. The
builders are composed as `BuildFilterList` composes them: in order, first
error wins, and an event passes when every `FilterFunc` accepts it.

`ResolveBTFPath`, `ResolveNestedTypes`, `findBTFFuncParamFromHookWithSpec`
and `api.ConfigBTFArg` are not under `src/`. Their definitions follow
`spec.md` sections 3, 4.1, 4.2 and 4.3, and `PROJECT.json` marks them
`spec_modelled`. The callers and the reference resolver are translated from
`btf_test.go`.

**Reference as steps.** `testAssertEqualPath` runs the hand resolver after
`buildResolveBTFConfig`; `RefSpec` appends its loop to `Spec` as steps
(`Manual`), one per iteration of `manuallyResolveBTFPath`, and
`ReferenceAgrees` compares the two arrays once both are done.

**Command reference: cobra as environment.** cobra is not in this
repository and is modelled as its doc package behaves: children first,
skipping commands that are not available or are help topics, a page named
after the command path with spaces as `_` and `.md` appended, SEE ALSO
links to the parent and the shown children, and `DisableAutoGenTag` taken
from any ancestor (`VisitParents`) while a page is written. Names and links
are sequences of characters, because `linkHandler`'s rewriting
(`strings.Replace(s, ".md", ".html", 1)`, the community operator
`ReplaceFirstSubSeq`) is what the property is about. A page is reduced to
its head, its links and whether it carries the dated auto-generated line.

**Refinement.** `BTFResolve` instantiates
`BTFPathSpec WITH res <- Outcome`. `Outcome` is pending until the resolution
is done. After that it is either the error (kind, segment, type) or
`AddrOps(ReaderOps(out))`, the reader's reading of the array, together with
the returned type. The abstract side knows nothing of slots, flags or step
indices. It states where the field is: its own offset plus the offsets of the
anonymous struct or union around it, a dereference after each pointer member
and per leading pointer level, and a read at a scalar or pointer leaf.

## Runs

| Run | Config | Expect | Shows |
|---|---|---|---|
| `btf_resolve` | `MCBTFResolve.cfg` | pass | `TypeOK` and `ImplementsPathSpec` hold for 2523 requests, every action firing |
| `btf_reference_equal_path` | `MCBTFReference.cfg` | violation | on `testAssertEqualPath`'s own requests, the test's hand resolver puts offset 0 where the resolver puts 328 for `file.f_inode.i_dir_seq` |
| `btf_depth_partial_write` | `MCBTFDepth.cfg` | violation | an over-deep path passed on by `buildPathFromString` leaves all 5 slots written when `MaxDepthExceeded` is returned |
| `cgidmap_informer` | `MCCgidmapPodHooks.cfg` | pass | `AgreesWithStore`: whenever the handlers have drained their notifications, the cgidmap equals the informer's view, tombstones and stale old objects included; `Converges`: from registration on, the cgidmap eventually and for ever equals the API server's pods (618297 states) |
| `binary_regex_filter` | `MCBinaryRegexFilter.cfg` | pass | `FilterKeepsPromise`: build errors and verdicts agree with the declarative reading of the filter, for 56700 filter/event combinations |
| `labels_deepcopy` | `MCLabelsDeepCopy.cfg` | pass | `OriginalUntouched` and `NilnessPreserved` |
| `cmdref_docs` | `MCCmdRef.cfg` | pass | `GeneratedDocsConsistent`: for every choice of shown subcommands, when `GenMarkdown` returns every page has the do-not-edit head, no auto-generated line (the root's flag reaches children written before their parents), and SEE ALSO links that, after `linkHandler`, name rendered pages of the directory |
| `sensor_test_stale_maps` | `MCSensorTestRunStale.cfg` | violation | `FreshMapDir`: a run that dies inside `m.Run` leaves its pinned maps to the next run |

Every property of a passing run has a mutant in `PROJECT.json`: a plausible
bug in the mapped code (a dropped tombstone case, the old object taken for
the new, a shallow copy, a missing nil check, the parent taken for an ancestor, padding appended instead
of prepended...) under which TLC finds the property violated.

### Bounds and why they are enough

- **Type graph** (`MCBTFResolve`). It contains the structs the tests name,
  with their shapes:
  - `linux_binprm` to `file` to `path` to `dentry` to `qstr` to `name`;
  - `mm_struct` with its anonymous struct at offset 0;
  - `inode` with an anonymous union at offset 328;
  - `qstr` with an anonymous union;
  - `pgd_t`, a typedef'd struct behind a pointer;
  - `kuid_t`, a typedef'd struct held by value;
  - a const-qualified `char` pointee;
  - `struct cred **`;
  - a self-referential `task_struct`.
- **`MaxBTFArgDepth = 5`** (the real value is 10). This is the smallest depth
  that holds the test's longest path, `file.f_path.dentry.d_name.name`.
  Six-segment paths then reach the bound.
- **Paths.** Every path of one or two components over 17 names is included,
  plus the test paths, 5- and 6-component paths and an empty component. Each
  path goes through both callers, for four hook/argument pairs. Three failing
  locator requests complete the set.
- **Coverage.** Every kind of step is reached. That includes failure on a
  scalar, on a pointer and on a missing name, the depth bound, and the double
  pointer.

- **Pod hooks** (`MCCgidmapPodHooks`). Two pods with UUIDs and one whose UID
  does not parse, two containers, at most 4 API changes and one broken
  watch. That is enough for a pod to be created, change its containers and
  be deleted while the watch is down, with the other pod changing meanwhile,
  and for the relist to deliver both Updates and a tombstone.
- **Filters.** The tests' patterns in the field that uses them, plus a set
  but empty list, an invalid pattern alone and after a valid one and the
  empty pattern; events with any of four binaries or nil as process and
  parent and up to two ancestors; ancestors enabled or not.
- **Deepcopy.** A nil receiver, a nil slice, and slices of length 0, 1 and
  2, with up to 3 writes afterwards.
- **Command reference.** A root with two subcommands, one of them with a
  subcommand that has one of its own (three levels below the root), and
  every subset of the four shown. A page two levels below a shown command
  is written before its parent has the flag, and a name containing `md`
  puts an `md` before the `.md` suffix. No name has a dot, as none of
  tetragon's commands does.
- **Test harness.** Three runs: enough for a run to leak and the next to
  start among its maps.

### Fairness and deadlock

Resolution is sequential code that runs to completion, so `Spec` has weak
fairness on `Next`. A finished resolution has no successor, which is the
program's real end, so the configs set `CHECK_DEADLOCK FALSE`.

The pod-hooks model is fair only where client-go's code is: the reflector
retries its list forever after a broken watch (`WF_vars(Relist)`) and the
listener goroutine keeps handing notifications to the handlers
(`WF_vars(Hooks)`). The API server and the network owe nothing, so pod
changes and broken watches are unfair. With changes and broken watches
bounded, the system comes to rest, which is not a deadlock. The filter,
deepcopy, harness and cmdref models are sequential code that ends
(`CHECK_DEADLOCK FALSE`).

## Findings

1. **The test's reference resolver loses the offset of an anonymous union or
   struct.** See `btf_reference_equal_path`.
   - `findMemberInBTFStruct` returns the inner `btf.Member`, so its offset is
     relative to the inner aggregate. Spec §8 adds the enclosing offset.
   - `testAssertEqualPath` agrees with the spec only where the anonymous
     aggregate sits at offset 0 (`mm.arg_start`).
2. **Over-deep paths leave partial writes.** See `btf_depth_partial_write`.
   - `buildPathFromString` reports an over-deep path with `t.Errorf` and
     carries on.
   - Following spec §4.3, the resolver writes every slot before failing.
     Spec §8 promises no partial writes.

3. **A crashed sensor test run leaves its maps to the next run.** See
   `sensor_test_stale_maps`.
   - The directory `test<sensor>` is removed only by a function that
     `TestSensorsRun` defers.
   - A process that dies inside `m.Run` does not run it: a `go test`
     timeout panics from the alarm goroutine, and a test may call `log.Fatal`
     or `os.Exit`.
   - Nothing removes the directory before the tests, so the next run pins
     its maps beside the stale ones.

## Plan

1. **Done.** `BTFTypes`, `BTFDescriptor`, `BTFResolve`: the resolver and its
   callers, with `btf_resolve`.
2. **Done.** `BTFPathSpec` and the refinement property `ImplementsPathSpec`.
3. **Done.** `BTFReference` and the comparison of `testAssertEqualPath`.
4. **Done.** `BinaryRegexFilter`, checked against its declarative reading.
5. **Done.** `CgidmapPodHooks`: broken watches, relists and tombstones;
   agreement with the informer and convergence to the API server.
6. **Done.** `LabelsDeepCopy` and `SensorTestRun`.
7. Further BTF configurations.
   - A `struct cred *const *` parameter (padding counts raw pointers), if
     a hook of the kernel has one.
   - An empty path component through the reference.
   The reference's raw `*btf.Struct` assertion (`btf_test.go:353`) and its
   member-by-member search (`btf_test.go:280`) differ from the resolver
   only on paths `testAssertEqualPath` is never given, so they are listed
   as hazards, not checked against made-up graphs.
8. Pod hooks: the DeltaFIFO as a queue of its own between the watch and the
   store, and a relist while deltas are still queued.
9. **Done.** `CmdRef`: `GenMarkdown` over every shown subset of a
    three-level command tree, with create and write failures.

## Not modelled

- **BTF file discovery** (`observerFindBTF`, `InitCachedBTF`): file-system
  and environment lookups outside `src/`.
- **Disabled policyfilter** (`pkg/policyfilter/disabled.go`): a stateless
  stub whose every method returns a constant. A model would only restate
  those constants; the callers where the interplay lies are not in `src/`.
- **Hubble endpoint parser** (`pkg/oldhubble/parser/endpoint/endpoint.go`):
  a pure conversion of one Cilium endpoint model by `net.ParseIP`,
  `k8s.ParseNamespaceName` and `sort.Strings` (none in `src/`). Nothing under
  `src/` calls it, let alone from several goroutines (spec §5: no
  concurrency), so its in-place sort has no second user to race with, and a
  sequential model could only restate the conversion.
- **The sensor harness's cleanup on its own**: the deferred removal is in
  `SensorTestRun` and `FreshMapDir` shows the directory outliving a run that
  dies in `m.Run`; what the removal does when it runs (a `ReadDir` error
  only skips the logging, a `RemoveAll` error is dropped) has no property
  that would not restate the deferred function.
- **`cmdref` page text**: the synopsis, usage and flag sections cobra
  writes are left out; no property reads them. A failure's partly
  regenerated directory is left as the code leaves it: nothing promises an
  all-or-nothing regeneration, and the exit status reports it.
- **CRD types**: declarations only.
- **Tests of `crdutils`, `reader/node` and `reader/proc`**: the code they test
  is not in `src/`, and the spec places it out of scope.
