---------------------------- MODULE SensorTestRun ----------------------------
(***************************************************************************)
(* TestSensorsRun of pkg/testutils/sensors/testrun_linux.go, the TestMain  *)
(* body of a sensor test package, over successive runs of that package on *)
(* one machine.  What persists between runs is the bpffs directory        *)
(* /sys/fs/bpf/test<sensor> into which the tests pin their maps.          *)
(*                                                                         *)
(* A run configures itself, may die in log.Fatal when debug logging       *)
(* cannot be set up, sets the map prefix and defers the removal of the    *)
(* directory, initialises the cached BTF (a failure is only printed),     *)
(* then runs the tests, which pin maps.  The tests may return, or the     *)
(* process may die inside m.Run (a test timeout panics from the testing   *)
(* package's alarm goroutine; a test calls os.Exit or log.Fatal), and     *)
(* then the deferred removal never runs.                                  *)
(***************************************************************************)
EXTENDS Integers

CONSTANT MaxRuns   \* bound on the runs of the test package

VARIABLES
  pc,        \* where the current run is: "config", "logging", "prefix",
             \* "btf", "run", "cleanup", "exited"
  debug,     \* the -debug flag of the current run
  btf,       \* whether InitCachedBTF succeeded
  dir,       \* the map directory: "absent", or "maps" when maps are pinned
  runs       \* runs started so far

vars == <<pc, debug, btf, dir, runs>>

Init ==
  /\ pc = "config"
  /\ debug \in BOOLEAN
  /\ btf = FALSE
  /\ dir = "absent"
  /\ runs = 1

\* ConfigDefaults, KeepCollection, SelfBinary, the flags and flag.Parse.
Configure ==
  /\ pc = "config"
  /\ pc' = "logging"
  /\ UNCHANGED <<debug, btf, dir, runs>>

\* With -debug, logger.SetupLogging; an error ends the process (log.Fatal)
\* before anything is deferred.  SetLogLevel for -trace changes nothing
\* modelled.
SetupLogging ==
  /\ pc = "logging"
  /\ \/ /\ debug
        /\ pc' \in {"prefix", "exited"}
     \/ /\ ~debug
        /\ pc' = "prefix"
  /\ UNCHANGED <<debug, btf, dir, runs>>

\* Mount the bpf and debug filesystems, raise the limits, set the map
\* prefix test<sensor> and defer the directory's removal.
SetMapPrefix ==
  /\ pc = "prefix"
  /\ pc' = "btf"
  /\ UNCHANGED <<debug, btf, dir, runs>>

\* btf.InitCachedBTF: a failure is printed and the tests run all the same.
InitCachedBTF ==
  /\ pc = "btf"
  /\ btf' \in BOOLEAN
  /\ pc' = "run"
  /\ UNCHANGED <<debug, dir, runs>>

\* m.Run: the tests may pin maps; they return, or the process dies without
\* running deferred functions.
MRun ==
  /\ pc = "run"
  /\ dir' \in {dir, "maps"}
  /\ pc' \in {"cleanup", "exited"}
  /\ UNCHANGED <<debug, btf, runs>>

\* The deferred removal: nothing to do when os.Stat finds no directory;
\* otherwise the leftover entries are listed (a ReadDir error is ignored)
\* and os.RemoveAll removes it, its error ignored too.
Cleanup ==
  /\ pc = "cleanup"
  /\ pc' = "exited"
  /\ \/ dir = "absent" /\ UNCHANGED dir
     \/ dir /= "absent" /\ dir' \in {"absent", dir}
  /\ UNCHANGED <<debug, btf, runs>>

\* The test package is run again, by hand or by CI on the same machine.
Rerun ==
  /\ pc = "exited"
  /\ runs < MaxRuns
  /\ runs' = runs + 1
  /\ pc' = "config"
  /\ debug' \in BOOLEAN
  /\ btf' = FALSE
  /\ UNCHANGED dir

Next ==
  \/ Configure \/ SetupLogging \/ SetMapPrefix \/ InitCachedBTF \/ MRun
  \/ Cleanup \/ Rerun

Spec == Init /\ [][Next]_vars /\ WF_vars(Next)

-----------------------------------------------------------------------------
(* Properties.                                                             *)

\* The comment before SetMapPrefix: the test map directory is not left
\* behind, so the tests of a run never see the maps an earlier run pinned.
FreshMapDir ==
  pc = "run" => dir = "absent"
=============================================================================
