CONSTANT MaxRuns = 3
SPECIFICATION Spec
INVARIANT FreshMapDir
\* The test package is run MaxRuns times and then no more.
CHECK_DEADLOCK FALSE
