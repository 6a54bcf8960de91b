SPECIFICATION Spec
CONSTANT Subjects = {"draft", "window", "table", "jobs", "host", "store", "library", "flow", "child", "agent", "frozen", "shipped"}
INVARIANTS TypesOK DraftsAgree RequestIsWhole RecordCoversMemory LateForAReason FailuresAreContained RevisionsAreKept ChoicesSurvive ResumesAsOneRun OnlyApprovedPasses ScriptRunsAlone IterationsAreCounted NothingLeftOut
PROPERTIES ResultsReachModel NobodySkipped SeenIsKept CompletedIsNotRedone RunsAsFrozen
CHECK_DEADLOCK FALSE
