SPECIFICATION Spec
CONSTANTS
    r1 = r1
    Groups = {r1}
    SegmentRecords = 2
    Scenarios <- MCScenarios
INVARIANTS
    AcknowledgedRaftStateSurvives
    ReportedCommitsSurvive
    RestartAcceptsWhatWasWritten
CHECK_DEADLOCK FALSE
