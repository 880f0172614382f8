SPECIFICATION FairSpec
CONSTANTS
    d1 = d1
    None = None
    Malformed = Malformed
    Absent = Absent
    Process = {1, 2}
    Days = {d1}
    MinVersion = 2
    MaxVersion = 3
    Environment = {"AtOnce", "Crash", "Failure"}
INVARIANTS TypeOK OneWindow WindowReachesItsServer KeepsChoices DaemonHasTheSession WorkerFollowsDaemon OnlyWholeReleases
CHECK_DEADLOCK FALSE
PROPERTIES AnnouncedOnce NewerIsAnnounced
