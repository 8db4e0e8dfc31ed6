\* Both interpreters, a queue of two, a stream, a task that honours cancellation and a
\* stubborn one, both of an interrupted wait, a cancellation of the run and two of its cleanup.
SPECIFICATION FairSpec
CONSTANTS
    Interpreters = {TRUE, FALSE}
    MaxSize = 2
    NStreams = 1
    Tasks = {"wait", "stuck"}
    WaitTasks = {"wait", "stuck"}
    Stubborn = {"stuck"}
    MaxOffers = 2
    MaxCancels = 2
INVARIANTS
    TypeOK
    ObservedInOrder
    ReportIsHonest
    NothingLeftBehind
    CancelSurvives
PROPERTIES
    CleanupEnds
CHECK_DEADLOCK FALSE
