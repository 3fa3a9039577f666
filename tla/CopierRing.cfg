SPECIFICATION Spec
CHECK_DEADLOCK FALSE
CONSTANTS
    Producers = {p1, p2}
    Tasks = {t1, t2}
    NoTask = NoTask
    NoProducer = NoProducer
    QueueLen = 3
    MaxBacklog = 2
    MaxPosts = 5
INVARIANTS TypeOK ExactlyOnceInOrder DrainMeansDone
PROPERTIES PendingEntryStable FifoSpec
