SPECIFICATION FairSpec
CONSTANTS
    thread_num = 3
    QUEUE_SIZE = 2
    MaxTasks = 4
    MaxSpurious = 1
INVARIANTS
    TypeOK
    QueueInv
    WorkConserving
    ProducerWoken
    PoolInv
PROPERTIES
    ImplementsTaskPool
    PoolLive
