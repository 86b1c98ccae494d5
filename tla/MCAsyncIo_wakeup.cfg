SPECIFICATION IoFairSpec
CONSTANTS
    IoThreads = {1}
    Cleaner = Cleaner
    Nil = Nil
    Requests = {1, 2}
    kernel_queue_size = 1
PROPERTY RequestsComplete
CHECK_DEADLOCK FALSE
