\* One producer and two consumers on one queue.
SPECIFICATION Spec
CONSTANTS
  Capacity = 3
  MaxTasks = 7
  Producer = main
  Consumers = {c1, c2}
INVARIANTS TypeOK Fifo NoMissedWakeup StopsOnlyWhenDrained
PROPERTIES FinishReturns ImplementsStream
