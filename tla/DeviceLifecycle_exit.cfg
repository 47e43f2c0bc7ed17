CONSTANT MaxHandles = 2
SPECIFICATION SafeSpec
INVARIANT PublisherAlive
