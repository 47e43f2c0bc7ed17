CONSTANT MaxHandles = 2
SPECIFICATION Spec
PROPERTY TimeoutExits
