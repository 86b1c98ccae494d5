SPECIFICATION Spec
CONSTANT NumKeys = 4
INVARIANT NoKeySkipped
