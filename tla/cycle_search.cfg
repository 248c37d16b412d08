CONSTANT Vertices = {"a", "b", "c"}
SPECIFICATION SearchSpec
INVARIANT Correct
CHECK_DEADLOCK FALSE
