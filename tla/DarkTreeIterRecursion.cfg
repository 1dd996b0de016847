CONSTANT MaxNodes = 4
SPECIFICATION Spec
INVARIANT NextIsIterative
