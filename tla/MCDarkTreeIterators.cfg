CONSTANT MaxNodes = 6
SPECIFICATION Spec
INVARIANT IterTypeOK
INVARIANT IterMutTypeOK
INVARIANT IntoIterTypeOK
INVARIANT UnwrapNeverPanics
PROPERTY IterAbsSpec
PROPERTY IterMutAbsSpec
PROPERTY IntoIterAbsSpec
