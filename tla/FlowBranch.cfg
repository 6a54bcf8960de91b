SPECIFICATION Spec
CONSTANT Subjects = {"branch"}
INVARIANTS NothingLeftOut
CHECK_DEADLOCK FALSE
