SPECIFICATION Spec
CONSTANT Subjects = {"flow"}
INVARIANTS ReworkIsLookedAt
CHECK_DEADLOCK FALSE
