SPECIFICATION Spec
CONSTANT MaxEdits = 2
INVARIANT OneFlowAtATime
