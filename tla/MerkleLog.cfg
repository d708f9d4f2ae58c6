SPECIFICATION Spec
CONSTANT MaxLeaves = 33
INVARIANTS FrontierRootIsMth ProofAcceptedIffCurrent
