SPECIFICATION Spec
CONSTANT Names = {a, b, c, d}
SYMMETRY Symmetry
INVARIANTS TypeOK DepsFirst DependentsFirst SortCorrect
