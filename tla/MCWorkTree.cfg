SPECIFICATION Spec
CONSTANTS
  Jobs = {j1, j2}
  MaxCommits = 2
SYMMETRY JobSymmetry
INVARIANTS ChatPublished TaskPublished
