CONSTANTS
    N = 8
    Target = 3
SPECIFICATION Spec
INVARIANT DegreeFollowsTarget
