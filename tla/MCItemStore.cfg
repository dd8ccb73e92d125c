CONSTANTS
    n1 = n1
    n2 = n2
    Names <- MCNames
    MaxPosts = 2
    MaxErrors = 1

SPECIFICATION Spec

SYMMETRY MCSymmetry

INVARIANT TypeOK
