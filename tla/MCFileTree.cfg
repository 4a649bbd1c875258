CONSTANTS
    Inodes = {i1, i2, i3, i4}
    Names <- MCNames
    Targets <- MCTargets
    Contents <- MCContents
    Handles = {h1, h2}
    None = None
    MaxDepth = 3
    MaxFollows = 2
    RecoverBatch = 1
SPECIFICATION Spec
SYMMETRY Symmetry
PROPERTY FilesSound
