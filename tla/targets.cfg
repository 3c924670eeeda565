CONSTANTS
    a = a
    b = b
    c = c
    u = u
    v = v
    y = y
    z = z
    Addrs = {a, b, c}
    Parts = {i, j}
    Shapes = {u, v}
    Depths = {y, z}
    Settings <- MCSettings
    Textures <- MCTextures
    Copies <- MCCopies
    MAX_TGT = 2
    MAX_DEP = 1
    MAX_BATCH = 2
    None = None
SPECIFICATION Spec
SYMMETRY Symmetric
INVARIANTS ValidIsNewest NewestKept CopiesAreCurrent PendingCanBeDrawn ReadersSeeNewest

