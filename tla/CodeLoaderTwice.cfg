CONSTANTS
    A = A
    B = B
    C = C
    D = D
    Id = {A, B, C, D}
    Module <- ModulesTwice
    Bundles <- BundlesTwice
    None = None
SPECIFICATION Spec
INVARIANT StoreLinks
