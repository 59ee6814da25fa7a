CONSTANTS
    A = A
    B = B
    C = C
    D = D
    Id = {A, B, C, D}
    Module <- ModulesBack
    Bundles <- BundlesBack
    None = None
SPECIFICATION Spec
INVARIANTS StoreSound CacheSound StoredLoads
