SPECIFICATION FairSpec
CONSTANTS
    blog = blog
    wiki = wiki
    Names = {blog, wiki}
    Versions = {1, 2, 3}
    ContentOf <- MCContentOf
    TreesOf <- MCTrees
    MaxFaults = 1
INVARIANTS
    CacheIsTrue
    ChangesAreSeen
    OwnedIsTracked
PROPERTIES
    NeverTakenDown
    Converges
