SPECIFICATION FairSpec
CONSTANTS
    blog = blog
    wiki = wiki
    Names = {blog}
    Versions = {1, 2, 3}
    ContentOf <- MCContentOf
    TreesOf <- MCAllTrees
    MaxFaults = 1
PROPERTIES
    AlwaysConverges
