\* Documents edited, forgotten and re-profiled while manifests are registered.
SPECIFICATION Spec
CONSTANTS
    d1 = d1  d2 = d2  lib = lib
    r1 = r1  r2 = r2  r3 = r3
    n1 = n1  n2 = n2  n3 = n3
    kx = kx  kf = kf
    Nil = Nil
    Docs = {d1, d2, lib}
    LibDocs = {lib}
    Roots = {r1, r2, r3}
    Names = {n1, n2, n3}
    NameOf <- NameOfRoot
    Sides <- AllSides
    Texts <- AllTexts
    Keys = {kx, kf}
    Types = {"C"}
    Homes <- AllHomes
    ManifestDeps <- AllDeps
    MaxMemory = 3
    UriOrder <- AllUris
CONSTRAINT Apart
INVARIANTS IndexCurrent AccountExact DependenciesFirst
