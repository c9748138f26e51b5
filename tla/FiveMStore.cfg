\* Two resources of one name, one inside the other.
SPECIFICATION StoreSpec
CONSTANTS
    r1 = r1  r2 = r2
    n1 = n1  alias = alias
    fx1 = fx1  legacy1 = legacy1  fx2 = fx2
    s1 = s1
    cl = cl  sv = sv
    Blank = Blank
    NoBody = NoBody
    NotCached = NotCached
    NoNode = NoNode
    NoRoot = NoRoot
    Bodies <- TwoBodies
    Provides <- OneGives
    EnvOf <- MCEnvOf
    Roots <- TwoRoots
    Names <- NameAndAlias
    NameOf <- OneNameOf
    Length <- Nested
    Rank <- Nested
    Above <- NestedAbove
    Manifests <- ThreeManifests
    RootOf <- RootOfThree
    KindOf <- KindOfThree
    Scripts <- OneScript
    ScriptRoots <- OuterScript
    Prefixed <- OuterPrefix
CONSTRAINT Apart
INVARIANTS
    CachedProfileCurrent
    ActiveManifestCurrent
    AliasesExact
    ResolveSound
PROPERTIES
    ReindexRestoresGraph
    ImplementsGraph
