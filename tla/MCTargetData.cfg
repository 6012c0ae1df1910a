SPECIFICATION Spec
CONSTANTS
    Captures = {c1, c2, c3}
    Scopes = {s1, s2}
    Providers <- ProviderNames
    SourceIds = {i1, i2}
    MaximumCount = 2
    MaximumBytes = 3
    Sizes = {1, 2, 4}
    NoCapture = NoCapture
    NodeIds = {1, 2, 3, 4}
    MaxDepth = 3
    MaxNodes = 4
    BuilderPlatforms = {"ios", "android"}
    Capabilities = {r, a}
    Versions = {v1, v2}
    Digests = {d1, d2}
    Forms = {f1, f2}
    Absent = Absent
    NoDocument = NoDocument
CHECK_DEADLOCK FALSE
INVARIANTS StoreExact GraphExact CatalogSound
PROPERTY CapturesEnd
