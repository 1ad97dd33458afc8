SPECIFICATION Spec
CONSTANTS
    ManifestPaths <- MCManifestPaths
    Objects = {"a", "b", "c", "installer"}
INVARIANTS PointersAgree OneMcsPair OverridesAgree PathsAreUnique
