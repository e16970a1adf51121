\* Two runs of a tool over one directory, two changes to the repository.
CONSTANTS
    Torn = Torn
    NoSignature = NoSignature
    Engines <- MCEngines
    Python = "python"
    CatalogOrder <- MCCatalogOrder
    EuAiAct = "eu-ai-act"
    ProfileSets <- MCProfileSets
    MaxChanges = 2
    MaxRuns = 2
    MaxRemoved = 2
SPECIFICATION Spec
INVARIANTS ReproducibleIsASnapshot VerifiedReleaseIsOneRuns AcceptedBundleIsWhole
\* The runs are bounded.
CHECK_DEADLOCK FALSE
