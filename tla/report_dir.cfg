\* Two runs over one directory, signed in between; any may die.
CONSTANTS
    NoSignature = NoSignature
    Torn = Torn
    Renderings = {"md", "sarif"}
    Inputs <- MCInputs
    Roles = {"claimant", "assessor"}
    MaxRuns = 2
SPECIFICATION Spec
INVARIANTS ManifestMatches SignedIsLastReport SignaturesFollowClaim ReportValidates
