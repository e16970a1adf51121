\* What the producers wrote, and what became of the files since, is any of a
\* stock; one of the bundles is rewritten while it is verified and read.
CONSTANTS
    NoStream = NoStream
    NoClass = NoClass
    Missing = Missing
    TooLarge = TooLarge
    Files = {1, 2, 3}
    EventFiles = {1, 2}
    Lines <- MCLines
    Ids = {1, 2, 3}
    Sources = {"x", "y"}
    StreamIds = {"x", "m"}
    Classes = {"self", "system"}
    Times = {1, 2, 3}
    Contents <- MCContents
    Disks <- MCDisks
    Damage <- MCDamage
    Rewrites <- MCRewrites
    Unsettled <- MCUnsettled
    Manifests <- MCManifests
SPECIFICATION FairSpec
INVARIANTS CleanIffProducerClean SettledReadsWhatWasVerified
PROPERTY Terminates
\* The run ends in a result or an abort.
CHECK_DEADLOCK FALSE
