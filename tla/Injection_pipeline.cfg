SPECIFICATION FairSpec
CONSTANTS
    jdk = jdk
    jre = jre
    None = None
    Cacerts = {jdk, jre}
    MaxIOErrors = 2
INVARIANT TypeOK
INVARIANT RootsKept
INVARIANT ExportedTrusted
INVARIANT FallbackCovers
PROPERTY CommandRuns
CHECK_DEADLOCK FALSE
