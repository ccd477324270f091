SPECIFICATION FairSpec
CONSTANTS
    Cert <- MCCert
    CommonName <- MCCommonName
    Jobs <- MCJobs
    MaxEntries = 3
    MaxReadSize = 4
    MaxHops = 3
    MaxRuns = 2
INVARIANT TypeOK
INVARIANT NeverTorn
INVARIANT DoneSurvives
INVARIANT LinksKept
INVARIANT StaysReadable
INVARIANT NoLitter
INVARIANT Idempotent
INVARIANT ResolvesLikeKernel
PROPERTY ImplementsTrustFile
PROPERTY GoesOn
PROPERTY UpdateEnds
