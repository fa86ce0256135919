SPECIFICATION Spec
CONSTANTS
    Fold <- MCFold
    Covers <- MCCovers
    Rank <- MCRank
    Ipv4 <- MCIpv4
    Ipv6 <- MCIpv6
    Objects <- MCObjects
    Texts <- MCTexts
    TxtFiles <- MCTxtFiles
    Protocols <- MCProtocols
INVARIANTS
    TypeOK
    ConfigUsable
    RowsAsWritten
    LineOrderIsInert
    SpellingIsInert
    CloakingAsWritten
\* Reading ends, with rows or with an exception.
CHECK_DEADLOCK FALSE
