\* The retries of the code and three losses of an established connection.
SPECIFICATION FairSpec
CONSTANTS
    connection_max_retry = 5
    MaxLosses = 3
INVARIANTS
    TypeOK
    GivesUpAfterRetries
PROPERTIES
    MainGoesOn
