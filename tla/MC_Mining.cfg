SPECIFICATION FairSpec
CONSTANTS
    Txs <- Names
    NoTx = "none"
    MaxVisits = 8
    MaxSlot = 2
    MaxBlockSize = 4
    Starts <- Situations
CHECK_DEADLOCK FALSE
INVARIANT PrimaryPays
INVARIANT SecondaryDataCurrent
 
INVARIANT JournalMatchesPool
INVARIANT TemplateValid
PROPERTY TemplateCatchesUp
