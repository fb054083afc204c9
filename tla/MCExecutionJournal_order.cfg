\* Every journal of up to four entries, with verdicts and markers anywhere.
SPECIFICATION JournalSpec
CONSTANT MaxEntries = 4
INVARIANTS
    ResidueIsNeverLost
    DoubtIsNeverSettled
    CleanIsProvedAtTheVerdict
