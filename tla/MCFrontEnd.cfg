SPECIFICATION Spec
CONSTANT Projects <- MCProjects
INVARIANTS
    ParsesBack
    
    NamesKeepTheirMeaning
    MadeUpNamesOnce
    LoopsOnlyOnCycles
    
    ChannelsCarryOneType
    
    MovedOnce
    DropsWhatIsLeft
    BlocksTerminate
    SlotsDominate
    NamesHaveSlots
    EntryIsMain
CHECK_DEADLOCK FALSE
