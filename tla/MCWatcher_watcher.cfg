SPECIFICATION MCSpec
CONSTANTS
    c1 = c1
    NoFile = NoFile
    Name = {1, 2}
    Offers <- MCOffers
    Legacy <- MCLegacy
    Client = {c1}
    MaxRows = 2
    File <- MCFile
    NameOf <- MCNameOf
    Loads <- MCLoads
    Dir = {"in", "out"}
    Faulty = {"out"}
    Path <- MCPath
    Kind = {"created", "modified"}
    Debounce = 1
    MaxEvents = 2
    MaxTime = 1
    MaxFaults = 1
INVARIANTS
    TypeOK
    Debounced
    DropsOnlyBursts
    PoolIsCurrent
    FiresWhatIsRegistered
PROPERTIES
    FiresAreThrottled
    EnabledIsObserved
    EventsEnd
    StopsWhenAsked
