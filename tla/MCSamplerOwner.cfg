CONSTANTS
    owner = owner
    reader = reader
    rival = rival
    t1 = t1
    t2 = t2
    NoThread = NoThread
    Zero = Zero
    Clients = {owner, reader}
    Tids = {t1, t2}
    Capacity = 2
    Windows = {1, 2}
    TickMod = 4
    MaxLag = 3
    ClientMay <- OneController
    CallbackMay = {"get", "subscribe"}
SPECIFICATION FairSpec
INVARIANTS TypeOK NoUseAfterFree OneSampler FlagTellsTheTruth NotifiedSampleIsLatest
PROPERTIES ReadersSeeTheWindow CallsReturn SamplingContinues
