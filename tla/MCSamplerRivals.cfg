CONSTANTS
    owner = owner
    reader = reader
    rival = rival
    t1 = t1
    t2 = t2
    NoThread = NoThread
    Zero = Zero
    Clients = {owner, rival}
    Tids = {t1, t2}
    Capacity = 2
    Windows = {1}
    TickMod = 4
    MaxLag = 3
    ClientMay <- TwoControllers
    CallbackMay = {"stop"}
SPECIFICATION Spec
INVARIANTS OneSamplerUnlessRaced NoUseAfterFreeUnlessRaced
