SPECIFICATION Spec
CONSTANTS
    o1 = o1
    o2 = o2
    o3 = o3
    u1 = u1
    t1 = t1
    t2 = t2
    Users = {u1}
    Orders = {o1, o2, o3}
    Buyer <- OneBuyer
    Provider <- ByHand
    AmountCents <- Cents
    Trades = {t1}
    NoTrade = NoTrade
    CallbackAmounts = {1, 2}
    MaxCharges = 1
    ChargeCents = 1
INVARIANTS StatusMatchesLedger TradePaysOnce AckedIsCredited
PROPERTY ImplementsWallet
