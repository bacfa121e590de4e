CONSTANTS
    k1 = k1
    k2 = k2
    t1 = t1
    t2 = t2
    t3 = t3
    a = a
    Keys = {k1, k2}
    Txns = {t1, t2}
    PutValues = {a}
    Plans <- MCPlans
    Width = 2
    MaxTs = 5
    Redeliver = FALSE
    NoIntent = NoIntent
    NoValue = NoValue
    Tomb = Tomb
    Invalid = Invalid
SPECIFICATION Spec
INVARIANTS
    TypeOK
    SerialHistory
    CommittedDurable
PROPERTIES
    Quiescence
