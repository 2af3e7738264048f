SPECIFICATION FairDeliverySpec
CONSTANTS
    p1 = p1
    p2 = p2
    Peer = {p1, p2}
    Genesis = 0
    Block <- MCBlock
    Parent <- MCParent
    Justify <- MCJustify
    Knows <- MCKnows
    Own = {2}
    Flushable = {1}
    MaxReceived = 3
    Sender = {p1, p2}
    Payload <- MCPayload
    Budgets <- MCBudgets
INVARIANTS
    TypeOK
    Conserved
    PredecessorsStored
    AlwaysAsked
    AskInv
    InOrder
    ClientInv
PROPERTY
    AllHanded
CHECK_DEADLOCK FALSE
