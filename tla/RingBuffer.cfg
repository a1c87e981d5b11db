SPECIFICATION FairSpec
CONSTANTS
    Writers = {w1, w2}
    Readers = {r1}
    Messages <- SmallMessages
    RbfSz = 8
    HeadFrac = 2
    MaxSends = 4
INVARIANTS TypeOK NoOverwrite InOrder FooterAssertion
PROPERTIES PendingIsSent ImplementsChannel
CHECK_DEADLOCK FALSE
