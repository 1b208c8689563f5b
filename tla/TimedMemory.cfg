SPECIFICATION FairSpec
CONSTANTS
    Conversations = {a, b}
    Writers = {w1, w2}
    Ttl = 3
    Interval = 2
    NoStamp = NoStamp
    NoConversation = NoConversation
INVARIANTS
    TypeOK
    EvictedInTime
    StoredIsStamped
PROPERTIES
    OnlyInactiveDeletedUnlessRaced
    InactiveEvicted
