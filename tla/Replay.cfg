SPECIFICATION Spec
CONSTANTS
    alice = alice
    m1 = m1
    m2 = m2
    m3 = m3
    Messages <- MCMessages
    Peers = {alice}
    Sender <- MCSender
    Stamp <- MCStamp
    MaxAge = 1
    MaxCount = 2
    MaxTime = 3
INVARIANTS
    TypeOK
    AcceptedOnce
    RecentRemembered
