\* Three listeners, one of which may throw, three updates.
SPECIFICATION FairListenersSpec
CONSTANTS
    Subscriptions = {l1, l2, l3}
    Throwing = {l1}
    MaxUpdates = 3
    None = None
PROPERTIES
    HearsEachUpdateOnce
    NotificationTells
    NotificationEnds
