SPECIFICATION Spec
CONSTANTS
    Buyers = {b1}
    Suppliers = {s1}
    Senders = {b1}
    Watchers = {b1}
    MaxMessages = 2
    Requests = {q1, q2}
INVARIANT EventsTellTheStore
PROPERTY ReadIsLostToStaleAcknowledgement
PROPERTY EveryRequestEnds
PROPERTY VanishedGoesOffline
