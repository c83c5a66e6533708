SPECIFICATION Spec
CONSTANTS
    Content = {"c1"}
    MaxBacklog = 2
    QueueLimit = 1
    MaxAdds = 2
    MaxRequests = 3
    MaxNotices = 1
INVARIANTS
    TypeOK
    AnswersPairUp
    PendingAnswersToCome
    AlertsNameTheirTorrent
    BacklogIsNewest
PROPERTIES
    IdsNeverReused
CHECK_DEADLOCK FALSE
