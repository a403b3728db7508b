\* Seven reports, three on one city and four on the other, for two subscribers.
SPECIFICATION FairSpec
CONSTANTS
    suber_0 = suber_0
    suber_1 = suber_1
    Subers = {suber_0, suber_1}
    topicOf <- Topics
    CONST_100 = 7
INVARIANTS
    TypeOK
    NoGaps
    NameEnds
PROPERTIES
    JoinedGetReports
