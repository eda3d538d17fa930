CONSTANTS
    Users = {u1}
    Operators = {"operator"}
    Kinds = {"interval"}
    Last = 2
    MaxRequests = 0
    Failures = {"crash"}
    Requests = {}
SPECIFICATION FairSpec
PROPERTY
    IntervalAdvances
