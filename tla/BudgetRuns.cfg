\* Two processes on one bucket, of which one token takes two ticks.
SPECIFICATION FairSpec
CONSTANTS
    NoProc = NoProc
    Procs = {p1, p2}
    Seats = {s1, s2}
    Cap = 2
    Fill = 2
    Lease = 2
    Sizes = {1}
    MaxAsks = 4
    MaxSpan = 2
INVARIANT SpendBacked
PROPERTIES ImplementsBucket Served
