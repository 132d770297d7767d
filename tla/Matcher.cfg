\* Three threads, three traces that overlap, any of them may panic.
SPECIFICATION FairSpec
CONSTANTS
    t1 = t1  t2 = t2  t3 = t3
    Traces <- MCTraces
    Covers <- MCCovers
    LineTables <- MCLineTables
    Threads = {w1, w2, w3}
    Addrs = {1, 2, 3, 4}
    Nobody = Nobody
INVARIANTS TypeOK TracesPartitioned ReportExact
PROPERTIES Reports UnionImplemented
