\* A pool of two and an early restart of two; one of two reports is broken.
CONSTANTS
    Thread = {t1, t2, t3, t4}
    Main = Main
    Report = {m1, m2}
    Broken = {m2}
    PoolSize = 2
SPECIFICATION FairSpec
INVARIANTS
    TypeOK
    PoolBound
PROPERTIES
    QueueSpec
    
    
\* The workers may all have ended.
CHECK_DEADLOCK FALSE
