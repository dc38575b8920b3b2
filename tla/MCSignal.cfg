SPECIFICATION SignalFairSpec
CONSTANTS
    t1 = t1
    t2 = t2
    t3 = t3
    Senders = {t1, t2, t3}
    MaxSends = 5
INVARIANTS Coalesces WakeOwed
PROPERTY EverySendServed
