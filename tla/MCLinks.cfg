CONSTANTS
    Nil = Nil
    Req = {r1, r2, r3}
    QueueCap = 2
    MaxErrors = 2
    MaxAttempts = 1
    MaxPanic = 1
    Caller = {c1, c2}
    MaxWorker = 3
SPECIFICATION MCSpec
INVARIANTS ReadyMeansServing InSyncUnlessLapsed OneSession DisconnectHolds
PROPERTIES NoSurprise RadioServes Recovers
