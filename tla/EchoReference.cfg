SPECIFICATION Spec
CONSTANTS
    Rx = {r1, r2, r3}
    Tx = {t1, t2, t3}
    RxDevices = {spk, hp}
    Unguarded = {}
    MaxFails = 1
SYMMETRY Alike
INVARIANTS
    TypeOK
    MapMatchesSession
    PlaybackCancelled
