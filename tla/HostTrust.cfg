SPECIFICATION HostTrustSpec
CONSTANTS
    Certs = {A, B}
    Observers = {poll}
    MaxRotations = 1
    MaxGames = 0
    MaxQuits = 0
PROPERTIES CertChangeIsNoticed
CHECK_DEADLOCK FALSE
