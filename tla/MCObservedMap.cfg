SPECIFICATION MapSpec
CONSTANTS
    Maps <- MCMaps
    Drawn <- MCDrawn
    MapsReturn = FALSE
    Requests = {r1, r2}
    MaxFailures = 2
INVARIANTS MapTypeOK PartialIsRetried TornIsReplaced
PROPERTY MapCatchesUp
