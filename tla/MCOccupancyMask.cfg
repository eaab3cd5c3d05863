SPECIFICATION MaskSpec
CONSTANTS
    MaxWord = 3
    Sizes <- MCSizes
    Sent <- MCSent
    MaxRuns = 2
INVARIANTS MaskTypeOK ViewerDrawsTheRuns SidecarDrawsTheRuns DecodersAgree
