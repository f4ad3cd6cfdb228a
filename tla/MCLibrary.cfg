\* The allocator cuts pages of 5 bytes; a number has 4 bytes of 2 bits, an int of
\* the exercises 4 bits, a halfword 2 bits.  The low bits of the timer hold the time
\* up to 15; the clock goes on to 34.
SPECIFICATION MCSpec
CONSTANTS
    PageSize = 5
    Sizes = {0, 1, 2, 3, 5, 6}
    Pages = 3
    MaxCalls = 6
    PT_LOAD = 1
    OtherTypes = {4, 6}
    Addresses = {5, 7}
    MaxHeaders = 3
    Digits = 2
    IntBytes = 2
    NUL = "NUL"
    Letters = {"x", "y"}
    MaxTokens = 2
    Half = 4
    MaxN = 12
    Bits = 2
    Side = 2
    Elements <- MCElements
    Period = 4
    MaskLow = 15
    MaskHigh = 127
    BootTimes <- MCBootTimes
    MaxTime = 34
    Handler = 2
INVARIANTS
    RegionsApart
    ResultsRight
    TimerSafe
    NextTickSoon
PROPERTIES
    ClearIsDone
    EcallServed
