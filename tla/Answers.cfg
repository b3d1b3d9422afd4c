SPECIFICATION Spec
CONSTANTS
    Peers = {r1, r2, r3}
    Timeout = 5
    PollInterval = 2
    Probers = {p1, p2}
    ReadyTimeout = 2
    PingTimeout = 2
    Heartbeat = 5
    Gets = {g1, g2}
    Numerals <- MCNumerals
    Atoi <- MCAtoi
    NaN = NaN
    Queries <- MCQueries
    MaxFaults = 2
INVARIANTS TypeOK EndsWithinTwoTimeouts NoticedWithinAPause WaitersGenerateLast AnsweredInTime FewLeftBehind ServedAsAsked OneRowPerResize
PROPERTIES EveryProbeEnds LeftoversEnd
CHECK_DEADLOCK FALSE
