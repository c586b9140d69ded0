CONSTANTS
    Names = {"svc"}
    Protos = {"tcp", "http", "pty", "udp"}
    PortNums = {1024, 2000, 3000}
    Junk = Junk
    NonStr = NonStr
    MaxSegments = 3
    MaxLen = 3
    MaxValueLen = 2
INIT Init
NEXT Next
INVARIANT ParseMatchesReference
INVARIANT ReplyMatchesReference
INVARIANT PidMatchesReference
