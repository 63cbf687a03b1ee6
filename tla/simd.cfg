\* The lanes of the code.
\* Fingerprints: the lengths of the tests and those next to one and two words;
\* less and more packets than contents, and the double, where they cancel.
\* H.264: aggregates below, at and above one, two and three full sets of lanes,
\* those of the test among them; the IDR is in the middle, so in the first lane
\* (32), the last (30, 31) and a lane that stays (4, 15).
\* VP8: 20 and 42 payloads fill the lanes exactly once and twice, one more or
\* less leaves some over; 129 is the payload count of the test.
CONSTANTS
    LaneCount     = 16
    PacketCounts  = {0, 1, 5, 8, 9}
    PacketLengths = {0, 1, 7, 8, 9, 15, 16, 17, 23, 24, 64, 1200}
    MixCycles     = {1, 2}
    BytePeriod    = 4
    Padding       = Padding
    PayloadCount  = 8
    NalCounts     = {0, 1, 4, 15, 16, 17, 30, 31, 32, 33, 48, 64}
    PayloadCounts = {0, 1, 16, 20, 21, 22, 42, 129}
SPECIFICATION Spec
INVARIANTS
    WordsExact
    ValueExact
    LanesExact
    DetectedExact
    NoneLost
