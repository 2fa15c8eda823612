SPECIFICATION FairSpec
CONSTANTS DWORD = 16
          NTP_TIMESTAMP_DELTA = 11
          EPOCH = 20
          MSEC = 2
          SEC = 4
          ServerTimes <- MCServerTimes
          LocalTimes <- MCLocalTimes
INVARIANTS OneOperation DifferenceIsTrue
PROPERTY RunEnds
CHECK_DEADLOCK FALSE
