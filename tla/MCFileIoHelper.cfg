SPECIFICATION Spec
CONSTANTS Handles <- MCHandles
          Sizes <- MCSizes
          Ranges <- MCRanges
          DWORD = 8
          Page = 2
          AllocationGranularity = 4
          BlockFactor = 1
INVARIANTS NothingIsLost ViewsHoldWhatWasAsked HashedWhole
CHECK_DEADLOCK FALSE
