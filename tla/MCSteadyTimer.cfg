SPECIFICATION FairTimerSpec
INVARIANTS OneChain StoppedIsQuiet RunningIsAlive
PROPERTY StopEnds
