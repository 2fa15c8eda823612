---------------------------- MODULE MCNTPClient -----------------------------
\* 4-bit words, four milliseconds to a second: server times on both sides of
\* the wrap of the NTP clock, local times before and after each of them.
EXTENDS NTPClient
MCServerTimes == 0 .. 9
MCLocalTimes == 12 .. 60
=============================================================================
