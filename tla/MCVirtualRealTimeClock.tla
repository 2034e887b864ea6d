----------------------- MODULE MCVirtualRealTimeClock -----------------------
(* The clock with the build's frequency, on a counter of 30 bits: readings  *)
(* minutes and hours apart.                                                 *)
EXTENDS VirtualRealTimeClock

MCWidth == 2 ^ 30
MCGaps == {90 * PerformanceFreq, 4 * SecondsPerHour * PerformanceFreq}
=============================================================================
