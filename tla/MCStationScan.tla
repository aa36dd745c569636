---------------------------- MODULE MCStationScan ----------------------------
EXTENDS StationScanProps

CONSTANTS m1, m2, r1
=============================================================================
