----------------------------- MODULE MCColdBackup -----------------------------
EXTENDS ColdBackup

\* The order of application-recovery.py, with one resource of each kind that
\* the script or its surroundings treat in their own way.
MCUnits == {"timer", "watcher", "proxy", "vm"}
MCContainers == {"gateway"}
MCStopOrder == <<"timer", "watcher", "proxy", "vm", "gateway">>
MCFirst == <<"gateway">>
=============================================================================
