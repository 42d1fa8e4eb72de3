---------------------------- MODULE MCEventTable ----------------------------
EXTENDS EventTable
=============================================================================
