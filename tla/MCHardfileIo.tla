---------------------------- MODULE MCHardfileIo ----------------------------
EXTENDS HardfileIo
=============================================================================
