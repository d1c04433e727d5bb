---------------------------- MODULE MCFsalUpdates ----------------------------
\* FsalUpdates with the values of MCValues.
EXTENDS FsalUpdates, MCValues
=============================================================================
