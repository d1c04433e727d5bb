---------------------------- MODULE MCFsalHandle ----------------------------
\* FsalHandle with the values of MCValues.
EXTENDS FsalHandle, MCValues
=============================================================================
