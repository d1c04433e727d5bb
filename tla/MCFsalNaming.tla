---------------------------- MODULE MCFsalNaming ----------------------------
\* FsalNaming with the values of MCValues.
EXTENDS FsalNaming, MCValues
=============================================================================
