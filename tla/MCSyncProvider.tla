---------------------------- MODULE MCSyncProvider ----------------------------
\* Small instances of SyncProvider.
EXTENDS SyncProvider
===============================================================================
