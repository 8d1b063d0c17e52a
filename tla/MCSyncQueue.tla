---------------------------- MODULE MCSyncQueue ----------------------------
(* Small instances of SyncQueue.                                           *)
EXTENDS SyncQueue
=============================================================================
