--------------------------- MODULE MCEventSyncServer ---------------------------
(* The server's emitter: polling delegate, reorganisations of the chain,    *)
(* persisted snapshots, failed calls and restarts.                          *)
EXTENDS EventSync
=============================================================================
