--------------------------- MODULE MCEventSyncClient ---------------------------
(* A client's emitter: listener fed by the snapshot server, an RPC node that *)
(* may lag, failed calls, a discarded and rebuilt emitter.                   *)
EXTENDS EventSync
=============================================================================
