--------------------------- MODULE MCOutboxWorker ---------------------------
(* A small instance of OutboxWorker for TLC. *)
EXTENDS OutboxWorker

Rows2 == 1..2
=============================================================================
