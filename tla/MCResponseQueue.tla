-------------------------- MODULE MCResponseQueue --------------------------
(***************************************************************************)
(* Small instances of ResponseQueue for TLC: Gated rows are block_ip rows, *)
(* Monitors monitor rows, Adapted rows run through the executor.           *)
(***************************************************************************)
EXTENDS ResponseQueue, TLC

\* Workers are interchangeable.
WorkerSymmetry == Permutations(Workers)
=============================================================================
