---------------------------- MODULE MCStoreGuard ----------------------------
(* StoreGuard for TLC. No bound is needed, the state space is finite.      *)
EXTENDS StoreGuard
=============================================================================
