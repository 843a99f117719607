-------------------------- MODULE MCCircuitBreaker --------------------------
(* The instance of CircuitBreaker for TLC: see breaker.cfg.                 *)
EXTENDS CircuitBreaker
=============================================================================
