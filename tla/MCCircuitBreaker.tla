---------------------------- MODULE MCCircuitBreaker ----------------------------
\* The auth service, whose limiter is exhausted by three calls of an interval, and
\* the user service, which alone answers with failures of its own.
EXTENDS CircuitBreaker

CONSTANTS c1, c2, c3

================================================================================
