----------------------------- MODULE MC_Dispatch -----------------------------
EXTENDS Dispatch

CONSTANTS c1, c2

MCCalls == {c1, c2}

\* A state bound for the violation runs: stop exploring once the worker hangs.
NotHung == ~hung
=============================================================================
