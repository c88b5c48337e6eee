----------------------------- MODULE MCIrqMutex -----------------------------
\* IrqMutex with two locks, which a context may hold one inside the other.
EXTENDS IrqMutex

=============================================================================
