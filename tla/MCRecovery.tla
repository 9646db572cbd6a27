------------------------------ MODULE MCRecovery ------------------------------
EXTENDS Recovery

\* One object per scope, the last scope without any.
MCScopeOf == [o \in Objects |-> o]
=============================================================================
