---------------------------- MODULE MCLifecycle ----------------------------
EXTENDS Lifecycle

CONSTANTS f1, s1, s2
=============================================================================
