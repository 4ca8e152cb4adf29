------------------------------ MODULE MCRegistry ------------------------------
EXTENDS Registry

CONSTANTS h1, h2
=============================================================================
