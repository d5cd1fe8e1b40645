------------------------------ MODULE MCSession ------------------------------
EXTENDS Session

CONSTANTS h1, h2, p1, p2
=============================================================================
