------------------------------ MODULE MCFrame -------------------------------
\* The loop thread and two helpers that race through the statics, one call each.
EXTENDS Frame
CONSTANTS h1, h2
=============================================================================
