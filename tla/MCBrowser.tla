------------------------------ MODULE MCBrowser ------------------------------
\* No symmetry: the run checks liveness.
EXTENDS Browser
=============================================================================
