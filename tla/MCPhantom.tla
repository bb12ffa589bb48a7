----------------------------- MODULE MCPhantom -----------------------------
EXTENDS Phantom
=============================================================================
