----------------------------- MODULE MCStartup -----------------------------
EXTENDS Startup

MCProcs == {1, 2}
=============================================================================
