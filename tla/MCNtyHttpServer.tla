-------------------------- MODULE MCNtyHttpServer --------------------------
EXTENDS NtyHttpServer
=============================================================================
