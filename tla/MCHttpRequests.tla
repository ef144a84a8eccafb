---------------------------- MODULE MCHttpRequests ----------------------------
EXTENDS HttpRequests

\* Every layer, with and without the middleware.
MCUses == AnyUse
=============================================================================
