------------------------------ MODULE MCServer ------------------------------
EXTENDS Server

CONSTANTS loop, route, reload, page, health
=============================================================================
