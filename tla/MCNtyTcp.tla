------------------------------- MODULE MCNtyTcp -------------------------------
EXTENDS NtyTcp

MCPeerWnds == {1, 4}
=============================================================================
