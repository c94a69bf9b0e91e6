------------------------ MODULE MCGatewayConvergence ------------------------
EXTENDS GatewayConvergence
=============================================================================
