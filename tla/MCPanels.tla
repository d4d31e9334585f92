------------------------------- MODULE MCPanels -------------------------------
EXTENDS Panels
=============================================================================
