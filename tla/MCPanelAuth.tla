---------------------------- MODULE MCPanelAuth ----------------------------
EXTENDS PanelAuth
=============================================================================
