------------------------------ MODULE MCConnector ------------------------------
EXTENDS ConnectorProperties
================================================================================
