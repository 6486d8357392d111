---------------------------- MODULE MCPrefixStudy ----------------------------
EXTENDS PrefixStudy
CONSTANTS o1
=============================================================================
