------------------------------- MODULE MCTAGE -------------------------------
EXTENDS TAGE
\* Two branches: the bits of the addresses 1 and 6.
MCPCs == {{0}, {1, 2}}
=============================================================================
