------------------------- MODULE MCExtensionProcess -------------------------
\* A stream of two frames, alone or beside a unary call, with room for one
\* request at a time.
EXTENDS ExtensionProcess

=============================================================================
