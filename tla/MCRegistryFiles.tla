--------------------------- MODULE MCRegistryFiles ---------------------------
EXTENDS RegistryFiles
=============================================================================
