-------------------------- MODULE MCAdapterRuntime --------------------------
EXTENDS AdapterRuntime
=============================================================================
