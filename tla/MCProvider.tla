----------------------------- MODULE MCProvider ------------------------------
\* Instances of ProviderCall for TLC; the values are in the configurations.
EXTENDS ProviderCall
=============================================================================
