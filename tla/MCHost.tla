------------------------------- MODULE MCHost --------------------------------
\* Instances of HostRuntime for TLC; the values are in the configurations.
EXTENDS HostRuntime
=============================================================================
