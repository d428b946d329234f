----------------------------- MODULE MCApproval ------------------------------
\* Instances of ApprovalBroker for TLC; the values are in the configurations.
EXTENDS ApprovalBroker
=============================================================================
