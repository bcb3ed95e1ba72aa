---------------------------- MODULE MCTenderDocs ----------------------------
\* Instances of TenderDocs for TLC: the bounds are in the configuration.
EXTENDS TenderDocs
=============================================================================
