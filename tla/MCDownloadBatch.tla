--------------------------- MODULE MCDownloadBatch ---------------------------
\* Instances of DownloadBatch for TLC: the bounds are in the configuration.
EXTENDS DownloadBatch
=============================================================================
