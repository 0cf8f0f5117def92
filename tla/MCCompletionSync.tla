--------------------------- MODULE MCCompletionSync ---------------------------
EXTENDS CompletionSync
=============================================================================
