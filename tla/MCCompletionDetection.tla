------------------------ MODULE MCCompletionDetection ------------------------
EXTENDS CompletionDetection
=============================================================================
