------------------------- MODULE MCTransferPipeline -------------------------
EXTENDS TransferRefinement
=============================================================================
