------------------------- MODULE MCIngestPipeline -------------------------
EXTENDS IngestPipeline, TLC

CONSTANTS q1, q2, q3, disk, db, node

MCHolds == {"no", "defer", "buffer"}
MCUnheld == {"no"}
MCBuffered == {"buffer"}
MCCovers == [s \in Rule |-> Alert]
Sym == Permutations(Request)
=============================================================================
