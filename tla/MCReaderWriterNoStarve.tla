------------------------ MODULE MCReaderWriterNoStarve ------------------------
EXTENDS ReaderWriterNoStarve
=============================================================================
