------------------------ MODULE MCReaderWriterClients ------------------------
EXTENDS ReaderWriterClients
=============================================================================
