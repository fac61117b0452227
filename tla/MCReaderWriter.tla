---------------------------- MODULE MCReaderWriter ----------------------------
EXTENDS ReaderWriter
=============================================================================
