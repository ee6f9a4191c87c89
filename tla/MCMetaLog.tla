------------------------------- MODULE MCMetaLog -------------------------------
EXTENDS MetaLog
=============================================================================
