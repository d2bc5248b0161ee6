--------------------------- MODULE MCStyleObservers ---------------------------
EXTENDS StyleObservers

MCIds == {"a", "_0"}

MCUniqueIds == <<"_0", "_1", "_2">>
=============================================================================
