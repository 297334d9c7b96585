--------------------------- MODULE MCStageSessions ---------------------------
EXTENDS StageSessions

AllStages == {"discovery", "baseline", "comparison", "analysis", "post"}
OneChunk == {{"a", "b"}}
=============================================================================
