--------------------------- MODULE MCBridgeServer ---------------------------
EXTENDS BridgeServerProps

CONSTANTS N, F1

\* A broadcast of the node behind; the answer to a NODE_SYNC; the messages of
\* time synchronisation.
Sets == {{SyncRequest, Message("BROADCAST", 0, F1)}, {SyncRequest, SyncReply},
         {SyncRequest, Time(1)}, {SyncRequest, Time(0), Time(2)}}
=============================================================================
