---------------------------- MODULE MCTcpClient -----------------------------
EXTENDS TcpClientProps
AllOps ==
  {{"callback", "ack", "close"}, {"write", "close"}, {"close", "reset"}, {"connect", "now", "reset"}}
Quiet == {{}}
Kept == {{"ack", "later"}}
Both == {{"now"}}
Zero == {0}
One == {1}
=============================================================================
