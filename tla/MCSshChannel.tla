----------------------------- MODULE MCSshChannel -----------------------------
EXTENDS SshChannel
==============================================================================
