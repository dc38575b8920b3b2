---------------------------- MODULE MCUdpServer -----------------------------
EXTENDS UdpServer
=============================================================================
