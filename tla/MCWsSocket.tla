------------------------------ MODULE MCWsSocket ------------------------------
\* Small instances of WsSocket.
EXTENDS WsSocket
===============================================================================
