--------------------------- MODULE MCDesktopState ---------------------------
\* Two pages, one terminal and two connections: the pages are connected at the same
\* time, or one comes back while the server may still be busy with its old
\* connection.
EXTENDS DesktopState
=============================================================================
