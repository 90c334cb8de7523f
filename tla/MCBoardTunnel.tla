---- MODULE MCBoardTunnel ----
\* Two connections, two ssh processes, two requests to close, one exit.
EXTENDS BoardTunnel
====
