----------------------------- MODULE MCChatServer -----------------------------
(* Small instances of ChatServer: two tabs and two threads at a time, one of *)
(* which may still be serving a page that was reloaded.                      *)
EXTENDS ChatServer
CONSTANTS t1, t2, h1, h2
=============================================================================
