--------------------------- MODULE MCWebsocketHub ---------------------------
(***************************************************************************)
(* Small instances of WebsocketHub.  Messages are numbers: 1 and 2 go to   *)
(* the first websocket, 3 to the second, 4 to the first.                   *)
(***************************************************************************)
EXTENDS WebsocketHub

CONSTANTS s1, s2, Frames

MCSocketOf == [m \in Messages |-> IF m = 3 THEN s2 ELSE s1]
MCFramesOf == [m \in Messages |-> IF m = 1 THEN Frames ELSE 1]
\* The callback of message 1 writes message 2.
ReplyToFirst == [m \in Messages |-> IF m = 1 /\ 2 \in Messages THEN 2 ELSE NoMessage]
NoReplies == [m \in Messages |-> NoMessage]
=============================================================================
