------------------------- MODULE MCWebsocketReader -------------------------
(***************************************************************************)
(* WebsocketReader for TLC, and what FrameWriter promises.                 *)
(***************************************************************************)
EXTENDS WebsocketReader, SequencesExt

\* The frames of a message that is written back are the message, cut: their
\* payloads in a row are its bytes, each says its own length in the right
\* form, the first and only the first has the opcode, the last and only the
\* last is final (websocket::write).
FramesCarryMessage ==
    out # <<>> /\ ioPc # "messageEvent" =>
        /\ FlattenSeq([i \in DOMAIN out |-> out[i].data]) = message
        /\ \A i \in DOMAIN out :
               /\ out[i].len = Len(out[i].data)
               /\ out[i].form = Form(out[i].len)
               /\ out[i].op = (IF i = 1 THEN Text ELSE 0)
               /\ out[i].fin <=> (i = Len(out))
=============================================================================
