---------------------------- MODULE FrameStream -----------------------------
(***************************************************************************)
(* What the write path of a websocket promises, with no threads, locks,    *)
(* flags or queues: on every socket the frames of one message follow each  *)
(* other with no frame of another message between them, no frame is sent   *)
(* twice or after the callback, and the callback is called at most once,   *)
(* when the last frame is out or the socket was closed.  Nothing is        *)
(* promised about the order of messages, nor that a message is ever sent.  *)
(***************************************************************************)
EXTENDS Naturals

CONSTANTS Sockets, Messages, SocketOf, FramesOf

VARIABLES
    up,         \* the sockets that are open
    sent,       \* the frames of each message handed to the transport
    reported    \* what each message's callback was called with, or "none"

vars == <<up, sent, reported>>

Init ==
    /\ up = [s \in Sockets |-> TRUE]
    /\ sent = [m \in Messages |-> 0]
    /\ reported = [m \in Messages |-> "none"]

Whole(m) == sent[m] \in {0, FramesOf[m]}

\* A socket sends a frame of m when no other message is in the middle.
Send(m) ==
    /\ sent[m] < FramesOf[m]
    /\ reported[m] = "none"
    /\ \A n \in Messages \ {m} : SocketOf[n] = SocketOf[m] => Whole(n)
    /\ sent' = [sent EXCEPT ![m] = @ + 1]
    /\ UNCHANGED <<up, reported>>

\* The callback hears of success when the last frame is out, or, as the code
\* has it, when the socket was closed before.
Succeed(m) ==
    /\ reported[m] = "none"
    /\ sent[m] = FramesOf[m] \/ ~up[SocketOf[m]]
    /\ reported' = [reported EXCEPT ![m] = "true"]
    /\ UNCHANGED <<up, sent>>

\* It hears of failure only for a message that was begun, on a closed socket.
Fail(m) ==
    /\ reported[m] = "none"
    /\ sent[m] > 0
    /\ ~up[SocketOf[m]]
    /\ reported' = [reported EXCEPT ![m] = "false"]
    /\ UNCHANGED <<up, sent>>

Close(s) ==
    /\ up' = [up EXCEPT ![s] = FALSE]
    /\ UNCHANGED <<sent, reported>>

Next ==
    \/ \E m \in Messages : Send(m) \/ Succeed(m) \/ Fail(m)
    \/ \E s \in Sockets : Close(s)

Spec == Init /\ [][Next]_vars
=============================================================================
