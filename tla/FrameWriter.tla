---------------------------- MODULE FrameWriter ----------------------------
(***************************************************************************)
(* How websocket::write (src/xfinal/websocket.hpp) cuts a message into     *)
(* frames.  A frame says whether it is the last, its opcode (0 in all but  *)
(* the first), the form of its length (0: in the head; 2: in two bytes     *)
(* after it), the length itself, and its data.                             *)
(*                                                                         *)
(* The limits of the format are parameters, so that small instances meet   *)
(* them.                                                                   *)
(***************************************************************************)
EXTENDS Naturals, Sequences

CONSTANTS
    Len7,       \* the lengths that do not fit in the head start here: 126
    Len16       \* the values of an unsigned short: 65536

ASSUME LengthsAssumption == Len7 \in Nat \ {0} /\ Len16 \in Nat /\ Len7 < Len16

Short(n) == n % Len16
Form(n) == IF n < Len7 THEN 0 ELSE 2

\* How many frames of `size` bytes a message of n bytes takes.
Counts(n, size) == (n \div size) + (IF n % size # 0 THEN 1 ELSE 0)

\* Mutant: a last frame that is full is not final.
FrameAtStrict(message, op, size, i) ==
    LET left == Len(message) - i * size
        last == left < size
        length == Short(IF last THEN left ELSE size)
        readPos == i * Short(size)
    IN [ fin |-> last, op |-> IF i = 0 THEN op ELSE 0, form |-> Form(length),
         len |-> length, data |-> SubSeq(message, readPos + 1, readPos + length) ]

(* Frame i of the loop.  Every frame before it took `size` from            *)
(* message_size and moved read_pos by write_data_size, a short.            *)
FrameAt(message, op, size, i) ==
    LET left == Len(message) - i * size
        last == left <= size
        length == Short(IF last THEN left ELSE size)
        readPos == i * Short(size)
    IN [ fin |-> last, op |-> IF i = 0 THEN op ELSE 0, form |-> Form(length),
         len |-> length, data |-> SubSeq(message, readPos + 1, readPos + length) ]

\* What websocket::write hands to the hub; nothing for an empty message.
Cut(message, op, size) ==
    IF Len(message) = 0 THEN <<>>
    ELSE IF Len(message) < Len7
    THEN << [ fin |-> TRUE, op |-> op, form |-> 0, len |-> Len(message), data |-> message ] >>
    ELSE [ k \in 1 .. Counts(Len(message), size) |-> FrameAt(message, op, size, k - 1) ]
=============================================================================
