-------------------------- MODULE MCRequestReader ---------------------------
(* Instances of RequestReader for the model checker. *)
EXTENDS RequestReader

MCNames == {"x", "y"}
MCBytes == {CR, LF, Dashes, Key, Zero, HeadByte, "d", "e"} \cup MCNames

NoParts == [n \in MCNames |-> <<>>]
Text(kind, header, body, extra) ==
    [kind |-> kind, header |-> header, body |-> body, at |-> <<>>, parts |-> NoParts,
     extra |-> extra]

\* A form of two parts as a peer encodes it.
PartOf(name, data) == BoundaryStart \o <<CR, LF, name>> \o HeadEnd \o data \o <<CR, LF>>
Form(preamble, x, y, extra) ==
    LET before == preamble \o PartOf("x", x)
        body == before \o PartOf("y", y)
    IN [kind |-> "multipart", header |-> 3, body |-> body \o BoundaryEnd,
        at |-> <<Len(preamble), Len(before), Len(body)>>,
        parts |-> [n \in MCNames |-> IF n = "x" THEN x ELSE y], extra |-> extra]

Long(n) == [i \in 1..n |-> IF i % 3 = 0 THEN "d" ELSE "e"]

\* Requests without a body, with one that the server does not take, with bodies
\* of a length known in advance behind headers that fill the buffer or do not,
\* also longer than the buffer may get, and forms: with empty parts, with data
\* that looks like a boundary at first, with a preamble, with an epilogue.
MCRequests ==
    {Text("none", 3, <<>>, <<>>), Text("none", 30, <<>>, <<>>),
     Text("unknown", 3, <<"d">>, <<>>), Text("noBoundary", 3, <<"d">>, <<>>)}
    \cup {Text(k, h, Long(n), e) : k \in {"string", "octet"}, h \in {3, 8},
              n \in {1, 2, 10, 24}, e \in {<<>>, <<HeadByte>>}}
    \cup {Form(<<>>, <<"d">>, <<"e", CR>>, <<>>),
          Form(<<>>, <<CR, "d", "e">>, <<>>, <<CR, LF>>),
          Form(<<>>, <<CR, LF, Dashes, "d">>, Long(2), <<>>),
          Form(<<>>, Long(14), Long(1), <<>>),
          Form(HeadEnd, <<>>, <<"d">>, <<>>)}

\* The forms are what RequestReader takes for the encoding of their parts.
ASSUME FormsAssumption == \A r \in MCRequests : r.kind = "multipart" => Encodes(r)
=============================================================================
