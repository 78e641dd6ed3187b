---------------------------- MODULE MCCatalogue -----------------------------
(***************************************************************************)
(* The files of a small catalogue: every shape of the members that the     *)
(* decoder treats differently, and the formats the repository ships.       *)
(***************************************************************************)
EXTENDS Catalogue, Functions

Obj(keys, vals) == Json("object", "", keys, vals)
Arr(vals) == Json("array", "", <<>>, vals)
Str(x) == Json("string", x, <<>>, <<>>)

Document(name, total, pieces) ==
    Obj(<<"id", "name", "pieces", "total-pieces">>, <<Str("x"), name, pieces, total>>)

Two == Obj(<<"m1", "m2">>, <<Str("x"), Str("y")>>)
OnlyFirst == Obj(<<"m1">>, <<Str("y")>>)
Broken == Obj(<<"m1", "m2">>, <<Str("x"), Arr(<<>>)>>)

Names == {Str("x"), Str("nul"), Null, Arr(<<>>)}
Totals == {Json("int", "10", <<>>, <<>>), Json("big", "10", <<>>, <<>>), Null, Str("10")}
Halves == {Two, OnlyFirst, Broken, Null, Str("x"), Obj(<<"m1">>, <<Str("nul")>>)}
PiecesValues ==
    {Null, Str("x")} \cup {Arr(e) : e \in UNION {[1..n -> Halves] : n \in 0..2}}
        \cup {Obj(<<"01", "02">>, <<e, Two>>) : e \in Halves}
        \cup {Arr(<<Two, Two, Two>>)}

(* files/database-format-option-00 to 03 (03 is camello.json, which client.cc *)
(* asks for) and database-simple-backup.                                     *)
Numbered == Obj(<<"01">>, <<Obj(<<"id", "name">>, <<Str("x"), Str("y")>>)>>)
FormatMembers(m1, m2) ==
    Obj(<<"id", "m1", "m2", "name", "total-pieces">>,
        <<Str("x"), m1, m2, Str("x"), Json("int", "10", <<>>, <<>>)>>)
Ten == Json("int", "10", <<>>, <<>>)
Shipped ==
    {FormatMembers(Numbered, Numbered),
     FormatMembers(Arr(<<Str("x")>>), Arr(<<Str("y")>>)),
     Document(Str("x"), Ten, Obj(<<"m1", "m2">>, <<Arr(<<Str("x")>>), Arr(<<Str("y")>>)>>)),
     Document(Str("x"), Ten, Two),
     Obj(<<"01">>, <<Document(Str("x"), Str("10"), Arr(<<Str("x"), Str("y")>>))>>)}

MCTexts == {"", "0", "nul", "x", "y", "10"}
MCFiles ==
    {Missing, Malformed, Str("x"), Null} \cup Shipped
        \cup {Document(n, t, p) : n \in Names, t \in Totals, p \in PiecesValues}

\* No file nests its values deeper than three levels.
WithElements(values) == values \cup UNION {Range(v.vals) : v \in values}
MCValues == WithElements(WithElements(WithElements(MCFiles \ {Missing, Malformed})))

(* The files of the repository are the formats in use (README.md:25 and 72): *)
(* a request for the figure in one of them is answered with its pieces       *)
(* (getLegoFromJson and the turn of listen_intermediate around it).          *)
ShippedFilesAreRead ==
    root \in Shipped /\ pc \in {"done", "threw"} => pc = "done" /\ lego.pieces # <<>>
=============================================================================
