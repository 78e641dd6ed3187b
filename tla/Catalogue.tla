----------------------------- MODULE Catalogue ------------------------------
(***************************************************************************)
(* One request of the pieces server from the JSON file of the figure to    *)
(* the bytes it writes: JSONDecoder, Lego and the second half of a turn of *)
(* listen_intermediate.  Requests.tla knows only the outcome, a page, the  *)
(* 404 page or an exception; this module says which file gives which.      *)
(*                                                                         *)
(* A JSON value is a record of its kind, its text if it is a string or a   *)
(* number, and its elements; an object also has their keys, in the order   *)
(* in which jsoncpp iterates.  A page is a sequence of lines.              *)
(***************************************************************************)
EXTENDS Naturals, Sequences

CONSTANTS
    Files,      \* what the file of the requested figure may hold
    Values,     \* the JSON values in those files, nested ones too
    Texts,      \* the texts in those values
    Zero, NulText,  \* the text of 0, and a text with a terminator inside
    PageLimit   \* lines of the buffer a, without the terminator

ASSUME TextsAssumption ==
    /\ {"", Zero, NulText} \subseteq Texts
    /\ NulText \notin {"", Zero}

ASSUME PageAssumption == PageLimit \in Nat \ {0}

VARIABLES
    pc,         \* where listen_intermediate is
    root,       \* the file, and the value decoded from it
    lego,
    at, half,   \* the element of root["pieces"] and the half that comes next
    a,          \* the buffer with the page
    sent        \* what Write sent of it

vars == <<pc, root, lego, at, half, a, sent>>

Json(kind, text, keys, vals) ==
    [kind |-> kind, text |-> text, keys |-> keys, vals |-> vals]

\* The states of a file that is not a JSON document.
Missing == Json("missing", "", <<>>, <<>>)
Malformed == Json("malformed", "", <<>>, <<>>)

Null == Json("null", "", <<>>, <<>>)

Kinds == {"null", "string", "int", "big", "array", "object"}

(* A file is such a value or none; an object has a value for each of its     *)
(* keys, an array has no keys, and nothing else has elements.                *)
ASSUME FilesAssumption ==
    /\ Files \subseteq Values \cup {Missing, Malformed}
    /\ \A v \in Values :
        /\ v.kind \in Kinds /\ v.text \in Texts
        /\ v.keys \in Seq(STRING) /\ v.vals \in Seq(Values)
        /\ Len(v.keys) = IF v.kind = "object" THEN Len(v.vals) ELSE 0
        /\ v.kind \notin {"array", "object"} => v.vals = <<>>
-----------------------------------------------------------------------------
(* jsoncpp, as JSONDecoder.cc uses it (external).                            *)

\* operator[] with a name throws on anything but an object or null.
HasMembers(v) == v.kind \in {"null", "object"}

\* operator[]: the member, or null.
Member(v, key) ==
    IF \E i \in 1..Len(v.keys) : v.keys[i] = key
    THEN v.vals[CHOOSE i \in 1..Len(v.keys) : v.keys[i] = key]
    ELSE Null

\* asString throws on arrays and objects; null gives the empty text.
IsText(v) == v.kind \notin {"array", "object"}

\* asInt throws on texts and on numbers out of range; null gives 0.
IsInt(v) == v.kind \in {"null", "int"}
AsInt(v) == IF v.kind = "null" THEN Zero ELSE v.text
-----------------------------------------------------------------------------
\* Lego::Lego
NoLego == [name |-> "", pieces_count |-> Zero, pieces |-> <<>>,
           half_01 |-> <<>>, half_02 |-> <<>>]

\* Mutant of add_piece: the else is missing.
AddPieceNoElse(l, data, h) ==
    [l EXCEPT !.pieces = Append(@, data),
              !.half_01 = IF h = 1 THEN Append(@, data) ELSE @,
              !.half_02 = Append(@, data)]

\* Lego::add_piece: the list of all pieces, and the half it belongs to.
add_piece(l, data, h) ==
    [l EXCEPT !.pieces = Append(@, data),
              !.half_01 = IF h = 1 THEN Append(@, data) ELSE @,
              !.half_02 = IF h = 1 THEN @ ELSE Append(@, data)]

\* Lego::generateHTML: the name twice, the count of the file, the pieces.
generateHTML(l) ==
    <<<<"title", l.name>>, <<"h1", l.name>>, <<"h2", l.pieces_count>>>>
        \o [i \in 1..Len(l.pieces) |-> <<"li", l.pieces[i]>>]
        \o <<<<"end", "">>>>

\* Mutant of Copied: string::copy of the whole page.
CopiedWhole(html) == html

\* What string::copy puts into the buffer, and the terminator behind it.
Copied(html) == SubSeq(html, 1, IF Len(html) < PageLimit THEN Len(html) ELSE PageLimit)

errorHTML == <<<<"404", "">>>>

\* strlen in Write: a text with a terminator inside ends the page there.
StrPrefix(lines) ==
    SubSeq(lines, 1, CHOOSE n \in 0..Len(lines) :
        /\ \A i \in 1..n : lines[i][2] # NulText
        /\ n < Len(lines) => lines[n + 1][2] = NulText)
-----------------------------------------------------------------------------
Init ==
    /\ pc = "decode"
    /\ root \in Files
    /\ lego = NoLego
    /\ at = 1 /\ half = 1
    /\ a = <<>> /\ sent = <<>>

\* JSONDecoder::decode: false without a file, an exception if it is no JSON.
Decode ==
    /\ pc = "decode"
    /\ pc' = CASE root = Missing -> "error"
               [] root = Malformed -> "threw"
               [] OTHER -> "fields"
    /\ UNCHANGED <<root, lego, at, half, a, sent>>

HasFields(v) ==
    /\ HasMembers(v)
    /\ IsText(Member(v, "id")) /\ IsText(Member(v, "name"))
    /\ IsInt(Member(v, "total-pieces"))

\* getLegoFromJson, up to its loop.
ReadFields ==
    /\ pc = "fields"
    /\ \/ /\ HasFields(root)
          /\ lego' = [lego EXCEPT !.name = Member(root, "name").text,
                                  !.pieces_count = AsInt(Member(root, "total-pieces"))]
          /\ pc' = "pieces"
       \/ /\ ~HasFields(root)
          /\ pc' = "threw"
          /\ UNCHANGED lego
    /\ UNCHANGED <<root, at, half, a, sent>>

\* The elements the loop visits: a value that is no container has none.
Elements == Member(root, "pieces").vals

HalfName == IF half = 1 THEN "m1" ELSE "m2"

\* Mutant of HasHalf: a value without members is taken for an empty one.
HasHalfAny(e) == IsText(Member(e, HalfName))

HasHalf(e) == HasMembers(e) /\ IsText(Member(e, HalfName))

\* One add_piece of the loop: "m1" of an element, then its "m2".
AddHalf ==
    /\ pc = "pieces"
    /\ at <= Len(Elements)
    /\ \/ /\ HasHalf(Elements[at])
          /\ lego' = add_piece(lego, Member(Elements[at], HalfName).text, half)
          /\ half' = 3 - half
          /\ at' = IF half = 2 THEN at + 1 ELSE at
          /\ UNCHANGED pc
       \/ /\ ~HasHalf(Elements[at])
          /\ pc' = "threw"
          /\ UNCHANGED <<lego, at, half>>
    /\ UNCHANGED <<root, a, sent>>

\* responseHTML, with a copy of the figure.
Page ==
    /\ pc = "pieces"
    /\ at > Len(Elements)
    /\ a' = Copied(generateHTML(lego))
    /\ pc' = "write"
    /\ UNCHANGED <<root, lego, at, half, sent>>

ErrorPage ==
    /\ pc = "error"
    /\ a' = errorHTML
    /\ pc' = "write"
    /\ UNCHANGED <<root, lego, at, half, sent>>

Write ==
    /\ pc = "write"
    /\ sent' = StrPrefix(a)
    /\ pc' = "done"
    /\ UNCHANGED <<root, lego, at, half, a>>

Next == Decode \/ ReadFields \/ AddHalf \/ Page \/ ErrorPage \/ Write

Spec == Init /\ [][Next]_vars
-----------------------------------------------------------------------------
Lists == [name : Texts, pieces_count : Texts, pieces : Seq(Texts),
          half_01 : Seq(Texts), half_02 : Seq(Texts)]
Lines == {"title", "h1", "h2", "li", "end", "404"} \X Texts

(* Every variable has its type, and the buffer is never overrun.             *)
TypeOK ==
    /\ pc \in {"decode", "error", "fields", "pieces", "write", "done", "threw"}
    /\ root \in Files
    /\ lego \in Lists
    /\ at \in Nat \ {0} /\ half \in {1, 2}
    /\ a \in Seq(Lines) /\ Len(a) <= PageLimit
    /\ sent \in Seq(Lines) /\ Len(sent) <= Len(a)

(* At every moment the list of pieces is the two halves laced into each      *)
(* other, the first half first: no piece is lost, doubled or misplaced       *)
(* (Lego::add_piece and the loop of getLegoFromJson).                        *)
Laced(pieces, first, second) ==
    /\ first = [i \in 1..((Len(pieces) + 1) \div 2) |-> pieces[2 * i - 1]]
    /\ second = [i \in 1..(Len(pieces) \div 2) |-> pieces[2 * i]]

HalvesMakeThePieces == Laced(lego.pieces, lego.half_01, lego.half_02)

\* The page of a file, read off the file: two pieces for every element.
Expected ==
    <<<<"title", Member(root, "name").text>>, <<"h1", Member(root, "name").text>>,
      <<"h2", AsInt(Member(root, "total-pieces"))>>>>
        \o [k \in 1..(2 * Len(Elements)) |->
               <<"li", Member(Elements[(k + 1) \div 2],
                              IF k % 2 = 1 THEN "m1" ELSE "m2").text>>]
        \o <<<<"end", "">>>>

(* What is sent is the 404 page exactly if there is no file, and otherwise   *)
(* the page of that file, all its pieces in order, up to the buffer's size   *)
(* or the first text with a terminator; never a page of half a figure: one   *)
(* element of the wrong shape and nothing is sent (listen_intermediate,      *)
(* getLegoFromJson, responseHTML).                                           *)
SentIsTheFile ==
    pc = "done" =>
        \/ root = Missing /\ sent = errorHTML
        \/ /\ root.kind \notin {"missing", "malformed"}
           /\ \A i \in 1..Len(Elements) : Elements[i].kind \in {"object", "null"}
           /\ Len(sent) <= Len(Expected)
           /\ sent = SubSeq(Expected, 1, Len(sent))
           /\ \A i \in 1..Len(sent) : sent[i][2] # NulText
           /\ \/ Len(sent) \in {PageLimit, Len(Expected)}
              \/ Expected[Len(sent) + 1][2] = NulText
=============================================================================
