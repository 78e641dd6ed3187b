------------------------------ MODULE Requests ------------------------------
(***************************************************************************)
(* The requests and the answers.  A request is a sequence of words: GET    *)
(* stands for "GET /", SP for the blank after the name and what follows    *)
(* it (" HTTP/1.1" and two line ends), a letter for one part of a name.    *)
(* An answer is a sequence of blocks of bytes.                             *)
(***************************************************************************)
EXTENDS Naturals, Sequences, Buffers

CONSTANTS
    Letters,        \* what names are made of
    GET, SP,        \* the fixed words of a request
    Good,           \* names of files that decode to a figure
    Bad,            \* names of files on which the decoder throws
    Size,           \* Size[r]: blocks of the page of r
    NotFound,       \* the block of the 404 page
    InvalidRequest, Error500, Error504  \* the error strings of the intermediate

Words == Letters \cup {GET, SP}
Cells == Words \cup {NUL, JUNK}

ASSUME WordsAssumption ==
    /\ GET # SP
    /\ Letters \cap {GET, SP} = {}
    /\ Words \cap {NUL, JUNK} = {}

ASSUME CatalogueAssumption ==
    /\ Good \cap Bad = {}
    /\ Size \in [Good -> Nat \ {0}]

Blocks == (UNION {{<<r, i>> : i \in 1..Size[r]} : r \in Good})
              \cup {NotFound, InvalidRequest, Error500, Error504}

ASSUME BlocksAssumption == Blocks \cap {NUL, JUNK} = {}

\* strstr(request, "GET /"), 0 when there is none.
PathStart(req) ==
    IF \E i \in 1..Len(req) : req[i] = GET
    THEN CHOOSE i \in 1..Len(req) : req[i] = GET /\ \A j \in 1..(i - 1) : req[j] # GET
    ELSE 0

\* strchr(start, ' '), 0 when there is none.
PathEnd(req) ==
    IF \E i \in (PathStart(req) + 1)..Len(req) : req[i] = SP
    THEN CHOOSE i \in (PathStart(req) + 1)..Len(req) :
            req[i] = SP /\ \A j \in (PathStart(req) + 1)..(i - 1) : req[j] # SP
    ELSE 0

\* The name between the two, or the whole request if one of them is missing.
formatRequest(req) ==
    IF PathStart(req) = 0 \/ PathEnd(req) = 0
    THEN req
    ELSE SubSeq(req, PathStart(req) + 1, PathEnd(req) - 1)

\* The page of a figure, and what the pieces server answers for a name.
responseHTML(r) == [i \in 1..Size[r] |-> <<r, i>>]
errorHTML == <<NotFound>>
Response(r) == IF r \in Good THEN responseHTML(r) ELSE errorHTML

\* The prefix test of the intermediate.
is_valid_request(buf) == buf[1] = GET

(* A request that names a figure the way client.cc does: GET, the name, and  *)
(* the blank within the first "size" cells.                                  *)
NamesFigure(req, size) ==
    /\ Len(req) > 1 /\ req[1] = GET
    /\ \E e \in 2..Len(req) :
        /\ e <= size
        /\ req[e] = SP
        /\ \A i \in 2..(e - 1) : req[i] \notin {GET, SP, NUL}
=============================================================================
