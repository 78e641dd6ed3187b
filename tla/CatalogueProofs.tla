-------------------------- MODULE CatalogueProofs ---------------------------
(***************************************************************************)
(* Proofs about Catalogue for files of any shape, size and nesting, and a  *)
(* buffer of any size.  The inductive invariant says how far the loop of   *)
(* getLegoFromJson is: what it has added is what the file says of the      *)
(* elements it has passed (Reading), and the page in the buffer is that of *)
(* the whole file or the 404 page (Paged).  The last theorem is about the  *)
(* files the repository ships, which MCCatalogue lists.                    *)
(***************************************************************************)
EXTENDS MCCatalogue, SequenceTheorems, WellFoundedInduction, TLAPS

Decoded == Values \cup {Null}

\* The text of piece k of the page, as Expected reads it off the file.
PieceText(k) ==
    Member(Elements[(k + 1) \div 2], IF k % 2 = 1 THEN "m1" ELSE "m2").text

\* Before the loop nothing was added, and only a document gets there.
Fresh ==
    /\ pc \in {"decode", "fields"} => lego = NoLego /\ at = 1 /\ half = 1
    /\ pc = "error" => root = Missing
    /\ pc \in {"fields", "pieces"} => root \in Values

\* The loop has added the halves of the elements it has passed, in order.
Reading ==
    pc = "pieces" =>
        /\ HasFields(root)
        /\ lego.name = Member(root, "name").text
        /\ lego.pieces_count = AsInt(Member(root, "total-pieces"))
        /\ at <= Len(Elements) + (2 - half)
        /\ Len(lego.pieces) = 2 * (at - 1) + (half - 1)
        /\ \A k \in 1..Len(lego.pieces) : lego.pieces[k] = PieceText(k)
        /\ \A i \in 1..(at - 2 + half) : HasMembers(Elements[i])

\* The buffer holds the page of the whole file, or the 404 page.
Paged ==
    pc = "write" =>
        \/ root = Missing /\ a = errorHTML
        \/ /\ root \in Values
           /\ \A i \in 1..Len(Elements) : HasMembers(Elements[i])
           /\ Expected \in Seq(Lines)
           /\ a = Copied(Expected)

\* Nothing is sent before Write.
Unsent == pc # "done" => sent = <<>>

IInv == TypeOK /\ HalvesMakeThePieces /\ Unsent /\ Fresh /\ Reading /\ Paged /\ SentIsTheFile
-----------------------------------------------------------------------------
\* What operator[] returns is a value of the file, or null.
LEMMA MemberIsDecoded ==
    ASSUME NEW v \in Decoded, NEW key
    PROVE  Member(v, key) \in Decoded
<1>1. CASE v = Null
  <2>1. v.keys = <<>>
    BY <1>1 DEF Null, Json
  <2>2. ~(\E i \in 1..Len(v.keys) : v.keys[i] = key)
    BY <2>1
  <2> QED BY <2>2 DEF Member, Decoded
<1>2. CASE v \in Values
  <2>1. /\ v.vals \in Seq(Values) /\ v.keys \in Seq(STRING)
        /\ Len(v.keys) = IF v.kind = "object" THEN Len(v.vals) ELSE 0
    BY <1>2, FilesAssumption
  <2>2. Len(v.vals) \in Nat /\ \A i \in 1..Len(v.vals) : v.vals[i] \in Values
    BY <2>1
  <2>3. \A i \in 1..Len(v.keys) : v.vals[i] \in Values
    BY <2>1, <2>2
  <2>4. CASE \E i \in 1..Len(v.keys) : v.keys[i] = key
    BY <2>3, <2>4 DEF Member, Decoded
  <2>5. CASE ~(\E i \in 1..Len(v.keys) : v.keys[i] = key)
    BY <2>5 DEF Member, Decoded
  <2> QED BY <2>4, <2>5
<1> QED BY <1>1, <1>2 DEF Decoded

\* The parts of such a value.
LEMMA DecodedParts ==
    ASSUME NEW v \in Decoded
    PROVE  /\ v.text \in Texts /\ AsInt(v) \in Texts
           /\ v.vals \in Seq(Values)
           /\ v.kind \in Kinds
<1>1. CASE v = Null
  <2>1. v.text = "" /\ v.vals = <<>> /\ v.kind = "null"
    BY <1>1 DEF Null, Json
  <2>2. v.text \in Texts /\ AsInt(v) \in Texts /\ v.kind \in Kinds
    BY <2>1, TextsAssumption DEF AsInt, Kinds
  <2> QED BY <2>1, <2>2, EmptySeq
<1>2. CASE v \in Values
  BY <1>2, FilesAssumption, TextsAssumption DEF AsInt
<1> QED BY <1>1, <1>2 DEF Decoded

\* The loop visits values of the file.
LEMMA ElementsAreValues == ASSUME root \in Values PROVE Elements \in Seq(Values)
<1>1. Member(root, "pieces") \in Decoded
  BY MemberIsDecoded DEF Decoded
<1> QED BY <1>1, DecodedParts DEF Elements

\* A state without a file or with a malformed one is no value.
LEMMA NoDocument ==
    /\ Missing \notin Values /\ Malformed \notin Values
    /\ root \in Files => root \in Values \/ root = Missing \/ root = Malformed
    /\ root \in Values => root.kind \notin {"missing", "malformed"}
<1>1. Missing.kind = "missing" /\ Malformed.kind = "malformed"
  BY DEF Missing, Malformed, Json
<1>2. \A v \in Values : v.kind \notin {"missing", "malformed"}
  BY FilesAssumption DEF Kinds
<1> QED BY <1>1, <1>2, FilesAssumption
-----------------------------------------------------------------------------
\* Every other element of a sequence, and one more.
LEMMA OneMore ==
    ASSUME NEW q, NEW n \in Nat, NEW o \in {0, 1},
           \A i \in 1..(n + 1) : q[2 * i - o] \in Texts
    PROVE  /\ [i \in 1..n |-> q[2 * i - o]] \in Seq(Texts)
           /\ Append([i \in 1..n |-> q[2 * i - o]], q[2 * (n + 1) - o])
                  = [i \in 1..(n + 1) |-> q[2 * i - o]]
<1> DEFINE f == [i \in 1..n |-> q[2 * i - o]]
           g == [i \in 1..(n + 1) |-> q[2 * i - o]]
           d == q[2 * (n + 1) - o]
<1>1. \A i \in 1..n : i \in 1..(n + 1) /\ f[i] = g[i] /\ f[i] \in Texts
  OBVIOUS
<1>2. d \in Texts /\ g[n + 1] = d
  OBVIOUS
<1>3. f \in Seq(Texts) /\ Len(f) = n
  BY <1>1
<1>4. g \in Seq(Texts) /\ Len(g) = n + 1
  OBVIOUS
<1>5. Append(f, d) = g
  <2> HIDE DEF f, g, d
  <2>1. /\ Append(f, d) \in Seq(Texts) /\ Len(Append(f, d)) = n + 1
        /\ \A i \in 1..n : Append(f, d)[i] = f[i]
        /\ Append(f, d)[n + 1] = d
    BY <1>2, <1>3, AppendProperties
  <2>2. \A i \in 1..(n + 1) : Append(f, d)[i] = g[i]
    BY <1>1, <1>2, <2>1
  <2> QED BY <1>4, <2>1, <2>2, SeqEqual
<1> QED BY <1>3, <1>5

\* Every other element of a sequence that grew further on.
LEMMA SameElements ==
    ASSUME NEW p, NEW q, NEW n \in Nat, NEW o \in {0, 1},
           \A i \in 1..n : q[2 * i - o] = p[2 * i - o]
    PROVE  [i \in 1..n |-> p[2 * i - o]] = [i \in 1..n |-> q[2 * i - o]]
OBVIOUS

\* add_piece laces the new piece in, on the side whose turn it is.
LEMMA LacedOn ==
    ASSUME NEW p \in Seq(Texts), NEW data \in Texts, NEW first, NEW second,
           NEW m \in Nat, NEW h \in {1, 2}, Len(p) = 2 * m + (h - 1),
           Laced(p, first, second)
    PROVE  /\ first \in Seq(Texts) /\ second \in Seq(Texts)
           /\ Laced(Append(p, data), IF h = 1 THEN Append(first, data) ELSE first,
                    IF h = 1 THEN second ELSE Append(second, data))
<1> DEFINE q == Append(p, data)
<1>1. /\ Len(p) \in Nat /\ Len(q) = Len(p) + 1 /\ q[Len(p) + 1] = data
      /\ \A i \in 1..Len(p) : q[i] = p[i] /\ p[i] \in Texts
  <2>1. Len(p) \in Nat /\ \A i \in 1..Len(p) : p[i] \in Texts
    OBVIOUS
  <2> QED BY <2>1, AppendProperties
<1> HIDE DEF q
<1>2. \A i \in 1..Len(q) : q[i] \in Texts
  BY <1>1
<1>3. (Len(p) + 1) \div 2 = m + (h - 1) /\ Len(p) \div 2 = m
  OBVIOUS
<1>4. (Len(q) + 1) \div 2 = m + 1 /\ Len(q) \div 2 = m + (h - 1)
  BY <1>1
<1>5. /\ first = [i \in 1..(m + (h - 1)) |-> p[2 * i - 1]]
      /\ second = [i \in 1..m |-> p[2 * i]]
  BY <1>3 DEF Laced
<1>6. second = [i \in 1..m |-> p[2 * i - 0]]
  BY <1>5
<1>7. Laced(q, [i \in 1..(m + 1) |-> q[2 * i - 1]], [i \in 1..(m + (h - 1)) |-> q[2 * i]])
  BY <1>4 DEF Laced
<1>8. /\ \A i \in 1..(m + (h - 1)) : 2 * i - 1 \in 1..Len(p)
      /\ \A i \in 1..m : 2 * i - 0 \in 1..Len(p)
      /\ \A i \in 1..(m + 1) : 2 * i - 1 \in 1..(Len(p) + 1)
      /\ h = 2 => \A i \in 1..(m + 1) : 2 * i - 0 \in 1..(Len(p) + 1)
  BY <1>1
<1>9. /\ \A i \in 1..(m + (h - 1)) : q[2 * i - 1] = p[2 * i - 1] /\ q[2 * i - 1] \in Texts
      /\ \A i \in 1..m : q[2 * i - 0] = p[2 * i - 0] /\ q[2 * i - 0] \in Texts
      /\ \A i \in 1..(m + 1) : q[2 * i - 1] \in Texts
      /\ h = 2 => \A i \in 1..(m + 1) : q[2 * i - 0] \in Texts
  BY <1>1, <1>2, <1>8
<1>10. /\ first = [i \in 1..(m + (h - 1)) |-> q[2 * i - 1]]
       /\ second = [i \in 1..m |-> q[2 * i - 0]]
  <2>1. m + (h - 1) \in Nat
    OBVIOUS
  <2> QED BY <1>5, <1>6, <1>9, <2>1, SameElements
<1>11. CASE h = 1
  <2>1. 2 * (m + 1) - 1 = Len(p) + 1 /\ m + (h - 1) = m
    BY <1>1, <1>11
  <2>2. first = [i \in 1..m |-> q[2 * i - 1]] /\ q[2 * (m + 1) - 1] = data
    BY <1>1, <1>10, <2>1
  <2>3. first \in Seq(Texts) /\ Append(first, data) = [i \in 1..(m + 1) |-> q[2 * i - 1]]
    BY <1>9, <2>2, OneMore
  <2>4. second \in Seq(Texts)
    BY <1>9, <1>10
  <2>5. second = [i \in 1..(m + (h - 1)) |-> q[2 * i]]
    BY <1>10, <2>1
  <2> QED BY <1>7, <1>11, <2>3, <2>4, <2>5 DEF q
<1>12. CASE h = 2
  <2>1. 2 * (m + 1) - 0 = Len(p) + 1 /\ m + (h - 1) = m + 1
    BY <1>1, <1>12
  <2>2. second = [i \in 1..m |-> q[2 * i - 0]] /\ q[2 * (m + 1) - 0] = data
    BY <1>1, <1>10, <2>1
  <2>3. second \in Seq(Texts) /\ Append(second, data) = [i \in 1..(m + 1) |-> q[2 * i - 0]]
    BY <1>9, <1>12, <2>2, OneMore
  <2>4. first = [i \in 1..(m + 1) |-> q[2 * i - 1]] /\ first \in Seq(Texts)
    BY <1>9, <1>10, <2>1
  <2>5. Append(second, data) = [i \in 1..(m + (h - 1)) |-> q[2 * i]]
    BY <2>1, <2>3
  <2>6. Laced(q, first, Append(second, data))
    BY <1>7, <2>4, <2>5
  <2>7. h # 1
    BY <1>12
  <2> QED BY <2>3, <2>4, <2>6, <2>7 DEF q
<1> QED BY <1>11, <1>12

\* add_piece changes the three lists and nothing else.
LEMMA AddedPiece ==
    ASSUME NEW l \in Lists, NEW data \in Texts, NEW m \in Nat, NEW h \in {1, 2},
           Len(l.pieces) = 2 * m + (h - 1), Laced(l.pieces, l.half_01, l.half_02)
    PROVE  LET new == add_piece(l, data, h)
           IN  /\ new \in Lists
               /\ new.name = l.name /\ new.pieces_count = l.pieces_count
               /\ new.pieces = Append(l.pieces, data)
               /\ Laced(new.pieces, new.half_01, new.half_02)
<1> DEFINE first == IF h = 1 THEN Append(l.half_01, data) ELSE l.half_01
           second == IF h = 1 THEN l.half_02 ELSE Append(l.half_02, data)
           q == Append(l.pieces, data)
           new == add_piece(l, data, h)
<1>1. /\ l.pieces \in Seq(Texts) /\ l.half_01 \in Seq(Texts) /\ l.half_02 \in Seq(Texts)
      /\ l.name \in Texts /\ l.pieces_count \in Texts
  BY DEF Lists
<1>2. Laced(q, first, second)
  BY <1>1, LacedOn
<1>3. new = [l EXCEPT !.pieces = q, !.half_01 = first, !.half_02 = second]
  BY DEF add_piece
<1>4. q \in Seq(Texts) /\ first \in Seq(Texts) /\ second \in Seq(Texts)
  BY <1>1, AppendProperties
<1> HIDE DEF first, second, q, new
<1>5. new \in Lists
  BY <1>3, <1>4 DEF Lists
<1>6. /\ new.name = l.name /\ new.pieces_count = l.pieces_count /\ new.pieces = q
      /\ new.half_01 = first /\ new.half_02 = second
  BY <1>3 DEF Lists
<1> QED BY <1>2, <1>5, <1>6 DEF new, q

\* Write sends the lines up to the first with a terminator inside.
LEMMA PrefixSent ==
    ASSUME NEW lines \in Seq(Lines)
    PROVE  \E n \in 0..Len(lines) :
               /\ StrPrefix(lines) = SubSeq(lines, 1, n)
               /\ \A i \in 1..n : lines[i][2] # NulText
               /\ n < Len(lines) => lines[n + 1][2] = NulText
<1> DEFINE Ends(n) == /\ \A i \in 1..n : lines[i][2] # NulText
                      /\ n < Len(lines) => lines[n + 1][2] = NulText
           F == {n \in 0..Len(lines) : n < Len(lines) => lines[n + 1][2] = NulText}
<1>1. Len(lines) \in Nat
  OBVIOUS
<1>2. F # {} /\ F \subseteq Nat
  BY <1>1
<1>3. IsWellFoundedOn(OpToRel(<, Nat), Nat)
  BY NatLessThanWellFounded
<1>4. PICK n \in F : \A m \in F : ~(<<m, n>> \in OpToRel(<, Nat))
  <2> HIDE DEF F
  <2> QED BY <1>2, <1>3, WFMin
<1>5. n \in 0..Len(lines) /\ n \in Nat /\ \A m \in F : ~(m < n)
  BY <1>1, <1>2, <1>4 DEF OpToRel
<1>6. \A i \in 1..n : lines[i][2] # NulText
  <2> SUFFICES ASSUME NEW i \in 1..n PROVE lines[i][2] # NulText
    OBVIOUS
  <2>1. i - 1 \in 0..Len(lines) /\ i - 1 < n /\ (i - 1) + 1 = i /\ i - 1 < Len(lines)
    BY <1>1, <1>5
  <2>2. i - 1 \notin F
    BY <1>5, <2>1
  <2> QED BY <2>1, <2>2
<1>7. Ends(n)
  BY <1>4, <1>6
<1>8. PICK k \in 0..Len(lines) : k = CHOOSE j \in 0..Len(lines) : Ends(j)
  <2> HIDE DEF Ends
  <2> QED BY <1>5, <1>7
<1>9. Ends(k)
  <2> HIDE DEF Ends
  <2> QED BY <1>5, <1>7, <1>8
<1> QED BY <1>8, <1>9 DEF StrPrefix

\* A page of one line.
LEMMA OneLine ==
    ASSUME NEW line \in Lines
    PROVE  << line >> \in Seq(Lines) /\ Len(<< line >>) = 1
OBVIOUS

\* The loop is over: the page is the one the file says.
LEMMA PageOfTheFile ==
    ASSUME root \in Values, lego \in Lists, Len(lego.pieces) = 2 * Len(Elements),
           lego.name = Member(root, "name").text,
           lego.pieces_count = AsInt(Member(root, "total-pieces")),
           \A k \in 1..Len(lego.pieces) : lego.pieces[k] = PieceText(k)
    PROVE  generateHTML(lego) = Expected /\ Expected \in Seq(Lines)
<1> DEFINE items == [i \in 1..Len(lego.pieces) |-> <<"li", lego.pieces[i]>>]
           head == <<<<"title", lego.name>>, <<"h1", lego.name>>, <<"h2", lego.pieces_count>>>>
           tail == <<<<"end", "">>>>
<1>1. items = [k \in 1..(2 * Len(Elements)) |->
                  <<"li", Member(Elements[(k + 1) \div 2],
                                 IF k % 2 = 1 THEN "m1" ELSE "m2").text>>]
  BY DEF PieceText
<1>2. generateHTML(lego) = Expected
  BY <1>1 DEF generateHTML, Expected
<1>3. lego.name \in Texts /\ lego.pieces_count \in Texts /\ lego.pieces \in Seq(Texts)
  BY DEF Lists
<1>4. head \in Seq(Lines)
  BY <1>3 DEF Lines
<1>5. items \in Seq(Lines)
  BY <1>3 DEF Lines
<1>6. tail \in Seq(Lines)
  <2>1. "" \in Texts
    BY TextsAssumption
  <2>2. <<"end", "">> \in Lines
    BY <2>1 DEF Lines
  <2> QED BY <2>2, OneLine
<1>7. generateHTML(lego) = head \o items \o tail
  BY DEF generateHTML
<1> HIDE DEF head, items, tail
<1>8. head \o items \in Seq(Lines)
  BY <1>4, <1>5, ConcatProperties
<1>9. head \o items \o tail \in Seq(Lines)
  BY <1>6, <1>8, ConcatProperties
<1> QED BY <1>2, <1>7, <1>9

\* What the buffer takes of a page.
LEMMA CopiedPage ==
    ASSUME NEW html \in Seq(Lines)
    PROVE  \E m \in 0..Len(html) :
               /\ Copied(html) = SubSeq(html, 1, m)
               /\ Copied(html) \in Seq(Lines) /\ Len(Copied(html)) = m
               /\ \A i \in 1..m : Copied(html)[i] = html[i]
               /\ m <= PageLimit /\ m \in {PageLimit, Len(html)}
<1> DEFINE m == IF Len(html) < PageLimit THEN Len(html) ELSE PageLimit
<1>1. m \in 0..Len(html) /\ m \in Int /\ m <= PageLimit /\ m \in {PageLimit, Len(html)}
  BY PageAssumption
<1>2. Copied(html) = SubSeq(html, 1, m)
  BY DEF Copied
<1> HIDE DEF m
<1>3. \A i \in 1..m : html[i] \in Lines
  BY <1>1, ElementOfSeq
<1>4. /\ SubSeq(html, 1, m) \in Seq(Lines)
      /\ Len(SubSeq(html, 1, m)) = IF 1 <= m THEN m - 1 + 1 ELSE 0
      /\ \A i \in 1..(m - 1 + 1) : SubSeq(html, 1, m)[i] = html[1 + i - 1]
  BY <1>1, <1>3, SubSeqProperties
<1>5. /\ Len(SubSeq(html, 1, m)) = m
      /\ \A i \in 1..m : SubSeq(html, 1, m)[i] = html[i]
  BY <1>1, <1>4
<1> QED BY <1>1, <1>2, <1>4, <1>5

\* What Write sends of a page in the buffer.
LEMMA SentOfThePage ==
    ASSUME NEW html \in Seq(Lines)
    PROVE  LET s == StrPrefix(Copied(html))
           IN  /\ s \in Seq(Lines) /\ Len(s) <= Len(Copied(html)) /\ Len(s) <= Len(html)
               /\ s = SubSeq(html, 1, Len(s))
               /\ \A i \in 1..Len(s) : s[i][2] # NulText
               /\ \/ Len(s) \in {PageLimit, Len(html)}
                  \/ html[Len(s) + 1][2] = NulText
<1> DEFINE c == Copied(html)
           s == StrPrefix(c)
<1>1. PICK m \in 0..Len(html) :
        /\ c \in Seq(Lines) /\ Len(c) = m
        /\ \A i \in 1..m : c[i] = html[i]
        /\ m <= PageLimit /\ m \in {PageLimit, Len(html)}
  BY CopiedPage
<1> HIDE DEF c
<1>2. PICK n \in 0..Len(c) :
        /\ s = SubSeq(c, 1, n)
        /\ \A i \in 1..n : c[i][2] # NulText
        /\ n < Len(c) => c[n + 1][2] = NulText
  BY <1>1, PrefixSent
<1> HIDE DEF s
<1>3. n \in Int /\ n \in 0..m /\ n \in 0..Len(html) /\ m \in Nat /\ Len(html) \in Nat
  BY <1>1, <1>2
<1>4. \A i \in 1..n : c[i] = html[i] /\ c[i] \in Lines /\ html[i] \in Lines
  BY <1>1, <1>3, ElementOfSeq
<1>5. /\ s \in Seq(Lines) /\ Len(s) = n
      /\ \A i \in 1..n : s[i] = c[i]
  <2>1. /\ SubSeq(c, 1, n) \in Seq(Lines)
        /\ Len(SubSeq(c, 1, n)) = IF 1 <= n THEN n - 1 + 1 ELSE 0
        /\ \A i \in 1..(n - 1 + 1) : SubSeq(c, 1, n)[i] = c[1 + i - 1]
    BY <1>3, <1>4, SubSeqProperties
  <2> QED BY <1>2, <1>3, <2>1
<1>6. /\ SubSeq(html, 1, n) \in Seq(Lines) /\ Len(SubSeq(html, 1, n)) = n
      /\ \A i \in 1..n : SubSeq(html, 1, n)[i] = html[i]
  <2>1. /\ SubSeq(html, 1, n) \in Seq(Lines)
        /\ Len(SubSeq(html, 1, n)) = IF 1 <= n THEN n - 1 + 1 ELSE 0
        /\ \A i \in 1..(n - 1 + 1) : SubSeq(html, 1, n)[i] = html[1 + i - 1]
    BY <1>3, <1>4, SubSeqProperties
  <2> QED BY <1>3, <2>1
<1>7. s = SubSeq(html, 1, n)
  <2>1. \A i \in 1..n : s[i] = SubSeq(html, 1, n)[i]
    BY <1>4, <1>5, <1>6
  <2> QED BY <1>5, <1>6, <2>1, SeqEqual
<1>8. \A i \in 1..n : s[i][2] # NulText
  BY <1>2, <1>5
<1>9. n \in {PageLimit, Len(html)} \/ html[n + 1][2] = NulText
  <2>1. CASE n < m
    <3>1. n + 1 \in 1..m
      BY <1>3, <2>1
    <3> QED BY <1>1, <1>2, <2>1, <3>1
  <2>2. CASE n = m
    BY <1>1, <2>2
  <2> QED BY <1>3, <2>1, <2>2
<1> QED BY <1>1, <1>3, <1>5, <1>7, <1>8, <1>9 DEF s, c

\* The 404 page fits the buffer and is sent whole.
LEMMA SentOfTheError ==
    /\ errorHTML \in Seq(Lines) /\ Len(errorHTML) = 1 /\ Len(errorHTML) <= PageLimit
    /\ StrPrefix(errorHTML) = errorHTML
<1> DEFINE e == errorHTML
<1>1. e \in Seq(Lines) /\ Len(e) = 1 /\ e[1][2] # NulText
  <2>1. "" \in Texts /\ "" # NulText
    BY TextsAssumption
  <2>2. <<"404", "">> \in Lines
    BY <2>1 DEF Lines
  <2>3. e[1][2] = ""
    BY DEF errorHTML
  <2>4. e \in Seq(Lines) /\ Len(e) = 1
    BY <2>2, OneLine DEF errorHTML
  <2> QED BY <2>1, <2>3, <2>4
<1> HIDE DEF e
<1>2. PICK n \in 0..Len(e) :
        /\ StrPrefix(e) = SubSeq(e, 1, n)
        /\ n < Len(e) => e[n + 1][2] = NulText
  BY <1>1, PrefixSent
<1>3. n = 1
  BY <1>1, <1>2
<1>4. SubSeq(e, 1, Len(e)) = e
  BY <1>1, SubSeqFull
<1> QED BY <1>1, <1>2, <1>3, <1>4, PageAssumption DEF e
-----------------------------------------------------------------------------
\* The file does not change, nor what it says.
LEMMA SameFile ==
    ASSUME UNCHANGED root
    PROVE  Elements' = Elements /\ Expected' = Expected
<1>1. Elements' = Elements
  BY DEF Elements, Member
<1> QED BY <1>1 DEF Expected, Member, AsInt

\* The server starts in the invariant.
LEMMA Starts == Init => IInv
<1> SUFFICES ASSUME Init PROVE IInv
  OBVIOUS
<1>1. /\ pc = "decode" /\ root \in Files /\ lego = NoLego /\ at = 1 /\ half = 1
      /\ a = <<>> /\ sent = <<>>
  BY DEF Init
<1>2. NoLego \in Lists
  <2>1. "" \in Texts /\ Zero \in Texts /\ <<>> \in Seq(Texts)
    BY TextsAssumption, EmptySeq
  <2> QED BY <2>1 DEF NoLego, Lists
<1>3. TypeOK
  <2>1. <<>> \in Seq(Lines) /\ Len(<<>>) = 0
    OBVIOUS
  <2> QED BY <1>1, <1>2, <2>1, PageAssumption DEF TypeOK
<1>4. HalvesMakeThePieces
  <2>1. lego.pieces = <<>> /\ lego.half_01 = <<>> /\ lego.half_02 = <<>>
    BY <1>1 DEF NoLego
  <2>2. (0 + 1) \div 2 = 0 /\ 0 \div 2 = 0 /\ Len(<<>>) = 0
    OBVIOUS
  <2> QED BY <2>1, <2>2 DEF HalvesMakeThePieces, Laced
<1>5. Unsent /\ Fresh /\ Reading /\ Paged /\ SentIsTheFile
  BY <1>1 DEF Unsent, Fresh, Reading, Paged, SentIsTheFile
<1> QED BY <1>3, <1>4, <1>5 DEF IInv

\* JSONDecoder::decode lets only a document through.
LEMMA DecodeInv == ASSUME IInv, Decode PROVE IInv'
<1>1. /\ pc = "decode" /\ pc' \in {"error", "threw", "fields"}
      /\ pc' = "error" => root = Missing
      /\ pc' = "fields" => root # Missing /\ root # Malformed
      /\ UNCHANGED <<root, lego, at, half, a, sent>>
  BY DEF Decode
<1>2. TypeOK'
  BY <1>1 DEF IInv, TypeOK
<1>3. HalvesMakeThePieces'
  BY <1>1 DEF IInv, HalvesMakeThePieces
<1>4. Fresh'
  BY <1>1, NoDocument DEF IInv, TypeOK, Fresh
<1>5. (Unsent /\ Reading /\ Paged /\ SentIsTheFile)'
  BY <1>1 DEF IInv, Unsent, Reading, Paged, SentIsTheFile
<1> QED BY <1>2, <1>3, <1>4, <1>5 DEF IInv

\* The members of the document: the name and the count are those of the page.
LEMMA ReadFieldsInv == ASSUME IInv, ReadFields PROVE IInv'
<1>1. /\ pc = "fields" /\ pc' \in {"pieces", "threw"}
      /\ UNCHANGED <<root, at, half, a, sent>>
  BY DEF ReadFields
<1>2. root \in Values /\ lego = NoLego /\ at = 1 /\ half = 1
  BY <1>1 DEF IInv, Fresh
<1>3. (Unsent /\ Paged /\ SentIsTheFile)'
  BY <1>1 DEF IInv, Unsent, Paged, SentIsTheFile
<1>4. CASE pc' = "threw" /\ UNCHANGED lego
  <2>1. TypeOK'
    BY <1>1, <1>4 DEF IInv, TypeOK
  <2>2. HalvesMakeThePieces'
    BY <1>4 DEF IInv, HalvesMakeThePieces
  <2>3. (Fresh /\ Reading)'
    BY <1>4 DEF Fresh, Reading
  <2> QED BY <1>3, <2>1, <2>2, <2>3 DEF IInv
<1>5. CASE /\ HasFields(root) /\ pc' = "pieces"
           /\ lego' = [lego EXCEPT !.name = Member(root, "name").text,
                                   !.pieces_count = AsInt(Member(root, "total-pieces"))]
  <2>1. Member(root, "name").text \in Texts /\ AsInt(Member(root, "total-pieces")) \in Texts
    BY <1>2, MemberIsDecoded, DecodedParts DEF Decoded
  <2>2. lego \in Lists
    BY DEF IInv, TypeOK
  <2> DEFINE name == Member(root, "name").text
             count == AsInt(Member(root, "total-pieces"))
  <2>3. lego' = [lego EXCEPT !.name = name, !.pieces_count = count]
    BY <1>5
  <2> HIDE DEF name, count
  <2>4. /\ lego' \in Lists /\ lego'.name = name /\ lego'.pieces_count = count
        /\ lego'.pieces = lego.pieces /\ lego'.half_01 = lego.half_01
        /\ lego'.half_02 = lego.half_02
    BY <2>1, <2>2, <2>3 DEF Lists, name, count
  <2>5. TypeOK'
    BY <1>1, <2>4 DEF IInv, TypeOK
  <2>6. HalvesMakeThePieces'
    BY <2>4 DEF IInv, HalvesMakeThePieces
  <2>7. Fresh'
    BY <1>1, <1>2, <1>5 DEF Fresh
  <2>8. lego.pieces = <<>>
    BY <1>2 DEF NoLego
  <2>9. Elements \in Seq(Values)
    BY <1>2, ElementsAreValues
  <2>10. Elements' = Elements /\ at' = 1 /\ half' = 1 /\ root' = root
    BY <1>1, <1>2, SameFile
  <2>11. /\ at' <= Len(Elements) + (2 - half')
         /\ Len(lego'.pieces) = 2 * (at' - 1) + (half' - 1)
         /\ 1..Len(lego'.pieces) = {} /\ 1..(at' - 2 + half') = {}
    BY <2>4, <2>8, <2>9, <2>10
  <2>12. Reading'
    BY <1>5, <2>4, <2>10, <2>11 DEF Reading, name, count
  <2> QED BY <1>3, <2>5, <2>6, <2>7, <2>12 DEF IInv
<1> QED BY <1>4, <1>5 DEF ReadFields

\* One half of one element: the next piece of the page.
LEMMA AddHalfInv == ASSUME IInv, AddHalf PROVE IInv'
<1>1. /\ pc = "pieces" /\ at <= Len(Elements) /\ UNCHANGED <<root, a, sent>>
      /\ pc' \in {"pieces", "threw"}
  BY DEF AddHalf
<1>2. /\ root \in Values /\ Elements \in Seq(Values) /\ Len(Elements) \in Nat
      /\ lego \in Lists /\ at \in Nat \ {0} /\ half \in {1, 2}
  BY <1>1, ElementsAreValues DEF IInv, Fresh, TypeOK
<1>3. (Unsent /\ Paged /\ SentIsTheFile)'
  BY <1>1 DEF IInv, Unsent, Paged, SentIsTheFile
<1>4. CASE pc' = "threw" /\ UNCHANGED <<lego, at, half>>
  <2>1. TypeOK'
    BY <1>1, <1>4 DEF IInv, TypeOK
  <2>2. HalvesMakeThePieces'
    BY <1>4 DEF IInv, HalvesMakeThePieces
  <2>3. (Fresh /\ Reading)'
    BY <1>4 DEF Fresh, Reading
  <2> QED BY <1>3, <2>1, <2>2, <2>3 DEF IInv
<1>5. CASE /\ HasHalf(Elements[at])
           /\ lego' = add_piece(lego, Member(Elements[at], HalfName).text, half)
           /\ half' = 3 - half
           /\ at' = IF half = 2 THEN at + 1 ELSE at
           /\ pc' = pc
  <2> DEFINE data == Member(Elements[at], HalfName).text
             n == Len(lego.pieces)
  <2>1. Elements[at] \in Values
    BY <1>1, <1>2
  <2>2. data \in Texts
    BY <2>1, MemberIsDecoded, DecodedParts DEF Decoded
  <2>3. /\ n = 2 * (at - 1) + (half - 1)
        /\ \A k \in 1..n : lego.pieces[k] = PieceText(k)
        /\ \A i \in 1..(at - 2 + half) : HasMembers(Elements[i])
        /\ HasFields(root) /\ lego.name = Member(root, "name").text
        /\ lego.pieces_count = AsInt(Member(root, "total-pieces"))
    BY <1>1 DEF IInv, Reading
  <2>4. data = PieceText(n + 1)
    <3>1. (n + 1 + 1) \div 2 = at /\ (half = 1 <=> (n + 1) % 2 = 1)
      <4> HIDE DEF n
      <4>1. CASE half = 1
        <5>1. n = 2 * (at - 1)
          BY <1>2, <2>3, <4>1
        <5> QED BY <1>2, <4>1, <5>1
      <4>2. CASE half = 2
        <5>1. n = 2 * (at - 1) + 1
          BY <1>2, <2>3, <4>2
        <5> QED BY <1>2, <4>2, <5>1
      <4> QED BY <1>2, <4>1, <4>2
    <3> QED BY <3>1 DEF PieceText, HalfName
  <2>5. /\ lego' \in Lists
        /\ lego'.name = lego.name /\ lego'.pieces_count = lego.pieces_count
        /\ lego'.pieces = Append(lego.pieces, data)
        /\ Laced(lego'.pieces, lego'.half_01, lego'.half_02)
    <3>1. at - 1 \in Nat /\ Len(lego.pieces) = 2 * (at - 1) + (half - 1)
      BY <1>2, <2>3
    <3>2. Laced(lego.pieces, lego.half_01, lego.half_02)
      BY DEF IInv, HalvesMakeThePieces
    <3>3. lego' = add_piece(lego, data, half)
      BY <1>5
    <3> HIDE DEF data
    <3> QED BY <1>2, <2>2, <3>1, <3>2, <3>3, AddedPiece
  <2>6. /\ n \in Nat /\ Len(lego'.pieces) = n + 1 /\ lego'.pieces[n + 1] = data
        /\ \A k \in 1..n : lego'.pieces[k] = lego.pieces[k]
    <3>1. lego.pieces \in Seq(Texts)
      BY <1>2 DEF Lists
    <3> HIDE DEF data
    <3> QED BY <2>2, <2>5, <3>1, AppendProperties
  <2>7. /\ at' \in Nat \ {0} /\ half' \in {1, 2}
        /\ at' <= Len(Elements) + (2 - half')
        /\ n + 1 = 2 * (at' - 1) + (half' - 1)
        /\ at' - 2 + half' = at
    <3> HIDE DEF n
    <3>1. CASE half = 1
      BY <1>1, <1>2, <1>5, <2>3, <3>1
    <3>2. CASE half = 2
      BY <1>1, <1>2, <1>5, <2>3, <3>2
    <3> QED BY <1>2, <3>1, <3>2
  <2>8. \A i \in 1..at : HasMembers(Elements[i])
    <3>1. HasMembers(Elements[at])
      BY <1>5 DEF HasHalf
    <3>2. \A i \in 1..at : i \in 1..(at - 2 + half) \/ i = at
      BY <1>2
    <3> QED BY <2>3, <3>1, <3>2
  <2>9. \A k \in 1..(n + 1) : lego'.pieces[k] = PieceText(k)
    <3> HIDE DEF n, data
    <3>1. \A k \in 1..(n + 1) : k \in 1..n \/ k = n + 1
      BY <2>6
    <3> QED BY <2>3, <2>4, <2>6, <3>1
  <2>10. TypeOK'
    BY <1>1, <2>5, <2>7 DEF IInv, TypeOK
  <2>11. HalvesMakeThePieces'
    BY <2>5 DEF HalvesMakeThePieces
  <2>12. Fresh'
    BY <1>1, <1>2, <1>5 DEF Fresh
  <2>13. Elements' = Elements /\ root' = root
    BY <1>1, SameFile
  <2>14. \A k \in 1..(n + 1) : lego'.pieces[k] = PieceText(k)'
    BY <2>9, <2>13 DEF PieceText
  <2>15. Reading'
    <3> HIDE DEF n, data
    <3> QED BY <2>3, <2>5, <2>6, <2>7, <2>8, <2>13, <2>14 DEF Reading
  <2> QED BY <1>3, <2>10, <2>11, <2>12, <2>15 DEF IInv
<1> QED BY <1>4, <1>5 DEF AddHalf

\* The page of the whole file goes into the buffer.
LEMMA PageInv == ASSUME IInv, Page PROVE IInv'
<1>1. /\ pc = "pieces" /\ pc' = "write" /\ at > Len(Elements)
      /\ a' = Copied(generateHTML(lego)) /\ UNCHANGED <<root, lego, at, half, sent>>
  BY DEF Page
<1>2. /\ root \in Values /\ Elements \in Seq(Values) /\ Len(Elements) \in Nat
      /\ lego \in Lists /\ at \in Nat \ {0} /\ half \in {1, 2}
  BY <1>1, ElementsAreValues DEF IInv, Fresh, TypeOK
<1>3. /\ Len(lego.pieces) = 2 * (at - 1) + (half - 1)
      /\ at <= Len(Elements) + (2 - half)
      /\ \A k \in 1..Len(lego.pieces) : lego.pieces[k] = PieceText(k)
      /\ \A i \in 1..(at - 2 + half) : HasMembers(Elements[i])
      /\ lego.name = Member(root, "name").text
      /\ lego.pieces_count = AsInt(Member(root, "total-pieces"))
  BY <1>1 DEF IInv, Reading
<1>4. half = 1 /\ at = Len(Elements) + 1
  BY <1>1, <1>2, <1>3
<1>5. /\ Len(lego.pieces) = 2 * Len(Elements)
      /\ \A i \in 1..Len(Elements) : HasMembers(Elements[i])
  BY <1>2, <1>3, <1>4
<1>6. generateHTML(lego) = Expected /\ Expected \in Seq(Lines)
  BY <1>2, <1>3, <1>5, PageOfTheFile
<1>7. a' = Copied(Expected) /\ a' \in Seq(Lines) /\ Len(a') <= PageLimit
  BY <1>1, <1>6, CopiedPage
<1>8. sent = <<>>
  BY <1>1 DEF IInv, Unsent
<1>9. TypeOK'
  <2>1. Len(sent) <= Len(a')
    BY <1>7, <1>8
  <2> QED BY <1>1, <1>7, <2>1 DEF IInv, TypeOK
<1>10. HalvesMakeThePieces'
  BY <1>1 DEF IInv, HalvesMakeThePieces
<1>11. (Unsent /\ Fresh /\ Reading /\ SentIsTheFile)'
  BY <1>1, <1>8 DEF Unsent, Fresh, Reading, SentIsTheFile
<1>12. Paged'
  BY <1>1, <1>2, <1>5, <1>6, <1>7, SameFile DEF Paged
<1> QED BY <1>8, <1>9, <1>10, <1>11, <1>12 DEF IInv

\* Without a file the buffer holds the 404 page.
LEMMA ErrorPageInv == ASSUME IInv, ErrorPage PROVE IInv'
<1>1. /\ pc = "error" /\ pc' = "write" /\ a' = errorHTML
      /\ UNCHANGED <<root, lego, at, half, sent>>
  BY DEF ErrorPage
<1>2. root = Missing /\ sent = <<>>
  BY <1>1 DEF IInv, Fresh, Unsent
<1>3. TypeOK'
  <2>1. Len(sent) <= Len(a')
    BY <1>1, <1>2, SentOfTheError
  <2> QED BY <1>1, <2>1, SentOfTheError DEF IInv, TypeOK
<1>4. HalvesMakeThePieces'
  BY <1>1 DEF IInv, HalvesMakeThePieces
<1>5. (Unsent /\ Fresh /\ Reading /\ SentIsTheFile /\ Paged)'
  BY <1>1, <1>2 DEF Unsent, Fresh, Reading, SentIsTheFile, Paged
<1> QED BY <1>2, <1>3, <1>4, <1>5 DEF IInv

\* Write sends the beginning of what the buffer holds.
LEMMA WriteInv == ASSUME IInv, Write PROVE IInv'
<1>1. /\ pc = "write" /\ pc' = "done" /\ sent' = StrPrefix(a)
      /\ UNCHANGED <<root, lego, at, half, a>>
  BY DEF Write
<1>2. HalvesMakeThePieces'
  BY <1>1 DEF IInv, HalvesMakeThePieces
<1>3. (Unsent /\ Fresh /\ Reading /\ Paged)'
  BY <1>1 DEF Unsent, Fresh, Reading, Paged
<1>4. CASE root = Missing /\ a = errorHTML
  <2>1. sent' = errorHTML /\ sent' \in Seq(Lines) /\ Len(sent') <= Len(a)
    <3>1. Len(errorHTML) <= Len(errorHTML)
      BY SentOfTheError
    <3> QED BY <1>1, <1>4, <3>1, SentOfTheError
  <2>2. TypeOK'
    BY <1>1, <2>1 DEF IInv, TypeOK
  <2>3. SentIsTheFile'
    BY <1>1, <1>4, <2>1 DEF SentIsTheFile
  <2> QED BY <1>1, <1>2, <1>3, <2>2, <2>3 DEF IInv
<1>5. CASE /\ root \in Values
           /\ \A i \in 1..Len(Elements) : HasMembers(Elements[i])
           /\ Expected \in Seq(Lines) /\ a = Copied(Expected)
  <2>1. /\ sent' \in Seq(Lines) /\ Len(sent') <= Len(a) /\ Len(sent') <= Len(Expected)
        /\ sent' = SubSeq(Expected, 1, Len(sent'))
        /\ \A i \in 1..Len(sent') : sent'[i][2] # NulText
        /\ \/ Len(sent') \in {PageLimit, Len(Expected)}
           \/ Expected[Len(sent') + 1][2] = NulText
    BY <1>1, <1>5, SentOfThePage
  <2>2. TypeOK'
    BY <1>1, <2>1 DEF IInv, TypeOK
  <2>3. /\ root' = root /\ Elements' = Elements /\ Expected' = Expected
        /\ root.kind \notin {"missing", "malformed"}
        /\ \A i \in 1..Len(Elements) : Elements[i].kind \in {"object", "null"}
    BY <1>1, <1>5, SameFile, NoDocument DEF HasMembers
  <2>4. SentIsTheFile'
    BY <2>1, <2>3 DEF SentIsTheFile
  <2> QED BY <1>1, <1>2, <1>3, <2>2, <2>4 DEF IInv
<1> QED BY <1>1, <1>4, <1>5 DEF IInv, Paged
-----------------------------------------------------------------------------
\* Every step keeps the invariant.
LEMMA Step == IInv /\ [Next]_vars => IInv'
<1> SUFFICES ASSUME IInv, [Next]_vars PROVE IInv'
  OBVIOUS
<1>1. CASE Decode
  BY <1>1, DecodeInv
<1>2. CASE ReadFields
  BY <1>2, ReadFieldsInv
<1>3. CASE AddHalf
  BY <1>3, AddHalfInv
<1>4. CASE Page
  BY <1>4, PageInv
<1>5. CASE ErrorPage
  BY <1>5, ErrorPageInv
<1>6. CASE Write
  BY <1>6, WriteInv
<1>7. CASE UNCHANGED vars
  <2>1. UNCHANGED <<pc, root, lego, at, half, a, sent>>
    BY <1>7 DEF vars
  <2>2. Elements' = Elements /\ Expected' = Expected
    BY <2>1, SameFile
  <2>3. (TypeOK /\ HalvesMakeThePieces /\ Unsent /\ Fresh)'
    BY <2>1 DEF IInv, Unsent, TypeOK, HalvesMakeThePieces, Fresh
  <2>4. Reading'
    BY <2>1, <2>2 DEF IInv, Reading, PieceText
  <2>5. (Paged /\ SentIsTheFile)'
    BY <2>1, <2>2 DEF IInv, Paged, SentIsTheFile
  <2> QED BY <2>3, <2>4, <2>5 DEF IInv
<1> QED BY <1>1, <1>2, <1>3, <1>4, <1>5, <1>6, <1>7 DEF Next

\* The invariant holds in every state of every behaviour.
LEMMA Invariant == Spec => []IInv
BY Starts, Step, PTL DEF Spec

\* Every variable has its type and the page never overruns the buffer.
THEOREM CatalogueTypes == Spec => []TypeOK
<1>1. IInv => TypeOK
  BY DEF IInv
<1> QED BY Invariant, <1>1, PTL

\* The pieces are the two halves laced into each other, whatever the file.
THEOREM PiecesLaced == Spec => []HalvesMakeThePieces
<1>1. IInv => HalvesMakeThePieces
  BY DEF IInv
<1> QED BY Invariant, <1>1, PTL

\* What is sent is the page of the file, the 404 page, or nothing, whatever the
\* file holds and however long the buffer is.
THEOREM FileIsSent == Spec => []SentIsTheFile
<1>1. IInv => SentIsTheFile
  BY DEF IInv
<1> QED BY Invariant, <1>1, PTL

-----------------------------------------------------------------------------
\* No piece can be read from a value whose first element gives no first half.
Barren(v) ==
    LET pieces == Member(v, "pieces").vals
    IN  pieces = <<>> \/ ~(HasMembers(pieces[1]) /\ IsText(Member(pieces[1], "m1")))

Idle == Barren(root) => at = 1 /\ half = 1 /\ lego.pieces = <<>>

\* The loop of getLegoFromJson never gets beyond such an element.
LEMMA StaysIdle == Spec => []Idle
<1>1. Init => Idle
  <2>1. NoLego.pieces = <<>>
    BY DEF NoLego
  <2> QED BY <2>1 DEF Init, Idle
<1>2. IInv /\ Idle /\ [Next]_vars => Idle'
  <2> SUFFICES ASSUME IInv, Idle, [Next]_vars, Barren(root)
               PROVE  Barren(root)' => (at = 1 /\ half = 1 /\ lego.pieces = <<>>)'
    BY DEF Idle, Next, vars, Decode, ReadFields, AddHalf, Page, ErrorPage, Write
  <2>1. at = 1 /\ half = 1 /\ lego.pieces = <<>> /\ lego \in Lists
    BY DEF Idle, IInv, TypeOK
  <2>2. CASE ReadFields
    <3>1. at' = at /\ half' = half
      BY <2>2 DEF ReadFields
    <3>2. lego'.pieces = lego.pieces
      BY <2>1, <2>2 DEF ReadFields, Lists
    <3> QED BY <2>1, <3>1, <3>2
  <2>3. CASE AddHalf
    <3>1. ~HasHalf(Elements[at])
      <4>1. Elements # <<>>
        BY <2>1, <2>3 DEF AddHalf
      <4>2. HalfName = "m1" /\ Elements = Member(root, "pieces").vals
        BY <2>1 DEF HalfName, Elements
      <4> QED BY <2>1, <4>1, <4>2 DEF Barren, HasHalf
    <3>2. UNCHANGED <<lego, at, half>>
      BY <2>3, <3>1 DEF AddHalf
    <3> QED BY <2>1, <3>2
  <2>4. CASE UNCHANGED <<lego, at, half>>
    BY <2>1, <2>4
  <2> QED BY <2>2, <2>3, <2>4 DEF Next, vars, Decode, Page, ErrorPage, Write
<1> QED BY <1>1, <1>2, Invariant, PTL DEF Spec

\* A value without the key "pieces" gives no piece.
LEMMA NoSuchKey ==
    ASSUME NEW v, \A i \in 1..Len(v.keys) : v.keys[i] # "pieces"
    PROVE  Barren(v)
BY DEF Barren, Member, Null, Json

\* The pieces of a document of four keys.
LEMMA PiecesOfDocument ==
    ASSUME NEW name, NEW total, NEW pieces
    PROVE  Member(Document(name, total, pieces), "pieces") = pieces
<1> DEFINE k == <<"id", "name", "pieces", "total-pieces">>
           w == <<Str("x"), name, pieces, total>>
<1>1. /\ Document(name, total, pieces).keys = k
      /\ Document(name, total, pieces).vals = w
  BY DEF Document, Obj, Json
<1>2. /\ Len(k) = 4 /\ k[3] = "pieces" /\ w[3] = pieces
      /\ \A i \in 1..4 : k[i] = "pieces" => i = 3
  OBVIOUS
<1>3. (CHOOSE i \in 1..Len(k) : k[i] = "pieces") = 3
  <2> HIDE DEF k
  <2> QED BY <1>2
<1> HIDE DEF k, w
<1> QED BY <1>1, <1>2, <1>3 DEF Member

\* None of the shipped files gives a piece.
LEMMA ShippedAreBarren == ASSUME NEW v \in Shipped PROVE Barren(v)
<1>1. \A m1, m2 : Barren(FormatMembers(m1, m2))
  <2> TAKE m1, m2
  <2> DEFINE k == <<"id", "m1", "m2", "name", "total-pieces">>
  <2>1. FormatMembers(m1, m2).keys = k
    BY DEF FormatMembers, Obj, Json
  <2>2. \A i \in 1..Len(k) : k[i] # "pieces"
    OBVIOUS
  <2> HIDE DEF k
  <2> QED BY <2>1, <2>2, NoSuchKey
<1>2. \A name, total, w1, w2, k1, k2 :
        ~HasMembers(w1) => Barren(Document(name, total, Obj(<<k1, k2>>, <<w1, w2>>)))
  <2> TAKE name, total, w1, w2, k1, k2
  <2>1. Obj(<<k1, k2>>, <<w1, w2>>).vals[1] = w1
    BY DEF Obj, Json
  <2>2. Member(Document(name, total, Obj(<<k1, k2>>, <<w1, w2>>)), "pieces")
          = Obj(<<k1, k2>>, <<w1, w2>>)
    BY PiecesOfDocument
  <2> QED BY <2>1, <2>2 DEF Barren
<1>3. ~HasMembers(Arr(<<Str("x")>>)) /\ ~HasMembers(Str("x"))
  BY DEF HasMembers, Arr, Str, Json
<1>4. \A w : Barren(Obj(<<"01">>, << w >>))
  <2> TAKE w
  <2>1. /\ Obj(<<"01">>, << w >>).keys = <<"01">>
        /\ \A i \in 1..Len(<<"01">>) : <<"01">>[i] # "pieces"
    BY DEF Obj, Json
  <2> QED BY <2>1, NoSuchKey
<1> QED BY <1>1, <1>2, <1>3, <1>4 DEF Shipped, Two

\* No shipped file gives a page with a piece, however long the buffer is: what
\* the run shows of one of them holds of all five.
THEOREM NoShippedFileIsRead == Spec => [](root \in Shipped => lego.pieces = <<>>)
<1>1. Idle => (root \in Shipped => lego.pieces = <<>>)
  BY ShippedAreBarren DEF Idle
<1> QED BY StaysIdle, <1>1, PTL
=============================================================================
