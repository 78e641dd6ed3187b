------------------------------ MODULE Buffers ------------------------------
(***************************************************************************)
(* The char arrays of the programs.  read() overwrites a prefix of an      *)
(* array and adds no terminator, and none of the arrays that receive data  *)
(* is cleared first except the one of the pieces server: what the string   *)
(* functions then see is the new prefix followed by whatever the array     *)
(* held.  An array is a sequence of cells; a cell stands for a few bytes.  *)
(***************************************************************************)
EXTENDS Naturals, Sequences

CONSTANTS
    NUL,    \* a terminator
    JUNK    \* bytes that mean nothing to the programs

ASSUME MarksDiffer == NUL # JUNK

\* The array after read() stored the first k cells of "bytes" in it.
Fill(buf, bytes, k) ==
    [i \in 1..Len(buf) |-> IF i <= k THEN bytes[i] ELSE buf[i]]

\* strlen: the number of cells before the first terminator, if there is one.
StrLen(buf) ==
    {n \in 0..(Len(buf) - 1) : buf[n + 1] = NUL /\ \A i \in 1..n : buf[i] # NUL}

(* The strings a char* to the array can denote.  Without a terminator in     *)
(* the array the string goes on into the memory behind it, for a while or    *)
(* not at all.                                                               *)
Strings(buf) ==
    IF \E i \in 1..Len(buf) : buf[i] = NUL
    THEN {SubSeq(buf, 1, n) : n \in StrLen(buf)}
    ELSE {buf, Append(buf, JUNK)}

\* What an array that was never written may hold.
Uninitialised(n) == {[i \in 1..n |-> NUL], [i \in 1..n |-> JUNK]}

\* How much of "bytes" one read() into "size" cells may return.
ReadSizes(bytes, size) == {k \in 1..size : k <= Len(bytes)}

\* Mutant of WholeRead: a cell is kept free for a terminator.
ReadButOne(bytes, size) == IF Len(bytes) < size - 1 THEN Len(bytes) ELSE size - 1

\* The size of that read when the bytes travel in one segment.
WholeRead(bytes, size) == IF Len(bytes) < size THEN Len(bytes) ELSE size
=============================================================================
