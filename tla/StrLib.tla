------------------------------- MODULE StrLib -------------------------------
(* Library/StrLib: strings in memory, a sequence of cells that ends in NUL. *)
(* A pointer is the cell's place from 1 on; 0 is the null pointer.          *)
EXTENDS Naturals, Sequences

CONSTANTS
  Chars,   \* the characters that strings are made of
  StrCells \* bound: cells of the buffers that are tried

ASSUME StrAssumption == StrCells \in Nat \ {0} /\ "NUL" \notin Chars

VARIABLE strArgs \* the arguments that are tried: [dst, src, set, c, siz]

\* The string that starts at p.
NulFrom(mem, p) == CHOOSE q \in p..Len(mem) : mem[q] = "NUL" /\ \A r \in p..(q - 1) : mem[r] # "NUL"
StringAt(mem, p) == SubSeq(mem, p, NulFrom(mem, p) - 1)

Buffer(n) == {m \in [1..n -> Chars \cup {"NUL"}] : \E q \in 1..n : m[q] = "NUL"}

-----------------------------------------------------------------------------
\* The loop of strspn: how many of the characters from p on are accepted.
strspn(s, accept) ==
  LET count[p \in 1..Len(s)] ==
        IF s[p] = "NUL" \/ s[p] \notin accept THEN 0 ELSE 1 + count[p + 1]
  IN count[1]

strpbrk(cs, ct) ==
  LET from[p \in 1..Len(cs)] ==
        IF cs[p] = "NUL" THEN 0 ELSE IF cs[p] \in ct THEN p ELSE from[p + 1]
  IN from[1]

\* NUL may be searched for, and is found.
strchr(s, c) ==
  LET from[p \in 1..Len(s)] ==
        IF s[p] = c THEN p ELSE IF s[p] = "NUL" THEN 0 ELSE from[p + 1]
  IN from[1]

\* The end of dst within siz cells; then src, as long as two cells are left.
\* Mutant: the last cell is filled as well.
strlcatFull(dst, src, siz) ==
  LET dlen == IF \E k \in 1..siz : dst[k] = "NUL" THEN NulFrom(dst, 1) - 1 ELSE siz
      len == NulFrom(src, 1) - 1
      copy[k \in 0..len] ==
        IF k = 0 THEN [mem |-> dst, d |-> dlen + 1, n |-> siz - dlen]
        ELSE LET w == copy[k - 1] IN
             IF w.n = 0 THEN w
             ELSE [mem |-> [w.mem EXCEPT ![w.d] = src[k]], d |-> w.d + 1, n |-> w.n - 1]
      end == copy[len]
  IN [ret |-> dlen + len,
      mem |-> IF siz = dlen \/ end.d > Len(dst) THEN end.mem ELSE [end.mem EXCEPT ![end.d] = "NUL"]]

strlcat(dst, src, siz) ==
  LET dlen == IF \E k \in 1..siz : dst[k] = "NUL" THEN NulFrom(dst, 1) - 1 ELSE siz
      len == NulFrom(src, 1) - 1
      copy[k \in 0..len] ==
        IF k = 0 THEN [mem |-> dst, d |-> dlen + 1, n |-> siz - dlen]
        ELSE LET w == copy[k - 1] IN
             IF w.n = 1 THEN w
             ELSE [mem |-> [w.mem EXCEPT ![w.d] = src[k]], d |-> w.d + 1, n |-> w.n - 1]
      end == copy[len]
  IN IF siz = dlen THEN [ret |-> dlen + len, mem |-> dst]
     ELSE [ret |-> dlen + len, mem |-> [end.mem EXCEPT ![end.d] = "NUL"]]

\* strtok_r from p, the argument or what the last call left: the token's
\* place, the place for the next call, and the memory with the delimiter
\* after the token overwritten.
strtok_r(mem, p, delim) ==
  LET q == CHOOSE q \in p..Len(mem) : mem[q] \notin delim /\ \A r \in p..(q - 1) : mem[r] \in delim
      e == CHOOSE e \in (q + 1)..Len(mem) :
             /\ mem[e] \in delim \cup {"NUL"}
             /\ \A r \in (q + 1)..(e - 1) : mem[r] \notin delim \cup {"NUL"}
  IN IF p = 0 \/ mem[q] = "NUL" THEN [tok |-> 0, last |-> 0, mem |-> mem]
     ELSE IF mem[e] = "NUL" THEN [tok |-> q, last |-> 0, mem |-> mem]
     ELSE [tok |-> q, last |-> e + 1, mem |-> [mem EXCEPT ![e] = "NUL"]]

-----------------------------------------------------------------------------
StrInit ==
  strArgs \in [dst : Buffer(StrCells), src : Buffer(StrCells), set : SUBSET Chars,
               c : Chars \cup {"NUL"}, siz : 0..StrCells]

\* Other arguments for the next calls.
StrNext ==
  \E c \in Chars, n \in 0..StrCells : strArgs' = [strArgs EXCEPT !.c = c, !.siz = n]

\* strspn and strpbrk split a string at the same place, and strchr is strpbrk
\* for a single character.
SearchesAgree ==
  LET s == strArgs.src  skipped == strspn(s, Chars \ strArgs.set) IN
  /\ strpbrk(s, strArgs.set) = IF s[skipped + 1] = "NUL" THEN 0 ELSE skipped + 1
  /\ strArgs.c \in Chars => strchr(s, strArgs.c) = strpbrk(s, {strArgs.c})
  /\ strchr(s, "NUL") = Len(StringAt(s, 1)) + 1

\* As strlcat's comment has it: the strings are joined and cut to what fits
\* in siz cells with the NUL, nothing is written beyond, and the result tells
\* how long they are together, so that a cut can be seen.
StrlcatFits ==
  LET a == strArgs  r == strlcat(a.dst, a.src, a.siz)
      fits == \E k \in 1..a.siz : a.dst[k] = "NUL"
      both == StringAt(a.dst, 1) \o StringAt(a.src, 1)
  IN /\ \A k \in (a.siz + 1)..StrCells : r.mem[k] = a.dst[k]
     /\ IF fits THEN /\ \E k \in 1..a.siz : r.mem[k] = "NUL"
                     /\ StringAt(r.mem, 1) = SubSeq(both, 1, IF Len(both) < a.siz THEN Len(both) ELSE a.siz - 1)
                     /\ r.ret = Len(both)
                ELSE r.mem = a.dst /\ r.ret >= a.siz

\* The functions of StrLib agree with one another and keep to their buffers.
StringsRight == SearchesAgree /\ StrlcatFits
=============================================================================
