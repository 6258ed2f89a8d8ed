-------------------------------- MODULE Benc --------------------------------
(***************************************************************************)
(* Bencoding (misc/benc.c), in which torrents, the library's files, the    *)
(* trackers' answers and the commands of btcli are written: benc_validate, *)
(* and the operators that walk over what it has accepted without looking   *)
(* at the length of the buffer again.  They are compared with the grammar. *)
(*                                                                         *)
(* A pointer is a position in memory, which is the text and what lies      *)
(* behind it; NULL is 0.  The text grows by pieces up to a bound, so the   *)
(* numbers in it are far from the width of size_t.                         *)
(***************************************************************************)
EXTENDS Integers, Sequences, FiniteSets

CONSTANTS
    Pieces,     \* of which texts are made
    MaxPieces,  \* bound: pieces of a text
    Behind,     \* what may lie behind the text
    Keys        \* keys looked up

VARIABLES
    text,       \* what is validated
    behind,     \* the character after it
    pieces      \* how many pieces it is made of

vars == <<text, behind, pieces>>

Init == text = <<>> /\ behind \in Behind /\ pieces = 0

grow ==
    /\ pieces < MaxPieces
    /\ \E p \in Pieces : text' = text \o p
    /\ pieces' = pieces + 1 /\ UNCHANGED behind

Next == grow
Spec == Init /\ [][Next]_vars

NULL == 0
End == Len(text)
mem == text \o <<behind>>

Value(c) == CASE c = "0" -> 0 [] c = "1" -> 1 [] c = "2" -> 2
isdigit(c) == c \in {"0", "1", "2"}

\* The first position from p on, up to `end', that is not a digit.
Digits(p, end) ==
    CHOOSE z \in p..(end + 1) : /\ \A q \in p..(z - 1) : isdigit(mem[q])
                                /\ z <= end => ~isdigit(mem[z])
Number(s) == LET n[i \in 0..Len(s)] == IF i = 0 THEN 0 ELSE 10 * n[i - 1] + Value(s[i])
             IN n[Len(s)]

------------------------------------------------------------------------------
(* Validation *)

\* A dictionary, of which d - 1 keys and values have been seen, may not end.
Bug_incomplete(d) == FALSE
incomplete(d) == d # 0 /\ d % 2 # 1

\* The last position of the value at p, or NULL; and of the list or dictionary
\* whose members start at p; d is 0 in a list.
RECURSIVE benc_validate_aux(_, _), members(_, _, _)
benc_validate_aux(p, end) ==
    CASE mem[p] \in {"d", "l"} -> members(p + 1, end, IF mem[p] = "d" THEN 1 ELSE 0)
      [] mem[p] = "i" ->
           LET q == IF p < end /\ mem[p + 1] = "-" THEN p + 2 ELSE p + 1 IN
           IF q > end \/ ~isdigit(mem[q]) THEN NULL
           ELSE LET z == Digits(q, end) IN IF z > end \/ mem[z] # "e" THEN NULL ELSE z
      [] isdigit(mem[p]) ->
           LET z == Digits(p, end)
               len == Number(SubSeq(mem, p, z - 1)) IN
           IF z <= end /\ mem[z] = ":" /\ z + len <= end THEN z + len ELSE NULL
      [] OTHER -> NULL

members(p, end, d) ==
    IF p > end THEN NULL
    ELSE IF mem[p] = "e" THEN (IF incomplete(d) THEN NULL ELSE p)
    ELSE IF d % 2 = 1 /\ ~isdigit(mem[p]) THEN NULL
    ELSE LET q == benc_validate_aux(p, end) IN
         IF q = NULL THEN NULL ELSE members(q + 1, end, IF d = 0 THEN 0 ELSE d + 1)

benc_validate == End > 0 /\ benc_validate_aux(1, End) = End

------------------------------------------------------------------------------
(* Access to a text that is valid *)

benc_islst(p) == mem[p] \in {"l", "d"}
benc_isdct(p) == mem[p] = "d"
benc_isint(p) == mem[p] = "i"
benc_isstr(p) == isdigit(mem[p])

\* strtoul, as far as the digits go.
Numeral(p) == SubSeq(mem, p, Digits(p, End) - 1)

Unless_e(p) == IF mem[p] = "e" THEN NULL ELSE p

\* benc_mem, which also backs benc_str and benc_mema: where the characters are,
\* how many, and what comes next in the list.
benc_mem(p) ==
    LET s == Digits(p, End) + 1
        len == Number(Numeral(p))
    IN [str |-> s, len |-> len]
mem_next(p) == Unless_e(benc_mem(p).str + benc_mem(p).len)

RECURSIVE benc_length(_), lengths(_)
benc_length(p) ==
    CASE benc_islst(p) -> 2 + lengths(p + 1)
      [] benc_isint(p) ->
           (CHOOSE z \in p..End : mem[z] = "e" /\ \A q \in p..(z - 1) : mem[q] # "e") - p + 1
      [] OTHER -> benc_mem(p).str - p + benc_mem(p).len
lengths(p) ==
    IF mem[p] = "e" THEN 0 ELSE LET n == benc_length(p) IN n + lengths(p + n)

benc_first(p) == Unless_e(p + 1)
benc_next(p) == Unless_e(p + benc_length(p))

\* What benc_int reads (strtoll).
benc_int(p) ==
    IF mem[p + 1] = "-" THEN -Number(Numeral(p + 2)) ELSE Number(Numeral(p + 1))

\* benc_dget_any from the key at p on, and for the dictionary at p.
same(p, key) == LET m == benc_mem(p) IN
    m.len = Len(key) /\ SubSeq(mem, m.str, m.str + m.len - 1) = key

RECURSIVE lookup(_, _)
lookup(p, key) ==
    IF p = NULL \/ ~benc_isstr(p) THEN NULL
    ELSE IF same(p, key) THEN mem_next(p)
    ELSE lookup(benc_next(mem_next(p)), key)
benc_dget_any(p, key) == IF benc_isdct(p) THEN lookup(benc_first(p), key) ELSE NULL

------------------------------------------------------------------------------
(* The grammar *)

RECURSIVE IsValue(_), AreValues(_, _)
Inside(s) == SubSeq(s, 2, Len(s) - 1)
Parts(s) == {<<SubSeq(s, 1, i), SubSeq(s, i + 1, Len(s))>> : i \in 1..Len(s)}
IsDigits(s) == s # <<>> /\ \A i \in DOMAIN s : isdigit(s[i])

IsString(s) ==
    \E x \in Parts(s) : IsDigits(x[1]) /\ x[2] # <<>> /\ x[2][1] = ":"
                        /\ Len(x[2]) - 1 = Number(x[1])
IsInteger(s) ==
    /\ Len(s) > 2 /\ s[1] = "i" /\ s[Len(s)] = "e"
    /\ IsDigits(Inside(s)) \/ (s[2] = "-" /\ IsDigits(Tail(Inside(s))))
AreValues(s, keyed) ==
    s = <<>> \/ \E x \in Parts(s) :
       /\ IF keyed THEN IsString(x[1]) ELSE IsValue(x[1])
       /\ IF keyed THEN \E y \in Parts(x[2]) : IsValue(y[1]) /\ AreValues(y[2], TRUE)
          ELSE AreValues(x[2], FALSE)
IsValue(s) ==
    \/ IsString(s) \/ IsInteger(s)
    \/ /\ Len(s) > 1 /\ s[1] \in {"l", "d"} /\ s[Len(s)] = "e"
       /\ AreValues(Inside(s), s[1] = "d")

\* The values of which s is made.
RECURSIVE Values(_)
Values(s) == IF s = <<>> THEN <<>>
             ELSE LET x == CHOOSE x \in Parts(s) : IsValue(x[1]) IN <<x[1]>> \o Values(x[2])

------------------------------------------------------------------------------
(* Properties *)

\* The value at p, as far as benc_length goes; those reached by benc_next.
At(p) == SubSeq(mem, p, p + benc_length(p) - 1)
RECURSIVE Walk(_)
Walk(p) == IF p = NULL THEN <<>> ELSE <<At(p)>> \o Walk(benc_next(p))

IntOf(s) == IF s[2] = "-" THEN -Number(Tail(Inside(s))) ELSE Number(Inside(s))
\* The first value under key among the members v of the dictionary is found.
FoundRight(v, key) ==
    LET ks == {k \in 1..(Len(v) \div 2) : IsString(v[2 * k - 1]) /\
                 \E x \in Parts(v[2 * k - 1]) : IsDigits(x[1]) /\ x[2] = <<":">> \o key}
        p == benc_dget_any(1, key) IN
    IF ks = {} THEN p = NULL
    ELSE p # NULL /\ At(p) = v[2 * (CHOOSE k \in ks : \A j \in ks : k <= j)]

\* A text is accepted exactly if it is one value of the grammar; and then,
\* whatever lies behind it, the walk over a list or dictionary comes to its
\* members, integers are what is written, and a key is found with its value
\* exactly if it is there, the first one if it is there twice.
ReadsRight ==
    /\ benc_validate <=> IsValue(text)
    /\ benc_validate =>
         /\ benc_length(1) = End
         /\ benc_isint(1) => benc_int(1) = IntOf(text)
         /\ benc_islst(1) =>
              LET v == Values(Inside(text)) IN
              /\ Walk(benc_first(1)) = v
              /\ benc_isdct(1) => \A key \in Keys : FoundRight(v, key)

=============================================================================
