------------------------------ MODULE Bencode -------------------------------
(***************************************************************************)
(* class BencodeParser.  A text is a sequence of tokens: "d", "l" and "e"  *)
(* stand for themselves, "str" for a string with its length, "int" for     *)
(* i...e.  index counts tokens where the code counts characters.           *)
(*                                                                         *)
(* A value is a string, a number, a list of values, or a dictionary (a     *)
(* sequence of keys with their values).  It has its text with it, the one  *)
(* a program that keeps to the format makes of it.                         *)
(***************************************************************************)
EXTENDS Integers, Sequences, SequencesExt

Token(kind, s) == [kind |-> kind, of |-> s]

Value(kind, s, entries, text) == [kind |-> kind, of |-> s, entries |-> entries, text |-> text]

Enclosed(kind, texts) == <<Token(kind, "")>> \o FlattenSeq(texts) \o <<Token("e", "")>>

Str(s)    == Value("str", s, <<>>, <<Token("str", s)>>)
Number(s) == Value("int", s, <<>>, <<Token("int", s)>>)
List(s)   == Value("list", "", s, Enclosed("l", [k \in DOMAIN s |-> s[k].text]))

Entry(key, value) == [key |-> key, value |-> value]
TextOf(entry)     == <<Token("str", entry.key)>> \o entry.value.text
Dict(s)           == Value("dict", "", s, Enclosed("d", [k \in DOMAIN s |-> TextOf(s[k])]))

\* The value of a key of a dictionary; the empty string if the key is not there.
ValueAt(dict, key) ==
    LET at == {k \in DOMAIN dict.entries : dict.entries[k].key = key} IN
    IF at = {} THEN Str("") ELSE dict.entries[CHOOSE k \in at : TRUE].value

-----------------------------------------------------------------------------
\* What texts of values have in common: the bracket that comes first is the last one
\* closed.
Opened(token) == IF token.kind \in {"d", "l"} THEN 1 ELSE IF token.kind = "e" THEN -1 ELSE 0

Balanced(text) ==
    LET open[k \in 0 .. Len(text)] == IF k = 0 THEN 0 ELSE open[k - 1] + Opened(text[k])
    IN  text # <<>> /\ \A k \in 1 .. Len(text) : IF k = Len(text) THEN open[k] = 0 ELSE open[k] > 0

IsText(text) ==
    /\ text \in Seq(ToSet(text))
    /\ \A k \in DOMAIN text : text[k].kind \in {"d", "l", "e", "str", "int"}

IsValue(v) ==
    /\ IsText(v.text) /\ Balanced(v.text)
    /\ v.kind \in {"str", "int"} => v.text = <<Token(v.kind, v.of)>>

\* A dictionary in which every key has a name, and one of its own.
IsDict(v) ==
    /\ v.entries \in Seq(ToSet(v.entries))
    /\ \A k \in DOMAIN v.entries :
          v.entries[k].key # "" /\ IsValue(v.entries[k].value)
    /\ \A j, k \in DOMAIN v.entries : v.entries[j].key = v.entries[k].key => j = k
    /\ v.text = Dict(v.entries).text

-----------------------------------------------------------------------------
(***************************************************************************)
(* The parser: its fields, and the calls of ProcessDict and ProcessList    *)
(* that have begun, with their locals.                                     *)
(***************************************************************************)
NewParser == [index |-> 1, parsed |-> <<>>, info_hash |-> <<>>, calls |-> <<>>]

Call(kind) == [kind |-> kind, key |-> "", start |-> 0, end |-> 0]

\* Slip: the flag stays up, and the last value of the dictionary ends the range.
SlipFlagStays(d, index) == [d EXCEPT !.key = "", !.end = IF d.start > 0 THEN index ELSE @]

\* The value has been read: that of "info" ends the range, and the next is a key.
AfterValue(d, index) == [d EXCEPT !.key = "", !.end = IF d.key = "info" THEN index ELSE @]

AfterKey(d, string, index) ==
    [d EXCEPT !.key = string, !.start = IF string = "info" THEN index ELSE @]

\* Process returns to the loop that called it: the string it read, or "".
Resumed(call, string, index) ==
    IF call.kind = "l" THEN call
    ELSE IF call.key = "" THEN AfterKey(call, string, index) ELSE AfterValue(call, index)

Returned(calls, string, index) ==
    IF calls = <<>> THEN <<>>
    ELSE [calls EXCEPT ![Len(calls)] = Resumed(@, string, index)]

\* ProcessDict ends: the hash of the range [start, end), if it has one.
HashOf(text, d, info_hash) ==
    IF d.start > 0 /\ d.end > 0 THEN SubSeq(text, d.start, d.end - 1) ELSE info_hash

\* The next token: a string or an integer is a call of Process, a bracket begins one or
\* ends it.  Strings and integers go to parsed; only a string is returned.
Process(text, p) ==
    LET token == text[p.index]
        next  == p.index + 1
    IN  CASE token.kind \in {"str", "int"} ->
               [p EXCEPT !.index = next, !.parsed = Append(@, token.of),
                         !.calls = Returned(@, IF token.kind = "str" THEN token.of ELSE "", next)]
          [] token.kind \in {"d", "l"} ->
               [p EXCEPT !.index = next, !.calls = Append(@, Call(token.kind))]
          [] token.kind = "e" ->
               [p EXCEPT !.index = next, !.calls = Returned(Front(@), "", next),
                         !.info_hash = HashOf(text, Last(p.calls), @)]

\* ParseFromFile, ParseFromString, of a text that ends with its value.
Parsed(text) ==
    LET after[k \in 0 .. Len(text)] ==
            IF k = 0 THEN NewParser ELSE Process(text, after[k - 1])
    IN  after[Len(text)]

-----------------------------------------------------------------------------
\* GetPieceHashes: 20 bytes each, of the string after the first "pieces".
GetPieceHashes(parsed) ==
    LET at == {i \in 1 .. Len(parsed) - 1 : parsed[i] = "pieces"} IN
    IF at = {} THEN <<>>
    ELSE LET data == parsed[1 + CHOOSE i \in at : \A j \in at : i <= j]
         IN  [k \in 1 .. Len(data) \div 20 |-> SubSeq(data, 20 * k - 19, 20 * k)]
=============================================================================
