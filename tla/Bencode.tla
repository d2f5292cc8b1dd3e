---- MODULE Bencode ----
(* Bencoding: the values of BencodeT, encode of bencoder.rs, parse of         *)
(* bedecoder.rs and parse_i64 of utils.rs.  A string of bytes is a sequence   *)
(* of symbols, each a digit, a punctuation or a whole word standing for its   *)
(* bytes; integers have MaxDigits where the code has those of i64::MAX.       *)
EXTENDS Integers, Sequences, FiniteSets, SequencesExt, FiniteSetsExt, TLC

CONSTANTS
    MaxDigits,  \* the digits of the largest integer
    OverflowChecks,  \* the build panics on overflow (cargo's default), or wraps
    Binary,     \* the symbols whose bytes are not UTF-8
    KeyOrder    \* the keys of dictionaries, sorted

\* Values: [int |-> n], [str |-> s], [bytes |-> s], [list |-> seq], [dict |-> f].
\* Outcomes of a call: [ok |-> x], Err or Panic.
Ok(x) == [ok |-> x]
Err == [fail |-> "error"]
Panic == [fail |-> "panic"]
IsOk(r) == "ok" \in DOMAIN r

Text(s) == IF ToSet(s) \cap Binary = {} THEN [str |-> s] ELSE [bytes |-> s]

----------------------------------------------------------------------------
(* Integers *)

Digits == {"0", "1", "2", "3", "4", "5", "6", "7", "8", "9"}
DigitOf(s) == CHOOSE d \in 0..9 : ToString(d) = s

RECURSIVE ShowNat(_)
ShowNat(n) == IF n < 10 THEN <<ToString(n)>>
              ELSE Append(ShowNat(n \div 10), ToString(n % 10))
Show(n) == IF n < 0 THEN <<"-">> \o ShowNat(-n) ELSE ShowNat(n)

ValueOf(ds) == FoldLeft(LAMBDA n, d : 10 * n + d, 0, ds)
MaxInt == ValueOf(MaxDigits)

\* The comparison of parse_i64 with the digits of the maximum: the first digit
\* that differs decides, and decides the wrong way round.
RefusedAsTooLarge(ds) ==
    \/ Len(ds) > Len(MaxDigits)
    \/ /\ Len(ds) = Len(MaxDigits)
       /\ \E k \in DOMAIN ds : /\ MaxDigits[k] > ds[k]
                               /\ \A j \in 1..k - 1 : MaxDigits[j] = ds[j]

\* A number kept in an integer whose largest value is MaxInt.
Wrapped(n) == ((n + MaxInt + 1) % (2 * MaxInt + 2)) - MaxInt - 1

\* Faulty ParseI64, for the mutant runs.
ParseI64SignLost(s) ==
    LET sign == IF s[1] = "-" THEN 1 ELSE 0
        ds   == [k \in 1..Len(s) - sign |-> DigitOf(s[k + sign])]
    IN  IF RefusedAsTooLarge(ds) \/ (OverflowChecks /\ ValueOf(ds) > MaxInt) THEN Panic
        ELSE Ok(Wrapped(ValueOf(ds)))

\* parse_i64, and the unwrap of ascii_utf8_to_i64 on its error.  What passes the
\* comparison may still overflow the sum.
ParseI64(s) ==
    LET sign == IF s[1] = "-" THEN 1 ELSE 0
        ds   == [k \in 1..Len(s) - sign |-> DigitOf(s[k + sign])]
    IN  IF RefusedAsTooLarge(ds) \/ (OverflowChecks /\ ValueOf(ds) > MaxInt) THEN Panic
        ELSE Ok(Wrapped(IF sign = 1 THEN -ValueOf(ds) ELSE ValueOf(ds)))

----------------------------------------------------------------------------
(* encode *)

EncodeString(s) == ShowNat(Len(s)) \o <<":">> \o s

Place(key) == CHOOSE n \in DOMAIN KeyOrder : KeyOrder[n] = key
Sorted(keys) == SetToSortSeq(keys, LAMBDA a, b : Place(a) < Place(b))

RECURSIVE Encode(_)
Encode(v) ==
    CASE "int"   \in DOMAIN v -> <<"i">> \o Show(v.int) \o <<"e">>
      [] "str"   \in DOMAIN v -> EncodeString(v.str)
      [] "bytes" \in DOMAIN v -> EncodeString(v.bytes)
      [] "list"  \in DOMAIN v ->
             <<"l">> \o FlattenSeq([n \in DOMAIN v.list |-> Encode(v.list[n])]) \o <<"e">>
      [] "dict"  \in DOMAIN v ->
             LET keys == Sorted(DOMAIN v.dict)
             IN  <<"d">>
                 \o FlattenSeq([n \in DOMAIN keys |-> EncodeString(<<keys[n]>>)
                                                       \o Encode(v.dict[keys[n]])])
                 \o <<"e">>

----------------------------------------------------------------------------
(* parse.  A step returns the value and where it ended, [ok, next]. *)

\* The first position from i on whose symbol is not in S.
PastAll(b, i, S) == Min({j \in i..Len(b) : b[j] \notin S} \cup {Len(b) + 1})

\* parse_int, from behind the "i": a minus sign only in front, at least one
\* symbol, up to the "e".
ParseInt(b, i) ==
    LET j == PastAll(b, IF i <= Len(b) /\ b[i] = "-" THEN i + 1 ELSE i, Digits)
    IN  IF j > Len(b) \/ j = i \/ b[j] # "e" THEN Err
        ELSE LET r == ParseI64(SubSeq(b, i, j - 1))
             IN  IF IsOk(r) THEN [ok |-> [int |-> r.ok], next |-> j + 1] ELSE r

\* parse_str: indexing past the end panics.
ParseStr(b, i) ==
    LET j == PastAll(b, i, Digits)
    IN  IF j > Len(b) THEN Panic
        ELSE IF b[j] # ":" THEN Err
        ELSE LET len == ValueOf([k \in 1..j - i |-> DigitOf(b[i + k - 1])])
             IN  IF j + len > Len(b) THEN Panic
                 ELSE [ok |-> Text(SubSeq(b, j + 1, j + len)), next |-> j + len + 1]

RECURSIVE ParseAt(_, _), ParseList(_, _, _), ParseDic(_, _, _)

ParseAt(b, i) ==
    IF i > Len(b) THEN Panic
    ELSE CASE b[i] = "i" -> ParseInt(b, i + 1)
           [] b[i] = "l" -> ParseList(b, i + 1, <<>>)
           [] b[i] = "d" -> ParseDic(b, i + 1, <<>>)
           [] b[i] \in Digits -> ParseStr(b, i)
           [] OTHER -> Err

\* parse_list and parse_dic, with what they have collected so far.
ParseList(b, j, items) ==
    IF j > Len(b) THEN Err
    ELSE IF b[j] = "e" THEN [ok |-> [list |-> items], next |-> j + 1]
    ELSE LET r == ParseAt(b, j)
         IN  IF IsOk(r) THEN ParseList(b, r.next, Append(items, r.ok)) ELSE r

ParseDic(b, j, dict) ==
    IF j > Len(b) THEN Err
    ELSE IF b[j] = "e" THEN [ok |-> [dict |-> dict], next |-> j + 1]
    ELSE LET key == ParseAt(b, j)
         IN  IF ~IsOk(key) THEN key
             ELSE IF "str" \notin DOMAIN key.ok THEN Err
             ELSE LET r == ParseAt(b, key.next)
                  IN  IF IsOk(r) THEN ParseDic(b, r.next, (key.ok.str[1] :> r.ok) @@ dict)
                      ELSE r

\* What follows the first value is not looked at.
Parse(b) == LET r == ParseAt(b, 1) IN IF IsOk(r) THEN Ok(r.ok) ELSE r

----------------------------------------------------------------------------
(* from_bencode_t of the plain types: each takes one kind of value. *)

AsString(v) == IF "str" \in DOMAIN v THEN Ok(v.str) ELSE Err
AsBytes(v) == IF "bytes" \in DOMAIN v THEN Ok(v.bytes) ELSE Err
AsInt(v) == IF "int" \in DOMAIN v THEN Ok(v.int) ELSE Err
AsUsize(v) == IF "int" \in DOMAIN v /\ v.int >= 0 THEN Ok(v.int) ELSE Err
AsBool(v) == IF "int" \in DOMAIN v /\ v.int \in {0, 1} THEN Ok(v.int = 1) ELSE Err
\* A hash must come as bytes that are not UTF-8 (Hash::from_bencode_t).
AsHash(v) == IF "bytes" \in DOMAIN v THEN (IF Len(v.bytes) = 1 THEN Ok(v.bytes[1]) ELSE Panic)
             ELSE Err

\* The first failure among outcomes, or all of their values.
Gathered(results) ==
    LET bad == {n \in DOMAIN results : ~IsOk(results[n])}
    IN  IF bad = {} THEN Ok([n \in DOMAIN results |-> results[n].ok]) ELSE results[Min(bad)]

\* What `Of` makes of the value, or the failure there was.
OkOf(r, Of(_)) == IF IsOk(r) THEN Ok(Of(r.ok)) ELSE r
IfOk(r, Of(_)) == IF IsOk(r) THEN Of(r.ok) ELSE r

AsList(v, As(_)) ==
    IF "list" \in DOMAIN v THEN Gathered([n \in DOMAIN v.list |-> As(v.list[n])]) ELSE Err

\* The value of a key that is there, or what failing to convert it comes to.
Unwrapped(r, otherwise) ==
    IF IsOk(r) THEN Ok(<<r.ok>>) ELSE IF r = Panic THEN r ELSE otherwise

\* A key looked up with unwrap(), and one that may be missing (<<>>) whose value
\* must convert: with unwrap() in elem_from_entry, with `?` in Keys::keys.
Required(d, key, As(_)) == IF key \in DOMAIN d THEN As(d[key]) ELSE Panic
Optional(d, key, As(_), otherwise) ==
    IF key \notin DOMAIN d THEN Ok(<<>>)
    ELSE Unwrapped(As(d[key]), otherwise)

\* A dictionary with the keys that have a value, as to_bencode_t fills one.
DictOf(pairs) ==
    [dict |-> [k \in {pairs[n][1] : n \in {m \in DOMAIN pairs : pairs[m][2] # <<>>}} |->
                  pairs[CHOOSE n \in DOMAIN pairs : pairs[n][1] = k][2][1]]]
====
