------------------------------ MODULE Versions ------------------------------
(* Versions and their order, internal/atom/atom.go and parser.go, and the two
   inexact operators of internal/resolve/resolve.go.

   A version is [numbers, letter, suffixes, revision, revisionRaw].  A run of
   digits is a sequence of digits, because leading zeros count.  `suffixes` is
   the flat token list of the code: a name, then its number when it has one. *)
EXTENDS Naturals, Integers, Sequences, SequencesExt

CONSTANT MaxInt        \* the largest int; a longer revision keeps its text

Names == <<"_alpha", "_beta", "_pre", "_rc", "_p">>
suffixOrder(name) == CHOOSE i \in DOMAIN Names : Names[i] = name
isNegativeSuffix(token) == token.name \in {"_alpha", "_beta", "_pre", "_rc"}
isDigitString(token) == token.name = ""

Name(n) == [name |-> n, digits |-> <<>>]
Number(d) == [name |-> "", digits |-> d]

-----------------------------------------------------------------------------
Sign(a, b) == IF a < b THEN -1 ELSE IF a > b THEN 1 ELSE 0

\* the first difference of two sequences of one length, or 0
Lexical(left, right) ==
  LET d == SelectInSeq([i \in DOMAIN left |-> left[i] # right[i]], LAMBDA b : b) IN
  IF d = 0 THEN 0 ELSE Sign(left[d], right[d])

Trimmed(digits) ==
  LET first == SelectInSeq(digits, LAMBDA d : d # 0) IN
  IF first = 0 THEN <<0>> ELSE SubSeq(digits, first, Len(digits))

compareDigitStrings(left, right) ==
  LET l == Trimmed(left)
      r == Trimmed(right) IN
  IF Len(l) # Len(r) THEN Sign(Len(l), Len(r)) ELSE Lexical(l, r)

\* Mutant: only the left component's leading zero is looked at.
CompareComponent_left(v, w, i) ==
  IF i > Len(v) \/ i > Len(w) \/ i = 1 \/ v[i][1] # 0
  THEN compareDigitStrings(IF i > Len(v) THEN <<0>> ELSE v[i], IF i > Len(w) THEN <<0>> ELSE w[i])
  ELSE LET width == IF Len(v[i]) > Len(w[i]) THEN Len(v[i]) ELSE Len(w[i])
           padded(d) == [k \in 1..width |-> IF k <= Len(d) THEN d[k] ELSE 0] IN
       Lexical(padded(v[i]), padded(w[i]))

\* a component after the first with a leading zero is a decimal fraction
CompareComponent(v, w, i) ==
  IF i > Len(v) \/ i > Len(w) \/ i = 1 \/ (v[i][1] # 0 /\ w[i][1] # 0)
  THEN compareDigitStrings(IF i > Len(v) THEN <<0>> ELSE v[i], IF i > Len(w) THEN <<0>> ELSE w[i])
  ELSE LET width == IF Len(v[i]) > Len(w[i]) THEN Len(v[i]) ELSE Len(w[i])
           padded(d) == [k \in 1..width |-> IF k <= Len(d) THEN d[k] ELSE 0] IN
       Lexical(padded(v[i]), padded(w[i]))

CompareToken(a, b) ==
  CASE isDigitString(a) /\ isDigitString(b) -> compareDigitStrings(a.digits, b.digits)
    [] isDigitString(a) /\ ~isDigitString(b) -> 1
    [] ~isDigitString(a) /\ isDigitString(b) -> -1
    [] OTHER -> Sign(suffixOrder(a.name), suffixOrder(b.name))

suffixRemainderIsZero(tokens) ==
  \A i \in DOMAIN tokens : isDigitString(tokens[i]) /\ compareDigitStrings(tokens[i].digits, <<0>>) = 0

\* what the longer list of tokens has left decides
CompareRemainder(rest) ==
  CASE suffixRemainderIsZero(rest) -> 0
    [] isNegativeSuffix(rest[1]) -> -1
    [] OTHER -> 1

FirstNonZero(signs) ==
  LET i == SelectInSeq(signs, LAMBDA s : s # 0) IN IF i = 0 THEN 0 ELSE signs[i]

Shorter(s, t) == IF Len(s) < Len(t) THEN Len(s) ELSE Len(t)

CompareSuffixes(a, b) ==
  LET min == Shorter(a, b) IN
  FirstNonZero([i \in 1..min |-> CompareToken(a[i], b[i])]
               \o <<IF Len(a) > min THEN CompareRemainder(SubSeq(a, min + 1, Len(a)))
                    ELSE IF Len(b) > min THEN -CompareRemainder(SubSeq(b, min + 1, Len(b)))
                    ELSE 0>>)

\* the text of a revision that fits an int is its number again
RECURSIVE Digits(_)
Digits(n) == IF n < 10 THEN <<n>> ELSE Append(Digits(n \div 10), n % 10)

RevisionText(v) ==
  IF v.revisionRaw # <<>> THEN v.revisionRaw ELSE IF v.revision > 0 THEN Digits(v.revision) ELSE <<>>

Compare(v, w) ==
  LET longer == IF Len(v.numbers) > Len(w.numbers) THEN Len(v.numbers) ELSE Len(w.numbers) IN
  FirstNonZero([i \in 1..longer |-> CompareComponent(v.numbers, w.numbers, i)]
               \o <<Sign(Len(v.numbers), Len(w.numbers)), Sign(v.letter, w.letter),
                    CompareSuffixes(v.suffixes, w.suffixes),
                    compareDigitStrings(RevisionText(v), RevisionText(w))>>)

-----------------------------------------------------------------------------
RECURSIVE Value(_)
Value(d) == IF d = <<>> THEN 0 ELSE 10 * Value(Front(d)) + d[Len(d)]

\* parseVersionString of the pieces of a version: `suffixes` as pairs of a name
\* and its digits, no revision as the empty sequence
parseVersionString(numbers, letter, suffixes, revision) ==
  [numbers |-> numbers, letter |-> letter,
   suffixes |-> FlattenSeq([i \in DOMAIN suffixes |->
                  IF suffixes[i][2] = <<>> THEN <<Name(suffixes[i][1])>>
                  ELSE <<Name(suffixes[i][1]), Number(suffixes[i][2])>>]),
   revision |-> CASE revision = <<>> -> -1
                  [] Value(revision) > MaxInt -> MaxInt
                  [] OTHER -> Value(revision),
   revisionRaw |-> IF Value(revision) > MaxInt THEN revision ELSE <<>>]

tildeMatch(v, c) == Compare([v EXCEPT !.revision = -1], [c EXCEPT !.revision = -1]) = 0

-----------------------------------------------------------------------------
(* globMatch compares the texts.  A text is a sequence of symbols: the digits
   0..9, and numbers above them for the dot, the suffix names, "-r" and the
   letters. *)
Dot == 10
Revision == 16
Symbol(name) == Dot + suffixOrder(name)
Letter(l) == Revision + l

Text(numbers, letter, suffixes, revision) ==
  FlattenSeq([i \in DOMAIN numbers |-> IF i = 1 THEN numbers[i] ELSE <<Dot>> \o numbers[i]])
  \o (IF letter = 0 THEN <<>> ELSE <<Letter(letter)>>)
  \o FlattenSeq([i \in DOMAIN suffixes |-> <<Symbol(suffixes[i][1])>> \o suffixes[i][2]])
  \o (IF revision = <<>> THEN <<>> ELSE <<Revision>> \o revision)

isASCIIDigit(symbol) == symbol \in 0..9

normalizeGlobVersion(text) ==
  LET first == SelectInSeq(text, LAMBDA s : s # 0)
      base == IF first = 0 THEN <<>> ELSE SubSeq(text, first, Len(text)) IN
  IF base = <<>> \/ ~isASCIIDigit(base[1]) THEN <<0>> \o base ELSE base

globMatch(text, star) ==
  LET candidate == normalizeGlobVersion(text)
      prefix == normalizeGlobVersion(star) IN
  /\ IsPrefix(prefix, candidate)
  /\ \/ Len(candidate) = Len(prefix)
     \/ LET next == candidate[Len(prefix) + 1] IN
        \/ ~isASCIIDigit(next)
        \/ ~isASCIIDigit(Last(prefix))
=============================================================================
