------------------------------ MODULE CsvText -------------------------------
(***************************************************************************)
(* The text of a file, as src/domain/csv.ts reads and writes it, and the   *)
(* decimal amounts of src/domain/money.ts.                                 *)
(*                                                                         *)
(* A text is a sequence of characters.  Those that mean something to the   *)
(* two modules are themselves; a run of others is one character, however   *)
(* long: a word, or a date.                                                *)
(***************************************************************************)
EXTENDS Money, FiniteSets, Sequences, FiniteSetsExt, SequencesExt

CONSTANT LowerCase      \* a function from the words that have capitals to their lower case

Quote == "\""
Comma == ","
CR == "\r"
LF == "\n"
Tab == "\t"
Space == " "
BOM == "BOM"

Whitespace == {Space, Tab, CR, LF, BOM}

Digits == <<"0", "1", "2", "3", "4", "5", "6", "7", "8", "9">>

Lower(text) ==
    [k \in DOMAIN text |-> IF text[k] \in DOMAIN LowerCase THEN LowerCase[text[k]] ELSE text[k]]

Upper(text) ==
    [k \in DOMAIN text |->
        IF \E c \in DOMAIN LowerCase : LowerCase[c] = text[k]
        THEN CHOOSE c \in DOMAIN LowerCase : LowerCase[c] = text[k] ELSE text[k]]

Trim(text) ==
    LET solid == {k \in DOMAIN text : text[k] \notin Whitespace}
    IN  IF solid = {} THEN <<>> ELSE SubSeq(text, Min(solid), Max(solid))

-----------------------------------------------------------------------------
(* Reading *)

AtStart == [rows |-> <<>>, row |-> <<>>, field |-> <<>>, quoted |-> FALSE,
            fieldWasQuoted |-> FALSE, started |-> FALSE, skip |-> FALSE]

EndField(s) ==
    [s EXCEPT !.row = Append(@, IF s.fieldWasQuoted THEN s.field ELSE Trim(s.field)),
              !.field = <<>>, !.fieldWasQuoted = FALSE]

\* A line of one empty field held nothing and is dropped.
EndRow(s) ==
    LET row == EndField(s).row
    IN  [EndField(s) EXCEPT !.rows = IF row = <<(<<>>)>> THEN @ ELSE Append(@, row),
                            !.row = <<>>, !.started = FALSE]

\* Two quotes inside a quoted field are one, which uses up the next character.
ReadQuoted(s, c, next) ==
    CASE c # Quote                 -> [s EXCEPT !.field = Append(@, c)]
      [] c = Quote /\ next = Quote -> [s EXCEPT !.field = Append(@, Quote), !.skip = TRUE]
      [] c = Quote /\ next # Quote -> [s EXCEPT !.quoted = FALSE]

ReadPlain(s, c) ==
    IF c = Quote /\ Trim(s.field) = <<>>
    THEN [s EXCEPT !.field = <<>>, !.quoted = TRUE, !.fieldWasQuoted = TRUE, !.started = TRUE]
    ELSE CASE c = Comma -> [EndField(s) EXCEPT !.started = TRUE]
           [] c = LF    -> EndRow(s)
           [] c = CR    -> s
           [] OTHER     -> [s EXCEPT !.field = Append(@, c), !.started = TRUE]

ReadNext(s, c, next) ==
    CASE s.skip                -> [s EXCEPT !.skip = FALSE]
      [] ~s.skip /\ s.quoted  -> ReadQuoted(s, c, next)
      [] ~s.skip /\ ~s.quoted -> ReadPlain(s, c)

\* The state that the characters from first to last lead to from s.  (A set of one, so that
\* TLC has a state before it reads on; after the last character there is none.)
ReadPart(s, content, first, last) ==
    LET next(n) == IF n = Len(content) THEN BOM ELSE content[n + 1]
        after[n \in (first - 1)..last] ==
            IF n < first THEN {s} ELSE {ReadNext(t, content[n], next(n)) : t \in after[n - 1]}
    IN  after[last]

\* Part by part, to keep the recursion shallow.
ReadAll(content) ==
    LET length == 16
        parts  == Len(content) \div length
        after[k \in 0..(parts + 1)] ==
            IF k = 0 THEN {AtStart}
            ELSE UNION {ReadPart(s, content, (k - 1) * length + 1, Min({k * length, Len(content)})) :
                            s \in after[k - 1]}
    IN  CHOOSE s \in after[parts + 1] : TRUE

ParseCsv(text) ==
    LET content == IF text # <<>> /\ text[1] = BOM THEN Tail(text) ELSE text
        end == ReadAll(content)
    IN  IF end.started \/ end.field # <<>> \/ end.row # <<>> THEN EndRow(end).rows ELSE end.rows

-----------------------------------------------------------------------------
(* Writing *)

\* What a spreadsheet would run as a formula gets an apostrophe in front.
Guarded(value) ==
    IF value # <<>> /\ value[1] \in {"=", "+", "-", "@", Tab, CR} THEN <<"'">> \o value ELSE value

NeedsQuoting(value) ==
    value # <<>> /\ (\/ \E k \in DOMAIN value : value[k] \in {Quote, Comma, CR, LF}
                     \/ value[1] \in Whitespace
                     \/ value[Len(value)] \in Whitespace)

Doubled(value) ==
    FlattenSeq([k \in DOMAIN value |-> IF value[k] = Quote THEN <<Quote, Quote>> ELSE <<value[k]>>])

\* Mutant: the quotes inside a quoted field are left single.
EscapeFieldOnce(value) ==
    LET safe == Guarded(value)
    IN  IF NeedsQuoting(safe) THEN <<Quote>> \o safe \o <<Quote>> ELSE safe

EscapeField(value) ==
    LET safe == Guarded(value)
    IN  IF NeedsQuoting(safe) THEN <<Quote>> \o Doubled(safe) \o <<Quote>> ELSE safe

ToCsvLine(values) ==
    FlattenSeq([k \in DOMAIN values |->
                   (IF k = 1 THEN <<>> ELSE <<Comma>>) \o EscapeField(values[k])]) \o <<CR, LF>>

-----------------------------------------------------------------------------
(* Amounts *)

ValueOf(digit) == CHOOSE d \in 0..9 : Digits[d + 1] = digit

NumberOf(digits) ==
    LET upTo[k \in 0..Len(digits)] ==
            IF k = 0 THEN 0 ELSE 10 * upTo[k - 1] + ValueOf(digits[k])
    IN  upTo[Len(digits)]

Numeral(n) ==
    LET numeral[k \in 0..n] ==
            IF k < 10 THEN <<Digits[k + 1]>>
            ELSE Append(numeral[k \div 10], Digits[(k % 10) + 1])
    IN  numeral[n]

AllDigits(text) == text # <<>> /\ Range(text) \subseteq Range(Digits)

\* Digits, and after one point at most two more; nothing that is zero or too large.
ParseAmountToMinor(input) ==
    LET text     == Trim(input)
        points   == {k \in DOMAIN text : text[k] = "."}
        whole    == IF points = {} THEN text ELSE SubSeq(text, 1, Min(points) - 1)
        fraction == IF points = {} THEN <<"0">> ELSE SubSeq(text, Min(points) + 1, Len(text))
        minor    == 100 * NumberOf(whole)
                        + NumberOf(fraction) * (IF Len(fraction) = 1 THEN 10 ELSE 1)
    IN  IF AllDigits(whole) /\ AllDigits(fraction) /\ Len(fraction) <= 2 /\ Payable(minor)
        THEN minor ELSE Refused

FormatMinorToDecimal(minor) ==
    Numeral(minor \div 100) \o <<".", Digits[((minor \div 10) % 10) + 1], Digits[(minor % 10) + 1]>>
=============================================================================
