---------------------------- MODULE MCImportLines ----------------------------
(* A file with a blank line in it, checked: which line a problem is said to be on. *)
EXTENDS MCScreens

\* The header, somebody without an address, a blank line, and somebody without a name.
MCBlankLine ==
    {[text |-> ToCsvLine(Cols) \o ToCsvLine(RowOf("a", <<>>, <<>>)) \o <<LF>>
                   \o ToCsvLine(With(RowOf("b", Mail("b"), <<>>), 1 :> <<>>)),
      subject |-> Admin]}

\* The lines of a text, as a spreadsheet numbers the rows of a file whose cells have one
\* line each.
LinesOf(text) ==
    LET ends == OrderBy({k \in DOMAIN text : text[k] = LF}, <)
    IN  [n \in DOMAIN ends |-> SubSeq(text, IF n = 1 THEN 1 ELSE ends[n - 1] + 1, ends[n])]

\* src/domain/employeeCsv.ts:63 and :146: the number beside a problem is the line of the file
\* as opened in a spreadsheet, the header being line 1, the number Excel shows.
LineAsOpened ==
    req.kind = "checked" =>
        \A k \in DOMAIN req.checked.problems :
            LET row == req.checked.problems[k].row
            IN  row \in 2..Len(req.checked.table) =>
                    ParseCsv(LinesOf(req.text)[row]) = <<req.checked.table[row]>>
=============================================================================
