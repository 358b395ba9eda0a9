----------------------------- MODULE MCBulkRead -----------------------------
(* Instances of BulkRead for TLC. *)
EXTENDS BulkRead

\* A record is a character of one byte and one of two, and says which line of
\* which page it is from; a line that is no JSON has the first only.
Char(kind, p, i) == [kind |-> kind, line |-> <<p, i>>]
MCNL == [kind |-> "newline"]
CR == [kind |-> "return"]

Line(kind, p, i) ==
  CASE kind = "record" -> <<Char("plain", p, i), Char("wide", p, i)>>
    [] kind = "crlf"   -> <<Char("plain", p, i), Char("wide", p, i), CR>>
    [] kind = "blank"  -> <<CR>>
    [] kind = "broken" -> <<Char("plain", p, i)>>

Page(ls, newline) == [lines |-> ls, newline |-> newline]
Pages == {Page(<<"record", "blank", "crlf">>, TRUE),
          Page(<<"record", "record">>, FALSE),
          Page(<<"record", "broken", "record">>, TRUE),
          Page(<<>>, TRUE)}
MaxPages == 3

\* The text of a page: its lines, and a newline behind the last or none.
TextOf(pg, p) ==
  LET text == FlattenSeq([i \in DOMAIN pg.lines |-> Append(Line(pg.lines[i], p, i), MCNL)])
  IN  IF pg.newline \/ text = <<>> THEN text ELSE Front(text)

MCWide == {Char("wide", p, i) : p \in 1 .. MaxPages, i \in 1 .. 3}
MCBlank == {MCNL, CR}
MCChars == MCWide \cup MCBlank \cup {Char("plain", p, i) : p \in 1 .. MaxPages, i \in 1 .. 3}
MCIsJson(text) == Len(text) > 1
MCExports ==
  UNION {{[p \in 1 .. n |-> TextOf(ps[p], p)] : ps \in [1 .. n -> Pages]} : n \in 1 .. MaxPages}
=============================================================================
