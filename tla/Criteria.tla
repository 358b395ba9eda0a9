------------------------------ MODULE Criteria ------------------------------
(***************************************************************************)
(* The criteria of a search: buildCriteria() and escapeCriteriaValue() of  *)
(* src/modules/leads-query.ts, and a reader who has only the text.  The    *)
(* text is written piece by piece and read as it is written: `reader' is   *)
(* what the reader makes of the text so far.                               *)
(*                                                                         *)
(* A value is a string or something else, with the text it has; the field, *)
(* the operator and the word that joins clauses are one character each.    *)
(***************************************************************************)
EXTENDS Naturals, Sequences

CONSTANTS Chars,
          Searches  \* the values of the clauses, in their order

Values == [string : BOOLEAN, text : Seq(Chars)]
ASSUME CriteriaAssumption == Searches \subseteq Seq(Values)

VARIABLES values,
          done,     \* clauses that are written
          at,       \* the next character of the value being written, or 0
          reader

criteriaVars == <<values, done, at, reader>>

-----------------------------------------------------------------------------
(* The reader takes a character after a backslash as it is, and the first  *)
(* bare closing parenthesis behind the second colon for the end of the     *)
(* clause.                                                                 *)

Text == Chars \cup {"(", "Email", ":", "equals", "\\", ")", "and"}
Reader == [colons : 0 .. 2, escaped : BOOLEAN, value : Seq(Text), values : Seq(Seq(Text))]

NextColon(r) == [r EXCEPT !.colons = @ + 1]
Quotes(r) == [r EXCEPT !.escaped = TRUE]
TakesChar(r, ch) == [r EXCEPT !.value = Append(@, ch), !.escaped = FALSE]
Ends(r) == [r EXCEPT !.values = Append(@, r.value), !.value = <<>>, !.colons = 0]

ReadChar(r, ch) ==
  IF r.colons < 2 THEN IF ch = ":" THEN NextColon(r) ELSE r
  ELSE IF r.escaped THEN TakesChar(r, ch)
  ELSE IF ch = "\\" THEN Quotes(r)
  ELSE IF ch = ")" THEN Ends(r)
  ELSE TakesChar(r, ch)

-----------------------------------------------------------------------------
(* The writer.                                                             *)

CriteriaInit ==
  /\ values \in Searches /\ done = 0 /\ at = 0
  /\ reader = [colons |-> 0, escaped |-> FALSE, value |-> <<>>, values |-> <<>>]

Writing == values[done + 1]
ReadHeader(r) ==
  LET field == ReadChar(ReadChar(ReadChar(r, "("), "Email"), ":")
  IN  ReadChar(ReadChar(field, "equals"), ":")

\* A clause begins, behind the word that joins it to the one before.
OpenClause ==
  /\ at = 0 /\ done < Len(values)
  /\ reader' = ReadHeader(IF done = 0 THEN reader ELSE ReadChar(reader, "and"))
  /\ at' = 1
  /\ UNCHANGED <<values, done>>

OnlyColons == {":"}                              \* mutant
Escaped == {"(", ")", ":"}
\* escapeCriteriaValue() puts a backslash before what delimits a clause, but
\* not before a backslash, nor into what is no string.
WriteChar ==
  /\ at > 0 /\ at <= Len(Writing.text)
  /\ LET ch == Writing.text[at]
     IN  reader' = IF Writing.string /\ ch \in Escaped
                   THEN ReadChar(ReadChar(reader, "\\"), ch)
                   ELSE ReadChar(reader, ch)
  /\ at' = at + 1
  /\ UNCHANGED <<values, done>>

CloseClause ==
  /\ at > 0 /\ at = Len(Writing.text) + 1
  /\ reader' = ReadChar(reader, ")")
  /\ at' = 0 /\ done' = done + 1
  /\ UNCHANGED values

CriteriaNext == OpenClause \/ WriteChar \/ CloseClause
CriteriaSpec == CriteriaInit /\ [][CriteriaNext]_criteriaVars

-----------------------------------------------------------------------------
(* Properties.                                                             *)

CriteriaTypeOK ==
  /\ values \in Seq(Values) /\ done \in 0 .. Len(values) /\ at \in Nat
  /\ at > 0 => done < Len(values) /\ at <= Len(Writing.text) + 1
  /\ reader \in Reader

\* Values without a backslash, of which those that are no strings have no
\* closing parenthesis either.
Plain(v) ==
  \A i \in 1 .. Len(v.text) : v.text[i] # "\\" /\ (v.text[i] = ")" => v.string)
AllPlain == \A i \in 1 .. Len(values) : Plain(values[i])

\* Where a clause ends the reader has the values that were written, in their
\* order, whatever delimiters they have: no value ends its clause early,
\* begins another one, or runs on into the next.
CriteriaReadBack ==
  AllPlain /\ at = 0 => reader.values = [i \in 1 .. done |-> values[i].text]
=============================================================================
