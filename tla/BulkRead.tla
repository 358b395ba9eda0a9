------------------------------ MODULE BulkRead ------------------------------
(***************************************************************************)
(* src/modules/bulk.ts: an iteration of iterateBulkRead(), from the job it *)
(* starts, over polling, to the pages it downloads and cuts into lines and *)
(* records, for a consumer who may stop at any record.                     *)
(*                                                                         *)
(* Zoho is modelled from how it is used: the n-th download of a job is its *)
(* n-th page, and a status says whether there is a page after the one that *)
(* is downloaded next.  Any request may fail, as it does once the client   *)
(* is closed.                                                              *)
(***************************************************************************)
EXTENDS Integers, SequencesExt

CONSTANTS Chars,         \* characters of a text
          Wide,          \* those of two bytes
          Blank, NL,     \* what trim() drops, newlines among it
          Junk,          \* U+FFFD, for half of a character
          IsJson(_),     \* the texts that JSON.parse() takes
          Exports,       \* what an export may be: the texts of its pages
          PollInterval,  \* pollIntervalMs, or what a poll takes at least
          MaxWait        \* maxWaitMs

ASSUME BulkAssumption ==
  /\ Exports \subseteq Seq(Seq(Chars))
  /\ Wide \subseteq Chars /\ Blank \subseteq Chars /\ NL \in Blank \ Wide
  /\ PollInterval \in Nat \ {0}
  /\ MaxWait \in Nat

VARIABLES export,   \* the pages of the job
          job,      \* how far Zoho is with it
          pc,       \* where the iteration is
          elapsed,  \* Date.now() - startedAt
          polls,    \* history: statuses asked for before the first page
          more,     \* hasMoreRecords(status)
          page,     \* downloads so far
          received, \* characters of the page that have come
          halfway,  \* has the first byte of the next one come?
          decoder,  \* has the decoder kept it?
          buffer,   \* text after the last newline
          lines,    \* text of the lines flushLines() has still to go through
          open,     \* whether the stream of the page is
          yielded   \* texts of the records the consumer has got

page_vars == <<received, halfway, decoder, buffer, lines, open, yielded>>
vars == <<export, job, pc, elapsed, polls, more, page, page_vars>>

Ended == {"done", "failed", "stopped"}
Points == {"start", "status", "sleeping", "download", "reading", "yielded",
           "statusOfNext"} \cup Ended

Init ==
  /\ export \in Exports
  /\ job = "running"
  /\ pc = "start"
  /\ elapsed = 0 /\ polls = 0
  /\ more = FALSE
  /\ page = 0
  /\ received = 0 /\ halfway = FALSE /\ decoder = FALSE
  /\ buffer = <<>> /\ lines = <<>>
  /\ open = FALSE
  /\ yielded = <<>>

-----------------------------------------------------------------------------
(* parseNdjson() and flushLines().                                         *)

Text == export[page]

KeepsNothing(cut) == FALSE                       \* mutant: stream not set
\* decode(chunk, {stream: true}) keeps a first byte until the second is there.
Kept(cut) == cut

\* What is decoded of a chunk that brings the text up to its n-th character
\* and, if cut, to the middle of the next.
Decoded(n, cut) ==
  [i \in 1 .. n - received |->
     IF i = 1 /\ halfway /\ ~decoder THEN Junk ELSE Text[received + i]]
  \o IF cut /\ ~Kept(cut) THEN <<Junk>> ELSE <<>>

\* Places in a text: how far its whole lines go, where they end, and what is
\* no white space.
Terminated(text) == SelectLastInSeq(text, LAMBDA c : c = NL)
EndOfLine(text, from) == SelectInSubSeq(text, from, Len(text), LAMBDA c : c = NL)
First(text) == SelectInSeq(text, LAMBDA c : c \notin Blank)
Final(text) == SelectLastInSeq(text, LAMBDA c : c \notin Blank)

Trimmed(text) == IF First(text) = 0 THEN <<>> ELSE SubSeq(text, First(text), Final(text))

\* The iteration is over, or goes on to the next page.
PageEnds ==
  /\ pc' = IF more THEN "statusOfNext" ELSE "done"
  /\ UNCHANGED yielded

\* The text goes to the consumer, if JSON.parse() does not throw.
Yields(text) ==
  IF IsJson(text)
  THEN pc' = "yielded" /\ yielded' = Append(yielded, text)
  ELSE pc' = "failed" /\ UNCHANGED yielded

LeftOpen == open                                 \* mutant: not destroyed
\* Loops of `for await' that are left early destroy the stream.
StaysOpen == open /\ pc' # "failed"

\* The loop over the lines of a text, the blank ones passed over, and behind
\* them over the chunks.
Flush(text) ==
  LET start == First(text)
      end   == EndOfLine(text, start)
  IN  /\ lines' = IF start = 0 THEN <<>> ELSE SubSeq(text, end + 1, Len(text))
      /\ CASE start # 0         -> Yields(Trimmed(SubSeq(text, start, end)))
           [] start = 0 /\ open -> pc' = "reading" /\ UNCHANGED yielded
           [] OTHER             -> PageEnds
      /\ open' = StaysOpen

Remaining(text) == SubSeq(text, Terminated(text) + 1, Len(text))

\* At least one byte comes.
ChunkArrives ==
  /\ pc = "reading"
  /\ \E n \in received .. Len(Text), cut \in BOOLEAN :
       /\ cut => n < Len(Text) /\ Text[n + 1] \in Wide
       /\ n > received \/ (cut /\ ~halfway)
       /\ received' = n /\ halfway' = cut /\ decoder' = Kept(cut)
       /\ LET text == buffer \o Decoded(n, cut)
          IN  /\ buffer' = Remaining(text)
              /\ Flush(SubSeq(text, 1, Terminated(text)))
  /\ UNCHANGED <<export, job, elapsed, polls, more, page>>

LastLineLost == PageEnds                         \* mutant: buffer not flushed
FlushLast ==
  IF Trimmed(buffer) # <<>> THEN Yields(Trimmed(buffer)) ELSE PageEnds

StreamEnds ==
  /\ pc = "reading"
  /\ received = Len(Text)
  /\ open' = FALSE
  /\ FlushLast
  /\ UNCHANGED <<export, job, elapsed, polls, more, page, received, halfway, decoder,
                 buffer, lines>>

StreamBreaks ==
  /\ pc = "reading"
  /\ pc' = "failed"
  /\ open' = FALSE
  /\ UNCHANGED <<export, job, elapsed, polls, more, page, received, halfway, decoder,
                 buffer, lines, yielded>>

-----------------------------------------------------------------------------
(* iterateBulkRead().                                                      *)

Fails == pc' = "failed" /\ UNCHANGED <<more, page_vars>>

\* initRead() and extractJobId(); startedAt is set when they are through.
Start ==
  /\ pc = "start"
  /\ \/ pc' = "status" /\ polls' = 1 /\ UNCHANGED <<more, page_vars>>
     \/ Fails /\ UNCHANGED polls
  /\ UNCHANGED <<export, job, elapsed, page>>

\* Zoho finishes the job, or gives it up: also between two pages.
JobProceeds ==
  /\ job' \in {"completed", "failed"} \ {job}
  /\ job # "failed"
  /\ UNCHANGED <<export, pc, elapsed, polls, more, page, page_vars>>

NeverTimesOut == FALSE                           \* mutant: maxWaitMs ignored
TimedOut == elapsed' > MaxWait

HasMoreRecords == page + 1 < Len(export)

\* The answer to getReadStatus() while the job is not known to be over; it
\* takes up to one unit of time.
PollAnswered ==
  /\ pc = "status"
  /\ elapsed' \in elapsed .. elapsed + 1
  /\ \/ job = "running" /\ ~TimedOut /\ pc' = "sleeping" /\ UNCHANGED <<more, page_vars>>
     \/ job = "running" /\ TimedOut /\ Fails
     \/ job = "failed" /\ Fails
     \/ job = "completed" /\ pc' = "download" /\ more' = HasMoreRecords /\ UNCHANGED page_vars
     \/ Fails
  /\ UNCHANGED <<export, job, polls, page>>

\* The timer may be late.
Wake ==
  /\ pc = "sleeping"
  /\ elapsed' \in elapsed + PollInterval .. elapsed + PollInterval + 1
  /\ polls' = polls + 1
  /\ pc' = "status"
  /\ UNCHANGED <<export, job, more, page, page_vars>>

\* downloadReadResult(), through its limiter: the next page, or an error.
Download ==
  /\ pc = "download"
  /\ \/ /\ page < Len(export)
        /\ page' = page + 1
        /\ pc' = "reading"
        /\ received' = 0 /\ halfway' = FALSE /\ decoder' = FALSE
        /\ buffer' = <<>> /\ lines' = <<>>
        /\ open' = TRUE
        /\ UNCHANGED <<more, yielded>>
     \/ Fails /\ UNCHANGED page
  /\ UNCHANGED <<export, job, elapsed, polls>>

\* The answer to getReadStatus() after a page: only a failure is looked at.
NextStatusAnswered ==
  /\ pc = "statusOfNext"
  /\ \/ job = "completed" /\ pc' = "download" /\ more' = HasMoreRecords /\ UNCHANGED page_vars
     \/ Fails
  /\ UNCHANGED <<export, job, elapsed, polls, page>>

\* The consumer asks for the next record.
Continue ==
  /\ pc = "yielded"
  /\ Flush(lines)
  /\ UNCHANGED <<export, job, elapsed, polls, more, page, received, halfway,
                 decoder, buffer>>

\* The consumer leaves its loop.
Stop ==
  /\ pc = "yielded"
  /\ pc' = "stopped"
  /\ open' = FALSE
  /\ UNCHANGED <<export, job, elapsed, polls, more, page, received, halfway, decoder,
                 buffer, lines, yielded>>

Next == \/ Start \/ JobProceeds \/ PollAnswered \/ Wake
        \/ Download \/ NextStatusAnswered
        \/ ChunkArrives \/ StreamEnds \/ StreamBreaks
        \/ Continue \/ Stop

Spec == Init /\ [][Next]_vars

-----------------------------------------------------------------------------
(* Properties.                                                             *)

Texts == Seq(Chars \cup {Junk})
TypeOK ==
  /\ export \in Seq(Seq(Chars))
  /\ job \in {"running", "completed", "failed"}
  /\ pc \in Points
  /\ elapsed \in Nat /\ polls \in Nat
  /\ more \in BOOLEAN
  /\ page \in 0 .. Len(export)
  /\ received \in Nat /\ halfway \in BOOLEAN /\ decoder \in BOOLEAN
  /\ buffer \in Texts /\ lines \in Texts
  /\ open \in BOOLEAN
  /\ yielded \in Seq(Texts)

\* The records of the export, by the places where they start: what stands
\* between two newlines, less the white space around it.
StartsRecord(t, i) ==
  /\ t[i] \notin Blank
  /\ \A h \in 1 .. i - 1 : t[h] \in Blank \/ \E k \in h .. i : t[k] = NL
Starts ==
  UNION {{<<p, i>> : i \in {i \in DOMAIN export[p] : StartsRecord(export[p], i)}} :
          p \in DOMAIN export}
RecordAt(t, i) ==
  SubSeq(t, i, Max({j \in i .. Len(t) : t[j] \notin Blank /\ \A k \in i .. j : t[k] # NL}))

\* Those that start up to the i-th character of page p.
UpTo(p, i) == {x \in Starts : x[1] < p \/ (x[1] = p /\ x[2] <= i)}

\* The n-th record that the consumer gets is the n-th of the export, whole,
\* however the pages are cut into chunks and the chunks into characters: none
\* is left out or comes twice, and none comes after a line that is no JSON.
YieldsAreExported ==
  \A n \in DOMAIN yielded : \E x \in Starts :
    /\ Cardinality(UpTo(x[1], x[2])) = n
    /\ yielded[n] = RecordAt(export[x[1]], x[2])

\* An iteration that ends without an error has given out every record.
DoneIsComplete == pc = "done" => Len(yielded) = Cardinality(Starts)

\* The stream of a page is open only while the page is gone through: it is
\* destroyed when the consumer leaves, a line is no JSON or the stream breaks.
NoStreamLeaks == open => pc \in {"reading", "yielded"}

\* A job that never ends is given up: the number of statuses asked for is
\* bounded by the time that may pass.
PollingIsBounded == polls <= MaxWait \div PollInterval + 2
=============================================================================
