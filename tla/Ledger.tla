------------------------------- MODULE Ledger -------------------------------
(***************************************************************************)
(* A session's messages.jsonl: the one engine that appends to it, line by  *)
(* line, and a reader in another process that takes it in pages while it   *)
(* grows (Session.log, replace_context; read_page, History._load and the   *)
(* supervisor's agent.history and harness.history). A line reaches the     *)
(* file in more than one piece, and a full disk may stop it half-way.      *)
(***************************************************************************)
EXTENDS Integers, Sequences, FiniteSets, SequencesExt

CONSTANTS PageSize,  \* HISTORY_PAGE_BYTES, in units of a record's size
          MaxLines   \* bound: lines of the ledger

VARIABLES
    lines,    \* the records of the file, the last one perhaps not yet whole
    whole,    \* the last line ends
    count,    \* Session._message_count
    window,   \* Session._window
    writer,   \* the engine's file: "open", "writing", "broken" or "closed"
    page,     \* the reader: the records it has,
    asks,     \*   whether it "rests", "reads" on or is "done",
    floorLine \* auxiliary: the whole lines there were when it began

fileVars == <<lines, whole, count, window, writer>>
readVars == <<page, asks, floorLine>>
ledgerVars == <<fileVars, readVars>>
----------------------------------------------------------------------------
Message(n, w, size) == [kind |-> "message", index |-> n, window |-> w, refs |-> {}, size |-> size]
Window(n, refs) == [kind |-> "window", index |-> n, window |-> n, refs |-> refs, size |-> 1]
Torn == [kind |-> "torn", index |-> 0, window |-> 0, refs |-> {}, size |-> 1]

\* Session.__init__, and the window "start" that the first message in the context opens.
InitLedger ==
    /\ lines = <<Window(0, {})>> /\ whole = TRUE
    /\ count = 0 /\ window = 0 /\ writer = "open"
    /\ page = <<>> /\ asks = "rests" /\ floorLine = 0

\* A mutant of the next definition: a write after one that failed is not refused.
WritableAfterAll == writer \in {"open", "broken"}

\* check_writable.
Writable == writer = "open"

\* Session.log writes a line; until it is flushed a part of it may be in the file.
Write(record) ==
    /\ Writable /\ Len(lines) < MaxLines
    /\ lines' = IF whole THEN Append(lines, record) ELSE [lines EXCEPT ![Len(lines)] = Torn]
    /\ whole' = FALSE /\ writer' = "writing"
    /\ UNCHANGED <<count, window, readVars>>

\* A message of the context, one outside it, or a window of messages already logged.
Log ==
    \/ \E w \in {-1, window}, size \in {1, PageSize} : Write(Message(count, w, size))
    \/ \E refs \in SUBSET (0 .. count - 1) : Write(Window(window + 1, refs))

\* The line is flushed: only now do the session's counters move.
Flushed ==
    /\ writer = "writing"
    /\ whole' = TRUE /\ writer' = "open"
    /\ IF lines[Len(lines)].kind = "window"
         THEN window' = window + 1 /\ UNCHANGED count
         ELSE count' = count + 1 /\ UNCHANGED window
    /\ UNCHANGED <<lines, readVars>>

\* The disk is full: nothing of the line, or a part of it, is in the file.
WriteFails ==
    /\ writer = "writing"
    /\ writer' = "broken"
    /\ \/ UNCHANGED <<lines, whole>>
       \/ lines' = Front(lines) /\ whole' = TRUE
    /\ UNCHANGED <<count, window, readVars>>

\* close: what is left in the buffer may still be written.
CloseLedger ==
    /\ writer \in {"open", "broken"}
    /\ writer' = "closed"
    /\ whole' \in {whole, TRUE}
    /\ UNCHANGED <<lines, count, window, readVars>>
----------------------------------------------------------------------------

\* The lines that end.
Readable == IF whole THEN Len(lines) ELSE Len(lines) - 1

BeginReading ==
    /\ asks = "rests"
    /\ page' = <<>> /\ asks' = "reads"
    /\ floorLine' = Readable
    /\ UNCHANGED fileVars

\* The size of records.
SizeOf(records) == FoldSeq(LAMBDA r, sum : r.size + sum, 0, records)

\* read_page: the records from the offset that fit the page, at least one, and the next
\* offset, or none at the end of the ledger.
ReadPage ==
    /\ asks = "reads"
    /\ LET from == Len(page)
           fits == {n \in from .. Readable :
                      n <= from + 1 \/ SizeOf(SubSeq(lines, from + 1, n)) <= PageSize}
           last == CHOOSE n \in fits : \A other \in fits : other <= n
       IN /\ page' = SubSeq(lines, 1, last)
          /\ asks' = IF last < Readable THEN "reads" ELSE "done"
    /\ UNCHANGED <<fileVars, floorLine>>

ReadAgain ==
    /\ asks = "done"
    /\ asks' = "rests" /\ page' = <<>> /\ floorLine' = 0
    /\ UNCHANGED fileVars

NextLedger ==
    \/ Log \/ Flushed \/ WriteFails \/ CloseLedger
    \/ BeginReading \/ ReadPage \/ ReadAgain
----------------------------------------------------------------------------
\* The records a reader has before its n-th of one kind.
Earlier(records, kind, n) == Cardinality({i \in 1 .. n - 1 : records[i].kind = kind})

\* History._load raises none of its errors: every record can be parsed, messages and
\* windows are numbered in order, and a window names messages that are there.
Loads(records) ==
    \A i \in 1 .. Len(records) :
        LET r == records[i] IN
        /\ r.kind # "torn"
        /\ r.index = Earlier(records, r.kind, i)
        /\ r.kind = "message" => r.window < Earlier(records, "window", i)
        /\ \A m \in r.refs : m < Earlier(records, "message", i)

\* Whoever reads a ledger that is being written, over several pages, gets a history that
\* loads, with every record that was whole when the reading began and no piece of one
\* that is not, also after a write has failed half-way.
HistoryIsWhole ==
    asks = "done" => /\ Loads(page)
                     /\ Len(page) >= floorLine
                     /\ ~whole => Len(page) < Len(lines)
=============================================================================
