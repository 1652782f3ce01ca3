----------------------------- MODULE DataLogger -----------------------------
(***************************************************************************)
(* DataLogger: one file per name, a row of each datum at every process(),  *)
(* written at once or kept in memory until the logger is destroyed.  A     *)
(* logger is a record; every operation gives the logger after it.          *)
(*                                                                         *)
(* The streams are the C++ library's: open() on a stream that is open      *)
(* fails and leaves the file open, close() and << on one that is closed    *)
(* fail, and a stream that failed writes nothing more until an open()      *)
(* succeeds.  A file that cannot be created is left out.                   *)
(***************************************************************************)
EXTENDS Sequences

CONSTANT Names      \* of what is logged

\* Every name begins as a default constructed stream: log_files_[name].
NewLogger(delay_disk_write) ==
    [delay |-> delay_disk_write, controller |-> FALSE, external |-> {},
     open |-> {}, failed |-> {}, kept |-> {},
     stored |-> [n \in Names |-> <<>>], disk |-> [n \in Names |-> <<>>]]

\* kept: the names that have an entry in stored_data_, whose rows survive.
CreateLog(l, n) ==
    LET ll == [l EXCEPT !.kept = IF l.delay THEN @ \cup {n} ELSE @] IN
    IF n \in l.open THEN [ll EXCEPT !.failed = @ \cup {n}]
    ELSE [ll EXCEPT !.open = @ \cup {n}, !.failed = @ \ {n}, !.disk[n] = <<>>]

LogSafetyControllerData(l) == [l EXCEPT !.controller = TRUE]

LogExternalData(l, n) == [CreateLog(l, n) EXCEPT !.external = @ \cup {n}]

\* Mutant: the files of the data that was logged before stay registered.
ResetController(l) == [l EXCEPT !.controller = FALSE]
Reset(l) == [l EXCEPT !.controller = FALSE, !.external = {}]

\* row << ... on the stream of a file, or on the one that stands for it.
Write(l, n, rows) ==
    IF n \in l.open \ l.failed THEN [l EXCEPT !.disk[n] = @ \o rows]
    ELSE IF rows = <<>> THEN l ELSE [l EXCEPT !.failed = @ \cup {n}]

LogData(l, n, row) ==
    IF l.delay THEN [l EXCEPT !.stored[n] = Append(@, row)] ELSE Write(l, n, <<row>>)

\* external_data::write(): all the values of the datum, in one row.
LogExternal(l, n, row) == LogData(l, n, row)

\* f applied to the logger for each name of a set, in the order of the map.
ForEach(f(_, _), l, names) ==
    LET each[done \in SUBSET names] ==
            IF done = {} THEN l
            ELSE LET n == CHOOSE x \in done : TRUE IN f(each[done \ {n}], n)
    IN  each[names]

\* items: the names of what the controller holds now, row[n] what it would log.
\* Mutant: the log of an item is created anew each time.
AlwaysCreated(l, n) == CreateLog(l, n)
CreatedIfClosed(l, n) == IF n \in l.open THEN l ELSE CreateLog(l, n)

Process(l, items, row) ==
    LET LogItem(m, n) == LogData(CreatedIfClosed(m, n), n, row[n])
        LogOther(m, n) == LogExternal(m, n, row[n])
    IN  ForEach(LogOther, ForEach(LogItem, l, IF l.controller THEN items ELSE {}), l.external)

WriteStoredDataToDisk(l) ==
    LET WriteOne(m, n) == Write(m, n, m.stored[n]) IN ForEach(WriteOne, l, l.kept)

CloseFiles(l) == [l EXCEPT !.failed = @ \cup (Names \ l.open), !.open = {}]

\* Mutant: the destructor closes the files and nothing else.
JustClose(l) == CloseFiles(l)
Destroy(l) == CloseFiles(WriteStoredDataToDisk(l))
=============================================================================
