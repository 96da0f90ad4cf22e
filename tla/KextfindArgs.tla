----------------------------- MODULE KextfindArgs -----------------------------
(***************************************************************************)
(* The command line of kextfind (kextfind_main.c, up to the evaluation):   *)
(* main() reads the options, builds a query from the words that follow     *)
(* and, after -report, a second query whose elements are the columns of a  *)
(* report.                                                                 *)
(*                                                                         *)
(* A command line is [options, words].  Every refusal of the words leaves  *)
(* through main()'s exit with the result readArgs() left, EX_OK.           *)
(***************************************************************************)
EXTENDS QEQuery, KextfindPredicates

CONSTANTS
    CommandLines,   \* command lines explored
    AllKexts        \* the kexts of the disk, in the order OSKext returns them

\* The words of a command line are a sequence: main()'s argv.
CommandLinesAssumption ==
    \A l \in CommandLines : l.words \in Seq({l.words[i] : i \in DOMAIN l.words})
ASSUME CommandLinesAssumption

VARIABLES
    line,           \* the command line
    used,           \* numArgsUsed: words of it used so far
    phase,          \* where main() is
    query,          \* the query
    report,         \* the report's query
    context,        \* QueryContext
    next,           \* index of the next kext
    output,         \* the lines printed: paths, commands' lines, header, rows
    exit            \* the exit status

vars == <<line, used, phase, query, report, context, next, output, exit>>

Word == line.words[used + 1]
WordIs(what) == used < Len(line.words) /\ Word.what = what
Rest(n) == SubSeq(line.words, n + 1, Len(line.words))

(* -system-extensions and folders, of which one has no kexts, add to what
   is searched; nothing given is the system's folders.                    *)
SearchURLs(options) ==
    LET given == options \cap {"folder", "empty", "system"}
    IN IF given = {} THEN {"system"} ELSE given

Kexts == SelectSeq(AllKexts, LAMBDA k : k.folder \in SearchURLs(line.options))
SearchOptions == line.options \cap {"substring", "insensitive"}

Init ==
    /\ line \in CommandLines
    /\ used = 0
    /\ phase = "args"
    /\ query = QEQueryCreate
    /\ report = QEQueryCreate
    /\ context = [commandSpecified |-> FALSE, checkLoaded |-> FALSE, reportStarted |-> FALSE]
    /\ next = 1
    /\ output = <<>>
    /\ exit = "EX_OSERR"

Leave(status) == phase' = "done" /\ exit' = status
-----------------------------------------------------------------------------
(* readArgs(), checkArgs(). *)
ReadArgs ==
    /\ phase = "args"
    /\ IF "help" \in line.options THEN Leave("EX_OK")
       ELSE IF line.options \cap {"noFolder", "badArch"} # {} THEN Leave("EX_USAGE")
       ELSE /\ phase' = IF line.words # <<>> /\ ~WordIs("report") THEN "query" ELSE "checkQuery"
            /\ exit' = "EX_OK"
    /\ UNCHANGED <<line, used, query, report, context, next, output>>

(* What the parse callback of an element leaves in the context. *)
ContextAfter(words, r) ==
    LET e == Last(words)
    IN [context EXCEPT !.commandSpecified = @ \/ (r.ok /\ e.what \in Commands \cup {"exec"}),
                       !.checkLoaded = @ \/ (r.ok /\ e.what = "loaded")]

ParseQuery ==
    LET words == Rest(used)
        r == QEQueryAppendElementFromArgs(query, words, ParsePredicate(Operands(words)[1]))
    IN /\ phase = "query"
       /\ query' = r.query
       /\ used' = used + r.used
       /\ context' = IF r.used = 0 THEN context
                     ELSE ContextAfter(SubSeq(line.words, 1, used + r.used), r)
       /\ phase' = IF ~r.ok \/ (used' < Len(line.words) /\ line.words[used' + 1].what = "report")
                   THEN "checkQuery" ELSE "query"
       /\ UNCHANGED <<line, report, next, output, exit>>

\* Mutant: the report stops evaluating like a query does.
CreateLikeQuery == QEQueryCreate

(* QEQuerySetShortCircuits(reportQuery, false): every column is written. *)
ReportQueryCreate == [QEQueryCreate EXCEPT !.shorts = FALSE]

(* A query that is not complete is refused; the words are then a report,
   or must be used up.  After -report nothing but -no-header may come
   before the columns.                                                    *)
CheckQuery ==
    /\ phase = "checkQuery"
    /\ LET header == IF WordIs("report") /\ used + 1 < Len(line.words)
                        /\ line.words[used + 2].what = "no-header" THEN 1 ELSE 0
       IN IF ~QEQueryIsComplete(query) THEN Leave(exit) /\ UNCHANGED <<used, report, context>>
          ELSE IF ~WordIs("report")
          THEN /\ IF used < Len(line.words) THEN Leave(exit) ELSE phase' = "read" /\ exit' = exit
               /\ UNCHANGED <<used, report, context>>
          ELSE /\ used' = used + 1 + header
               /\ context' = [context EXCEPT !.reportStarted = header = 1]
               /\ IF context.commandSpecified THEN Leave(exit) /\ UNCHANGED report
                  ELSE /\ report' = ReportQueryCreate
                       /\ phase' = "report"
                       /\ exit' = exit
    /\ UNCHANGED <<line, query, next, output>>

(* checkLoaded is set by columns too, after -not as well. *)
ParseReport ==
    LET words == Rest(used)
        r == QEQueryAppendElementFromArgs(report, words, ParseColumn(Operands(words)[1]))
    IN /\ phase = "report"
       /\ report' = r.query
       /\ used' = used + r.used
       /\ context' = [context EXCEPT !.checkLoaded =
                         @ \/ (r.ok /\ line.words[used + r.used].what = "loaded")]
       /\ phase' = IF r.ok THEN "report" ELSE "checkReport"
       /\ UNCHANGED <<line, query, next, output, exit>>

CheckReport ==
    /\ phase = "checkReport"
    /\ IF ~QEQueryIsComplete(report) \/ used < Len(line.words)
          \/ line.words[used].what \in {"report", "no-header"}
       THEN Leave(exit)
       ELSE phase' = "read" /\ exit' = exit
    /\ UNCHANGED <<line, used, query, report, context, next, output>>

(* Finding the kexts, and asking the kernel which are loaded when a
   predicate or a column needs it, which may fail.                        *)
ReadKexts ==
    /\ phase = "read"
    /\ \/ Kexts = <<>> /\ Leave("EX_SOFTWARE")
       \/ Kexts # <<>> /\ context.checkLoaded /\ Leave("EX_OSERR")
       \/ Kexts # <<>> /\ phase' = "run" /\ exit' = exit
    /\ UNCHANGED <<line, used, query, report, context, next, output>>
-----------------------------------------------------------------------------
(* From the first option to the kexts: main() without the evaluation. *)
ParseNext ==
    \/ ReadArgs \/ ParseQuery \/ CheckQuery \/ ParseReport \/ CheckReport \/ ReadKexts

ParseSpec == Init /\ [][ParseNext]_vars
-----------------------------------------------------------------------------
WordsUsed(what) == {i \in 1 .. used : line.words[i].what = what}

(* Whatever words are read, in whatever order groups are opened, closed and
   merged: no word is read beyond the last; both queries stay balanced; the
   engine's count of open parentheses is what the words read say; and the
   queries that are evaluated use up the command line, are complete and have
   no group open but an AND group that no word closes.                    *)
ParenthesesMatch ==
    /\ used <= Len(line.words)
    /\ GroupsBalanced(query) /\ GroupsBalanced(report)
    /\ phase \in {"query", "checkQuery"} /\ query.error = "none" =>
           query.nesting = Cardinality(WordsUsed("(")) - Cardinality(WordsUsed(")"))
    /\ phase = "read" => /\ used = Len(line.words)
                         /\ QEQueryIsComplete(query) /\ QEQueryIsComplete(report)
                         /\ Len(query.stack) <= 2 /\ Len(report.stack) <= 2
=============================================================================
