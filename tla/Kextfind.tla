------------------------------- MODULE Kextfind -------------------------------
(***************************************************************************)
(* kextfind (kextfind_main.c): reads its command line (KextfindArgs), then *)
(* evaluates the query, and the report if there is one, over the kexts it  *)
(* finds.                                                                  *)
(***************************************************************************)
EXTENDS FiniteSets, KextfindArgs, QEQueryEvaluation, QueryGrammar

(* What the callbacks say of a kext, for each element of a query. *)
QueryWords == {i \in DOMAIN line.words : \A j \in 1 .. i : line.words[j].what # "report"}
ReportWords == DOMAIN line.words \ QueryWords
Operand(i) == line.words[i].what \notin Operators
ElementsOf(parsed) == {r.element : r \in {x \in parsed : x.ok}}
Verdicts(kext) ==
    [e \in ElementsOf({ParsePredicate(line.words[i]) : i \in {j \in QueryWords : Operand(j)}})
        |-> EvalPredicate(e, kext, SearchOptions)]
Columns(kext, header) ==
    [e \in ElementsOf({ParseColumn(line.words[i]) : i \in {j \in ReportWords : Operand(j)}})
        |-> EvalColumn(e, kext, header)]

HasReport == \E i \in DOMAIN line.words : line.words[i].what = "report"

(* One line of the report. *)
ReportLine(kind, kext, r) == [kind |-> kind, kext |-> kext.name, fields |-> FieldCount(r.ran)]

(* One kext: commands print as they are evaluated; a kext that matches is
   printed, or reported, when there are no commands.                      *)
EvaluateKext ==
    LET kext == Kexts[next]
        q == QEQueryEvaluate(query, Verdicts(kext))
        head == QEQueryEvaluate(report, Columns(kext, TRUE))
        row == QEQueryEvaluate(report, Columns(kext, FALSE))
        printed == output \o q.ran
        headed == IF context.reportStarted THEN printed
                  ELSE Append(printed, ReportLine("header", kext, head))
        reported == q.result /\ ~context.commandSpecified /\ HasReport
    IN /\ phase = "run" /\ next <= Len(Kexts)
       /\ next' = next + 1
       /\ query' = [query EXCEPT !.error = q.error]
       /\ report' = IF reported THEN [report EXCEPT !.error = row.error] ELSE report
       /\ context' = IF reported THEN [context EXCEPT !.reportStarted = TRUE] ELSE context
       /\ output' = IF ~q.result \/ context.commandSpecified THEN printed
                    ELSE IF HasReport THEN Append(headed, ReportLine("row", kext, row))
                    ELSE Append(printed, [kind |-> "path", kext |-> kext.name])
       /\ IF q.error = "crash" THEN Leave("signal")
          ELSE IF q.error # "none" \/ (reported /\ row.error # "none") THEN Leave(exit)
          ELSE UNCHANGED <<phase, exit>>
       /\ UNCHANGED <<line, used>>

EvaluatedAll ==
    /\ phase = "run" /\ next > Len(Kexts)
    /\ Leave("EX_OK")
    /\ UNCHANGED <<line, used, query, report, context, next, output>>

Next == ParseNext \/ EvaluateKext \/ EvaluatedAll

Spec == Init /\ [][Next]_vars
-----------------------------------------------------------------------------
QueryPart == SubSeq(line.words, 1, Cardinality(QueryWords))

(* The words kextfind.8 gives predicates and commands, l.122-470: how many
   arguments, and what they may be.  A word with a hyphen is no argument.  *)
TwoArguments == {"property", "match-property"}
OneArgument == {"property-exists", "match-property-exists", "bundle-id", "bundle-name",
                "version", "compatible-with-version", "integrity", "arch", "arch-exact",
                "defines-symbol", "references-symbol", "echo", "print-property",
                "print-match-property"}
NoArgument == (FlagWords \cup RequiredWords \cup Commands) \ OneArgument
VersionExpression(a) ==
    /\ a.op \in {"none", "ne", "gt", "ge", "lt", "le"} /\ a.v1 # -1
    /\ a.hyphen => a.op = "none" /\ a.v2 # -1

Documented(w) ==
    /\ w.what \in TwoArguments \cup OneArgument \cup NoArgument \cup {"exec"}
    /\ w.dashed = "no"
    /\ Len(w.args) >= CASE w.what \in TwoArguments -> 2
                         [] w.what \in OneArgument -> 1
                         [] OTHER -> 0
    /\ w.what = "version" => VersionExpression(w.args[1])
    /\ w.what = "compatible-with-version" => w.args[1] # -1
    /\ w.what = "integrity" => w.args[1] \in Integrities
    /\ w.what \in {"arch", "arch-exact"} => "unknown" \notin w.args[1]
    /\ w.what = "exec" => "terminated" \in w.style

(* What the manual documents (l.450-456, and an example with -pm, l.630) and
   the tool refuses: queryCallbackList has no entry for it.               *)
Unregistered == {"print-match-property"}

WordsDocumented == \A i \in QueryWords :
    line.words[i].what \in Operators
    \/ (Documented(line.words[i]) /\ line.words[i].what \notin Unregistered)

(* What the words say of a kext: the lines they print for it. *)
SaidOf(kext) ==
    LET v == [w \in {line.words[i] : i \in {j \in QueryWords : line.words[j].what \notin Operators}} |->
                EvalPredicate(ParsePredicate(w).element, kext, SearchOptions)]
        m == Meaning(QueryPart, v)
    IN m.ran \o IF m.result /\ ~context.commandSpecified
                THEN <<[kind |-> IF HasReport THEN "row" ELSE "path", kext |-> kext.name]>>
                ELSE <<>>
Shown(l) == IF l.kind = "row" THEN [kind |-> l.kind, kext |-> l.kext] ELSE l

(* A query of the manual's grammar and of words it documents is accepted,
   but for the one that the tool does not know, -print-match-property, which
   it refuses wherever it stands; and evaluating the engine's tree of groups
   prints, kext by kext and in the same order, what the words mean:
   parentheses before -not before -and before -or, left to right, with
   commands run only where evaluation gets.                               *)
EvaluatesAsWritten ==
    /\ phase \in {"checkQuery", "report", "read"} /\ Grammatical(QueryPart) /\ WordsDocumented =>
           QEQueryIsComplete(query)
    /\ phase \in {"read", "run"} => \A i \in QueryWords : line.words[i].what \notin Unregistered
    /\ phase \in {"run", "done"} /\ query.error = "none" /\ next > 1 /\ Grammatical(QueryPart) =>
           [i \in DOMAIN SelectSeq(output, LAMBDA l : l.kind # "header") |->
               Shown(SelectSeq(output, LAMBDA l : l.kind # "header")[i])]
           = FlattenSeq([i \in 1 .. (next - 1) |-> SaidOf(Kexts[i])])

RECURSIVE Leaves(_)
Leaves(e) == IF e.kind = "leaf" THEN <<e.element.what>>
             ELSE FlattenSeq([i \in DOMAIN e.args |-> Leaves(e.args[i])])
PredicatesOf(words) ==
    LET w == SelectSeq(words, LAMBDA x : x.what \notin Operators)
    IN [i \in DOMAIN w |-> w[i].what]
Count(what, words) == Len(SelectSeq(words, LAMBDA x : x.what = what))

(* Whatever the engine accepts, grammatical or not, it keeps: every predicate
   read is in the tree, in the order of the command line, however groups are
   opened around elements, closed and merged; groups are nested and counted
   as the parentheses are, so that what is evaluated is balanced and has no
   empty pair.                                                            *)
AcceptedIsKept ==
    /\ ParenthesesMatch
    /\ query.error = "none" /\ phase \in {"query", "read", "run"} =>
           LET read == IF phase = "query" THEN SubSeq(line.words, 1, used) ELSE QueryPart
           IN /\ Leaves(Root(query)) = PredicatesOf(read)
              /\ query.nesting = Count("(", read) - Count(")", read)
              /\ phase # "query" => query.nesting = 0
              /\ \A i \in 1 .. (Len(read) - 1) : ~(read[i].what = "(" /\ read[i + 1].what = ")")

(* A row that asks how many kexts have the identifier of one that is not
   recorded under it.                                                     *)
Unfound(l) ==
    /\ l.kind = "row"
    /\ \E i \in ReportWords : line.words[i].what = "duplicate"
    /\ \E k \in DOMAIN AllKexts : AllKexts[k].name = l.kext /\ ~AllKexts[k].recorded

(* Each row of a report has a field for every column the header names, in a
   tab-delimited table whatever the kext lacks, unless the report was given
   up in that row.  The known exceptions: the column of a symbol, and, for a
   kext the library does not find by its identifier, the one of duplicates. *)
RowsMatchHeader ==
    HasReport /\ report.error = "none"
    /\ (\A i \in ReportWords : line.words[i].what # "symbol") =>
        LET columns == Cardinality({i \in ReportWords : line.words[i].what \notin
                                      Operators \cup {"report", "no-header"}})
        IN \A i \in DOMAIN output :
               output[i].kind \in {"header", "row"} /\ ~Unfound(output[i]) =>
                   output[i].fields = columns
=============================================================================
