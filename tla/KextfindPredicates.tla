-------------------------- MODULE KextfindPredicates --------------------------
(***************************************************************************)
(* The predicates, commands and report columns of kextfind: how the words  *)
(* of each are parsed (kextfind_query.c, kextfind_report.c) and what each  *)
(* says of a kext.                                                         *)
(*                                                                         *)
(* A word of the command line that is not an operator is a record          *)
(* [what, args, style, dashed]: the predicate, the arguments after it, the *)
(* options given to it, and dashed, what an argument with a hyphen and no  *)
(* "--" before it looks like: "no" such argument, a "predicate", "other".  *)
(* A string is [stem, upper, longer]: two strings are equal but for case   *)
(* when stem and longer are, and a string contains those with its stem     *)
(* that are not longer.                                                    *)
(*                                                                         *)
(* A kext is a record of what the OSKext library says of it: name, id,     *)
(* path, version, compatible, props and personalities (property to value   *)
(* [type, v], "none" when absent), flags, kernelComponent, arches, symbols *)
(* (symbol to the n_type in each architecture, "absent" when not there),   *)
(* executable, whether it is recorded under its identifier, and its        *)
(* related kexts.                                                          *)
(***************************************************************************)
EXTENDS Integers, Sequences, SequencesExt

Text(stem) == [stem |-> stem, upper |-> FALSE, longer |-> FALSE]
Null == [type |-> "none"]

Integrities == {"correct", "unknown", "not-apple", "no-receipt", "modified"}
TrueWords == {"true", "yes", "1"}
FalseWords == {"false", "no", "0"}
Numerals == {"0", "1"}

(* What a flag says, by the flag of the kext it reads and whether it holds
   when that flag is absent.                                              *)
PositiveFlags == {"loaded", "duplicate", "valid", "authentic", "dependencies-met",
                  "loadable", "warnings", "library", "has-plugins", "plugin",
                  "debug", "kernel-resource", "executable"}
OppositeFlags == [invalid |-> "valid", inauthentic |-> "authentic",
                  missing |-> "dependencies-met", nonloadable |-> "loadable",
                  noexec |-> "executable"]
FlagWords == PositiveFlags \cup DOMAIN OppositeFlags
RequiredWords == {"root", "console", "local-root", "network-root", "safe-boot"}
ListCommands == {"print-dependencies", "print-dependents", "print-plugins"}
PathCommands == {"print-info-dictionary", "print-executable"}
Commands == {"echo", "print", "print0", "print-diagnostics", "print-property",
             "print-arches", "print-integrity"}
            \cup ListCommands \cup PathCommands
-----------------------------------------------------------------------------
(* Results of the parse callbacks. *)
Refuse(error) == [ok |-> FALSE, error |-> error]
Missing == Refuse("missingArgument")
Accept(pred, w, args) ==
    [ok |-> TRUE, error |-> "none",
     element |-> [pred |-> pred, what |-> w.what, args |-> args, style |-> w.style]]

(* The options of a predicate end at the first argument; one that looks
   like an option is refused unless "--" came before it.                  *)
WithArguments(pred, w, n, fixed) ==
    IF w.dashed # "no" THEN Missing
    ELSE IF Len(w.args) < n THEN Missing
    ELSE Accept(pred, w, fixed \o SubSeq(w.args, 1, n))

parseShorthand(w) ==
    IF w.what = "bundle-id"
    THEN WithArguments("property", w, 1, <<"CFBundleIdentifier">>)
    ELSE Accept("property", [w EXCEPT !.style = {"exact"}],
                <<"OSBundleRequired", Text(w.what)>>)

parseExists(pred, w) ==
    IF w.args = <<>> THEN Missing
    ELSE Accept(pred, [w EXCEPT !.style = {"exists"}], <<w.args[1]>>)

(* The argument of -version: [op, v1, hyphen, v2], where op is what comes
   before the number and a version that cannot be parsed is -1.  The case
   of "lt" assigns the result where the others assign the operator.       *)
parseVersionArg(a) ==
    LET op == IF a.op = "lt" THEN "none" ELSE a.op
        bad == a.v1 = -1 \/ (a.hyphen /\ a.v2 = -1)
        failed == a.op = "unknown" \/ (a.hyphen /\ op # "none") \/ bad
    IN [ok |-> ~failed \/ a.op = "lt",
        op |-> IF a.hyphen THEN "range" ELSE IF op = "none" /\ ~bad THEN "eq" ELSE op,
        v1 |-> a.v1, v2 |-> IF a.hyphen /\ a.v1 # -1 THEN a.v2 ELSE 0]

parseVersion(w) ==
    IF w.args = <<>> \/ ~parseVersionArg(w.args[1]).ok THEN Missing
    ELSE Accept("version", w, <<parseVersionArg(w.args[1])>>)

parseCompatibleWithVersion(w) ==
    IF w.args = <<>> THEN Missing
    ELSE IF w.args[1] = -1 THEN Refuse("none")
    ELSE Accept("compatible-with-version", w, w.args)

parseIntegrity(w) ==
    IF w.args = <<>> \/ Head(w.args) \notin Integrities THEN Missing
    ELSE Accept("integrity", w, w.args)

parseArch(w) ==
    IF w.args = <<>> \/ "unknown" \in w.args[1] THEN Missing
    ELSE Accept(w.what, w, w.args)

parseExec(w) ==
    IF "terminated" \notin w.style THEN Missing ELSE Accept("exec", w, w.args)

(* After -print and its kind a predicate is never taken for an option of
   theirs: -print-property takes one for its argument, when it is next.   *)
parseCommand(w) ==
    CASE w.what = "echo" -> WithArguments("command", w, 1, <<>>)
      [] w.what = "print-property" ->
             WithArguments("command",
                           [w EXCEPT !.dashed = IF @ = "predicate" THEN "no" ELSE @], 1, <<>>)
      [] OTHER -> Accept("command", w, <<>>)

(* The predicates of queryCallbackList.  -print-match-property is not one:
   the options and the callbacks know it, the engine has never met it.    *)
ParsePredicate(w) ==
    CASE w.what = "property" -> WithArguments("property", w, 2, <<>>)
      [] w.what = "match-property" -> WithArguments("match-property", w, 2, <<>>)
      [] w.what = "property-exists" -> parseExists("property", w)
      [] w.what = "match-property-exists" -> parseExists("match-property", w)
      [] w.what = "bundle-name" -> WithArguments("bundle-name", w, 1, <<>>)
      [] w.what \in {"bundle-id"} \cup RequiredWords -> parseShorthand(w)
      [] w.what \in FlagWords -> Accept("flag", w, <<>>)
      [] w.what = "version" -> parseVersion(w)
      [] w.what = "compatible-with-version" -> parseCompatibleWithVersion(w)
      [] w.what = "integrity" -> parseIntegrity(w)
      [] w.what \in {"arch", "arch-exact"} -> parseArch(w)
      [] w.what \in {"defines-symbol", "references-symbol"} ->
             IF w.args = <<>> THEN Missing ELSE Accept("symbol", w, w.args)
      [] w.what \in Commands -> parseCommand(w)
      [] w.what = "exec" -> parseExec(w)
      [] OTHER -> Refuse("noParseCallback")
-----------------------------------------------------------------------------
(* Results of the evaluation callbacks. *)
Says(result) == [result |-> result, error |-> "none", ran |-> <<>>]
Fails == [result |-> FALSE, error |-> "evaluationCallbackFailed", ran |-> <<>>]
Crashes == [result |-> FALSE, error |-> "crash", ran |-> <<>>]

Matches(found, asked, style) ==
    /\ found.stem = asked.stem
    /\ "insensitive" \notin style => found.upper = asked.upper
    /\ IF "substring" \in style THEN asked.longer => found.longer
                                ELSE asked.longer = found.longer

(* options are those given to the tool: they count for every predicate on
   strings but the exact ones, and not for numbers and booleans.  A number
   is compared with what the locale's formatter makes of the words asked
   for; when that is nothing, CFEqual() is called with NULL.              *)
evalPropertyInDict(e, props, options) ==
    LET found == props[e.args[1]]
        asked == e.args[2]
        isWord == ~asked.upper /\ ~asked.longer
    IN CASE found.type = "none" -> Says(FALSE)
         [] found.type # "none" /\ "exists" \in e.style -> Says(TRUE)
         [] found.type = "string" /\ "exists" \notin e.style ->
                Says(IF "exact" \in e.style THEN found.v = asked
                     ELSE Matches(found.v, asked, e.style \cup options))
         [] found.type = "number" /\ "exists" \notin e.style ->
                IF "substring" \in e.style THEN Says(FALSE)
                ELSE IF asked.stem \notin Numerals THEN Crashes
                ELSE Says(found.v = asked.stem)
         [] found.type = "boolean" /\ "exists" \notin e.style ->
                Says(/\ "substring" \notin e.style
                     /\ isWord
                     /\ asked.stem \in IF found.v THEN TrueWords ELSE FalseWords)
         [] OTHER -> Says(FALSE)

(* The first personality that matches decides. *)
evalMatchProperty(e, kext, options) ==
    LET Verdict(i) == evalPropertyInDict(e, kext.personalities[i], options)
        decided == {i \in DOMAIN kext.personalities :
                      Verdict(i).result \/ Verdict(i).error # "none"}
    IN IF decided = {} THEN Says(FALSE)
       ELSE Verdict(CHOOSE i \in decided : \A j \in decided : i <= j)

evalFlag(e, kext) ==
    Says(IF e.what \in PositiveFlags THEN e.what \in kext.flags
         ELSE OppositeFlags[e.what] \notin kext.flags)

evalVersion(e, kext) ==
    LET a == e.args[1]
        v == kext.version
    IN CASE a.op = "eq" -> Says(v = a.v1)
         [] a.op = "ne" -> Says(v # a.v1)
         [] a.op = "gt" -> Says(v > a.v1)
         [] a.op = "ge" -> Says(v >= a.v1)
         [] a.op = "le" -> Says(v <= a.v1)
         [] a.op = "range" -> Says(v >= a.v1 /\ v <= a.v2)
         [] OTHER -> Fails

evalCompatibleWithVersion(e, kext) ==
    Says(kext.compatible > 0 /\ kext.compatible <= e.args[1] /\ e.args[1] <= kext.version)

evalArch(e, kext) == e.args[1] \subseteq kext.arches
evalArchExact(e, kext) == kext.executable /\ e.args[1] = kext.arches

(* Symbol files of the kernel's components list what they define as
   undefined or indirect, and reference nothing.                          *)
evalDefinesOrReferencesSymbol(e, kext) ==
    LET found == {kext.symbols[e.args[1]][a] : a \in kext.arches} \ {"absent"}
        matching == IF kext.kernelComponent
                    THEN IF e.what = "references-symbol" THEN {} ELSE found
                    ELSE IF e.what = "references-symbol" THEN found \cap {"undefined", "indirect"}
                    ELSE found \ {"undefined"}
    IN Says(kext.executable /\ matching # {})

(* What a command prints: lines [what, kext].  Commands are true. *)
Line(what, kext) == [kind |-> "command", what |-> what, kext |-> kext]
evalCommand(e, kext) ==
    LET Prints(lines) == [result |-> TRUE, error |-> "none", ran |-> lines]
        related == [i \in DOMAIN kext.related |-> Line(e.what, kext.related[i])]
    IN CASE e.what = "print-property" ->
                Prints(IF kext.props[e.args[1]] = Null THEN <<>> ELSE <<Line(e.what, kext.name)>>)
         [] e.what = "print-arches" ->
                Prints(IF kext.executable THEN <<Line(e.what, kext.name)>> ELSE <<>>)
         [] e.what \in ListCommands -> Prints(related)
         [] OTHER -> Prints(<<Line(e.what, kext.name)>>)

(* evalExec() clears the pointer to its arguments instead of the arguments
   and then stores through it.                                            *)
evalExec == Crashes

EvalPredicate(e, kext, options) ==
    CASE e.pred = "property" -> evalPropertyInDict(e, kext.props, options)
      [] e.pred = "match-property" -> evalMatchProperty(e, kext, options)
      [] e.pred = "bundle-name" -> Says(Matches(kext.path, e.args[1], e.style \cup options))
      [] e.pred = "flag" -> evalFlag(e, kext)
      [] e.pred = "version" -> evalVersion(e, kext)
      [] e.pred = "compatible-with-version" -> evalCompatibleWithVersion(e, kext)
      [] e.pred = "integrity" -> Says(FALSE)
      [] e.pred = "arch" -> Says(evalArch(e, kext))
      [] e.pred = "arch-exact" -> Says(evalArchExact(e, kext))
      [] e.pred = "symbol" -> evalDefinesOrReferencesSymbol(e, kext)
      [] e.pred = "command" -> evalCommand(e, kext)
      [] e.pred = "exec" -> evalExec
      [] OTHER -> [Fails EXCEPT !.error = "noEvaluationCallback"]
-----------------------------------------------------------------------------
(* Report columns.  Each prints a number of fields, in the header and in a
   row; all but the first of the row come after a tab.  A column fails the
   report with an error, or prints nothing and goes on.                   *)
ReportFlags == (PositiveFlags \cup {"integrity"})
ReportCommands == {"print", "bundle-name", "print-property", "print-arches",
                   "print-integrity"} \cup ListCommands \cup PathCommands

ParseColumn(w) ==
    CASE w.what \in ReportFlags -> Accept("flag", w, <<>>)
      [] w.what = "bundle-id" -> Accept("property", w, <<"CFBundleIdentifier">>)
      [] w.what = "version" -> Accept("property", w, <<"CFBundleVersion">>)
      [] w.what \in {"property", "print-property"} ->
             IF w.args = <<>> THEN Missing ELSE Accept("property", w, <<w.args[1]>>)
      [] w.what \in {"arch", "arch-exact"} ->
             IF w.args = <<>> THEN Refuse("none") ELSE parseArch(w)
      [] w.what = "symbol" -> IF w.args = <<>> THEN Missing ELSE Accept("symbol", w, w.args)
      [] w.what \in ReportCommands \ {"print-property"} -> Accept("command", w, <<>>)
      [] OTHER -> Refuse("noParseCallback")

Fields(n) == [result |-> TRUE, error |-> "none", ran |-> [i \in 1 .. n |-> i = 1]]
NoField == Says(FALSE)

(* An absent property is written as such; a number is not written at all
   and ends the report.                                                   *)
reportEvalProperty(e, kext) ==
    IF kext.props[e.args[1]].type = "number" THEN Fails ELSE Fields(1)

(* A kext that the library does not find by its identifier has no field. *)
reportEvalFlag(e, kext) ==
    CASE e.what = "duplicate" /\ kext.props["CFBundleIdentifier"] = Null -> Fails
      [] e.what = "duplicate" /\ kext.props["CFBundleIdentifier"] # Null /\ ~kext.recorded -> NoField
      [] OTHER -> Fields(1)

(* The header of a symbol is its name and then an empty field. *)
reportEvalDefinesOrReferencesSymbol(header, kext) ==
    IF header THEN Fields(2) ELSE IF kext.executable THEN Fields(1) ELSE NoField

EvalColumn(e, kext, header) ==
    CASE e.pred = "symbol" -> reportEvalDefinesOrReferencesSymbol(header, kext)
      [] e.pred # "symbol" /\ header -> Fields(1)
      [] e.pred = "property" /\ ~header -> reportEvalProperty(e, kext)
      [] e.pred = "flag" /\ ~header -> reportEvalFlag(e, kext)
      [] OTHER -> Fields(1)

(* The fields of a line: the first field of an element is after a tab when
   the line was started, and so is each further one, by the same test.    *)
FieldCount(ran) ==
    LET Next(acc, first) ==
            [tabs |-> acc.tabs + (IF IF first THEN acc.began ELSE acc.before THEN 1 ELSE 0),
             before |-> IF first THEN acc.began ELSE acc.before, began |-> TRUE]
    IN IF ran = <<>> THEN 0
       ELSE 1 + FoldLeft(Next, [tabs |-> 0, before |-> FALSE, began |-> FALSE], ran).tabs
=============================================================================
