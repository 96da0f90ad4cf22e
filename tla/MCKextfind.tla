------------------------------ MODULE MCKextfind ------------------------------
(* Small instances of Kextfind for TLC. *)
EXTENDS Kextfind

W(what) == [what |-> what, args |-> <<>>, style |-> {}, dashed |-> "no"]
WA(what, args) == [W(what) EXCEPT !.args = args]
Styled(w, style) == [w EXCEPT !.style = style]
Ver(op, v1, hyphen, v2) == [op |-> op, v1 |-> v1, hyphen |-> hyphen, v2 |-> v2]

Longer(stem) == [Text(stem) EXCEPT !.longer = TRUE]
Upper(stem) == [Text(stem) EXCEPT !.upper = TRUE]
Value(type, v) == [type |-> type, v |-> v]

(* Four kexts that tell valid and loaded apart in every way. *)
Properties == {"CFBundleIdentifier", "CFBundleVersion", "OSBundleRequired", "Prop"}
Props(id, required, prop) ==
    [p \in Properties |->
        CASE p = "CFBundleIdentifier" -> id
          [] p = "CFBundleVersion" -> Value("string", Text("1"))
          [] p = "OSBundleRequired" -> required
          [] p = "Prop" -> prop]
Kext(name, folder, version, flags, props, arches, executable) ==
    [name |-> name, folder |-> folder, path |-> Text("net"), version |-> version,
     compatible |-> version - 1, flags |-> flags, props |-> props,
     personalities |-> <<props, [props EXCEPT !["Prop"] = Value("boolean", TRUE)]>>,
     kernelComponent |-> name = "k4", recorded |-> name # "k2", arches |-> arches, executable |-> executable,
     symbols |-> [s \in {"_f"} |-> [a \in arches |-> IF a = "i386" THEN "undefined" ELSE "defined"]],
     related |-> <<"k1">>]

MCKexts ==
    <<Kext("k1", "system", 1, {"valid", "loaded", "executable"},
           Props(Value("string", Text("net")), Value("string", Text("root")), Value("boolean", FALSE)),
           {"x86_64"}, TRUE),
      Kext("k2", "system", 2, {"valid"},
           Props(Value("string", Longer("net")), Null, Value("string", Upper("net"))), {"i386"}, TRUE),
      Kext("k3", "folder", 1, {"loaded", "duplicate"},
           Props(Value("string", Upper("net")), Null, Null), {}, FALSE),
      Kext("k4", "system", 3, {},
           Props(Null, Value("string", Longer("root")), Value("number", "1")), {"i386", "x86_64"}, TRUE)>>

Both == {"folder", "system"}
Lines(options, wordses) == [options : options, words : wordses]
SeqsUpTo(S, n) == UNION {[1 .. m -> S] : m \in 0 .. n}

(* Every order of the operators, two predicates and a command; longer ones
   without the command. *)
Logic == {W("valid"), W("loaded"), W("echo"), W("and"), W("or"), W("not"), W("("), W(")")}
EchoArg(w) == IF w.what = "echo" THEN WA("echo", <<Text("hi")>>) ELSE w
LogicLines ==
    Lines({Both}, SeqsUpTo({EchoArg(w) : w \in Logic}, 5) \cup [1 .. 6 -> Logic \ {W("echo")}])

(* Longer still, of what binds elements together. *)
Binders == {W("valid"), W("loaded"), W("or"), W("("), W(")")}
LongLines == Lines({Both}, [1 .. 7 -> Binders])

Named == {Text("net"), Longer("net"), Upper("net")}
Predicates ==
    {WA("property", <<"Prop", v>>) : v \in Named \cup {Text("no"), Text("1")}}
    \cup {Styled(WA("property", <<"Prop", Text("1")>>), {"substring"}), WA("property", <<"Prop">>)}
    \cup {WA("match-property", <<"Prop", Text("yes")>>), WA("match-property-exists", <<"Prop">>),
          WA("property-exists", <<"Prop">>), WA("property-exists", <<>>)}
    \cup {Styled(WA("bundle-id", <<v>>), style) : v \in Named, style \in {{}, {"substring"}, {"insensitive"}}}
    \cup {WA("bundle-name", <<Text("net")>>), [WA("bundle-name", <<Text("net")>>) EXCEPT !.dashed = "predicate"]}
    \cup {W(f) : f \in FlagWords \cup RequiredWords \cup Commands \cup {"unknown", "version"}}
    \cup {[WA(c, <<"Prop">>) EXCEPT !.dashed = d] :
            c \in {"print-property", "print-match-property", "echo"}, d \in {"no", "predicate", "other"}}
    \cup {WA("version", <<Ver(op, v, h, 2)>>) :
            op \in {"none", "eq", "ne", "gt", "ge", "lt", "le", "unknown"}, v \in {1, 2, -1}, h \in BOOLEAN}
    \cup {WA("compatible-with-version", <<v>>) : v \in {1, -1}}
    \cup {WA("integrity", <<i>>) : i \in {"correct", "other"}}
    \cup {WA(a, <<s>>) : a \in {"arch", "arch-exact"}, s \in {{"i386"}, {"i386", "x86_64"}, {"unknown"}}}
    \cup {WA(s, <<"_f">>) : s \in {"defines-symbol", "references-symbol"}}
    \cup {W("exec"), Styled(W("exec"), {"terminated"})}
PredicateLines ==
    Lines({Both, {}, {"folder", "substring"}, {"system", "insensitive"}},
          {<<p>> : p \in Predicates} \cup {<<W("not"), p>> : p \in Predicates}
          \cup {<<p, W("or"), W("valid")>> : p \in Predicates})
OptionLines == Lines({{"help"}, {"noFolder"}, {"badArch"}, {"empty"}}, {<<>>})

ColumnWords ==
    {W(c) : c \in {"loaded", "duplicate", "bundle-id", "version", "print", "print-plugins",
                   "print-executable", "integrity", "property", "unknown", "or"}}
    \cup {WA("property", <<"Prop">>), WA("arch", <<{"i386"}>>), WA("symbol", <<"_f">>)}
ReportLines ==
    Lines({Both}, {q \o <<W("report")>> \o h \o c :
        q \in {<<>>, <<W("valid")>>, <<W("print")>>, <<W("not"), W("valid")>>},
        h \in {<<>>, <<W("no-header")>>},
        c \in SeqsUpTo(ColumnWords, 3)})

MCCommandLines == LogicLines \cup LongLines \cup PredicateLines \cup OptionLines \cup ReportLines
=============================================================================
