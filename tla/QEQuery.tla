------------------------------- MODULE QEQuery -------------------------------
(***************************************************************************)
(* The query engine of kextfind (QEQuery.c): queries are built one word    *)
(* at a time from a command line.  QEQueryEvaluation evaluates them.       *)
(*                                                                         *)
(* A query is a stack of open groups.  The bottom group is the root, an    *)
(* OR group; a parenthesis opens another OR group; an AND group is opened  *)
(* by the engine itself, around the element before an AND operator, and    *)
(* closed by an OR operator or a closing parenthesis.  In the code a group *)
(* is an argument of its parent as soon as it is opened; here it becomes   *)
(* one when it is closed (nothing is added to a group below the top).      *)
(*                                                                         *)
(* A word is a record with a field "what": an operator token, or the       *)
(* predicate, with whatever arguments the client's callbacks look at.      *)
(***************************************************************************)
EXTENDS Integers, Sequences, FiniteSets, SequencesExt

Operators == {"and", "or", "not", "(", ")"}

NewGroup(kind, neg) == [kind |-> kind, neg |-> neg, args |-> <<>>]
Leaf(element, neg) == [kind |-> "leaf", neg |-> neg, args |-> <<>>, element |-> element]

(* shorts: whether evaluation stops once the result of a group is known.
   active: an operator was read and waits for its right operand.          *)
QEQueryCreate ==
    [stack |-> <<NewGroup("or", FALSE)>>, nesting |-> 0, active |-> FALSE,
     error |-> "none", shorts |-> TRUE]

QEQueryIsComplete(q) == q.nesting = 0 /\ ~q.active /\ q.error = "none"

Fail(q, error) == [q EXCEPT !.error = error]
Top(q) == Last(q.stack)
TopIs(q, kind) == Top(q).kind = kind
TopCount(q) == Len(Top(q).args)
WithTopArgs(q, args) == [q EXCEPT !.stack[Len(q.stack)].args = args]
Appended(q, element) == WithTopArgs(q, Append(Top(q).args, element))
Yanked(q) == WithTopArgs(q, Front(Top(q).args))
Negated(element) == [element EXCEPT !.neg = ~@]
Open(q, group) == [q EXCEPT !.stack = Append(@, group)]
-----------------------------------------------------------------------------
(* An AND group takes over the last element of the group it is opened in,
   which goes through QEQueryAppendElement(): the operator that opened the
   group is no longer waiting for an operand.                             *)
PushGroup(q, kind, neg) ==
    LET group == NewGroup(kind, neg)
    IN IF kind = "or" THEN [Open(q, group) EXCEPT !.nesting = @ + 1]
       ELSE IF TopCount(q) = 0 THEN Open(q, group)
       ELSE [Open(Yanked(q), [group EXCEPT !.args = <<Last(Top(q).args)>>])
                EXCEPT !.active = FALSE]

PopGroup(q) ==
    IF Len(q.stack) < 2 THEN Fail(q, "groupNesting")
    ELSE Appended([q EXCEPT !.stack = Front(@)], Top(q))

\* Mutant: a group is merged whatever it holds.
CoalesceFirst(q, onlyIfCanCoalesce) ==
    IF Len(q.stack) > 1 THEN Appended([q EXCEPT !.stack = Front(@)], Top(q).args[1])
    ELSE PopGroup(q)

(* A closed group of one element is replaced by the element, negated once
   more if the group was.                                                 *)
PopGroupAndCoalesce(q, onlyIfCanCoalesce) ==
    LET canCoalesce == TopCount(q) = 1 /\ Len(q.stack) > 1
        single == Top(q).args[1]
    IN IF ~canCoalesce THEN IF onlyIfCanCoalesce THEN q ELSE PopGroup(q)
       ELSE Appended([q EXCEPT !.stack = Front(@)],
                     IF Top(q).neg THEN Negated(single) ELSE single)

\* Mutant: a parenthesis with no operator before it is not ANDed.
StartGroupAlone(q, kind, neg) == PushGroup(q, kind, neg)

StartGroup(q, kind, neg) ==
    LET opened == IF ~q.active /\ TopIs(q, "or") THEN PushGroup(q, "and", FALSE) ELSE q
    IN PushGroup(opened, kind, neg)

QEQueryAppendAndOperator(q) ==
    IF q.active THEN Fail(q, "syntax")
    ELSE IF TopIs(q, "or") THEN StartGroup([q EXCEPT !.active = TRUE], "and", FALSE)
    ELSE [q EXCEPT !.active = TRUE]

QEQueryAppendOrOperator(q) ==
    IF q.active THEN Fail(q, "syntax")
    ELSE IF TopIs(q, "and") THEN PopGroup([q EXCEPT !.active = TRUE])
    ELSE [q EXCEPT !.active = TRUE]

(* Elements that follow each other with no operator are ANDed. *)
QEQueryAppendElement(q, element) ==
    LET joined == IF ~q.active /\ TopCount(q) > 0 THEN QEQueryAppendAndOperator(q) ELSE q
    IN [Appended(joined, element) EXCEPT !.active = FALSE]

QEQueryEndGroup(q) ==
    IF QEQueryIsComplete(q) THEN Fail(q, "groupNesting")
    ELSE IF TopCount(q) = 0 THEN Fail(q, "emptyGroup")
    ELSE LET ors == IF TopIs(q, "and") THEN PopGroup(q) ELSE q
             closed == PopGroupAndCoalesce(ors, FALSE)
             up == [closed EXCEPT !.nesting = @ - 1]
         IN IF ~TopIs(ors, "or") \/ closed.error # "none" THEN Fail(q, "groupNesting")
            ELSE IF TopIs(up, "and") THEN PopGroupAndCoalesce(up, TRUE)
            ELSE up

Operands(words) == IF words # <<>> /\ words[1].what = "not" THEN Tail(words) ELSE words

(* parsed is what the client's parse callback makes of the first operand:
   [ok, error, element].  The result says whether the element was appended
   (a callback may refuse its arguments without an error) and how many
   words were used.                                                       *)
QEQueryAppendElementFromArgs(q, words, parsed) ==
    LET rest == Operands(words)
        negated == Len(rest) < Len(words)
        refused == rest # <<>> /\ rest[1].what \notin Operators \ {"not"} /\ ~parsed.ok
        after ==
            IF rest = <<>> THEN Fail(q, "syntax")
            ELSE CASE rest[1].what = "and" /\ ~negated -> QEQueryAppendAndOperator(q)
                   [] rest[1].what = "or" /\ ~negated -> QEQueryAppendOrOperator(q)
                   [] rest[1].what \in {"and", "or"} /\ negated -> Fail(q, "syntax")
                   [] rest[1].what = "(" -> StartGroup(q, "or", negated)
                   [] rest[1].what = ")" -> QEQueryEndGroup(q)
                   [] refused -> Fail(q, parsed.error)
                   [] OTHER -> QEQueryAppendElement(q, Leaf(parsed.element, negated))
        ok == ~refused /\ after.error = "none"
        before == IF negated THEN 1 ELSE 0
    IN IF words = <<>> THEN [query |-> q, ok |-> FALSE, used |-> 0]
       ELSE [query |-> after, ok |-> ok, used |-> IF ok THEN before + 1 ELSE before]
-----------------------------------------------------------------------------
OpenParentheses(q) == {i \in 2 .. Len(q.stack) : q.stack[i].kind = "or"}

(* The stack under construction: an OR group at the bottom, an AND group only
   directly inside an OR group, and as many OR groups above the root as the
   engine's count of open parentheses says.                               *)
GroupsBalanced(q) ==
    /\ q.stack[1].kind = "or"
    /\ \A i \in 2 .. Len(q.stack) : q.stack[i].kind = "and" => q.stack[i - 1].kind = "or"
    /\ q.nesting = Cardinality(OpenParentheses(q))
=============================================================================
