----------------------------- MODULE QueryGrammar -----------------------------
(***************************************************************************)
(* What a query means, as the manual page of kextfind and QEQuery.h say it *)
(* is read: a parenthesis binds first, then -not, then -and (which may be  *)
(* left out), then -or; evaluation goes from left to right and stops as    *)
(* soon as the result is known.  The reference that the engine of QEQuery  *)
(* is checked against.                                                     *)
(*                                                                         *)
(*   expr   ::= term { -or term }                                          *)
(*   term   ::= factor { [ -and ] factor }                                 *)
(*   factor ::= [ -not ] ( predicate | "(" expr ")" )                      *)
(***************************************************************************)
EXTENDS Integers, Sequences, SequencesExt

(* at: where the rest of the words begins; 0 when they do not fit. *)
NoTree == [tree |-> <<>>, at |-> 0]
Tree(op, left, right, at) == [tree |-> [op |-> op, left |-> left, right |-> right], at |-> at]
WordAt(words, i) == IF i \in DOMAIN words THEN words[i].what ELSE "end"

RECURSIVE ExprAt(_, _), TermAt(_, _)

BareAt(words, i) ==
    LET e == ExprAt(words, i + 1)
    IN CASE WordAt(words, i) = "(" ->
                IF e.at > 0 /\ WordAt(words, e.at) = ")" THEN [e EXCEPT !.at = @ + 1] ELSE NoTree
         [] WordAt(words, i) \in {"and", "or", "not", ")", "end"} -> NoTree
         [] OTHER -> Tree("word", words[i], <<>>, i + 1)

FactorAt(words, i) ==
    LET f == BareAt(words, i + 1)
    IN IF WordAt(words, i) # "not" THEN BareAt(words, i)
       ELSE IF f.at = 0 THEN NoTree
       ELSE Tree("not", f.tree, <<>>, f.at)

TermAt(words, i) ==
    LET f == FactorAt(words, i)
        t == TermAt(words, IF WordAt(words, f.at) = "and" THEN f.at + 1 ELSE f.at)
    IN IF f.at = 0 \/ WordAt(words, f.at) \in {"or", ")", "end"} THEN f
       ELSE IF t.at = 0 THEN NoTree
       ELSE Tree("and", f.tree, t.tree, t.at)

ExprAt(words, i) ==
    LET t == TermAt(words, i)
        e == ExprAt(words, t.at + 1)
    IN IF t.at = 0 \/ WordAt(words, t.at) # "or" THEN t
       ELSE IF e.at = 0 THEN NoTree
       ELSE Tree("or", t.tree, e.tree, e.at)

Grammatical(words) == words = <<>> \/ ExprAt(words, 1).at = Len(words) + 1

(* Verdict(word) is [result, ran] for one object. *)
RECURSIVE ValueOf(_, _)
ValueOf(tree, Verdict) ==
    LET left == ValueOf(tree.left, Verdict)
        right == ValueOf(tree.right, Verdict)
    IN CASE tree.op = "word" -> Verdict[tree.left]
         [] tree.op = "not" -> [left EXCEPT !.result = ~@]
         [] tree.op \in {"and", "or"} ->
                IF left.result = (tree.op = "or") THEN left
                ELSE [right EXCEPT !.ran = left.ran \o @]

Meaning(words, Verdict) ==
    IF words = <<>> THEN [result |-> TRUE, ran |-> <<>>]
    ELSE ValueOf(ExprAt(words, 1).tree, Verdict)
=============================================================================
