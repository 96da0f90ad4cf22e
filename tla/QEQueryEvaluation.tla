-------------------------- MODULE QEQueryEvaluation --------------------------
(***************************************************************************)
(* The query engine of kextfind (QEQuery.c), continued: a query that was   *)
(* built is evaluated over one object, by depth-first calls of the         *)
(* client's callbacks.                                                     *)
(***************************************************************************)
EXTENDS QEQuery

(* The element of the root: the groups still open are arguments of the
   groups below them.                                                     *)
RECURSIVE Root(_)
Root(q) == IF Len(q.stack) = 1 THEN q.stack[1] ELSE Root(PopGroup(q))

(* Callback[element] is what the client's callback returns for an object:
   [result, error, ran], where ran is what it printed.  The error "crash"
   ends the process.  An error makes the results of the enclosing groups
   false but does not stop them: an OR group goes on to its next element. *)
RECURSIVE ElementEvaluate(_, _, _, _)
ElementEvaluate(shorts, e, Callback, error) ==
    LET Next(acc, child) ==
            LET r == ElementEvaluate(shorts, child, Callback, acc.error)
                decides == r.result = (e.kind = "or")
            IN IF acc.stop THEN acc
               ELSE [result |-> IF e.kind = "or" THEN acc.result \/ r.result
                                ELSE ~(decides /\ shorts),
                     error |-> r.error, ran |-> acc.ran \o r.ran,
                     stop |-> (decides /\ shorts) \/ r.error = "crash"]
        start == [result |-> e.kind = "and" \/ e.args = <<>>, error |-> error,
                  ran |-> <<>>, stop |-> FALSE]
        called == Callback[e.element]
        value ==
            IF e.kind = "leaf"
            THEN [called EXCEPT !.error = IF @ = "none" THEN error ELSE @]
            ELSE FoldLeft(Next, start, e.args)
    IN [result |-> value.result # e.neg /\ value.error = "none",
        error |-> value.error, ran |-> value.ran]

QEQueryEvaluate(q, Callback) ==
    IF ~QEQueryIsComplete(q) THEN [result |-> FALSE, error |-> q.error, ran |-> <<>>]
    ELSE ElementEvaluate(q.shorts, Root(q), Callback, q.error)
=============================================================================
