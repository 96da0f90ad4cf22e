--------------------------- MODULE KextfindProofs ---------------------------
(***************************************************************************)
(* Proofs about KextfindArgs: whatever words kextfind is given, the groups *)
(* of its queries stay balanced and counted, so that what it evaluates is  *)
(* complete and uses up the command line.                                  *)
(*                                                                         *)
(* The engine changes a query in three ways: the arguments of the top      *)
(* group, a group opened on top of it, the top group popped.  For each, a  *)
(* lemma says what becomes of the stack; what is left is about the kinds   *)
(* of the groups and their number.                                         *)
(***************************************************************************)
EXTENDS KextfindArgs, FiniteSetTheorems, TLAPS

IsSeq(s) == \E S : s \in Seq(S)
IsGroup(g) == \E A, N : g \in [kind : {"or", "and"}, neg : N, args : Seq(A)]
IsQuery(q) ==
    /\ \E S, X, Y : q \in [stack : S, nesting : Int, active : BOOLEAN, error : X, shorts : Y]
    /\ IsSeq(q.stack)
    /\ Len(q.stack) >= 1
    /\ \A i \in 1 .. Len(q.stack) : IsGroup(q.stack[i])

(***************************************************************************)
(* Sequences.                                                              *)
(***************************************************************************)
\* A sequence has a length, and an element of one is an element of its range.
LEMMA SeqFacts ==
  ASSUME NEW s, IsSeq(s)
  PROVE  /\ Len(s) \in Nat
         /\ DOMAIN s = 1 .. Len(s)
         /\ (s = <<>> <=> Len(s) = 0)
<1>1. PICK S : s \in Seq(S)  BY DEF IsSeq
<1>2. QED  BY <1>1

\* What appending to a sequence leaves.
LEMMA SeqAppend ==
  ASSUME NEW s, IsSeq(s), NEW x
  PROVE  /\ IsSeq(Append(s, x))
         /\ Len(Append(s, x)) = Len(s) + 1
         /\ \A i \in 1 .. Len(s) : Append(s, x)[i] = s[i]
         /\ Append(s, x)[Len(s) + 1] = x
<1>1. PICK S : s \in Seq(S)  BY DEF IsSeq
<1> DEFINE T == S \cup {x}
<1>2. s \in Seq(T)
  <2>1. s \in [1 .. Len(s) -> S] /\ Len(s) \in Nat  BY <1>1
  <2>2. s \in [1 .. Len(s) -> T]  BY <2>1
  <2>3. QED  BY <2>1, <2>2
<1>3. x \in T  OBVIOUS
<1> HIDE DEF T
<1>4. Append(s, x) \in Seq(T)  BY <1>2, <1>3
<1>5. QED  BY <1>2, <1>3, <1>4 DEF IsSeq

\* What taking the last element away leaves.
LEMMA SeqFront ==
  ASSUME NEW s, IsSeq(s), Len(s) >= 1
  PROVE  /\ IsSeq(Front(s))
         /\ Len(Front(s)) = Len(s) - 1
         /\ \A i \in 1 .. Len(s) - 1 : Front(s)[i] = s[i]
<1>1. PICK S : s \in Seq(S)  BY DEF IsSeq
<1>2. Front(s) \in Seq(S)  BY <1>1 DEF Front
<1>3. IsSeq(Front(s))  BY <1>2 DEF IsSeq
<1>4. Len(Front(s)) = Len(s) - 1
  <2>1. CASE Len(s) = 1  BY <1>1, <2>1 DEF Front
  <2>2. CASE Len(s) > 1  BY <1>1, <2>2 DEF Front
  <2>3. Len(s) \in Nat /\ Len(s) >= 1  BY <1>1
  <2>4. Len(s) = 1 \/ Len(s) > 1  BY <2>3
  <2>5. QED  BY <2>1, <2>2, <2>4
<1>5. \A i \in 1 .. Len(s) - 1 : Front(s)[i] = s[i]  BY <1>1 DEF Front
<1>6. QED  BY <1>3, <1>4, <1>5

\* What replacing the last element leaves.
LEMMA SeqLast ==
  ASSUME NEW s, IsSeq(s), Len(s) >= 1, NEW x
  PROVE  LET t == [s EXCEPT ![Len(s)] = x]
         IN /\ IsSeq(t)
            /\ Len(t) = Len(s)
            /\ \A i \in 1 .. Len(s) - 1 : t[i] = s[i]
            /\ t[Len(s)] = x
<1>1. PICK S : s \in Seq(S)  BY DEF IsSeq
<1> DEFINE T == S \cup {x}
           t == [s EXCEPT ![Len(s)] = x]
<1>2. s \in [1 .. Len(s) -> S] /\ Len(s) \in Nat  BY <1>1
<1>3. t \in [1 .. Len(s) -> T]  BY <1>2
<1>4. t \in Seq(T)  BY <1>2, <1>3
<1>5. Len(t) = Len(s)  BY <1>2, <1>3, <1>4
<1>6. IsSeq(t)  BY <1>4 DEF IsSeq
<1>7. /\ \A i \in 1 .. Len(s) - 1 : t[i] = s[i]
      /\ t[Len(s)] = x
  BY <1>2
<1>8. QED  BY <1>5, <1>6, <1>7

\* A sequence made of one element, or of none.
LEMMA SmallSeqs ==
  ASSUME NEW x
  PROVE  /\ IsSeq(<<>>) /\ Len(<<>>) = 0
         /\ IsSeq(<<x>>) /\ Len(<<x>>) = 1
<1>1. <<>> \in Seq({x}) /\ <<x>> \in Seq({x})  OBVIOUS
<1>2. QED  BY <1>1 DEF IsSeq

(***************************************************************************)
(* Groups and queries.                                                     *)
(***************************************************************************)
\* What a group consists of.
LEMMA GroupParts ==
  ASSUME NEW g, IsGroup(g)
  PROVE  /\ g.kind \in {"or", "and"}
         /\ IsSeq(g.args)
         /\ \A args : IsSeq(args) => /\ IsGroup([g EXCEPT !.args = args])
                                    /\ [g EXCEPT !.args = args].kind = g.kind
                                    /\ [g EXCEPT !.args = args].args = args
<1>1. PICK A, N : g \in [kind : {"or", "and"}, neg : N, args : Seq(A)]  BY DEF IsGroup
<1>2. g.kind \in {"or", "and"} /\ g.args \in Seq(A)  BY <1>1
<1>3. ASSUME NEW args, IsSeq(args)
      PROVE  /\ IsGroup([g EXCEPT !.args = args])
             /\ [g EXCEPT !.args = args].kind = g.kind
             /\ [g EXCEPT !.args = args].args = args
  <2>1. PICK B : args \in Seq(B)  BY <1>3 DEF IsSeq
  <2>2. [g EXCEPT !.args = args] \in [kind : {"or", "and"}, neg : N, args : Seq(B)]  BY <1>1, <2>1
  <2>3. IsGroup([g EXCEPT !.args = args])  BY <2>2 DEF IsGroup
  <2>4. QED  BY <1>1, <2>3
<1>4. IsSeq(g.args)  BY <1>2 DEF IsSeq
<1>5. QED  BY <1>2, <1>3, <1>4

\* _QEQueryCreateGroup() makes a group, with or without an element in it.
LEMMA NewGroups ==
  ASSUME NEW kind \in {"or", "and"}, NEW neg
  PROVE  /\ IsGroup(NewGroup(kind, neg))
         /\ NewGroup(kind, neg).kind = kind
         /\ \A args : IsSeq(args) => /\ IsGroup([NewGroup(kind, neg) EXCEPT !.args = args])
                                    /\ [NewGroup(kind, neg) EXCEPT !.args = args].kind = kind
<1>1. <<>> \in Seq({})  OBVIOUS
<1>2. NewGroup(kind, neg) \in [kind : {"or", "and"}, neg : {neg}, args : Seq({})]
  BY <1>1 DEF NewGroup
<1>3. IsGroup(NewGroup(kind, neg))  BY <1>2 DEF IsGroup
<1>4. NewGroup(kind, neg).kind = kind  BY DEF NewGroup
<1>5. QED  BY <1>3, <1>4, GroupParts

\* What a query consists of.
LEMMA QueryParts ==
  ASSUME NEW q, IsQuery(q)
  PROVE  /\ q.nesting \in Int /\ q.active \in BOOLEAN
         /\ Len(q.stack) \in Nat \ {0}
         /\ IsGroup(Top(q)) /\ Top(q) = q.stack[Len(q.stack)]
         /\ Top(q).kind \in {"or", "and"}
         /\ IsSeq(Top(q).args) /\ TopCount(q) \in Nat
<1>1. PICK S, X, Y : q \in [stack : S, nesting : Int, active : BOOLEAN, error : X, shorts : Y]
  BY DEF IsQuery
<1>2. Len(q.stack) \in Nat \ {0}  BY SeqFacts DEF IsQuery
<1>3. Top(q) = q.stack[Len(q.stack)]  BY DEF Top, Last
<1>4. IsGroup(Top(q))  BY <1>2, <1>3 DEF IsQuery
<1>5. Top(q).kind \in {"or", "and"} /\ IsSeq(Top(q).args)  BY <1>4, GroupParts
<1>6. TopCount(q) \in Nat  BY <1>5, SeqFacts DEF TopCount
<1>7. QED  BY <1>1, <1>2, <1>3, <1>4, <1>5, <1>6

\* The fields of a query other than the stack can be set one by one.
LEMMA FieldsSet ==
  ASSUME NEW q, IsQuery(q)
  PROVE  /\ \A error :
              LET r == Fail(q, error)
              IN /\ IsQuery(r) /\ r.error = error
                 /\ r.stack = q.stack /\ r.nesting = q.nesting /\ r.active = q.active
         /\ \A active \in BOOLEAN :
              LET r == [q EXCEPT !.active = active]
              IN /\ IsQuery(r) /\ r.active = active
                 /\ r.stack = q.stack /\ r.nesting = q.nesting /\ r.error = q.error
         /\ \A nesting \in Int :
              LET r == [q EXCEPT !.nesting = nesting]
              IN /\ IsQuery(r) /\ r.nesting = nesting
                 /\ r.stack = q.stack /\ r.active = q.active /\ r.error = q.error
<1>1. PICK S, X, Y : q \in [stack : S, nesting : Int, active : BOOLEAN, error : X, shorts : Y]
  BY DEF IsQuery
<1> DEFINE Shape(Z) == [stack : S, nesting : Int, active : BOOLEAN, error : Z, shorts : Y]
<1>2. ASSUME NEW r, NEW Z, r \in Shape(Z), r.stack = q.stack  PROVE IsQuery(r)
  BY <1>2 DEF IsQuery
<1>3. ASSUME NEW error
      PROVE  LET r == Fail(q, error)
             IN /\ IsQuery(r) /\ r.error = error
                /\ r.stack = q.stack /\ r.nesting = q.nesting /\ r.active = q.active
  <2>1. Fail(q, error) \in Shape(X \cup {error})  BY <1>1 DEF Fail
  <2>2. LET r == Fail(q, error)
        IN /\ r.error = error
           /\ r.stack = q.stack /\ r.nesting = q.nesting /\ r.active = q.active
    BY <1>1 DEF Fail
  <2> HIDE DEF Shape
  <2>3. QED  BY <1>2, <2>1, <2>2
<1>4. ASSUME NEW active \in BOOLEAN
      PROVE  LET r == [q EXCEPT !.active = active]
             IN /\ IsQuery(r) /\ r.active = active
                /\ r.stack = q.stack /\ r.nesting = q.nesting /\ r.error = q.error
  <2>1. [q EXCEPT !.active = active] \in Shape(X)  BY <1>1
  <2>2. LET r == [q EXCEPT !.active = active]
        IN /\ r.active = active
           /\ r.stack = q.stack /\ r.nesting = q.nesting /\ r.error = q.error
    BY <1>1
  <2> HIDE DEF Shape
  <2>3. QED  BY <1>2, <2>1, <2>2
<1>5. ASSUME NEW nesting \in Int
      PROVE  LET r == [q EXCEPT !.nesting = nesting]
             IN /\ IsQuery(r) /\ r.nesting = nesting
                /\ r.stack = q.stack /\ r.active = q.active /\ r.error = q.error
  <2>1. [q EXCEPT !.nesting = nesting] \in Shape(X)  BY <1>1
  <2>2. LET r == [q EXCEPT !.nesting = nesting]
        IN /\ r.nesting = nesting
           /\ r.stack = q.stack /\ r.active = q.active /\ r.error = q.error
    BY <1>1
  <2> HIDE DEF Shape
  <2>3. QED  BY <1>2, <2>1, <2>2
<1>6. QED  BY <1>3, <1>4, <1>5

\* A stack that is put in the place of a query's.
LEMMA StackSet ==
  ASSUME NEW q, IsQuery(q), NEW stack, IsSeq(stack), Len(stack) >= 1,
         \A i \in 1 .. Len(stack) : IsGroup(stack[i])
  PROVE  LET r == [q EXCEPT !.stack = stack]
         IN /\ IsQuery(r) /\ r.stack = stack
            /\ r.nesting = q.nesting /\ r.active = q.active /\ r.error = q.error
<1>1. PICK S, X, Y : q \in [stack : S, nesting : Int, active : BOOLEAN, error : X, shorts : Y]
  BY DEF IsQuery
<1> DEFINE r == [q EXCEPT !.stack = stack]
<1>2. r \in [stack : {stack}, nesting : Int, active : BOOLEAN, error : X, shorts : Y]  BY <1>1
<1>3. /\ r.stack = stack
      /\ r.nesting = q.nesting /\ r.active = q.active /\ r.error = q.error
  BY <1>1
<1> HIDE DEF r
<1>4. IsQuery(r)  BY <1>2, <1>3 DEF IsQuery
<1>5. QED  BY <1>3, <1>4 DEF r

(***************************************************************************)
(* The three ways in which a query changes.                                *)
(***************************************************************************)
SameBelow(r, q, n) == \A i \in 1 .. n : r.stack[i].kind = q.stack[i].kind
SameGroups(r, q) == Len(r.stack) = Len(q.stack) /\ SameBelow(r, q, Len(q.stack))
OneMore(r, q, kind) ==
    /\ Len(r.stack) = Len(q.stack) + 1 /\ SameBelow(r, q, Len(q.stack))
    /\ Top(r).kind = kind
OneLess(r, q) == Len(r.stack) = Len(q.stack) - 1 /\ SameBelow(r, q, Len(q.stack) - 1)

\* The arguments of the top group are replaced: the groups stay.
LEMMA ArgsSet ==
  ASSUME NEW q, IsQuery(q), NEW args, IsSeq(args)
  PROVE  LET r == WithTopArgs(q, args)
         IN /\ IsQuery(r) /\ SameGroups(r, q) /\ Top(r).args = args
            /\ Top(r).kind = Top(q).kind
            /\ r.nesting = q.nesting /\ r.active = q.active /\ r.error = q.error
<1> DEFINE n == Len(q.stack)
           g == [Top(q) EXCEPT !.args = args]
           t == [q.stack EXCEPT ![n] = g]
           r == WithTopArgs(q, args)
<1>1. n \in Nat \ {0} /\ IsGroup(Top(q)) /\ Top(q) = q.stack[n]  BY QueryParts
<1>2. IsGroup(g) /\ g.kind = Top(q).kind /\ g.args = args  BY <1>1, GroupParts
<1> HIDE DEF g
<1>3. IsSeq(q.stack) /\ \A i \in 1 .. n : IsGroup(q.stack[i])  BY DEF IsQuery
<1>4. /\ IsSeq(t) /\ Len(t) = n
      /\ \A i \in 1 .. n - 1 : t[i] = q.stack[i]
      /\ t[n] = g
  BY <1>1, <1>3, SeqLast
<1>5. r = [q EXCEPT !.stack = t]
  BY <1>1 DEF WithTopArgs, g
<1> HIDE DEF t, r
<1>6. \A i \in 1 .. n : IsGroup(t[i]) /\ t[i].kind = q.stack[i].kind
  <2> SUFFICES ASSUME NEW i \in 1 .. n  PROVE IsGroup(t[i]) /\ t[i].kind = q.stack[i].kind
    OBVIOUS
  <2>1. CASE i = n  BY <2>1, <1>1, <1>2, <1>4
  <2>2. CASE i \in 1 .. n - 1  BY <2>2, <1>3, <1>4
  <2>3. QED  BY <2>1, <2>2, <1>1
<1>7. /\ IsQuery(r) /\ r.stack = t
      /\ r.nesting = q.nesting /\ r.active = q.active /\ r.error = q.error
  BY <1>1, <1>4, <1>5, <1>6, StackSet
<1>8. SameGroups(r, q)  BY <1>4, <1>6, <1>7 DEF SameGroups, SameBelow
<1>9. Top(r) = g  BY <1>4, <1>7 DEF Top, Last
<1>10. QED  BY <1>2, <1>7, <1>8, <1>9 DEF r

\* An element is appended to the top group: the groups stay.
LEMMA ElementAppended ==
  ASSUME NEW q, IsQuery(q), NEW element
  PROVE  LET r == Appended(q, element)
         IN /\ IsQuery(r) /\ SameGroups(r, q) /\ TopCount(r) = TopCount(q) + 1
            /\ Top(r).kind = Top(q).kind
            /\ r.nesting = q.nesting /\ r.active = q.active /\ r.error = q.error
<1> DEFINE args == Append(Top(q).args, element)
<1>1. IsSeq(Top(q).args)  BY QueryParts
<1>2. IsSeq(args) /\ Len(args) = Len(Top(q).args) + 1  BY <1>1, SeqAppend
<1> HIDE DEF args
<1>3. LET r == WithTopArgs(q, args)
      IN /\ IsQuery(r) /\ SameGroups(r, q) /\ Top(r).args = args
         /\ Top(r).kind = Top(q).kind
         /\ r.nesting = q.nesting /\ r.active = q.active /\ r.error = q.error
  BY <1>2, ArgsSet
<1>4. Appended(q, element) = WithTopArgs(q, args)  BY DEF Appended, args
<1>5. QED  BY <1>2, <1>3, <1>4 DEF TopCount

\* A group is opened on top.
LEMMA GroupOpened ==
  ASSUME NEW q, IsQuery(q), NEW group, IsGroup(group)
  PROVE  LET r == Open(q, group)
         IN /\ IsQuery(r) /\ OneMore(r, q, group.kind)
            /\ r.nesting = q.nesting /\ r.active = q.active /\ r.error = q.error
<1> DEFINE n == Len(q.stack)
           t == Append(q.stack, group)
           r == Open(q, group)
<1>1. n \in Nat \ {0}  BY QueryParts
<1>2. IsSeq(q.stack) /\ \A i \in 1 .. n : IsGroup(q.stack[i])  BY DEF IsQuery
<1>3. /\ IsSeq(t) /\ Len(t) = n + 1
      /\ \A i \in 1 .. n : t[i] = q.stack[i]
      /\ t[n + 1] = group
  BY <1>2, SeqAppend
<1>4. r = [q EXCEPT !.stack = t]
  <2>1. PICK S, X, Y : q \in [stack : S, nesting : Int, active : BOOLEAN, error : X, shorts : Y]
    BY DEF IsQuery
  <2>2. QED  BY <2>1 DEF Open
<1> HIDE DEF t, r
<1>5. \A i \in 1 .. n + 1 : IsGroup(t[i])
  <2> SUFFICES ASSUME NEW i \in 1 .. n + 1  PROVE IsGroup(t[i])
    OBVIOUS
  <2>1. CASE i = n + 1  BY <2>1, <1>3
  <2>2. CASE i \in 1 .. n  BY <2>2, <1>2, <1>3
  <2>3. QED  BY <2>1, <2>2, <1>1
<1>6. /\ IsQuery(r) /\ r.stack = t
      /\ r.nesting = q.nesting /\ r.active = q.active /\ r.error = q.error
  BY <1>1, <1>3, <1>4, <1>5, StackSet
<1>7. OneMore(r, q, group.kind)  BY <1>3, <1>6 DEF OneMore, SameBelow, Top, Last
<1>8. QED  BY <1>6, <1>7 DEF r

\* The top group is popped.
LEMMA TopPopped ==
  ASSUME NEW q, IsQuery(q), Len(q.stack) >= 2
  PROVE  LET r == [q EXCEPT !.stack = Front(@)]
         IN /\ IsQuery(r) /\ OneLess(r, q)
            /\ r.nesting = q.nesting /\ r.active = q.active /\ r.error = q.error
<1> DEFINE n == Len(q.stack)
           t == Front(q.stack)
           r == [q EXCEPT !.stack = Front(@)]
<1>1. n \in Nat \ {0}  BY QueryParts
<1>2. IsSeq(q.stack) /\ \A i \in 1 .. n : IsGroup(q.stack[i])  BY DEF IsQuery
<1>3. IsSeq(t) /\ Len(t) = n - 1 /\ \A i \in 1 .. n - 1 : t[i] = q.stack[i]
  BY <1>1, <1>2, SeqFront
<1>4. r = [q EXCEPT !.stack = t]
  <2>1. PICK S, X, Y : q \in [stack : S, nesting : Int, active : BOOLEAN, error : X, shorts : Y]
    BY DEF IsQuery
  <2>2. QED  BY <2>1
<1> HIDE DEF t, r
<1>5. \A i \in 1 .. n - 1 : IsGroup(t[i])  BY <1>1, <1>2, <1>3
<1>6. /\ IsQuery(r) /\ r.stack = t
      /\ r.nesting = q.nesting /\ r.active = q.active /\ r.error = q.error
  BY <1>1, <1>3, <1>4, <1>5, StackSet
<1>7. OneLess(r, q)  BY <1>3, <1>6 DEF OneLess, SameBelow
<1>8. QED  BY <1>6, <1>7 DEF r

(***************************************************************************)
(* Balance.                                                                *)
(***************************************************************************)
\* The open parentheses are finitely many.
LEMMA OpenFinite ==
  ASSUME NEW q, IsQuery(q)
  PROVE  /\ IsFiniteSet(OpenParentheses(q))
         /\ OpenParentheses(q) \in SUBSET (2 .. Len(q.stack))
         /\ Cardinality(OpenParentheses(q)) \in Nat
<1>1. Len(q.stack) \in Nat  BY QueryParts
<1>2. IsFiniteSet(2 .. Len(q.stack))  BY <1>1, FS_Interval
<1>3. OpenParentheses(q) \in SUBSET (2 .. Len(q.stack))  BY DEF OpenParentheses
<1>4. IsFiniteSet(OpenParentheses(q))  BY <1>2, <1>3, FS_Subset
<1>5. QED  BY <1>3, <1>4, FS_CardinalityType

\* Balance is about the kinds of the groups and their count.
LEMMA SameIsBalanced ==
  ASSUME NEW q, NEW r, IsQuery(q), IsQuery(r), GroupsBalanced(q),
         SameGroups(r, q), r.nesting = q.nesting
  PROVE  GroupsBalanced(r)
<1>1. Len(q.stack) \in Nat \ {0}  BY QueryParts
<1>2. OpenParentheses(r) = OpenParentheses(q)
  BY <1>1 DEF SameGroups, SameBelow, OpenParentheses
<1>3. QED  BY <1>1, <1>2 DEF SameGroups, SameBelow, GroupsBalanced

\* An AND group inside an OR group.
LEMMA AndOnOr ==
  ASSUME NEW q, NEW r, IsQuery(q), IsQuery(r), GroupsBalanced(q),
         TopIs(q, "or"), OneMore(r, q, "and"), r.nesting = q.nesting
  PROVE  GroupsBalanced(r)
<1> DEFINE n == Len(q.stack)
<1>1. n \in Nat \ {0}  BY QueryParts
<1>2. /\ Len(r.stack) = n + 1 /\ r.stack[n + 1].kind = "and"
      /\ q.stack[n].kind = "or" /\ r.stack[n].kind = "or"
      /\ \A i \in 1 .. n : r.stack[i].kind = q.stack[i].kind
  BY <1>1 DEF OneMore, SameBelow, Top, TopIs, Last
<1> HIDE DEF n
<1>3. OpenParentheses(r) = OpenParentheses(q)  BY <1>1, <1>2 DEF OpenParentheses, n
<1>4. \A i \in 2 .. n : r.stack[i].kind = "and" => r.stack[i - 1].kind = "or"
  <2> SUFFICES ASSUME NEW i \in 2 .. n, r.stack[i].kind = "and"
               PROVE  r.stack[i - 1].kind = "or"
    OBVIOUS
  <2>1. i \in 1 .. n /\ i - 1 \in 1 .. n  BY <1>1
  <2>2. q.stack[i].kind = "and"  BY <1>2, <2>1
  <2>3. q.stack[i - 1].kind = "or"  BY <2>2 DEF GroupsBalanced, n
  <2>4. QED  BY <1>2, <2>1, <2>3
<1>5. \A i \in 2 .. n + 1 : r.stack[i].kind = "and" => r.stack[i - 1].kind = "or"
  BY <1>1, <1>2, <1>4
<1>6. r.stack[1].kind = "or"  BY <1>1, <1>2 DEF GroupsBalanced
<1>7. QED  BY <1>2, <1>3, <1>5, <1>6 DEF GroupsBalanced

\* An OR group opened by a parenthesis.
LEMMA OrOpened ==
  ASSUME NEW q, NEW r, IsQuery(q), IsQuery(r), GroupsBalanced(q),
         OneMore(r, q, "or"), r.nesting = q.nesting + 1
  PROVE  GroupsBalanced(r)
<1> DEFINE n == Len(q.stack)
<1>1. n \in Nat \ {0}  BY QueryParts
<1>2. /\ Len(r.stack) = n + 1 /\ r.stack[n + 1].kind = "or"
      /\ \A i \in 1 .. n : r.stack[i].kind = q.stack[i].kind
  BY <1>1 DEF OneMore, SameBelow, Top, Last
<1> HIDE DEF n
<1>3. OpenParentheses(r) = OpenParentheses(q) \cup {n + 1} /\ n + 1 \notin OpenParentheses(q)
  BY <1>1, <1>2 DEF OpenParentheses, n
<1>4. Cardinality(OpenParentheses(r)) = Cardinality(OpenParentheses(q)) + 1
  BY <1>3, OpenFinite, FS_AddElement
<1>5. \A i \in 2 .. n + 1 : r.stack[i].kind = "and" => r.stack[i - 1].kind = "or"
  <2> SUFFICES ASSUME NEW i \in 2 .. n + 1, r.stack[i].kind = "and"
               PROVE  r.stack[i - 1].kind = "or"
    OBVIOUS
  <2>1. i # n + 1  BY <1>2
  <2>2. i \in 2 .. n /\ i \in 1 .. n /\ i - 1 \in 1 .. n  BY <1>1, <2>1
  <2>3. q.stack[i].kind = "and"  BY <1>2, <2>2
  <2>4. q.stack[i - 1].kind = "or"  BY <2>2, <2>3 DEF GroupsBalanced, n
  <2>5. QED  BY <1>2, <2>2, <2>4
<1>6. r.stack[1].kind = "or"  BY <1>1, <1>2 DEF GroupsBalanced
<1>7. QED  BY <1>2, <1>4, <1>5, <1>6 DEF GroupsBalanced

\* An AND group closed, which leaves an OR group on top.
LEMMA AndClosed ==
  ASSUME NEW q, NEW r, IsQuery(q), IsQuery(r), GroupsBalanced(q),
         TopIs(q, "and"), OneLess(r, q), r.nesting = q.nesting
  PROVE  GroupsBalanced(r) /\ TopIs(r, "or") /\ Len(q.stack) >= 2
<1> DEFINE n == Len(q.stack)
<1>1. n \in Nat \ {0}  BY QueryParts
<1>2. /\ Len(r.stack) = n - 1 /\ q.stack[n].kind = "and"
      /\ \A i \in 1 .. n - 1 : r.stack[i].kind = q.stack[i].kind
  BY <1>1 DEF OneLess, SameBelow, Top, TopIs, Last
<1>3. n # 1  BY <1>2 DEF GroupsBalanced
<1>4. q.stack[n - 1].kind = "or"  BY <1>1, <1>2, <1>3 DEF GroupsBalanced
<1>5. TopIs(r, "or")
  <2> HIDE DEF n
  <2>1. n - 1 \in 1 .. n - 1  BY <1>1, <1>3
  <2>2. r.stack[n - 1].kind = "or"  BY <1>2, <1>4, <2>1
  <2>3. QED  BY <1>2, <2>2 DEF TopIs, Top, Last
<1>6. OpenParentheses(r) = OpenParentheses(q)
  <2> SUFFICES ASSUME NEW i \in 2 .. n, i \notin 2 .. n - 1
               PROVE  q.stack[i].kind # "or"
    BY <1>1, <1>2 DEF OpenParentheses
  <2>1. i = n  BY <1>1
  <2>2. QED  BY <1>2, <2>1
<1>7. \A i \in 2 .. n - 1 : r.stack[i].kind = "and" => r.stack[i - 1].kind = "or"
  <2> SUFFICES ASSUME NEW i \in 2 .. n - 1, r.stack[i].kind = "and"
               PROVE  r.stack[i - 1].kind = "or"
    OBVIOUS
  <2>1. i \in 2 .. n /\ i \in 1 .. n - 1 /\ i - 1 \in 1 .. n - 1  BY <1>1
  <2>2. q.stack[i].kind = "and"  BY <1>2, <2>1
  <2>3. q.stack[i - 1].kind = "or"  BY <2>1, <2>2 DEF GroupsBalanced
  <2>4. QED  BY <1>2, <2>1, <2>3
<1>8. r.stack[1].kind = "or"  BY <1>1, <1>2, <1>3 DEF GroupsBalanced
<1>9. QED  BY <1>1, <1>2, <1>3, <1>5, <1>6, <1>7, <1>8 DEF GroupsBalanced

\* An OR group closed by a parenthesis.
LEMMA OrClosed ==
  ASSUME NEW q, NEW r, IsQuery(q), IsQuery(r), GroupsBalanced(q), Len(q.stack) >= 2,
         TopIs(q, "or"), OneLess(r, q), r.nesting = q.nesting - 1
  PROVE  GroupsBalanced(r)
<1> DEFINE n == Len(q.stack)
<1>1. n \in Nat /\ n >= 2  BY QueryParts
<1>2. /\ Len(r.stack) = n - 1 /\ q.stack[n].kind = "or"
      /\ \A i \in 1 .. n - 1 : r.stack[i].kind = q.stack[i].kind
  BY <1>1 DEF OneLess, SameBelow, Top, TopIs, Last
<1> HIDE DEF n
<1>3. OpenParentheses(r) = OpenParentheses(q) \ {n} /\ n \in OpenParentheses(q)
  BY <1>1, <1>2 DEF OpenParentheses, n
<1>4. Cardinality(OpenParentheses(r)) = Cardinality(OpenParentheses(q)) - 1
  BY <1>3, OpenFinite, FS_RemoveElement
<1>5. \A i \in 2 .. n - 1 : r.stack[i].kind = "and" => r.stack[i - 1].kind = "or"
  <2> SUFFICES ASSUME NEW i \in 2 .. n - 1, r.stack[i].kind = "and"
               PROVE  r.stack[i - 1].kind = "or"
    OBVIOUS
  <2>1. i \in 2 .. n /\ i \in 1 .. n - 1 /\ i - 1 \in 1 .. n - 1  BY <1>1
  <2>2. q.stack[i].kind = "and"  BY <1>2, <2>1
  <2>3. q.stack[i - 1].kind = "or"  BY <2>1, <2>2 DEF GroupsBalanced, n
  <2>4. QED  BY <1>2, <2>1, <2>3
<1>6. r.stack[1].kind = "or"  BY <1>1, <1>2 DEF GroupsBalanced
<1>7. QED  BY <1>2, <1>4, <1>5, <1>6 DEF GroupsBalanced

\* A query in which no parenthesis is open has at most an AND group open.
LEMMA ClosedIsShallow ==
  ASSUME NEW q, IsQuery(q), GroupsBalanced(q), q.nesting = 0
  PROVE  Len(q.stack) <= 2 /\ (TopIs(q, "or") => Len(q.stack) = 1)
<1> DEFINE n == Len(q.stack)
<1>1. n \in Nat \ {0}  BY QueryParts
<1>2. OpenParentheses(q) = {}  BY OpenFinite, FS_EmptySet DEF GroupsBalanced
<1>3. \A i \in 2 .. n : q.stack[i].kind # "or"  BY <1>2 DEF OpenParentheses
<1>4. \A i \in 2 .. n : q.stack[i].kind = "and"
  BY <1>1, <1>3, GroupParts DEF IsQuery
<1>5. ~(n >= 3)
  <2> SUFFICES ASSUME n >= 3  PROVE FALSE
    OBVIOUS
  <2>1. q.stack[3].kind = "and" /\ q.stack[2].kind = "and"  BY <1>1, <1>4
  <2>2. q.stack[3 - 1].kind = "or"  BY <1>1, <2>1 DEF GroupsBalanced
  <2>3. QED  BY <2>1, <2>2
<1>6. TopIs(q, "or") => n = 1
  <2>1. TopIs(q, "or") => q.stack[n].kind = "or"  BY DEF TopIs, Top, Last
  <2> HIDE DEF n
  <2>2. n = 1 \/ n \in 2 .. n  BY <1>1
  <2>3. QED  BY <1>3, <2>1, <2>2
<1>7. QED  BY <1>1, <1>5, <1>6

\* Where a parenthesis is open, there is a group to close under an AND group.
LEMMA OpenIsDeep ==
  ASSUME NEW q, IsQuery(q), GroupsBalanced(q), q.nesting # 0
  PROVE  Len(q.stack) >= 2 /\ q.nesting > 0 /\ (TopIs(q, "and") => Len(q.stack) >= 3)
<1> DEFINE n == Len(q.stack)
<1>1. n \in Nat \ {0}  BY QueryParts
<1>2. OpenParentheses(q) # {} /\ q.nesting > 0  BY OpenFinite, FS_EmptySet DEF GroupsBalanced
<1>3. PICK i \in 2 .. n : q.stack[i].kind = "or"  BY <1>2 DEF OpenParentheses
<1>4. TopIs(q, "and") => n # i  BY <1>3 DEF TopIs, Top, Last
<1>5. QED  BY <1>1, <1>2, <1>3, <1>4

(***************************************************************************)
(* The functions of the engine.                                            *)
(***************************************************************************)
Balanced(q) == IsQuery(q) /\ GroupsBalanced(q)

\* A chain of the changes above: a stack of one group less, then the same groups.
LEMMA LessThenSame ==
  ASSUME NEW q, NEW p, NEW r, IsQuery(q), IsQuery(p), OneLess(p, q), SameGroups(r, p)
  PROVE  OneLess(r, q)
<1>1. Len(q.stack) \in Nat \ {0}  BY QueryParts
<1>2. QED  BY <1>1 DEF OneLess, SameGroups, SameBelow

\* An open AND group is inside another group.
LEMMA AndIsInside ==
  ASSUME NEW q, Balanced(q), TopIs(q, "and")
  PROVE  Len(q.stack) >= 2
<1> DEFINE n == Len(q.stack)
<1>1. n \in Nat \ {0}  BY QueryParts DEF Balanced
<1>2. n # 1  BY DEF Balanced, GroupsBalanced, TopIs, Top, Last
<1> HIDE DEF n
<1>3. n >= 2  BY <1>1, <1>2
<1>4. QED  BY <1>3 DEF n

\* The operator that is active, and the error, have no part in balance.
LEMMA FieldsKeepBalance ==
  ASSUME NEW q, Balanced(q)
  PROVE  /\ \A active \in BOOLEAN :
              LET r == [q EXCEPT !.active = active]
              IN Balanced(r) /\ r.stack = q.stack /\ r.nesting = q.nesting
                 /\ r.error = q.error /\ r.active = active
         /\ \A error :
              LET r == Fail(q, error)
              IN Balanced(r) /\ r.stack = q.stack /\ r.nesting = q.nesting
                 /\ r.error = error /\ r.active = q.active
<1>1. IsQuery(q)  BY DEF Balanced
<1>2. ASSUME NEW r, r.stack = q.stack, r.nesting = q.nesting  PROVE GroupsBalanced(r)
  BY <1>2 DEF Balanced, GroupsBalanced, OpenParentheses
<1>3. ASSUME NEW active \in BOOLEAN
      PROVE  LET r == [q EXCEPT !.active = active]
             IN Balanced(r) /\ r.stack = q.stack /\ r.nesting = q.nesting
                /\ r.error = q.error /\ r.active = active
  <2> DEFINE r == [q EXCEPT !.active = active]
  <2>1. /\ IsQuery(r) /\ r.stack = q.stack /\ r.nesting = q.nesting
        /\ r.error = q.error /\ r.active = active
    BY <1>1, FieldsSet
  <2> HIDE DEF r
  <2>2. Balanced(r)  BY <1>2, <2>1 DEF Balanced
  <2>3. QED  BY <2>1, <2>2 DEF r
<1>4. ASSUME NEW error
      PROVE  LET r == Fail(q, error)
             IN Balanced(r) /\ r.stack = q.stack /\ r.nesting = q.nesting
                /\ r.error = error /\ r.active = q.active
  <2> DEFINE r == Fail(q, error)
  <2>1. /\ IsQuery(r) /\ r.stack = q.stack /\ r.nesting = q.nesting
        /\ r.error = error /\ r.active = q.active
    BY <1>1, FieldsSet
  <2> HIDE DEF r
  <2>2. Balanced(r)  BY <1>2, <2>1 DEF Balanced
  <2>3. QED  BY <2>1, <2>2 DEF r
<1>5. QED  BY <1>3, <1>4

\* The top group is the same where the stack is.
LEMMA SameTop ==
  ASSUME NEW q, NEW r, r.stack = q.stack
  PROVE  Top(r) = Top(q) /\ TopCount(r) = TopCount(q) /\ \A k : TopIs(r, k) <=> TopIs(q, k)
BY DEF Top, TopCount, TopIs

\* _QEQueryPushGroup(): an AND group must be pushed on an OR group.
LEMMA Pushed ==
  ASSUME NEW q, Balanced(q), NEW kind \in {"or", "and"}, NEW neg,
         kind = "and" => TopIs(q, "or")
  PROVE  LET r == PushGroup(q, kind, neg)
         IN /\ Balanced(r) /\ TopIs(r, kind) /\ r.error = q.error
            /\ r.nesting = IF kind = "or" THEN q.nesting + 1 ELSE q.nesting
<1> DEFINE group == NewGroup(kind, neg)
           r == PushGroup(q, kind, neg)
<1>1. IsQuery(q) /\ GroupsBalanced(q) /\ q.nesting \in Int  BY QueryParts DEF Balanced
<1>2. IsGroup(group) /\ group.kind = kind  BY NewGroups
<1> HIDE DEF group
<1>3. CASE kind = "or"
  <2> DEFINE p == Open(q, group)
  <2>1. /\ IsQuery(p) /\ OneMore(p, q, "or")
        /\ p.nesting = q.nesting /\ p.error = q.error
    BY <1>1, <1>2, <1>3, GroupOpened
  <2>2. r = [p EXCEPT !.nesting = @ + 1]  BY <1>3 DEF PushGroup, group
  <2> HIDE DEF p
  <2>3. r = [p EXCEPT !.nesting = q.nesting + 1]
    <3>1. PICK S, X, Y : p \in [stack : S, nesting : Int, active : BOOLEAN, error : X, shorts : Y]
      BY <2>1 DEF IsQuery
    <3>2. QED  BY <2>1, <2>2, <3>1
  <2> HIDE DEF r
  <2>4. /\ IsQuery(r) /\ r.nesting = q.nesting + 1
        /\ r.stack = p.stack /\ r.error = q.error
    BY <1>1, <2>1, <2>3, FieldsSet
  <2>5. OneMore(r, q, "or")  BY <2>1, <2>4 DEF OneMore, SameBelow, Top
  <2>6. GroupsBalanced(r)  BY <1>1, <2>4, <2>5, OrOpened
  <2>7. QED  BY <1>3, <2>4, <2>5, <2>6 DEF Balanced, OneMore, TopIs, r
<1>4. CASE kind = "and" /\ TopCount(q) = 0
  <2>1. r = Open(q, group)  BY <1>4 DEF PushGroup, group
  <2> HIDE DEF r
  <2>2. /\ IsQuery(r) /\ OneMore(r, q, "and")
        /\ r.nesting = q.nesting /\ r.error = q.error
    BY <1>1, <1>2, <1>4, <2>1, GroupOpened
  <2>3. GroupsBalanced(r)  BY <1>1, <1>4, <2>2, AndOnOr
  <2>4. QED  BY <1>4, <2>2, <2>3 DEF Balanced, OneMore, TopIs, r
<1>5. CASE kind = "and" /\ TopCount(q) # 0
  <2> DEFINE yanked == Yanked(q)
             args == <<Last(Top(q).args)>>
             holding == [group EXCEPT !.args = args]
             p == Open(yanked, holding)
  <2>1. r = [p EXCEPT !.active = FALSE]  BY <1>5 DEF PushGroup, group
  <2> HIDE DEF r
  <2>2. IsSeq(Top(q).args) /\ Len(Top(q).args) >= 1
    BY <1>1, <1>5, QueryParts DEF TopCount
  <2>3. IsSeq(Front(Top(q).args))  BY <2>2, SeqFront
  <2>4. /\ IsQuery(yanked) /\ SameGroups(yanked, q) /\ Top(yanked).kind = Top(q).kind
        /\ yanked.nesting = q.nesting /\ yanked.error = q.error
    BY <1>1, <2>3, ArgsSet DEF Yanked
  <2>5. IsGroup(holding) /\ holding.kind = "and"
    <3>1. IsSeq(args)  BY SmallSeqs
    <3>2. QED  BY <1>2, <1>5, <3>1, GroupParts
  <2> HIDE DEF yanked, holding
  <2>6. /\ IsQuery(p) /\ OneMore(p, yanked, "and")
        /\ p.nesting = yanked.nesting /\ p.error = yanked.error
    BY <2>4, <2>5, GroupOpened
  <2> HIDE DEF p
  <2>7. GroupsBalanced(yanked)  BY <1>1, <2>4, SameIsBalanced
  <2>8. TopIs(yanked, "or")  BY <1>5, <2>4 DEF TopIs
  <2>9. GroupsBalanced(p)  BY <2>4, <2>6, <2>7, <2>8, AndOnOr
  <2>10. Balanced(p)  BY <2>6, <2>9 DEF Balanced
  <2>11. /\ Balanced(r) /\ r.stack = p.stack
         /\ r.nesting = q.nesting /\ r.error = q.error
    BY <2>1, <2>4, <2>6, <2>10, FieldsKeepBalance
  <2>12. TopIs(r, "and")  BY <2>6, <2>11, SameTop DEF OneMore, TopIs
  <2>13. QED  BY <1>5, <2>11, <2>12 DEF r
<1>6. QED  BY <1>3, <1>4, <1>5

\* _QEQueryPopGroup() of an AND group leaves an OR group on top.
LEMMA PoppedAnd ==
  ASSUME NEW q, Balanced(q), TopIs(q, "and")
  PROVE  LET r == PopGroup(q)
         IN /\ Balanced(r) /\ TopIs(r, "or") /\ TopCount(r) >= 1
            /\ Len(r.stack) = Len(q.stack) - 1
            /\ r.nesting = q.nesting /\ r.active = q.active /\ r.error = q.error
<1> DEFINE p == [q EXCEPT !.stack = Front(@)]
           r == PopGroup(q)
<1>1. IsQuery(q) /\ GroupsBalanced(q)  BY DEF Balanced
<1>2. Len(q.stack) >= 2 /\ Len(q.stack) \in Nat  BY <1>1, AndIsInside, QueryParts
<1>3. /\ IsQuery(p) /\ OneLess(p, q)
      /\ p.nesting = q.nesting /\ p.active = q.active /\ p.error = q.error
  BY <1>1, <1>2, TopPopped
<1>4. r = Appended(p, Top(q))  BY <1>2 DEF PopGroup
<1> HIDE DEF p, r
<1>5. /\ IsQuery(r) /\ SameGroups(r, p) /\ TopCount(r) = TopCount(p) + 1
      /\ r.nesting = q.nesting /\ r.active = q.active /\ r.error = q.error
  BY <1>3, <1>4, ElementAppended
<1>6. OneLess(r, q)  BY <1>1, <1>3, <1>5, LessThenSame
<1>7. GroupsBalanced(r) /\ TopIs(r, "or")  BY <1>1, <1>5, <1>6, AndClosed
<1>8. TopCount(r) >= 1  BY <1>3, <1>5, QueryParts
<1>9. QED  BY <1>5, <1>6, <1>7, <1>8 DEF Balanced, OneLess, r

\* _QEQueryPopGroupAndCoalesce() pops one group, or leaves everything.
LEMMA Coalesced ==
  ASSUME NEW q, IsQuery(q), Len(q.stack) >= 2, NEW onlyIfCanCoalesce \in BOOLEAN
  PROVE  LET r == PopGroupAndCoalesce(q, onlyIfCanCoalesce)
         IN /\ IsQuery(r)
            /\ r.nesting = q.nesting /\ r.active = q.active /\ r.error = q.error
            /\ OneLess(r, q) \/ (onlyIfCanCoalesce /\ r = q)
<1> DEFINE p == [q EXCEPT !.stack = Front(@)]
           r == PopGroupAndCoalesce(q, onlyIfCanCoalesce)
<1>1. Len(q.stack) \in Nat  BY QueryParts
<1>2. /\ IsQuery(p) /\ OneLess(p, q)
      /\ p.nesting = q.nesting /\ p.active = q.active /\ p.error = q.error
  BY TopPopped
<1>3. (\E e : r = Appended(p, e)) \/ (onlyIfCanCoalesce /\ r = q)
  BY <1>1 DEF PopGroupAndCoalesce, PopGroup
<1> HIDE DEF p, r
<1>4. ASSUME NEW e, r = Appended(p, e)
      PROVE  /\ IsQuery(r) /\ OneLess(r, q)
             /\ r.nesting = q.nesting /\ r.active = q.active /\ r.error = q.error
  <2>1. /\ IsQuery(r) /\ SameGroups(r, p)
        /\ r.nesting = q.nesting /\ r.active = q.active /\ r.error = q.error
    BY <1>2, <1>4, ElementAppended
  <2>2. QED  BY <1>2, <2>1, LessThenSame
<1>5. QED  BY <1>3, <1>4 DEF r

\* QEQueryStartGroup(): an opening parenthesis.
LEMMA Started ==
  ASSUME NEW q, Balanced(q), NEW neg
  PROVE  LET r == StartGroup(q, "or", neg)
         IN Balanced(r) /\ r.nesting = q.nesting + 1 /\ r.error = q.error
<1> DEFINE opened == IF ~q.active /\ TopIs(q, "or") THEN PushGroup(q, "and", FALSE) ELSE q
<1>1. Balanced(opened) /\ opened.nesting = q.nesting /\ opened.error = q.error
  BY Pushed
<1>2. StartGroup(q, "or", neg) = PushGroup(opened, "or", neg)  BY DEF StartGroup
<1> HIDE DEF opened
<1>3. QED  BY <1>1, <1>2, Pushed

\* QEQueryAppendAndOperator() opens an AND group inside an OR group.
LEMMA AndOperator ==
  ASSUME NEW q, Balanced(q)
  PROVE  LET r == QEQueryAppendAndOperator(q)
         IN /\ Balanced(r) /\ r.nesting = q.nesting
            /\ r.error = IF q.active THEN "syntax" ELSE q.error
<1> DEFINE a == [q EXCEPT !.active = TRUE]
           r == QEQueryAppendAndOperator(q)
<1>1. CASE q.active
  <2>1. r = Fail(q, "syntax")  BY <1>1 DEF QEQueryAppendAndOperator
  <2> HIDE DEF r
  <2>2. Balanced(r) /\ r.nesting = q.nesting /\ r.error = "syntax"
    BY <2>1, FieldsKeepBalance
  <2>3. QED  BY <1>1, <2>2 DEF r
<1>2. CASE ~q.active
  <2>1. /\ Balanced(a) /\ a.stack = q.stack /\ a.nesting = q.nesting
        /\ a.error = q.error /\ a.active = TRUE
    BY FieldsKeepBalance
  <2>2. r = IF TopIs(q, "or") THEN StartGroup(a, "and", FALSE) ELSE a
    BY <1>2 DEF QEQueryAppendAndOperator
  <2> HIDE DEF a
  <2>3. StartGroup(a, "and", FALSE) = PushGroup(a, "and", FALSE)  BY <2>1 DEF StartGroup
  <2> HIDE DEF r
  <2>4. CASE TopIs(q, "or")
    <3>1. TopIs(a, "or")  BY <2>1, <2>4, SameTop
    <3>2. LET t == PushGroup(a, "and", FALSE)
          IN Balanced(t) /\ t.nesting = a.nesting /\ t.error = a.error
      BY <2>1, <3>1, Pushed
    <3>3. r = PushGroup(a, "and", FALSE)  BY <2>2, <2>3, <2>4
    <3>4. Balanced(r) /\ r.nesting = q.nesting /\ r.error = q.error  BY <2>1, <3>2, <3>3
    <3>5. QED  BY <1>2, <3>4 DEF r
  <2>5. CASE ~TopIs(q, "or")
    <3>1. r = a  BY <2>2, <2>5
    <3>2. QED  BY <1>2, <2>1, <3>1 DEF r
  <2>6. QED  BY <2>4, <2>5
<1>3. QED  BY <1>1, <1>2

\* QEQueryAppendOrOperator() closes an AND group.
LEMMA OrOperator ==
  ASSUME NEW q, Balanced(q)
  PROVE  LET r == QEQueryAppendOrOperator(q)
         IN /\ Balanced(r) /\ r.nesting = q.nesting
            /\ r.error = IF q.active THEN "syntax" ELSE q.error
<1> DEFINE a == [q EXCEPT !.active = TRUE]
           r == QEQueryAppendOrOperator(q)
<1>1. CASE q.active
  <2>1. r = Fail(q, "syntax")  BY <1>1 DEF QEQueryAppendOrOperator
  <2> HIDE DEF r
  <2>2. Balanced(r) /\ r.nesting = q.nesting /\ r.error = "syntax"
    BY <2>1, FieldsKeepBalance
  <2>3. QED  BY <1>1, <2>2 DEF r
<1>2. CASE ~q.active
  <2>1. /\ Balanced(a) /\ a.stack = q.stack /\ a.nesting = q.nesting /\ a.error = q.error
    BY FieldsKeepBalance
  <2>2. r = IF TopIs(q, "and") THEN PopGroup(a) ELSE a
    BY <1>2 DEF QEQueryAppendOrOperator
  <2> HIDE DEF a, r
  <2>3. TopIs(a, "and") <=> TopIs(q, "and")  BY <2>1, SameTop
  <2>4. Balanced(r) /\ r.nesting = q.nesting /\ r.error = q.error
    BY <2>1, <2>2, <2>3, PoppedAnd
  <2>5. QED  BY <1>2, <2>4 DEF r
<1>3. QED  BY <1>1, <1>2

\* QEQueryAppendElement(), which supplies the AND operator left out.
LEMMA AppendElement ==
  ASSUME NEW q, Balanced(q), NEW element
  PROVE  LET r == QEQueryAppendElement(q, element)
         IN Balanced(r) /\ r.nesting = q.nesting /\ r.error = q.error
<1> DEFINE joined == IF ~q.active /\ TopCount(q) > 0 THEN QEQueryAppendAndOperator(q) ELSE q
           p == Appended(joined, element)
           r == QEQueryAppendElement(q, element)
<1>1. Balanced(joined) /\ joined.nesting = q.nesting /\ joined.error = q.error
  BY AndOperator
<1> HIDE DEF joined
<1>2. /\ IsQuery(p) /\ SameGroups(p, joined)
      /\ p.nesting = joined.nesting /\ p.error = joined.error
  BY <1>1, ElementAppended DEF Balanced
<1> HIDE DEF p
<1>3. Balanced(p)  BY <1>1, <1>2, SameIsBalanced DEF Balanced
<1>4. r = [p EXCEPT !.active = FALSE]  BY DEF QEQueryAppendElement, joined, p
<1> HIDE DEF r
<1>5. Balanced(r) /\ r.nesting = p.nesting /\ r.error = p.error
  BY <1>3, <1>4, FieldsKeepBalance
<1>6. QED  BY <1>1, <1>2, <1>5 DEF r

(* QEQueryEndGroup(), a closing parenthesis: it is accepted where one is open
   and has something in it, and nowhere else.                             *)
THEOREM ClosesWhatIsOpen ==
  ASSUME NEW q, Balanced(q), q.error = "none"
  PROVE  LET r == QEQueryEndGroup(q)
         IN /\ Balanced(r)
            /\ r.error = "none" <=> q.nesting > 0 /\ TopCount(q) > 0
            /\ r.error = "none" => r.nesting = q.nesting - 1
<1> DEFINE ors == IF TopIs(q, "and") THEN PopGroup(q) ELSE q
           closed == PopGroupAndCoalesce(ors, FALSE)
           up == [closed EXCEPT !.nesting = @ - 1]
           r == QEQueryEndGroup(q)
<1>1. IsQuery(q) /\ GroupsBalanced(q) /\ q.nesting \in Int /\ TopCount(q) \in Nat
  BY QueryParts DEF Balanced
<1>2. q.nesting \in Nat  BY <1>1, OpenIsDeep
<1>3. ASSUME NEW error, r = Fail(q, error), error # "none", ~(q.nesting > 0 /\ TopCount(q) > 0)
      PROVE  /\ Balanced(r)
             /\ r.error = "none" <=> q.nesting > 0 /\ TopCount(q) > 0
             /\ r.error = "none" => r.nesting = q.nesting - 1
  <2> HIDE DEF r
  <2>1. Balanced(r) /\ r.error = error  BY <1>3, FieldsKeepBalance
  <2>2. QED  BY <1>3, <2>1
<1>4. CASE QEQueryIsComplete(q)
  <2>1. q.nesting = 0  BY <1>4 DEF QEQueryIsComplete
  <2>2. r = Fail(q, "groupNesting")  BY <1>4 DEF QEQueryEndGroup
  <2>3. QED  BY <1>3, <2>1, <2>2
<1>5. CASE ~QEQueryIsComplete(q) /\ TopCount(q) = 0
  <2>1. r = Fail(q, "emptyGroup")  BY <1>5 DEF QEQueryEndGroup
  <2>2. QED  BY <1>3, <1>5, <2>1
<1>6. CASE ~QEQueryIsComplete(q) /\ TopCount(q) # 0
  <2>1. r = IF ~TopIs(ors, "or") \/ closed.error # "none" THEN Fail(q, "groupNesting")
            ELSE IF TopIs(up, "and") THEN PopGroupAndCoalesce(up, TRUE) ELSE up
    BY <1>6 DEF QEQueryEndGroup
  <2>2. /\ Balanced(ors) /\ TopIs(ors, "or") /\ TopCount(ors) >= 1
        /\ ors.nesting = q.nesting /\ ors.error = "none"
        /\ Len(ors.stack) = Len(q.stack) - (IF TopIs(q, "and") THEN 1 ELSE 0)
    <3>1. CASE TopIs(q, "and")  BY <3>1, PoppedAnd
    <3>2. CASE ~TopIs(q, "and")
      <4>1. ors = q  BY <3>2
      <4>2. TopIs(q, "or")  BY <1>1, <3>2, QueryParts DEF TopIs
      <4>3. Len(q.stack) \in Nat  BY <1>1, QueryParts
      <4> HIDE DEF ors
      <4>4. QED  BY <1>1, <1>6, <3>2, <4>1, <4>2, <4>3
    <3>3. QED  BY <3>1, <3>2
  <2> HIDE DEF ors
  <2>3. CASE q.nesting = 0
    <3>1. Len(ors.stack) = 1  BY <2>2, <2>3, ClosedIsShallow DEF Balanced
    <3>2. closed = Fail(ors, "groupNesting")
      BY <3>1 DEF PopGroupAndCoalesce, PopGroup
    <3> HIDE DEF closed
    <3>3. closed.error = "groupNesting"  BY <2>2, <3>2, FieldsKeepBalance
    <3>4. r = Fail(q, "groupNesting")  BY <2>1, <3>3
    <3>5. QED  BY <1>3, <2>3, <3>4
  <2>4. CASE q.nesting # 0
    <3>1. Len(ors.stack) >= 2  BY <2>2, <2>4, OpenIsDeep DEF Balanced
    <3>2. /\ IsQuery(closed) /\ OneLess(closed, ors)
          /\ closed.nesting = q.nesting /\ closed.error = "none"
      BY <2>2, <3>1, Coalesced DEF Balanced
    <3> HIDE DEF closed
    <3>3. up = [closed EXCEPT !.nesting = q.nesting - 1]
      <4>1. PICK S, X, Y : closed \in [stack : S, nesting : Int, active : BOOLEAN, error : X, shorts : Y]
        BY <3>2 DEF IsQuery
      <4>2. QED  BY <3>2, <4>1
    <3> HIDE DEF up
    <3>4. /\ IsQuery(up) /\ up.stack = closed.stack
          /\ up.nesting = q.nesting - 1 /\ up.error = "none"
      BY <1>1, <3>2, <3>3, FieldsSet
    <3>5. OneLess(up, ors)  BY <3>2, <3>4 DEF OneLess, SameBelow
    <3>6. GroupsBalanced(up)  BY <2>2, <3>1, <3>4, <3>5, OrClosed DEF Balanced
    <3>7. r = IF TopIs(up, "and") THEN PopGroupAndCoalesce(up, TRUE) ELSE up
      BY <2>1, <2>2, <3>2
    <3> HIDE DEF r
    <3>8. Balanced(r) /\ r.nesting = q.nesting - 1 /\ r.error = "none"
      <4>1. CASE TopIs(up, "and")
        <5>1. Len(up.stack) >= 2  BY <3>4, <3>6, <4>1, AndIsInside DEF Balanced
        <5>2. /\ IsQuery(r) /\ r.nesting = up.nesting /\ r.error = up.error
              /\ OneLess(r, up) \/ r = up
          BY <3>4, <3>7, <4>1, <5>1, Coalesced
        <5>3. GroupsBalanced(r)  BY <3>4, <3>6, <4>1, <5>2, AndClosed
        <5>4. QED  BY <3>4, <5>2, <5>3 DEF Balanced
      <4>2. CASE ~TopIs(up, "and")  BY <3>4, <3>6, <3>7, <4>2 DEF Balanced
      <4>3. QED  BY <4>1, <4>2
    <3>9. q.nesting > 0 /\ TopCount(q) > 0  BY <1>1, <1>2, <1>6, <2>4
    <3>10. QED  BY <3>8, <3>9 DEF r
  <2>5. QED  BY <2>3, <2>4
<1>7. QED  BY <1>4, <1>5, <1>6

\* What is left of the words after a -not, which is one word or none.
LEMMA OperandsFacts ==
  ASSUME NEW words, IsSeq(words)
  PROVE  LET rest == Operands(words)
             before == IF Len(rest) < Len(words) THEN 1 ELSE 0
         IN /\ Len(words) \in Nat /\ Len(rest) \in Nat
            /\ Len(words) = Len(rest) + before
            /\ rest = <<>> <=> Len(rest) = 0
            /\ rest # <<>> => rest[1] = words[before + 1]
            /\ before = 1 => words[1].what = "not"
<1> DEFINE rest == Operands(words)
<1>1. PICK S : words \in Seq(S)  BY DEF IsSeq
<1>2. CASE words # <<>> /\ words[1].what = "not"
  <2>1. rest = Tail(words)  BY <1>2 DEF Operands
  <2>2. rest \in Seq(S) /\ Len(rest) = Len(words) - 1 /\ Len(rest) \in Nat
    BY <1>1, <1>2, <2>1
  <2>3. rest # <<>> => rest[1] = words[2]  BY <1>1, <1>2, <2>1
  <2> HIDE DEF rest
  <2>4. Len(words) \in Nat  BY <1>1
  <2>5. rest = <<>> <=> Len(rest) = 0  BY <2>2
  <2>6. QED  BY <1>2, <2>2, <2>3, <2>4, <2>5 DEF rest
<1>3. CASE ~(words # <<>> /\ words[1].what = "not")
  <2>1. rest = words  BY <1>3 DEF Operands
  <2>2. Len(words) \in Nat /\ (words = <<>> <=> Len(words) = 0)  BY <1>1
  <2> HIDE DEF rest
  <2>3. QED  BY <2>1, <2>2 DEF rest
<1>4. QED  BY <1>2, <1>3

(* What one accepted word does to the count of open parentheses. *)
Opens(word) == IF word.what = "(" THEN 1 ELSE IF word.what = ")" THEN -1 ELSE 0

(* QEQueryAppendElementFromArgs(), the one way in which main() builds its
   queries: whatever the words are, and whatever the client's callback makes
   of them, the query stays balanced, no more words are used than there are,
   and the count of open parentheses changes by what was read.            *)
THEOREM ElementFromArgs ==
  ASSUME NEW q, Balanced(q), q.error = "none", NEW words, IsSeq(words), NEW parsed
  PROVE  LET r == QEQueryAppendElementFromArgs(q, words, parsed)
         IN /\ Balanced(r.query)
            /\ r.used \in {0, 1, 2} /\ r.used <= Len(words)
            /\ r.used = 2 => r.ok
            /\ (r.used = 2 \/ (r.used = 1 /\ ~r.ok)) => words[1].what = "not"
            /\ r.ok => /\ r.used >= 1 /\ r.query.error = "none"
                       /\ r.query.nesting = q.nesting + Opens(words[r.used])
            /\ ~r.ok /\ r.query.error = "none" => r.query.nesting = q.nesting
<1> DEFINE rest == Operands(words)
           negated == Len(rest) < Len(words)
           before == IF negated THEN 1 ELSE 0
           what == rest[1].what
           refused == rest # <<>> /\ what \notin Operators \ {"not"} /\ ~parsed.ok
           r == QEQueryAppendElementFromArgs(q, words, parsed)
           after == r.query
<1>1. CASE words = <<>>
  <2>1. r = [query |-> q, ok |-> FALSE, used |-> 0]
    BY <1>1 DEF QEQueryAppendElementFromArgs
  <2>2. Len(words) \in Nat  BY SeqFacts
  <2> HIDE DEF r
  <2>3. QED  BY <2>1, <2>2 DEF r
<1>2. CASE words # <<>>
  <2>1. /\ Len(words) \in Nat /\ Len(rest) \in Nat
        /\ Len(words) = Len(rest) + before
        /\ rest = <<>> <=> Len(rest) = 0
        /\ rest # <<>> => rest[1] = words[before + 1]
        /\ before = 1 => words[1].what = "not"
    BY OperandsFacts
  <2>2. after = IF rest = <<>> THEN Fail(q, "syntax")
                ELSE CASE what = "and" /\ ~negated -> QEQueryAppendAndOperator(q)
                       [] what = "or" /\ ~negated -> QEQueryAppendOrOperator(q)
                       [] what \in {"and", "or"} /\ negated -> Fail(q, "syntax")
                       [] what = "(" -> StartGroup(q, "or", negated)
                       [] what = ")" -> QEQueryEndGroup(q)
                       [] refused -> Fail(q, parsed.error)
                       [] OTHER -> QEQueryAppendElement(q, Leaf(parsed.element, negated))
    BY <1>2 DEF QEQueryAppendElementFromArgs
  <2>3. /\ r.ok = (~refused /\ after.error = "none")
        /\ r.used = IF ~refused /\ after.error = "none" THEN before + 1 ELSE before
    BY <1>2 DEF QEQueryAppendElementFromArgs
  <2> HIDE DEF r
  <2>4. /\ Balanced(after)
        /\ rest = <<>> => after.error # "none"
        /\ refused => after.nesting = q.nesting
        /\ ~refused /\ rest # <<>> /\ after.error = "none" =>
               after.nesting = q.nesting + Opens(rest[1])
    <3>0. refused => what \notin {"and", "or", "(", ")"}  BY DEF Operators
    <3> HIDE DEF after, refused
    <3>1. q.nesting \in Int  BY QueryParts DEF Balanced
    <3>2. CASE rest = <<>>  BY <2>2, <3>2, FieldsKeepBalance
    <3>3. CASE rest # <<>> /\ what = "and" /\ ~negated
      <4>1. after = QEQueryAppendAndOperator(q)  BY <2>2, <3>3, <3>0
      <4>2. Balanced(after) /\ after.nesting = q.nesting  BY <4>1, AndOperator
      <4>3. QED  BY <3>1, <3>3, <4>2 DEF Opens
    <3>4. CASE rest # <<>> /\ what = "or" /\ ~negated
      <4>1. after = QEQueryAppendOrOperator(q)  BY <2>2, <3>4, <3>0
      <4>2. Balanced(after) /\ after.nesting = q.nesting  BY <4>1, OrOperator
      <4>3. QED  BY <3>1, <3>4, <4>2 DEF Opens
    <3>5. CASE rest # <<>> /\ what \in {"and", "or"} /\ negated
      <4>1. after = Fail(q, "syntax")  BY <2>2, <3>5, <3>0
      <4>2. Balanced(after) /\ after.nesting = q.nesting  BY <4>1, FieldsKeepBalance
      <4>3. QED  BY <3>1, <3>5, <4>2 DEF Opens
    <3>6. CASE rest # <<>> /\ what = "("
      <4>1. after = StartGroup(q, "or", negated)  BY <2>2, <3>6, <3>0
      <4>2. Balanced(after) /\ after.nesting = q.nesting + 1  BY <4>1, Started
      <4>3. ~refused  BY <3>0, <3>6
      <4>4. QED  BY <3>1, <3>6, <4>2, <4>3 DEF Opens
    <3>7. CASE rest # <<>> /\ what = ")"
      <4>1. after = QEQueryEndGroup(q)  BY <2>2, <3>7, <3>0
      <4>2. Balanced(after) /\ (after.error = "none" => after.nesting = q.nesting - 1)
        BY <4>1, ClosesWhatIsOpen
      <4>3. ~refused  BY <3>0, <3>7
      <4>4. QED  BY <3>1, <3>7, <4>2, <4>3 DEF Opens
    <3>8. CASE rest # <<>> /\ what \notin {"and", "or", "(", ")"} /\ refused
      <4>1. after = Fail(q, parsed.error)  BY <2>2, <3>8
      <4>2. Balanced(after) /\ after.nesting = q.nesting  BY <4>1, FieldsKeepBalance
      <4>3. QED  BY <3>8, <4>2
    <3>9. CASE rest # <<>> /\ what \notin {"and", "or", "(", ")"} /\ ~refused
      <4>1. after = QEQueryAppendElement(q, Leaf(parsed.element, negated))  BY <2>2, <3>9
      <4>2. Balanced(after) /\ after.nesting = q.nesting  BY <4>1, AppendElement
      <4>3. QED  BY <3>1, <3>9, <4>2 DEF Opens
    <3>10. QED  BY <3>2, <3>3, <3>4, <3>5, <3>6, <3>7, <3>8, <3>9
  <2> HIDE DEF rest, after, refused
  <2>5. CASE r.ok
    <3>1. ~refused /\ after.error = "none" /\ rest # <<>> /\ r.used = before + 1
      BY <2>3, <2>4, <2>5
    <3>2. rest[1] = words[r.used] /\ r.used <= Len(words) /\ r.used \in {1, 2}
      BY <2>1, <3>1
    <3>3. QED  BY <2>1, <2>4, <2>5, <3>1, <3>2 DEF after, r
  <2>6. CASE ~r.ok
    <3>1. r.used = before /\ (refused \/ after.error # "none")  BY <2>3, <2>6
    <3>2. r.used \in {0, 1} /\ r.used <= Len(words)  BY <2>1, <3>1
    <3>3. QED  BY <2>1, <2>4, <2>6, <3>1, <3>2 DEF after, r
  <2>7. QED  BY <2>5, <2>6
<1>3. QED  BY <1>1, <1>2

(***************************************************************************)
(* The command line.                                                       *)
(***************************************************************************)
\* What is not used of a sequence of words.
LEMMA RestFacts ==
  ASSUME NEW w, IsSeq(w), NEW n \in 0 .. Len(w)
  PROVE  LET rest == SubSeq(w, n + 1, Len(w))
         IN /\ IsSeq(rest) /\ Len(rest) = Len(w) - n
            /\ \A i \in 1 .. Len(w) - n : rest[i] = w[n + i]
<1> DEFINE rest == SubSeq(w, n + 1, Len(w))
<1>1. PICK S : w \in Seq(S)  BY DEF IsSeq
<1>2. rest \in Seq(S)  BY <1>1
<1>3. IsSeq(rest)  BY <1>2 DEF IsSeq
<1>4. Len(rest) = Len(w) - n
  <2>1. CASE n = Len(w)  BY <1>1, <2>1
  <2>2. CASE n < Len(w)  BY <1>1, <2>2
  <2>3. Len(w) \in Nat  BY <1>1
  <2>4. n = Len(w) \/ n < Len(w)  BY <2>3
  <2>5. QED  BY <2>1, <2>2, <2>4
<1>5. \A i \in 1 .. Len(w) - n : rest[i] = w[n + i]  BY <1>1
<1>6. QED  BY <1>3, <1>4, <1>5

Marked(w, n, what) == {i \in 1 .. n : w[i].what = what}

\* Words are counted as they are used: one word, or a -not and one word.
LEMMA CountStep ==
  ASSUME NEW w, NEW n \in Nat, NEW m \in {1, 2}, NEW what, what # "not",
         m = 2 => w[n + 1].what = "not"
  PROVE  /\ Cardinality(Marked(w, n, what)) \in Nat
         /\ Cardinality(Marked(w, n + m, what)) =
               Cardinality(Marked(w, n, what)) + IF w[n + m].what = what THEN 1 ELSE 0
<1> DEFINE old == Marked(w, n, what)
           new == Marked(w, n + m, what)
<1>1. IsFiniteSet(1 .. n)  BY FS_Interval
<1>2. IsFiniteSet(old)  BY <1>1, FS_Subset DEF Marked
<1>3. Cardinality(old) \in Nat  BY <1>2, FS_CardinalityType
<1>4. CASE w[n + m].what = what
  <2>1. new = old \cup {n + m} /\ n + m \notin old
    <3>1. CASE m = 1  BY <1>4, <3>1 DEF Marked
    <3>2. CASE m = 2
      <4>1. w[n + 1].what # what  BY <3>2
      <4>2. QED  BY <1>4, <3>2, <4>1 DEF Marked
    <3>3. QED  BY <3>1, <3>2
  <2>2. Cardinality(new) = Cardinality(old) + 1
    <3> HIDE DEF old, new
    <3>1. QED  BY <1>2, <2>1, FS_AddElement
  <2>3. QED  BY <1>3, <1>4, <2>2
<1>5. CASE w[n + m].what # what
  <2>1. new = old
    <3>1. CASE m = 1  BY <1>5, <3>1 DEF Marked
    <3>2. CASE m = 2
      <4>1. w[n + 1].what # what /\ w[n + 2].what # what  BY <1>5, <3>2
      <4>2. QED  BY <3>2, <4>1 DEF Marked
    <3>3. QED  BY <3>1, <3>2
  <2>2. QED  BY <1>3, <1>5, <2>1
<1>6. QED  BY <1>3, <1>4, <1>5

\* A new query, and a report's, is one open group, the root, and complete.
LEMMA Created ==
  /\ Balanced(QEQueryCreate) /\ QEQueryIsComplete(QEQueryCreate)
  /\ QEQueryCreate.error = "none" /\ QEQueryCreate.nesting = 0
  /\ Balanced(ReportQueryCreate) /\ ReportQueryCreate.error = "none"
<1> DEFINE root == NewGroup("or", FALSE)
           stack == <<root>>
<1>1. IsGroup(root) /\ root.kind = "or"  BY NewGroups
<1> HIDE DEF root
<1>2. IsSeq(stack) /\ Len(stack) = 1 /\ stack[1] = root  BY SmallSeqs
<1> HIDE DEF stack
<1> DEFINE Empty == [stack : {stack}, nesting : {0}, active : BOOLEAN, error : {"none"},
                     shorts : BOOLEAN]
<1>3. ASSUME NEW q \in Empty
      PROVE  Balanced(q)
  <2>1. q \in [stack : {stack}, nesting : Int, active : BOOLEAN, error : {"none"},
               shorts : BOOLEAN]
    OBVIOUS
  <2>2. q.stack = stack /\ q.nesting = 0  OBVIOUS
  <2>3. IsSeq(q.stack) /\ Len(q.stack) = 1 /\ q.stack[1] = root  BY <1>2, <2>2
  <2>4. \A i \in 1 .. Len(q.stack) : i = 1  BY <2>3
  <2>5. \A i \in 1 .. Len(q.stack) : IsGroup(q.stack[i])  BY <1>1, <2>3, <2>4
  <2>6. \E S, X, Y : q \in [stack : S, nesting : Int, active : BOOLEAN, error : X, shorts : Y]
    BY <2>1
  <2>7. IsQuery(q)  BY <2>3, <2>5, <2>6 DEF IsQuery
  <2>8. 2 .. Len(q.stack) = {}  BY <2>3
  <2>9. OpenParentheses(q) = {}  BY <2>8 DEF OpenParentheses
  <2>10. Cardinality(OpenParentheses(q)) = 0  BY <2>9, FS_EmptySet
  <2>11. GroupsBalanced(q)  BY <1>1, <2>2, <2>3, <2>8, <2>10 DEF GroupsBalanced
  <2>12. QED  BY <2>7, <2>11 DEF Balanced
<1>4. QEQueryCreate = [stack |-> stack, nesting |-> 0, active |-> FALSE,
                       error |-> "none", shorts |-> TRUE]
  BY DEF QEQueryCreate, root, stack
<1>5. QEQueryCreate \in Empty /\ QEQueryCreate.error = "none" /\ QEQueryCreate.nesting = 0
  BY <1>4
<1>6. ReportQueryCreate \in Empty /\ ReportQueryCreate.error = "none"
  BY <1>5 DEF ReportQueryCreate
<1>7. QEQueryIsComplete(QEQueryCreate)  BY <1>4 DEF QEQueryIsComplete
<1> HIDE DEF Empty
<1>8. QED  BY <1>3, <1>5, <1>6, <1>7

(***************************************************************************)
(* The invariant: main()'s phases, and what each has established.          *)
(***************************************************************************)
Phases == {"args", "query", "checkQuery", "report", "checkReport", "read", "run", "done"}
Evaluating == {"read", "run"}

UsedInv == line \in CommandLines /\ used \in 0 .. Len(line.words) /\ phase \in Phases
BuildInv ==
    /\ Balanced(query) /\ Balanced(report)
    /\ phase \in {"args", "query"} => query.error = "none"
    /\ phase = "report" => report.error = "none"
CountInv ==
    phase \in {"args", "query", "checkQuery"} /\ query.error = "none" =>
        query.nesting = Cardinality(WordsUsed("(")) - Cardinality(WordsUsed(")"))
CheckedInv ==
    /\ phase \in {"args", "query", "checkQuery"} => report = QEQueryCreate
    /\ phase \in {"report", "checkReport"} \cup Evaluating => QEQueryIsComplete(query)
    /\ phase \in Evaluating => QEQueryIsComplete(report) /\ used = Len(line.words)

IInv == UsedInv /\ BuildInv /\ CountInv /\ CheckedInv

\* main()'s argv.
LEMMA WordsAreSeq ==
  ASSUME NEW l \in CommandLines
  PROVE  IsSeq(l.words)
BY CommandLinesAssumption DEF CommandLinesAssumption, IsSeq

\* Nothing has been read of a command line at first.
LEMMA InitIInv == Init => IInv
<1> SUFFICES ASSUME Init  PROVE IInv
  OBVIOUS
<1>1. UsedInv
  <2>1. Len(line.words) \in Nat  BY WordsAreSeq, SeqFacts DEF Init
  <2>2. QED  BY <2>1 DEF Init, UsedInv, Phases
<1>2. BuildInv  BY Created DEF Init, BuildInv
<1>3. CountInv
  <2>1. \A what : WordsUsed(what) = {}  BY DEF Init, WordsUsed
  <2>2. QED  BY <2>1, FS_EmptySet, Created DEF Init, CountInv
<1>4. CheckedInv  BY DEF Init, CheckedInv, Evaluating
<1>5. QED  BY <1>1, <1>2, <1>3, <1>4 DEF IInv

\* The options leave the words alone.
LEMMA ReadArgsIInv == IInv /\ ReadArgs => IInv'
<1> SUFFICES ASSUME IInv, ReadArgs  PROVE IInv'
  OBVIOUS
<1>1. /\ phase = "args" /\ phase' \in {"done", "query", "checkQuery"}
      /\ UNCHANGED <<line, used, query, report>>
  BY DEF ReadArgs, Leave
<1>2. UsedInv'  BY <1>1 DEF IInv, UsedInv, Phases
<1>3. BuildInv'  BY <1>1 DEF IInv, BuildInv
<1>4. CountInv'  BY <1>1 DEF IInv, CountInv, WordsUsed
<1>5. CheckedInv'  BY <1>1 DEF IInv, CheckedInv, Evaluating
<1>6. QED  BY <1>2, <1>3, <1>4, <1>5 DEF IInv

\* An element of the query.
LEMMA ParseQueryIInv == IInv /\ ParseQuery => IInv'
<1> SUFFICES ASSUME IInv, ParseQuery  PROVE IInv'
  OBVIOUS
<1> DEFINE words == Rest(used)
           r == QEQueryAppendElementFromArgs(query, words, ParsePredicate(Operands(words)[1]))
<1>1. /\ phase = "query" /\ query' = r.query /\ used' = used + r.used
      /\ phase' = IF ~r.ok \/ (used' < Len(line.words) /\ line.words[used' + 1].what = "report")
                  THEN "checkQuery" ELSE "query"
      /\ UNCHANGED <<line, report>>
  BY DEF ParseQuery
<1>2. /\ IsSeq(line.words) /\ Len(line.words) \in Nat
      /\ used \in 0 .. Len(line.words) /\ used \in Nat
  BY WordsAreSeq, SeqFacts DEF IInv, UsedInv
<1>3. /\ IsSeq(words) /\ Len(words) = Len(line.words) - used
      /\ \A i \in 1 .. Len(line.words) - used : words[i] = line.words[used + i]
  BY <1>2, RestFacts DEF Rest
<1>4. Balanced(query) /\ query.error = "none"  BY <1>1 DEF IInv, BuildInv
<1> HIDE DEF words
<1>5. /\ Balanced(r.query)
      /\ r.used \in {0, 1, 2} /\ r.used <= Len(words)
      /\ r.used = 2 => r.ok
      /\ (r.used = 2 \/ (r.used = 1 /\ ~r.ok)) => words[1].what = "not"
      /\ r.ok => /\ r.used >= 1 /\ r.query.error = "none"
                 /\ r.query.nesting = query.nesting + Opens(words[r.used])
      /\ ~r.ok /\ r.query.error = "none" => r.query.nesting = query.nesting
  BY <1>3, <1>4, ElementFromArgs
<1>6. r.ok \in BOOLEAN  BY DEF QEQueryAppendElementFromArgs
<1> HIDE DEF r
<1>7. UsedInv'  BY <1>1, <1>2, <1>3, <1>5 DEF IInv, UsedInv, Phases
<1>8. BuildInv'  BY <1>1, <1>5 DEF IInv, BuildInv
<1>9. CountInv'
  <2> SUFFICES ASSUME query'.error = "none"
               PROVE  query'.nesting = Cardinality(WordsUsed("(")') - Cardinality(WordsUsed(")")')
    BY DEF CountInv
  <2>1. \A what : WordsUsed(what) = Marked(line.words, used, what)
                  /\ WordsUsed(what)' = Marked(line.words, used + r.used, what)
    BY <1>1 DEF WordsUsed, Marked
  <2>2. r.used = 2 \/ (r.used = 1 /\ ~r.ok) => line.words[used + 1].what = "not"
    BY <1>2, <1>3, <1>5
  <2>3. r.ok => words[r.used] = line.words[used + r.used]  BY <1>2, <1>3, <1>5
  <2>4. ASSUME NEW what, what # "not"
        PROVE  /\ Cardinality(WordsUsed(what)) \in Nat
               /\ Cardinality(WordsUsed(what)') = Cardinality(WordsUsed(what))
                     + IF r.ok /\ line.words[used + r.used].what = what THEN 1 ELSE 0
    <3> DEFINE w == line.words
               m == r.used
    <3>1. CASE m \in {1, 2}
      <4>1. m = 2 => w[used + 1].what = "not"  BY <2>2
      <4> HIDE DEF m, w
      <4>2. /\ Cardinality(Marked(w, used, what)) \in Nat
            /\ Cardinality(Marked(w, used + m, what)) =
                  Cardinality(Marked(w, used, what)) + IF w[used + m].what = what THEN 1 ELSE 0
        <5> DEFINE n == used
        <5>1. n \in Nat /\ what # "not"  BY <1>2, <2>4
        <5>2. m = 2 => w[n + 1].what = "not"  BY <4>1
        <5> HIDE DEF n
        <5>3. /\ Cardinality(Marked(w, n, what)) \in Nat
              /\ Cardinality(Marked(w, n + m, what)) =
                    Cardinality(Marked(w, n, what)) + IF w[n + m].what = what THEN 1 ELSE 0
          BY <3>1, <5>1, <5>2, CountStep
        <5>4. QED  BY <5>3 DEF n
      <4>3. ~r.ok => m = 1 /\ w[used + m].what # what  BY <1>5, <2>2, <2>4, <3>1 DEF m, w
      <4>4. QED  BY <2>1, <4>2, <4>3 DEF m, w
    <3>2. CASE m = 0
      <4>1. used + m = used /\ ~r.ok  BY <1>2, <1>5, <3>2
      <4>2. Cardinality(Marked(w, used, what)) \in Nat
        <5>1. IsFiniteSet(1 .. used)  BY <1>2, FS_Interval
        <5>2. IsFiniteSet(Marked(w, used, what))  BY <5>1, FS_Subset DEF Marked
        <5>3. QED  BY <5>2, FS_CardinalityType
      <4>3. QED  BY <2>1, <4>1, <4>2
    <3>3. QED  BY <1>5, <3>1, <3>2
  <2>5. query.nesting = Cardinality(WordsUsed("(")) - Cardinality(WordsUsed(")"))
    BY <1>1, <1>4 DEF IInv, CountInv
  <2>6. query'.nesting = query.nesting
                         + IF r.ok THEN Opens(line.words[used + r.used]) ELSE 0
    <3>1. query.nesting \in Int  BY <1>4, QueryParts DEF Balanced
    <3>2. QED  BY <1>1, <1>5, <1>6, <2>3, <3>1
  <2> DEFINE o == Cardinality(WordsUsed("("))
             c == Cardinality(WordsUsed(")"))
             oo == Cardinality(WordsUsed("(")')
             cc == Cardinality(WordsUsed(")")')
  <2>7. o \in Nat /\ c \in Nat
        /\ oo = o + (IF r.ok /\ line.words[used + r.used].what = "(" THEN 1 ELSE 0)
        /\ cc = c + (IF r.ok /\ line.words[used + r.used].what = ")" THEN 1 ELSE 0)
    BY <2>4
  <2>8. query.nesting = o - c  BY <2>5
  <2> HIDE DEF o, c, oo, cc
  <2>9. query'.nesting = oo - cc
    <3>1. CASE r.ok  BY <2>6, <2>7, <2>8, <3>1 DEF Opens
    <3>2. CASE ~r.ok  BY <2>6, <2>7, <2>8, <3>2
    <3>3. QED  BY <3>1, <3>2
  <2>10. QED  BY <2>9 DEF oo, cc
<1>10. CheckedInv'  BY <1>1 DEF IInv, CheckedInv, Evaluating
<1>11. QED  BY <1>7, <1>8, <1>9, <1>10 DEF IInv

\* The end of the query: only a complete one goes on.
LEMMA CheckQueryIInv == IInv /\ CheckQuery => IInv'
<1> SUFFICES ASSUME IInv, CheckQuery  PROVE IInv'
  OBVIOUS
<1>1. phase = "checkQuery" /\ UNCHANGED <<line, query>>  BY DEF CheckQuery
<1>2. Len(line.words) \in Nat /\ used \in 0 .. Len(line.words) /\ used \in Nat
  BY WordsAreSeq, SeqFacts DEF IInv, UsedInv
<1>3. \/ phase' = "done" /\ UNCHANGED <<used, report>>
      \/ /\ phase' = "read" /\ ~(used < Len(line.words)) /\ QEQueryIsComplete(query)
         /\ UNCHANGED <<used, report>>
      \/ /\ phase' = "done" /\ used' \in 0 .. Len(line.words) /\ UNCHANGED report
      \/ /\ phase' = "report" /\ used' \in 0 .. Len(line.words) /\ QEQueryIsComplete(query)
         /\ report' = ReportQueryCreate
  BY <1>1, <1>2 DEF CheckQuery, Leave, WordIs
<1>4. UsedInv'  BY <1>1, <1>3 DEF IInv, UsedInv, Phases
<1>5. BuildInv'  BY <1>1, <1>3, Created DEF IInv, BuildInv
<1>6. CountInv'  BY <1>3 DEF CountInv
<1>7. CheckedInv'
  <2>1. report = QEQueryCreate  BY <1>1 DEF IInv, CheckedInv
  <2>2. ~(used < Len(line.words)) => used = Len(line.words)  BY <1>2
  <2>3. QED  BY <1>1, <1>3, <2>1, <2>2, Created DEF CheckedInv, Evaluating
<1>8. QED  BY <1>4, <1>5, <1>6, <1>7 DEF IInv

\* A column of the report.
LEMMA ParseReportIInv == IInv /\ ParseReport => IInv'
<1> SUFFICES ASSUME IInv, ParseReport  PROVE IInv'
  OBVIOUS
<1> DEFINE words == Rest(used)
           r == QEQueryAppendElementFromArgs(report, words, ParseColumn(Operands(words)[1]))
<1>1. /\ phase = "report" /\ report' = r.query /\ used' = used + r.used
      /\ phase' = IF r.ok THEN "report" ELSE "checkReport"
      /\ UNCHANGED <<line, query>>
  BY DEF ParseReport
<1>2. /\ IsSeq(line.words) /\ Len(line.words) \in Nat
      /\ used \in 0 .. Len(line.words) /\ used \in Nat
  BY WordsAreSeq, SeqFacts DEF IInv, UsedInv
<1>3. IsSeq(words) /\ Len(words) = Len(line.words) - used
  BY <1>2, RestFacts DEF Rest
<1>4. Balanced(report) /\ report.error = "none"  BY <1>1 DEF IInv, BuildInv
<1> HIDE DEF words
<1>5. /\ Balanced(r.query)
      /\ r.used \in {0, 1, 2} /\ r.used <= Len(words)
      /\ r.ok => r.query.error = "none"
  BY <1>3, <1>4, ElementFromArgs
<1> HIDE DEF r
<1>6. UsedInv'  BY <1>1, <1>2, <1>3, <1>5 DEF IInv, UsedInv, Phases
<1>7. BuildInv'  BY <1>1, <1>5 DEF IInv, BuildInv
<1>8. CountInv'  BY <1>1 DEF CountInv
<1>9. CheckedInv'  BY <1>1 DEF IInv, CheckedInv, Evaluating
<1>10. QED  BY <1>6, <1>7, <1>8, <1>9 DEF IInv

\* The end of the report: only a complete one that uses up the words goes on.
LEMMA CheckReportIInv == IInv /\ CheckReport => IInv'
<1> SUFFICES ASSUME IInv, CheckReport  PROVE IInv'
  OBVIOUS
<1>1. phase = "checkReport" /\ UNCHANGED <<line, used, query, report>>  BY DEF CheckReport
<1>2. Len(line.words) \in Nat /\ used \in 0 .. Len(line.words)
  BY WordsAreSeq, SeqFacts DEF IInv, UsedInv
<1>3. \/ phase' = "done"
      \/ phase' = "read" /\ QEQueryIsComplete(report) /\ ~(used < Len(line.words))
  BY DEF CheckReport, Leave
<1>4. UsedInv'  BY <1>1, <1>3 DEF IInv, UsedInv, Phases
<1>5. BuildInv'  BY <1>1, <1>3 DEF IInv, BuildInv
<1>6. CountInv'  BY <1>3 DEF CountInv
<1>7. CheckedInv'
  <2>1. ~(used < Len(line.words)) => used = Len(line.words)  BY <1>2
  <2>2. QED  BY <1>1, <1>3, <2>1 DEF IInv, CheckedInv, Evaluating
<1>8. QED  BY <1>4, <1>5, <1>6, <1>7 DEF IInv

\* Finding the kexts changes neither query.
LEMMA ReadKextsIInv == IInv /\ ReadKexts => IInv'
<1> SUFFICES ASSUME IInv, ReadKexts  PROVE IInv'
  OBVIOUS
<1>1. /\ phase = "read" /\ phase' \in {"run", "done"}
      /\ UNCHANGED <<line, used, query, report>>
  BY DEF ReadKexts, Leave
<1>2. UsedInv'  BY <1>1 DEF IInv, UsedInv, Phases
<1>3. BuildInv'  BY <1>1 DEF IInv, BuildInv
<1>4. CountInv'  BY <1>1 DEF CountInv
<1>5. CheckedInv'  BY <1>1 DEF IInv, CheckedInv, Evaluating
<1>6. QED  BY <1>2, <1>3, <1>4, <1>5 DEF IInv

\* The invariant is inductive.
LEMMA StepIInv == IInv /\ [ParseNext]_vars => IInv'
<1> SUFFICES ASSUME IInv, [ParseNext]_vars  PROVE IInv'
  OBVIOUS
<1>1. CASE ReadArgs  BY <1>1, ReadArgsIInv
<1>2. CASE ParseQuery  BY <1>2, ParseQueryIInv
<1>3. CASE CheckQuery  BY <1>3, CheckQueryIInv
<1>4. CASE ParseReport  BY <1>4, ParseReportIInv
<1>5. CASE CheckReport  BY <1>5, CheckReportIInv
<1>6. CASE ReadKexts  BY <1>6, ReadKextsIInv
<1>7. CASE UNCHANGED vars
  BY <1>7 DEF vars, IInv, UsedInv, BuildInv, CountInv, CheckedInv, WordsUsed
<1>8. QED  BY <1>1, <1>2, <1>3, <1>4, <1>5, <1>6, <1>7 DEF ParseNext

\* What the invariant says of the parentheses.
LEMMA IInvMatches == IInv => ParenthesesMatch
<1> SUFFICES ASSUME IInv  PROVE ParenthesesMatch
  OBVIOUS
<1>1. used <= Len(line.words)  BY DEF IInv, UsedInv
<1>2. GroupsBalanced(query) /\ GroupsBalanced(report)  BY DEF IInv, BuildInv, Balanced
<1>3. phase \in {"query", "checkQuery"} /\ query.error = "none" =>
          query.nesting = Cardinality(WordsUsed("(")) - Cardinality(WordsUsed(")"))
  BY DEF IInv, CountInv
<1>4. ASSUME phase = "read"
      PROVE  /\ used = Len(line.words)
             /\ QEQueryIsComplete(query) /\ QEQueryIsComplete(report)
             /\ Len(query.stack) <= 2 /\ Len(report.stack) <= 2
  <2>1. /\ used = Len(line.words)
        /\ QEQueryIsComplete(query) /\ QEQueryIsComplete(report)
    BY <1>4 DEF IInv, CheckedInv, Evaluating
  <2>2. query.nesting = 0 /\ report.nesting = 0  BY <2>1 DEF QEQueryIsComplete
  <2>3. Len(query.stack) <= 2 /\ Len(report.stack) <= 2
    BY <2>2, ClosedIsShallow DEF IInv, BuildInv, Balanced
  <2>4. QED  BY <2>1, <2>3
<1>5. QED  BY <1>1, <1>2, <1>3, <1>4 DEF ParenthesesMatch

(* Whatever the words of the command line, however many, and whatever the
   callbacks make of them: while main() reads them no word beyond the last is
   read, both queries stay balanced and counted as the parentheses are, and
   the ones it goes on to evaluate are complete and use up the words.     *)
THEOREM ParenthesesAlwaysMatch == ParseSpec => []ParenthesesMatch
<1>1. Init => IInv  BY InitIInv
<1>2. IInv /\ [ParseNext]_vars => IInv'  BY StepIInv
<1>3. IInv => ParenthesesMatch  BY IInvMatches
<1>4. QED  BY <1>1, <1>2, <1>3, PTL DEF ParseSpec
=============================================================================
