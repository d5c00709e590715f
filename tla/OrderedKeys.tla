---------------------------- MODULE OrderedKeys ----------------------------
(***************************************************************************)
(* The insertion order of a Python OrderedDict, whose first key is the     *)
(* least recently used one.  An order is a set of pairs: <<x, y>> says     *)
(* that x comes no later than y, and <<x, x>> that x is a key at all.      *)
(***************************************************************************)
EXTENDS Integers, FiniteSets

\* The keys of the dictionary.
Members(R) == {p[1] : p \in {q \in R : q[1] = q[2]}}

\* del d[x] for every x in S; a key that is absent is left absent.
Drop(R, S) == {p \in R : p[1] \notin S /\ p[2] \notin S}

\* d[x] = None or d.move_to_end(x): x becomes the most recent key.
PutLast(R, x) ==
  LET rest == Drop(R, {x})
  IN  rest \cup {<<y, x>> : y \in Members(rest)} \cup {<<x, x>>}

\* The numbered keys of S, inserted one by one in increasing order.
PutAllLast(R, S) ==
  LET rest == Drop(R, S)
  IN  rest \cup (Members(rest) \X S) \cup {p \in S \X S : p[1] <= p[2]}

\* x and the keys of S that come before it.
UpTo(R, S, x) == {y \in S : <<y, x>> \in R}

\* The first n keys of the dictionary that are in S.
First(R, S, n) == {x \in S : Cardinality(UpTo(R, S, x)) <= n}
============================================================================
