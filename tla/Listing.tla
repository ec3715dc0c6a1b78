------------------------------- MODULE Listing ------------------------------
(***************************************************************************)
(* Lists made by filtering, sorting and joining others: of each is said in *)
(* which order it takes which places, without recursion, so that theorems  *)
(* about what a list holds need no induction over it.                      *)
(***************************************************************************)
EXTENDS Integers, Sequences, FiniteSets

(* The members of a finite set in the order of a relation that puts one of *)
(* any two before the other.                                               *)
InOrder(S, before) ==
  [n \in 1..Cardinality(S) |-> CHOOSE p \in S : Cardinality({ q \in S : <<q, p>> \in before }) = n - 1]

(* [s[i] for i in places], in the order of s.                              *)
Chosen(s, places) ==
  LET order == InOrder(places, { r \in places \X places : r[1] < r[2] })
  IN [n \in DOMAIN order |-> s[order[n]]]

(* sorted by start and end, which keeps the order of what is equal.        *)
Sooner(s, i, j) ==
  \/ s[i].from < s[j].from
  \/ s[i].from = s[j].from /\ (s[i].to < s[j].to \/ (s[i].to = s[j].to /\ i < j))
InTime(s) ==
  LET order == InOrder(DOMAIN s, { r \in (DOMAIN s) \X (DOMAIN s) : Sooner(s, r[1], r[2]) })
  IN [n \in DOMAIN order |-> s[order[n]]]

(* One list after the other.                                               *)
Spots(lists) == UNION { {i} \X (DOMAIN lists[i]) : i \in DOMAIN lists }
EarlierSpot(p, q) == p[1] < q[1] \/ (p[1] = q[1] /\ p[2] < q[2])
Joined(lists) ==
  LET order == InOrder(Spots(lists), { r \in Spots(lists) \X Spots(lists) : EarlierSpot(r[1], r[2]) })
  IN [n \in DOMAIN order |-> lists[order[n][1]][order[n][2]]]
=============================================================================
