------------------------------ MODULE DomRows ------------------------------
(***************************************************************************)
(* What the editing methods of the document tree promise, without pointers:*)
(* a forest of rows.  A row is the ordered children of a node, the ordered *)
(* attributes of an element, or a run of siblings that has no parent.      *)
(* Every node is in one row, at one place, and every edit moves whole      *)
(* nodes between rows, keeping the order of the nodes it does not name and *)
(* never putting a node below itself.                                      *)
(***************************************************************************)
EXTENDS Naturals, Sequences, FiniteSets

CONSTANT Nil

VARIABLES
  member,   \* the nodes, which no edit makes or destroys
  rows,
  lost      \* an edit gave one row to two nodes: this is no forest any more

In(row) == {row.seq[i] : i \in DOMAIN row.seq}

(* The nodes above x: its owner, the owner of that, and so on.              *)
Above(R, x) ==
  LET up[k \in 0 .. Cardinality(member)] ==
        IF k = 0 THEN {x}
        ELSE LET s == up[k - 1]
             IN  s \cup {row.owner : row \in {r \in R : In(r) \cap s # {}}}
  IN  up[Cardinality(member)]

IsForest(R) ==
  /\ \A x \in member : \E row \in R : x \in In(row) /\ \A other \in R \ {row} : x \notin In(other)
  /\ \A row \in R :
       /\ In(row) # {}
       /\ Cardinality(In(row)) = Len(row.seq)
       /\ row.owner # Nil =>
            /\ \A other \in R \ {row} : <<other.owner, other.list>> # <<row.owner, row.list>>
            /\ Above(R, row.owner) \cap In(row) = {}

-----------------------------------------------------------------------------
Orphan(x) == [owner |-> Nil, list |-> "child", seq |-> <<x>>]

Drop(R, X) ==
  {row \in {[r EXCEPT !.seq = SelectSeq(@, LAMBDA y : y \notin X)] : r \in R} :
     row.seq # << >>}

Detach(R, x) == Drop(R, {x}) \cup {Orphan(x)}

(* S is R with x as the new last member of the list of owner p, or of the   *)
(* row of n.                                                                *)
AppendTo(R, S, x, p, list) ==
  LET rest == Drop(R, {x})
      mine == {r \in rest : r.owner = p /\ r.list = list}
  IN  /\ x \notin Above(R, p)
      /\ S = (rest \ mine) \cup
           {[owner |-> p, list |-> list,
             seq |-> Append(IF mine = {} THEN << >> ELSE (CHOOSE r \in mine : TRUE).seq, x)]}

AppendBeside(R, S, x, n) ==
  LET rest == Drop(R, {x})
  IN  \E r \in rest :
        /\ n \in In(r)
        /\ r.owner # Nil => x \notin Above(R, r.owner)
        /\ S = (rest \ {r}) \cup {[r EXCEPT !.seq = Append(@, x)]}

(* The nodes of ns take the place of n, which is left alone if not in ns.   *)
Substitute(R, S, n, ns) ==
  LET new == {ns[i] : i \in DOMAIN ns}
      rest == Drop(R, new \ {n})
  IN  \E r \in rest : \E k \in DOMAIN r.seq :
        /\ r.seq[k] = n
        /\ r.owner # Nil => (new \ {n}) \cap Above(R, r.owner) = {}
        /\ S = (rest \ {r})
             \cup {[r EXCEPT !.seq = SubSeq(@, 1, k - 1) \o ns \o SubSeq(@, k + 1, Len(@))]}
             \cup (IF n \in new THEN {} ELSE {Orphan(n)})

(* One edit turns the rows R into S.                                        *)
Edit(R, S) ==
  \/ \E x \in member : S = Detach(R, x)
  \/ \E r \in S : \E x \in {r.seq[Len(r.seq)]} :
       \/ r.owner # Nil /\ AppendTo(R, S, x, r.owner, r.list)
       \/ \E n \in In(r) \ {x} : AppendBeside(R, S, x, n)
  \/ \E r \in S : \E i \in DOMAIN r.seq : \E j \in i .. Len(r.seq) :
       \E n \in {r.seq[k] : k \in i .. j} \cup {m \in member : Orphan(m) \in S} :
         Substitute(R, S, n, SubSeq(r.seq, i, j))

-----------------------------------------------------------------------------
RowsInit == IsForest(rows) /\ ~lost

(* Nothing is promised of a forest that is lost, but that it stays lost.    *)
RowsNext ==
  \/ lost'
  \/ ~lost /\ ~lost' /\ \E R \in {rows}, S \in {rows'} : S # R /\ Edit(R, S)

RowsSpec == RowsInit /\ [][RowsNext /\ UNCHANGED member]_<<member, rows, lost>>
=============================================================================
