----------------------------- MODULE ByReference -----------------------------
(* What passing arguments to a sub-block promises: names that denote storage.  *)
(* Each activation has a cell of its own for every name it does not share, and *)
(* a shared name denotes storage of an activation below it, directly.  Nothing *)
(* is copied when a call is made or returns, so nothing can be lost, arrive    *)
(* late or land somewhere else.                                                *)
EXTENDS Integers, Sequences

CONSTANTS
  Size,    \* elements of the stack
  Values   \* what a header holds; 0 is the zero header

Names == {"hs", "h", "g", "i"}
HeaderNames == {"h", "g"}
Whole == -1

Store == [hs : [0 .. Size - 1 -> Values], h : Values, g : Values, i : 0 .. Size]
Zeros == [hs |-> [k \in 0 .. Size - 1 |-> 0], h |-> 0, g |-> 0, i |-> 0]

VARIABLES
  cells,  \* per activation, outermost first: the storage it owns
  refs    \* per activation: the storage each of its names denotes

vars == <<cells, refs>>

Address == [at : Nat \ {0}, var : Names, elem : {Whole} \cup 0 .. Size - 1]
Own(d) == [n \in Names |-> [at |-> d, var |-> n, elem |-> Whole]]
Depth == Len(refs)

Put(store, a, value) ==
  [store EXCEPT ![a.at] = IF a.elem = Whole THEN [@ EXCEPT ![a.var] = value]
                          ELSE [@ EXCEPT !.hs[a.elem] = value]]

Element(a, k) == [a EXCEPT !.elem = k]
Overlap(a, b) == a.at = b.at /\ a.var = b.var /\ (a.elem = b.elem \/ Whole \in {a.elem, b.elem})

Init ==
  /\ cells = <<Zeros>>
  /\ refs = <<Own(1)>>

(* The innermost activation writes a name, or an element of its stack.         *)
Writes(here) ==
  {<<here[n], v>> : n \in HeaderNames, v \in Values}
    \cup {<<here.i, k>> : k \in 0 .. Size}
    \cup {<<Element(here.hs, k), v>> : k \in 0 .. Size - 1, v \in Values}

Modify ==
  LET store == cells IN
  /\ cells' \in {Put(store, w[1], w[2]) : w \in Writes(refs[Depth])}
  /\ UNCHANGED refs

(* What a name of the callee may denote: its own cell, or what a name of the   *)
(* caller denotes, of the same type.                                           *)
Denotable(n) ==
  {Own(Depth + 1)[n]}
    \cup IF n \in HeaderNames
         THEN {refs[Depth][m] : m \in HeaderNames}
                \cup {Element(refs[Depth].hs, k) : k \in 0 .. Size - 1}
         ELSE {refs[Depth][n]}

(* The cells of activation d with the addresses in `out` set to zero.          *)
Zeroed(d, cell, out) ==
  [n \in Names |->
    IF Own(d)[n] \in out THEN Zeros[n]
    ELSE IF n = "hs" THEN [k \in 0 .. Size - 1 |->
           IF Element(Own(d).hs, k) \in out THEN 0 ELSE cell.hs[k]]
    ELSE cell[n]]
AllZeroed(store, out) == [d \in DOMAIN store |-> Zeroed(d, store[d], out)]

(* Shared names denote disjoint storage.  Out parameters start at zero, there  *)
(* where they denote; cells of shared names stay at zero.                      *)
Enter ==
  LET d == Depth + 1
      binding == refs'[d]
      shared == {n \in Names : binding[n].at < d}
  IN
  /\ Len(refs') = d /\ Len(cells') = d
  /\ SubSeq(refs', 1, Depth) = refs
  /\ \A n \in Names : binding[n] \in Denotable(n)
  /\ \A m, n \in shared : m # n => ~Overlap(binding[m], binding[n])
  /\ cells'[d] \in Store /\ \A n \in shared : cells'[d][n] = Zeros[n]
  /\ \E out \in SUBSET {binding[n] : n \in shared} :
       SubSeq(cells', 1, Depth) = AllZeroed(cells, out)

(* However it ends.                                                            *)
Leave ==
  /\ Depth > 1
  /\ cells' = SubSeq(cells, 1, Depth - 1)
  /\ refs' = SubSeq(refs, 1, Depth - 1)

Next == Modify \/ Enter \/ Leave

Spec == Init /\ [][Next]_vars
=============================================================================
