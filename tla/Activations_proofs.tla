-------------------------- MODULE Activations_proofs --------------------------
(* Proofs about block activations: the order of copy-back never matters, and   *)
(* copying in and back implements passing references to disjoint storage.      *)
(*                                                                             *)
(* The argument is made leaf by leaf.  A leaf of an activation is one header   *)
(* or the index variable: h, g, i or an element of hs.  What a frame's shared  *)
(* parameters send back is an injective relation between the leaves of the     *)
(* frame and of its caller (SentApart); every other fact follows from it by    *)
(* induction over the depth of the stack.                                      *)
EXTENDS Activations, Numbers_proofs, SequenceTheorems

-----------------------------------------------------------------------------
(* Leaves                                                                      *)

Leaves ==
  [var : {"h", "g", "i"}, index : {NoIndex}]
    \cup [var : {"hs"}, index : [op : {"literal"}, n : 0 .. Size - 1]]

Get(store, a) == IF a.var = "hs" THEN store.hs[a.index.n] ELSE store[a.var]

LEMMA LeafShape ==
  ASSUME NEW a \in Leaves
  PROVE  \/ a.var \in {"h", "g", "i"} /\ a.index = NoIndex /\ a = [var |-> a.var, index |-> NoIndex]
         \/ /\ a.var = "hs" /\ a.index.n \in 0 .. Size - 1 /\ a.index.op = "literal"
            /\ a = [var |-> "hs", index |-> [op |-> "literal", n |-> a.index.n]]
  BY DEF Leaves

LEMMA SameLeaf ==
  ASSUME NEW a \in Leaves, NEW b \in Leaves, a.var = b.var,
         a.var = "hs" => a.index.n = b.index.n
  PROVE  a = b
  BY LeafShape

LEMMA SameStore ==
  ASSUME NEW s \in Store, NEW t \in Store, \A a \in Leaves : Get(s, a) = Get(t, a)
  PROVE  s = t
<1>1. \A n \in {"h", "g", "i"} : s[n] = t[n]
  <2> TAKE n \in {"h", "g", "i"}
  <2>1. [var |-> n, index |-> NoIndex] \in Leaves
    BY DEF Leaves
  <2> QED BY <2>1 DEF Get
<1>2. \A k \in 0 .. Size - 1 : s.hs[k] = t.hs[k]
  <2> TAKE k \in 0 .. Size - 1
  <2>1. [var |-> "hs", index |-> [op |-> "literal", n |-> k]] \in Leaves
    BY DEF Leaves
  <2> QED BY <2>1 DEF Get
<1>3. s.hs = t.hs
  <2>1. s.hs \in [0 .. Size - 1 -> Values] /\ t.hs \in [0 .. Size - 1 -> Values]
    BY DEF Store
  <2>2. s.hs = [k \in 0 .. Size - 1 |-> s.hs[k]] /\ t.hs = [k \in 0 .. Size - 1 |-> t.hs[k]]
    BY <2>1
  <2>3. [k \in 0 .. Size - 1 |-> s.hs[k]] = [k \in 0 .. Size - 1 |-> t.hs[k]]
    BY <1>2
  <2> QED BY <2>2, <2>3
<1>4. \A n \in {"hs", "h", "g", "i"} : s[n] = t[n]
  BY <1>1, <1>3
<1> QED BY <1>4 DEF Store

-----------------------------------------------------------------------------
(* What a call's arguments resolve to, and what copy-back sends where          *)

(* The lvalues a parameter can be bound to, of the parameter's type, resolved. *)
Places(n) ==
  IF n \in HeaderNames
  THEN [var : HeaderNames, index : {NoIndex}]
         \cup [var : {"hs"}, index : [op : {"literal"}, n : 0 .. Size]]
  ELSE {[var |-> n, index |-> NoIndex]}

(* The shared parameters of a frame are bound to disjoint places.              *)
Linked(f) ==
  /\ \A n \in Shared(f) : f.arg[n] \in Places(n)
  /\ \A m, n \in Shared(f) : m # n => ~MayAlias(Access(f.arg[m]), Access(f.arg[n]))

(* Copy-back sends leaf t of the frame to leaf s of its caller.                *)
Sent(f, t, s) ==
  /\ t.var \in Shared(f)
  /\ s = IF t.var = "hs" THEN t ELSE f.arg[t.var]

LEMMA SentApart ==
  ASSUME NEW f \in Frame, Linked(f), NEW t \in Leaves, NEW u \in Leaves, NEW s \in Leaves,
         Sent(f, t, s), Sent(f, u, s)
  PROVE  t = u
<1>1. SUFFICES ASSUME t.var # u.var PROVE FALSE
  <2>1. CASE t.var = "hs" /\ u.var = "hs"
    BY <2>1 DEF Sent
  <2>2. CASE t.var # "hs" /\ t.var = u.var
    BY <2>2, SameLeaf
  <2> QED BY <2>1, <2>2
<1>2. t.var \in Shared(f) /\ u.var \in Shared(f)
  BY DEF Sent
<1>3. ASSUME NEW a \in Leaves, NEW b \in Leaves, a.var # b.var, Sent(f, a, s), Sent(f, b, s),
             a.var = "hs"
      PROVE  FALSE
  <2>1. a = s /\ f.arg[b.var] = a /\ a.var \in Shared(f) /\ b.var \in Shared(f)
    BY <1>3 DEF Sent
  <2>2. f.arg["hs"] = [var |-> "hs", index |-> NoIndex]
    BY <2>1, <1>3 DEF Linked, Places, HeaderNames
  <2>3. Access(f.arg["hs"]) = <<"hs">>
    BY <2>2 DEF Access
  <2>4. Access(a) = <<"hs", a.index.n>>
    BY <1>3, LeafShape DEF Access, NoIndex
  <2>5. MayAlias(Access(f.arg["hs"]), Access(f.arg[b.var]))
    BY <2>1, <2>3, <2>4 DEF MayAlias
  <2> QED BY <2>1, <2>5, <1>3 DEF Linked
<1>4. CASE t.var = "hs"
  BY <1>1, <1>3, <1>4
<1>5. CASE u.var = "hs"
  BY <1>1, <1>3, <1>5
<1>6. CASE t.var # "hs" /\ u.var # "hs"
  <2>1. f.arg[t.var] = s /\ f.arg[u.var] = s
    BY <1>6 DEF Sent
  <2>2. MayAlias(Access(s), Access(s))
    BY DEF MayAlias
  <2> QED BY <1>1, <1>2, <2>1, <2>2 DEF Linked
<1> QED BY <1>4, <1>5, <1>6

(* One write of copy-back: the leaves the parameter sends, and no other.       *)
LEMMA WriteOne ==
  ASSUME NEW f \in Frame, Linked(f), NEW n \in Shared(f), NEW b \in Store
  PROVE  LET w == WriteLValue(b, f.arg[n], f.store[n]) IN
         /\ w \in Store
         /\ \A s \in Leaves :
              /\ \A t \in Leaves : t.var = n /\ Sent(f, t, s) => Get(w, s) = Get(f.store, t)
              /\ (\A t \in Leaves : ~(t.var = n /\ Sent(f, t, s))) => Get(w, s) = Get(b, s)
<1> DEFINE lv == f.arg[n]
           w == WriteLValue(b, lv, f.store[n])
<1>0. Size \in Nat \ {0} /\ f.store \in Store /\ n \in Names /\ lv \in Places(n)
  BY CallsAssumption DEF Linked, Frame, Shared
<1>1. CASE n \in HeaderNames /\ lv.index = NoIndex
  <2>1. lv.var \in HeaderNames /\ lv = [var |-> lv.var, index |-> NoIndex]
    BY <1>0, <1>1 DEF Places, NoIndex
  <2>2. w = [b EXCEPT ![lv.var] = f.store[n]] /\ f.store[n] \in Values
    BY <1>0, <1>1 DEF WriteLValue, Store, HeaderNames
  <2>3. w \in Store /\ w[lv.var] = f.store[n] /\ \A m \in Names : m # lv.var => w[m] = b[m]
    BY <2>1, <2>2 DEF Store, HeaderNames, Names
  <2>4. lv \in Leaves /\ [var |-> n, index |-> NoIndex] \in Leaves
    BY <2>1, <1>1 DEF Leaves, HeaderNames
  <2>5. \A s, t \in Leaves : t.var = n /\ Sent(f, t, s) =>
          s = lv /\ Get(f.store, t) = f.store[n] /\ Get(w, s) = w[lv.var]
    BY <1>1, <2>1 DEF Sent, Get, HeaderNames
  <2>6. Sent(f, [var |-> n, index |-> NoIndex], lv)
    BY <1>1 DEF Sent, HeaderNames
  <2>7. ASSUME NEW s \in Leaves, s # lv PROVE Get(w, s) = Get(b, s)
    <3>1. s.var # lv.var /\ s.var \in Names
      BY <2>1, <2>4, <2>7, LeafShape, SameLeaf DEF HeaderNames, Names
    <3>2. w.hs = b.hs
      BY <2>1, <2>3 DEF HeaderNames, Names
    <3> QED BY <2>3, <3>1, <3>2 DEF Get
  <2> HIDE DEF w, lv
  <2>8. \A s \in Leaves : (\A t \in Leaves : ~(t.var = n /\ Sent(f, t, s))) => s # lv
    BY <2>4, <2>6
  <2> USE DEF w, lv
  <2> QED BY <2>3, <2>5, <2>7, <2>8
<1>2. CASE n \in HeaderNames /\ lv.index # NoIndex
  <2> DEFINE k == lv.index.n
  <2>1. lv = [var |-> "hs", index |-> [op |-> "literal", n |-> k]] /\ k \in 0 .. Size
    BY <1>0, <1>2 DEF Places, NoIndex
  <2>2. IndexValue(b, lv.index) = k
    BY <2>1 DEF IndexValue
  <2>3. w = (IF k < Size THEN [b EXCEPT !.hs[k] = f.store[n]] ELSE b) /\ f.store[n] \in Values
    BY <1>0, <1>2, <2>2 DEF WriteLValue, Store, HeaderNames
  <2>4. /\ w \in Store
        /\ k < Size => w.hs[k] = f.store[n]
        /\ \A j \in 0 .. Size - 1 : j # k => w.hs[j] = b.hs[j]
        /\ \A m \in {"h", "g", "i"} : w[m] = b[m]
    <3>1. CASE k < Size
      <4>1. k \in 0 .. Size - 1
        BY <1>0, <2>1, <3>1
      <4>2. w = [b EXCEPT !.hs[k] = f.store[n]]
        BY <2>3, <3>1
      <4> HIDE DEF w, k
      <4> QED BY <2>3, <4>1, <4>2 DEF Store
    <3>2. CASE ~(k < Size)
      BY <2>3, <3>2
    <3> QED BY <3>1, <3>2
  <2>5. [var |-> n, index |-> NoIndex] \in Leaves /\ (k < Size => lv \in Leaves)
    BY <2>1, <1>2, <1>0 DEF Leaves, HeaderNames
  <2>6. \A s, t \in Leaves : t.var = n /\ Sent(f, t, s) =>
          s = lv /\ Get(f.store, t) = f.store[n] /\ Get(w, s) = w.hs[k]
    BY <1>2, <2>1 DEF Sent, Get, HeaderNames
  <2>7. \A s \in Leaves : s = lv => k < Size
    <3> SUFFICES ASSUME NEW s \in Leaves, s = lv PROVE k < Size
      OBVIOUS
    <3>1. s.var = "hs" /\ s.index.n = k
      BY <2>1
    <3>2. k \in 0 .. Size - 1
      BY <3>1, LeafShape
    <3> QED BY <3>2, <1>0
  <2>8. Sent(f, [var |-> n, index |-> NoIndex], lv)
    BY <1>2 DEF Sent, HeaderNames
  <2>9. ASSUME NEW s \in Leaves, s # lv PROVE Get(w, s) = Get(b, s)
    <3>1. CASE s.var = "hs"
      <4>1. s.index.n \in 0 .. Size - 1 /\ s.index.n # k
        BY <2>1, <2>9, <3>1, LeafShape
      <4> QED BY <3>1, <4>1, <2>4 DEF Get
    <3>2. CASE s.var # "hs"
      BY <3>2, <2>4, LeafShape DEF Get
    <3> QED BY <3>1, <3>2
  <2> HIDE DEF w, lv
  <2>10. \A s \in Leaves : (\A t \in Leaves : ~(t.var = n /\ Sent(f, t, s))) => s # lv
    BY <2>5, <2>8
  <2> HIDE DEF k
  <2>11. \A s, t \in Leaves : t.var = n /\ Sent(f, t, s) => Get(w, s) = Get(f.store, t)
    BY <2>4, <2>6, <2>7
  <2> USE DEF w, lv
  <2> QED BY <2>4, <2>9, <2>10, <2>11
<1>3. CASE n \notin HeaderNames
  <2>1. lv = [var |-> n, index |-> NoIndex] /\ n \in {"hs", "i"}
    BY <1>0, <1>3 DEF Places, HeaderNames, Names
  <2>2. w = [b EXCEPT ![n] = f.store[n]]
    BY <2>1 DEF WriteLValue
  <2>3. w \in Store /\ w[n] = f.store[n] /\ \A m \in Names : m # n => w[m] = b[m]
    BY <1>0, <2>1, <2>2 DEF Store, Names
  <2>4. \A s, t \in Leaves : t.var = n /\ Sent(f, t, s) => s = t
    BY <2>1, LeafShape DEF Sent
  <2>5. \A s \in Leaves : s.var = n => Sent(f, s, s)
    BY <2>1, LeafShape DEF Sent
  <2>6. \A s \in Leaves : s.var = n => Get(w, s) = Get(f.store, s)
    BY <2>1, <2>3 DEF Get
  <2>7. \A s \in Leaves : s.var # n => Get(w, s) = Get(b, s)
    <3>1. \A s \in Leaves : s.var \in Names
      BY LeafShape DEF Names
    <3>2. n # "hs" => w.hs = b.hs
      BY <2>3 DEF Names
    <3> QED BY <2>3, <3>1, <3>2 DEF Get
  <2> HIDE DEF w, lv
  <2>8. \A s \in Leaves : (\A t \in Leaves : ~(t.var = n /\ Sent(f, t, s))) => s.var # n
    BY <2>5
  <2>9. \A s, t \in Leaves : t.var = n /\ Sent(f, t, s) => Get(w, s) = Get(f.store, t)
    BY <2>4, <2>6
  <2> USE DEF w, lv
  <2> QED BY <2>3, <2>7, <2>8, <2>9
<1> QED BY <1>1, <1>2, <1>3

(* A copy-back, its parameters written in any order: every leaf of the caller  *)
(* that the frame sends a leaf to takes its value, every other keeps its own.  *)
CopiedBack(f, store, after) ==
  \A s \in Leaves :
    /\ \A t \in Leaves : Sent(f, t, s) => Get(after, s) = Get(f.store, t)
    /\ (\A t \in Leaves : ~Sent(f, t, s)) => Get(after, s) = Get(store, s)

LEMMA OrderCovers ==
  ASSUME NEW order \in Orders
  PROVE  /\ Len(order) = 4 /\ order \in [1 .. 4 -> Names]
         /\ \A n \in Names : \E k \in 1 .. 4 : order[k] = n
         /\ \A a, b \in 1 .. 4 : a # b => order[a] # order[b]
<1>1. order \in [1 .. 4 -> Names] /\ \A a, b \in 1 .. 4 : a # b => order[a] # order[b]
  BY DEF Orders
<1>2. Len(order) = 4
  BY <1>1, LenProperties, SeqDef
<1>3. \A n \in Names : \E k \in 1 .. 4 : order[k] = n
  <2>1. order[1] \in Names /\ order[2] \in Names /\ order[3] \in Names /\ order[4] \in Names
    BY <1>1
  <2>2. /\ order[1] # order[2] /\ order[1] # order[3] /\ order[1] # order[4]
        /\ order[2] # order[3] /\ order[2] # order[4] /\ order[3] # order[4]
    BY <1>1
  <2>3. \A n \in Names : order[1] = n \/ order[2] = n \/ order[3] = n \/ order[4] = n
    BY <2>1, <2>2 DEF Names
  <2> QED BY <2>3
<1> QED BY <1>1, <1>2, <1>3

LEMMA CopyBackLeaves ==
  ASSUME NEW order \in Orders, NEW f \in Frame, Linked(f), NEW store \in Store
  PROVE  /\ CopyBackIn(order, f, store) \in Store
         /\ CopiedBack(f, store, CopyBackIn(order, f, store))
<1> DEFINE Write(k, b) == IF order[k] \in Shared(f)
                          THEN WriteLValue(b, f.arg[order[k]], f.store[order[k]]) ELSE b
           back == CHOOSE back : back = [k \in 0 .. Len(order) |->
                     IF k = 0 THEN store
                     ELSE LET n == order[k] IN
                          IF n \in Shared(f) THEN WriteLValue(back[k - 1], f.arg[n], f.store[n])
                          ELSE back[k - 1]]
           Written(k) == {order[j] : j \in 1 .. k}
           Holds(k) == /\ back[k] \in Store
                       /\ \A s \in Leaves :
                            /\ \A t \in Leaves : Sent(f, t, s) /\ t.var \in Written(k) =>
                                 Get(back[k], s) = Get(f.store, t)
                            /\ (\A t \in Leaves : Sent(f, t, s) => t.var \notin Written(k)) =>
                                 Get(back[k], s) = Get(store, s)
           G == {k \in 0 .. 4 : Holds(k)}
<1>1. CopyBackIn(order, f, store) = back[Len(order)]
  BY DEF CopyBackIn
<1>2. Len(order) = 4
  BY OrderCovers
<1>3. /\ back[0] = store
      /\ \A k \in 1 .. 4 : back[k] = Write(k, back[k - 1])
  <2> DEFINE step == [k \in 1 .. 4 |-> [b \in Store |-> Write(k, b)]]
  <2>1. step \in [1 .. 4 -> [Store -> Store]]
    <3>1. ASSUME NEW k \in 1 .. 4, NEW b \in Store PROVE Write(k, b) \in Store
      BY WriteOne
    <3> HIDE DEF Write
    <3> QED BY <3>1
  <2> HIDE DEF step
  <2>2. PICK g \in [0 .. 4 -> Store] : g[0] = store /\ \A k \in 1 .. 4 : g[k] = step[k][g[k - 1]]
    <3> HIDE DEF back, Write, Written, Holds, G
    <3>1. step \in Steps(4, Store)
      BY <2>1 DEF Steps
    <3>2. Iterations(4, Store, store, step) # {}
      BY <3>1, Iterates
    <3> QED BY <3>2 DEF Iterations
  <2>3. \A k \in 1 .. 4 : g[k] = Write(k, g[k - 1])
    BY <2>2 DEF step
  <2>4. g = [k \in 0 .. 4 |-> IF k = 0 THEN store ELSE Write(k, g[k - 1])]
    BY <2>2, <2>3
  <2>5. g = [k \in 0 .. Len(order) |->
                     IF k = 0 THEN store
                     ELSE LET n == order[k] IN
                          IF n \in Shared(f) THEN WriteLValue(g[k - 1], f.arg[n], f.store[n])
                          ELSE g[k - 1]]
    BY <2>4, <1>2
  <2>6. back = [k \in 0 .. Len(order) |->
                     IF k = 0 THEN store
                     ELSE LET n == order[k] IN
                          IF n \in Shared(f) THEN WriteLValue(back[k - 1], f.arg[n], f.store[n])
                          ELSE back[k - 1]]
    BY <2>5
  <2> HIDE DEF back
  <2> QED BY <2>6, <1>2
<1> HIDE DEF back
<1>4. Holds(0)
  BY <1>3
<1>5. ASSUME NEW k \in 1 .. 4, Holds(k - 1) PROVE Holds(k)
  <2> DEFINE n == order[k]
             b == back[k - 1]
  <2>1. n \in Names /\ Written(k) = Written(k - 1) \cup {n} /\ n \notin Written(k - 1)
    <3>1. \A j \in 1 .. k - 1 : j \in 1 .. 4 /\ j # k
      OBVIOUS
    <3>2. \A j \in 1 .. k : j \in 1 .. k - 1 \/ j = k
      OBVIOUS
    <3>3. \A j \in 1 .. k - 1 : j \in 1 .. k
      OBVIOUS
    <3> QED BY <3>1, <3>2, <3>3, OrderCovers
  <2>2. back[k] = Write(k, b) /\ b \in Store
    BY <1>3, <1>5
  <2>3. CASE n \notin Shared(f)
    <3>1. back[k] = b
      BY <2>2, <2>3
    <3>2. \A t \in Leaves, s \in Leaves : Sent(f, t, s) => t.var # n
      BY <2>3 DEF Sent
    <3> HIDE DEF Written, n
    <3> QED BY <3>1, <3>2, <2>1, <1>5
  <2>4. CASE n \in Shared(f)
    <3>1. back[k] = WriteLValue(b, f.arg[n], f.store[n])
      BY <2>2, <2>4
    <3>2. /\ back[k] \in Store
          /\ \A s \in Leaves :
              /\ \A t \in Leaves : t.var = n /\ Sent(f, t, s) => Get(back[k], s) = Get(f.store, t)
              /\ (\A t \in Leaves : ~(t.var = n /\ Sent(f, t, s))) => Get(back[k], s) = Get(b, s)
      BY <2>2, <2>4, <3>1, WriteOne
    <3> HIDE DEF Written, n
    <3> SUFFICES ASSUME NEW s \in Leaves
                 PROVE  /\ \A t \in Leaves : Sent(f, t, s) /\ t.var \in Written(k) =>
                             Get(back[k], s) = Get(f.store, t)
                        /\ (\A t \in Leaves : Sent(f, t, s) => t.var \notin Written(k)) =>
                             Get(back[k], s) = Get(store, s)
      BY <3>2
    <3>3. ASSUME NEW t \in Leaves, Sent(f, t, s), t.var \in Written(k)
          PROVE  Get(back[k], s) = Get(f.store, t)
      <4>1. CASE t.var = n
        BY <3>2, <3>3, <4>1
      <4>2. CASE t.var # n
        <5>1. \A u \in Leaves : Sent(f, u, s) => u = t
          BY <3>3, SentApart
        <5>2. Get(back[k], s) = Get(b, s)
          BY <3>2, <4>2, <5>1
        <5>3. t.var \in Written(k - 1)
          BY <2>1, <3>3, <4>2
        <5> QED BY <1>5, <3>3, <5>2, <5>3
      <4> QED BY <4>1, <4>2
    <3>4. ASSUME \A t \in Leaves : Sent(f, t, s) => t.var \notin Written(k)
          PROVE  Get(back[k], s) = Get(store, s)
      BY <3>2, <3>4, <2>1, <1>5
    <3> QED BY <3>3, <3>4
  <2> QED BY <2>3, <2>4
<1> HIDE DEF Holds
<1>6. 0 \in G /\ \A k \in 1 .. 4 : k - 1 \in G => k \in G
  BY <1>4, <1>5
<1> HIDE DEF G
<1>7. \A k \in 0 .. 4 : k \in G
  BY <1>6, Upward
<1>8. Holds(4)
  BY <1>7 DEF G
<1>9. \A t \in Leaves : t.var \in Written(4)
  BY OrderCovers, LeafShape DEF Names
<1> HIDE DEF Written
<1> QED BY <1>1, <1>2, <1>8, <1>9 DEF Holds, CopiedBack

LEMMA CopyBackOrder == ParamOrder \in Orders
<1>1. ParamOrder \in [1 .. 4 -> Names]
  BY DEF ParamOrder, Names
<1> QED BY <1>1 DEF Orders, ParamOrder

(* What copy-back gives does not depend on the order.                          *)
LEMMA SameInAnyOrder ==
  ASSUME NEW order \in Orders, NEW f \in Frame, Linked(f), NEW store \in Store
  PROVE  CopyBackIn(order, f, store) = CopyBack(f, store)
<1> DEFINE x == CopyBackIn(order, f, store)
           y == CopyBack(f, store)
<1>1. x \in Store /\ CopiedBack(f, store, x) /\ y \in Store /\ CopiedBack(f, store, y)
  BY CopyBackLeaves, CopyBackOrder DEF CopyBack
<1> HIDE DEF x, y
<1>2. ASSUME NEW s \in Leaves PROVE Get(x, s) = Get(y, s)
  BY <1>1 DEF CopiedBack
<1>3. x = y
  BY <1>1, <1>2, SameStore
<1> QED BY <1>3 DEF x, y

-----------------------------------------------------------------------------
(* What a call binds and copies in                                             *)

LEMMA IndexInRange ==
  ASSUME NEW s \in Store, NEW x \in Indices
  PROVE  IndexValue(s, x) \in 0 .. Size
<1>1. s.i \in 0 .. Size
  BY DEF Store
<1>2. x.n \in 0 .. Size
  BY CallsAssumption DEF Indices, NoIndex
<1> QED BY <1>1, <1>2 DEF IndexValue

LEMMA ResolvedStaysApart ==
  ASSUME NEW s \in Store, NEW a \in LValues, NEW b \in LValues, ~MayAlias(Access(a), Access(b))
  PROVE  ~MayAlias(Access(Resolve(s, a)), Access(Resolve(s, b)))
<1>1. \A x \in LValues : /\ Access(x)[1] = x.var
                         /\ Access(Resolve(s, x))[1] = x.var
                         /\ x.index = NoIndex => Resolve(s, x) = x
  BY DEF Access, Resolve, LValues
<1>2. CASE a.var # b.var
  BY <1>1, <1>2 DEF MayAlias
<1>3. CASE a.var = b.var
  <2>1. ASSUME NEW x \in LValues, NEW y \in LValues, x.var = y.var, x.index = NoIndex
        PROVE  MayAlias(Access(x), Access(y)) /\ MayAlias(Access(y), Access(x))
    <3>1. Len(Access(x)) = 1
      BY <2>1 DEF Access
    <3> QED BY <1>1, <2>1, <3>1 DEF MayAlias
  <2>2. a.index # NoIndex /\ b.index # NoIndex
    BY <1>3, <2>1
  <2>3. ASSUME NEW x \in LValues, NEW y \in LValues, x.var = y.var,
               x.index # NoIndex, y.index # NoIndex, ~MayAlias(Access(x), Access(y))
        PROVE  x.index.op = "literal" /\ y.index.op = "literal" /\ x.index.n # y.index.n
    BY <2>3 DEF Access, MayAlias, Unknown
  <2>4. a.index.op = "literal" /\ b.index.op = "literal" /\ a.index.n # b.index.n
    BY <1>3, <2>2, <2>3
  <2>5. ASSUME NEW x \in LValues, x.index.op = "literal", x.index # NoIndex
        PROVE  Access(Resolve(s, x)) = <<x.var, x.index.n>>
    <3>1. IndexValue(s, x.index) = x.index.n
      BY <2>5 DEF IndexValue
    <3>2. Resolve(s, x) = [x EXCEPT !.index = [op |-> "literal", n |-> x.index.n]]
      BY <2>5, <3>1 DEF Resolve
    <3>3. Resolve(s, x).var = x.var /\ Resolve(s, x).index = [op |-> "literal", n |-> x.index.n]
      BY <3>2 DEF LValues
    <3> QED BY <3>3 DEF Access, NoIndex
  <2>6. a.index.n # Unknown /\ b.index.n # Unknown
    BY CallsAssumption DEF LValues, Indices, NoIndex, Unknown
  <2>7. Access(Resolve(s, a)) = <<a.var, a.index.n>> /\ Access(Resolve(s, b)) = <<b.var, b.index.n>>
    BY <2>2, <2>4, <2>5
  <2> QED BY <2>4, <2>6, <2>7 DEF MayAlias
<1> QED BY <1>2, <1>3

(* The arguments of an accepted call, resolved, are places of the parameters'  *)
(* types and disjoint.                                                         *)
LEMMA CallLinks ==
  ASSUME NEW c \in Calls, NEW caller \in Frame, Accepted(c, caller), NEW s \in Store,
         NEW f \in Frame, f.dir = c.dir, f.arg = ResolvedArgs(c, s)
  PROVE  Linked(f)
<1>1. Shared(f) = Shared(c) /\ Shared(c) \subseteq Names
  BY DEF Shared
<1>2. c.arg \in [Names -> LValues] /\ c.dir \in [Names -> Directions]
  BY CallsAssumption
<1>3. \A n \in Shared(c) : f.arg[n] = Resolve(s, c.arg[n]) /\ c.arg[n] \in LValues
  BY <1>1, <1>2 DEF ResolvedArgs
<1>4. ASSUME NEW n \in Shared(c) PROVE f.arg[n] \in Places(n)
  <2> DEFINE lv == c.arg[n]
  <2>0. n \in Names /\ lv \in LValues
    BY <1>1, <1>2
  <2>1. CASE n \in HeaderNames /\ lv.var = "hs"
    <3>1. lv.index # NoIndex /\ lv.index \in Indices
      BY <2>0, <2>1, CallsAssumption DEF LValues
    <3>2. IndexValue(s, lv.index) \in 0 .. Size
      BY <3>1, IndexInRange
    <3>3. Resolve(s, lv) = [var |-> "hs", index |-> [op |-> "literal", n |-> IndexValue(s, lv.index)]]
      BY <2>0, <2>1, <3>1 DEF Resolve, LValues
    <3> QED BY <1>3, <2>1, <3>2, <3>3 DEF Places
  <2>2. CASE n \in HeaderNames /\ lv.var # "hs"
    <3>1. lv.var \in HeaderNames /\ lv.index = NoIndex
      BY <2>0, <2>2, CallsAssumption
    <3>2. lv = [var |-> lv.var, index |-> NoIndex] /\ Resolve(s, lv) = lv
      BY <2>0, <3>1 DEF LValues, Resolve
    <3> QED BY <1>3, <2>2, <3>1, <3>2 DEF Places
  <2>3. CASE n \notin HeaderNames
    <3>1. lv = [var |-> n, index |-> NoIndex]
      BY <2>0, <2>3, CallsAssumption
    <3>2. Resolve(s, lv) = lv
      BY <3>1 DEF Resolve
    <3> QED BY <1>3, <2>3, <3>1, <3>2 DEF Places
  <2> QED BY <2>1, <2>2, <2>3
<1>5. ASSUME NEW m \in Shared(c), NEW n \in Shared(c), m # n
      PROVE  ~MayAlias(Access(f.arg[m]), Access(f.arg[n]))
  <2>1. ~MayAlias(Access(c.arg[m]), Access(c.arg[n]))
    BY <1>5 DEF Accepted
  <2> QED BY <1>3, <2>1, ResolvedStaysApart
<1> QED BY <1>1, <1>4, <1>5 DEF Linked

LEMMA ArgsTyped ==
  ASSUME NEW c \in Calls, NEW s \in Store
  PROVE  ResolvedArgs(c, s) \in [Names -> LValues]
<1>1. c.arg \in [Names -> LValues]
  BY CallsAssumption
<1>2. ASSUME NEW lv \in LValues PROVE Resolve(s, lv) \in LValues
  <2>1. CASE lv.index = NoIndex
    BY <2>1 DEF Resolve
  <2>2. CASE lv.index # NoIndex
    <3>1. IndexValue(s, lv.index) \in 0 .. Size
      BY IndexInRange DEF LValues
    <3>2. [op |-> "literal", n |-> IndexValue(s, lv.index)] \in Indices
      BY <3>1 DEF Indices
    <3> QED BY <2>2, <3>2 DEF Resolve, LValues
  <2> QED BY <2>1, <2>2
<1> QED BY <1>1, <1>2 DEF ResolvedArgs

(* What a header parameter reads is a header, in and past the stack.           *)
LEMMA ReadTyped ==
  ASSUME NEW s \in Store, NEW lv \in LValues,
         IF lv.var = "hs" THEN lv.index # NoIndex ELSE lv.var \in HeaderNames /\ lv.index = NoIndex
  PROVE  ReadLValue(s, lv) \in Values
<1>1. CASE lv.var = "hs"
  <2>1. IndexValue(s, lv.index) \in 0 .. Size
    BY IndexInRange DEF LValues
  <2>2. IndexValue(s, lv.index) < Size => s.hs[IndexValue(s, lv.index)] \in Values
    BY <2>1, CallsAssumption DEF Store
  <2> QED BY <1>1, <2>2, CallsAssumption DEF ReadLValue
<1>2. CASE lv.var # "hs"
  BY <1>2 DEF ReadLValue, Store, HeaderNames
<1> QED BY <1>1, <1>2

LEMMA ZerosTyped == Zeros \in Store
<1>1. [k \in 0 .. Size - 1 |-> 0] \in [0 .. Size - 1 -> Values] /\ 0 \in Values /\ 0 \in 0 .. Size
  BY CallsAssumption
<1> QED BY <1>1 DEF Zeros, Store

LEMMA CopyInTyped ==
  ASSUME NEW c \in Calls, NEW s \in Store
  PROVE  CopyIn(c, ResolvedArgs(c, s), s) \in Store
<1> DEFINE args == ResolvedArgs(c, s)
           e(n) == IF c.dir[n] \in {"in", "inout"} THEN ReadLValue(s, args[n]) ELSE Zeros[n]
<1>0. c.arg \in [Names -> LValues] /\ args \in [Names -> LValues]
  BY CallsAssumption, ArgsTyped
<1>1. ASSUME NEW n \in HeaderNames PROVE e(n) \in Values
  <2> DEFINE lv == c.arg[n]
  <2>1. /\ n \in Names /\ lv \in LValues
        /\ IF lv.var = "hs" THEN lv.index # NoIndex
           ELSE lv.var \in HeaderNames /\ lv.index = NoIndex
    BY <1>0, CallsAssumption DEF Names, HeaderNames
  <2>2. args[n] \in LValues /\ (args[n] = lv \/ args[n] = Resolve(s, lv))
    BY <1>0, <2>1 DEF ResolvedArgs
  <2>3. IF args[n].var = "hs" THEN args[n].index # NoIndex
        ELSE args[n].var \in HeaderNames /\ args[n].index = NoIndex
    BY <2>1, <2>2 DEF Resolve, NoIndex, LValues
  <2>4. ReadLValue(s, args[n]) \in Values
    BY <2>2, <2>3, ReadTyped
  <2>5. Zeros[n] \in Values
    BY CallsAssumption DEF Zeros, HeaderNames
  <2> QED BY <2>4, <2>5
<1>2. ASSUME NEW n \in {"hs", "i"} PROVE e(n) = s[n] \/ e(n) = Zeros[n]
  <2>1. n \in Names /\ c.arg[n] = [var |-> n, index |-> NoIndex]
    BY CallsAssumption DEF Names, HeaderNames
  <2>2. args[n] = [var |-> n, index |-> NoIndex]
    BY <2>1 DEF ResolvedArgs, Resolve
  <2>3. ReadLValue(s, args[n]) = s[n]
    BY <2>2 DEF ReadLValue
  <2> QED BY <2>3
<1>3. e("hs") \in [0 .. Size - 1 -> Values] /\ e("i") \in 0 .. Size
  <2>1. s["hs"] \in [0 .. Size - 1 -> Values] /\ s["i"] \in 0 .. Size
    BY DEF Store
  <2>2. Zeros["hs"] \in [0 .. Size - 1 -> Values] /\ Zeros["i"] \in 0 .. Size
    BY ZerosTyped DEF Store
  <2> HIDE DEF e
  <2> QED BY <1>2, <2>1, <2>2
<1>4. e("h") \in Values /\ e("g") \in Values
  BY <1>1 DEF HeaderNames
<1>5. CopyIn(c, args, s) = [n \in Names |-> e(n)]
  BY DEF CopyIn
<1> HIDE DEF e
<1> QED BY <1>3, <1>4, <1>5 DEF Store, Names

-----------------------------------------------------------------------------
(* The inductive invariant                                                     *)

FramesOK(fs) ==
  /\ fs \in Seq(Frame) /\ Len(fs) \in Nat \ {0}
  /\ \A d \in 1 .. Len(fs) : Linked(fs[d])

IInv == TypeOK /\ FramesOK(frames)

(* A frame whose store alone is replaced has the same links.                   *)
SameLinks(f, g) == f.dir = g.dir /\ f.arg = g.arg

LEMMA LinkedAsBefore ==
  ASSUME NEW f, NEW g, SameLinks(f, g)
  PROVE  /\ Shared(f) = Shared(g) /\ (Linked(f) <=> Linked(g))
         /\ \A t, s : Sent(f, t, s) <=> Sent(g, t, s)
<1>1. Shared(f) = Shared(g)
  BY DEF SameLinks, Shared
<1> QED BY <1>1 DEF SameLinks, Linked, Sent

LEMMA NewStore ==
  ASSUME NEW f \in Frame, NEW s \in Store
  PROVE  /\ [f EXCEPT !.store = s] \in Frame /\ [f EXCEPT !.store = s].store = s
         /\ SameLinks([f EXCEPT !.store = s], f)
  BY DEF Frame, SameLinks

(* The stack after the innermost activation has returned.                      *)
Popped(fs) ==
  [SubSeq(fs, 1, Len(fs) - 1) EXCEPT ![Len(fs) - 1].store = CopyBack(fs[Len(fs)], @)]

LEMMA PoppedFrames ==
  ASSUME NEW fs, FramesOK(fs), Len(fs) > 1
  PROVE  LET gs == Popped(fs)
             n == Len(fs) - 1 IN
         /\ FramesOK(gs) /\ Len(gs) = n /\ n \in Nat \ {0}
         /\ \A d \in 1 .. n - 1 : gs[d] = fs[d]
         /\ \A d \in 1 .. n : SameLinks(gs[d], fs[d])
         /\ gs[n].store = CopyBack(fs[n + 1], fs[n].store)
<1> DEFINE n == Len(fs) - 1
           ss == SubSeq(fs, 1, n)
           x == [fs[n] EXCEPT !.store = CopyBack(fs[n + 1], fs[n].store)]
           gs == Popped(fs)
<1>1. n \in Nat \ {0} /\ n + 1 = Len(fs) /\ \A d \in 1 .. n + 1 : fs[d] \in Frame /\ Linked(fs[d])
  BY ElementOfSeq DEF FramesOK
<1>2. ss \in Seq(Frame) /\ Len(ss) = n /\ \A d \in 1 .. n : ss[d] = fs[d]
  BY <1>1, SubSeqProperties
<1>3. CopyBack(fs[n + 1], fs[n].store) \in Store
  BY <1>1, CopyBackLeaves, CopyBackOrder DEF CopyBack, Frame
<1>4. x \in Frame /\ x.store = CopyBack(fs[n + 1], fs[n].store) /\ SameLinks(x, fs[n])
  BY <1>1, <1>3, NewStore
<1>5. gs = [ss EXCEPT ![n] = x]
  <2>1. gs = [ss EXCEPT ![n] = [ss[n] EXCEPT !.store = CopyBack(fs[Len(fs)], ss[n].store)]]
    BY DEF Popped
  <2>2. ss[n] = fs[n] /\ fs[Len(fs)] = fs[n + 1]
    BY <1>1, <1>2
  <2> HIDE DEF gs, n, ss
  <2> QED BY <2>1, <2>2
<1> HIDE DEF gs, x, ss, n
<1>6. gs \in Seq(Frame) /\ Len(gs) = n /\ \A d \in 1 .. n : gs[d] = IF d = n THEN x ELSE ss[d]
  BY <1>1, <1>2, <1>4, <1>5, ExceptSeq
<1>7. \A d \in 1 .. n - 1 : gs[d] = fs[d]
  BY <1>1, <1>2, <1>6
<1>8. gs[n] = x
  BY <1>1, <1>6
<1>9. \A d \in 1 .. n : SameLinks(gs[d], fs[d])
  BY <1>1, <1>4, <1>7, <1>8 DEF SameLinks
<1>10. \A d \in 1 .. n : Linked(gs[d])
  BY <1>1, <1>9, LinkedAsBefore
<1>11. FramesOK(gs)
  BY <1>1, <1>6, <1>10 DEF FramesOK
<1> USE DEF gs, n
<1> QED BY <1>1, <1>4, <1>6, <1>7, <1>8, <1>9, <1>11

(* A store of the innermost activation replaced by another.                    *)
LEMMA TopReplaced ==
  ASSUME NEW fs, FramesOK(fs), NEW s \in Store
  PROVE  LET n == Len(fs)
             gs == [fs EXCEPT ![n].store = s] IN
         /\ FramesOK(gs) /\ Len(gs) = n
         /\ \A d \in 1 .. n - 1 : gs[d] = fs[d]
         /\ \A d \in 1 .. n : SameLinks(gs[d], fs[d])
         /\ gs[n].store = s
<1> DEFINE n == Len(fs)
           x == [fs[n] EXCEPT !.store = s]
           gs == [fs EXCEPT ![n].store = s]
<1>1. n \in Nat \ {0} /\ fs \in Seq(Frame) /\ \A d \in 1 .. n : fs[d] \in Frame /\ Linked(fs[d])
  BY ElementOfSeq DEF FramesOK
<1>2. x \in Frame /\ x.store = s /\ SameLinks(x, fs[n])
  BY <1>1, NewStore
<1>3. gs = [fs EXCEPT ![n] = x]
  OBVIOUS
<1> HIDE DEF gs, x
<1>4. gs \in Seq(Frame) /\ Len(gs) = n /\ \A d \in 1 .. n : gs[d] = IF d = n THEN x ELSE fs[d]
  BY <1>1, <1>2, <1>3, ExceptSeq
<1>5. \A d \in 1 .. n - 1 : gs[d] = fs[d]
  BY <1>1, <1>4
<1>6. gs[n] = x
  BY <1>1, <1>4
<1>7. \A d \in 1 .. n : SameLinks(gs[d], fs[d])
  BY <1>1, <1>2, <1>5, <1>6 DEF SameLinks
<1>8. \A d \in 1 .. n : Linked(gs[d])
  BY <1>1, <1>7, LinkedAsBefore
<1>9. FramesOK(gs)
  BY <1>1, <1>4, <1>8 DEF FramesOK
<1> USE DEF gs
<1> QED BY <1>2, <1>4, <1>5, <1>6, <1>7, <1>9

LEMMA Pushed ==
  ASSUME NEW fs, FramesOK(fs), NEW f \in Frame, Linked(f)
  PROVE  LET gs == Append(fs, f) IN
         /\ FramesOK(gs) /\ Len(gs) = Len(fs) + 1
         /\ \A d \in 1 .. Len(fs) : gs[d] = fs[d]
         /\ gs[Len(fs) + 1] = f
<1> DEFINE gs == Append(fs, f)
           n == Len(fs)
<1>1. n \in Nat \ {0} /\ fs \in Seq(Frame) /\ \A d \in 1 .. n : Linked(fs[d])
  BY DEF FramesOK
<1>2. /\ gs \in Seq(Frame) /\ Len(gs) = n + 1
      /\ (\A d \in 1 .. n : gs[d] = fs[d]) /\ gs[n + 1] = f
  BY <1>1, AppendProperties
<1> HIDE DEF gs
<1>3. \A d \in 1 .. n + 1 : d \in 1 .. n \/ d = n + 1
  BY <1>1
<1>4. \A d \in 1 .. n + 1 : Linked(gs[d])
  BY <1>1, <1>2, <1>3
<1>5. FramesOK(gs)
  BY <1>1, <1>2, <1>4 DEF FramesOK
<1> USE DEF gs
<1> QED BY <1>2, <1>5

(* A statement's write leaves a store of the same type.                        *)
LEMMA WriteTyped ==
  ASSUME NEW s \in Store, NEW lv \in LValues, NEW v \in Values,
         lv.var \in HeaderNames \cup {"hs"}, lv.var = "hs" <=> lv.index # NoIndex
  PROVE  WriteLValue(s, lv, v) \in Store
<1>1. CASE lv.index = NoIndex
  <2>1. lv.var \in {"h", "g"} /\ WriteLValue(s, lv, v) = [s EXCEPT ![lv.var] = v]
    BY <1>1 DEF WriteLValue, HeaderNames
  <2> QED BY <2>1 DEF Store
<1>2. CASE lv.index # NoIndex
  <2> DEFINE k == IndexValue(s, lv.index)
  <2>1. k \in 0 .. Size
    BY IndexInRange DEF LValues
  <2>2. WriteLValue(s, lv, v) = IF k < Size THEN [s EXCEPT !.hs[k] = v] ELSE s
    BY <1>2 DEF WriteLValue
  <2> HIDE DEF k
  <2>3. CASE k < Size
    <3>1. k \in 0 .. Size - 1
      BY <2>1, <2>3, CallsAssumption
    <3>2. [s EXCEPT !.hs[k] = v] \in Store
      BY <3>1 DEF Store
    <3> QED BY <2>2, <2>3, <3>2
  <2> QED BY <2>2, <2>3
<1> QED BY <1>1, <1>2

-----------------------------------------------------------------------------
(* The invariant is inductive                                                  *)

LEMMA StartsRight == Init => IInv
<1> SUFFICES ASSUME Init PROVE IInv
  OBVIOUS
<1> DEFINE f == [store |-> Zeros, dir |-> RootDir, arg |-> RootArg]
<1>1. RootDir \in [Names -> Directions] /\ RootArg \in [Names -> LValues]
  BY DEF RootDir, RootArg, Directions, LValues, Indices
<1>2. f \in Frame
  BY <1>1, ZerosTyped DEF Frame
<1>3. Linked(f)
  <2>0. f.arg = RootArg
    OBVIOUS
  <2> HIDE DEF f
  <2>1. \A n \in Names : f.arg[n] = [var |-> n, index |-> NoIndex]
    BY <2>0 DEF RootArg
  <2>2. \A n \in Names : f.arg[n] \in Places(n) /\ Access(f.arg[n]) = <<n>>
    <3> SUFFICES ASSUME NEW n \in Names
                 PROVE  f.arg[n] \in Places(n) /\ Access(f.arg[n]) = <<n>>
      OBVIOUS
    <3>0. f.arg[n] = [var |-> n, index |-> NoIndex]
      BY <2>1
    <3>1. f.arg[n].index = NoIndex /\ f.arg[n].var = n
      BY <3>0
    <3>2. Access(f.arg[n]) = <<n>>
      BY <3>1 DEF Access
    <3>3. f.arg[n] \in Places(n)
      BY <3>0 DEF Places, HeaderNames
    <3> QED BY <3>2, <3>3
  <2>3. \A m, n \in Names : m # n => ~MayAlias(<<m>>, <<n>>)
    BY DEF MayAlias
  <2> QED BY <2>1, <2>2, <2>3 DEF Linked, Shared
<1> HIDE DEF f
<1>4. frames = <<f>> /\ frames \in Seq(Frame) /\ Len(frames) = 1 /\ frames[1] = f
  BY <1>2 DEF Init, f
<1>5. FramesOK(frames)
  BY <1>3, <1>4 DEF FramesOK
<1>6. TypeOK
  BY <1>4, CallsAssumption DEF TypeOK, Depth, Init
<1> QED BY <1>5, <1>6 DEF IInv

(* What each step does to the stack of frames.                                 *)
CopiesIn(f, store) ==
  \A t, x \in Leaves : Sent(f, t, x) =>
    Get(f.store, t) = IF f.dir[t.var] = "out" THEN 0 ELSE Get(store, x)
Called(fs, gs) ==
  \E f \in Frame : Linked(f) /\ CopiesIn(f, fs[Len(fs)].store) /\ gs = Append(fs, f)

LEMMA TopFrame ==
  ASSUME IInv
  PROVE  /\ Depth \in Nat \ {0} /\ Depth = Len(frames)
         /\ Top \in Frame /\ Top.store \in Store
<1>1. frames \in Seq(Frame) /\ Depth = Len(frames) /\ Depth \in Nat \ {0}
  BY DEF IInv, FramesOK, Depth
<1>2. Depth \in 1 .. Len(frames)
  BY <1>1
<1>3. Top \in Frame
  BY <1>1, <1>2, ElementOfSeq DEF Top
<1> QED BY <1>1, <1>3 DEF Frame

(* A statement writes one leaf, or nothing when its index is past the end.     *)
LeafWrite(fs, gs, x, s, val) ==
  /\ val \in IF x.var = "i" THEN 0 .. Size ELSE Values
  /\ gs = [fs EXCEPT ![Len(fs)].store = s]
  /\ \A y \in Leaves : Get(s, y) = IF y = x THEN val ELSE Get(fs[Len(fs)].store, y)
LeafWritten(fs, gs) == \E x \in Leaves, s \in Store : \E val : LeafWrite(fs, gs, x, s, val)

LEMMA AssignsLeaf ==
  ASSUME IInv, AssignHeader \/ AssignIndex
  PROVE  frames' = frames \/ LeafWritten(frames, frames')
<1>0. /\ Top \in Frame /\ Top.store \in Store /\ Depth = Len(frames) /\ Size \in Nat
      /\ frames \in Seq(Frame) /\ Depth \in Nat \ {0}
  BY TopFrame, CallsAssumption DEF IInv, FramesOK
<1>1. CASE AssignHeader
  <2>1. PICK lv \in Targets, val \in Values :
          frames' = [frames EXCEPT ![Depth].store = WriteLValue(@, lv, val)]
    BY <1>1 DEF AssignHeader
  <2>2. lv \in LValues /\ lv.var \in HeaderNames \cup {"hs"} /\ (lv.var = "hs" <=> lv.index # NoIndex)
    BY DEF Targets
  <2> DEFINE w == WriteLValue(Top.store, lv, val)
             k == IndexValue(Top.store, lv.index)
  <2>3. frames' = [frames EXCEPT ![Depth].store = w]
    BY <2>1 DEF Top
  <2>4. w \in Store
    BY <1>0, <2>2, WriteTyped
  <2>5. CASE lv.index = NoIndex
    <3>1. lv.var \in {"h", "g"} /\ lv = [var |-> lv.var, index |-> NoIndex] /\ lv \in Leaves
      BY <2>2, <2>5 DEF HeaderNames, LValues, Leaves
    <3>2. w = [Top.store EXCEPT ![lv.var] = val]
      BY <2>5 DEF WriteLValue
    <3>3. w[lv.var] = val /\ \A m \in Names : m # lv.var => w[m] = Top.store[m]
      BY <1>0, <3>1, <3>2 DEF Store, Names
    <3>4. ASSUME NEW y \in Leaves PROVE Get(w, y) = IF y = lv THEN val ELSE Get(Top.store, y)
      <4>1. y.var \in Names /\ "hs" \in Names /\ "hs" # lv.var
        BY <3>1, LeafShape DEF Names
      <4>2. CASE y = lv
        BY <3>1, <3>3, <4>2 DEF Get
      <4>3. CASE y # lv
        <5>1. y.var # lv.var
          BY <3>1, <4>3, SameLeaf
        <5> QED BY <3>3, <4>1, <4>3, <5>1 DEF Get
      <4> QED BY <4>2, <4>3
    <3> HIDE DEF w
    <3>5. val \in IF lv.var = "i" THEN 0 .. Size ELSE Values
      BY <3>1
    <3>6. frames' = [frames EXCEPT ![Len(frames)].store = w]
      BY <1>0, <2>3
    <3>7. \A y \in Leaves : Get(w, y) = IF y = lv THEN val ELSE Get(frames[Len(frames)].store, y)
      BY <1>0, <3>4 DEF Top
    <3>8. LeafWrite(frames, frames', lv, w, val)
      BY <3>6, <3>7, <3>5 DEF LeafWrite
    <3> QED BY <2>4, <3>1, <3>8 DEF LeafWritten
  <2>6. CASE lv.index # NoIndex /\ k < Size
    <3> DEFINE x == [var |-> "hs", index |-> [op |-> "literal", n |-> k]]
    <3>1. k \in 0 .. Size - 1
      BY <1>0, <2>2, <2>6, IndexInRange DEF LValues
    <3>2. x \in Leaves
      BY <3>1 DEF Leaves
    <3>3. w = [Top.store EXCEPT !.hs[k] = val]
      BY <2>6 DEF WriteLValue
    <3>4. /\ w.hs[k] = val /\ \A j \in 0 .. Size - 1 : j # k => w.hs[j] = Top.store.hs[j]
          /\ \A m \in {"h", "g", "i"} : w[m] = Top.store[m]
      <4> HIDE DEF k, w
      <4> QED BY <1>0, <3>1, <3>3 DEF Store
    <3>5. ASSUME NEW y \in Leaves PROVE Get(w, y) = IF y = x THEN val ELSE Get(Top.store, y)
      <4> HIDE DEF k, w
      <4>1. CASE y.var = "hs"
        <5>1. y.index.n \in 0 .. Size - 1 /\ (y = x <=> y.index.n = k)
          BY <4>1, LeafShape
        <5> QED BY <3>4, <4>1, <5>1 DEF Get
      <4>2. CASE y.var # "hs"
        <5>1. y # x /\ y.var \in {"h", "g", "i"}
          BY <4>2, LeafShape
        <5> QED BY <3>4, <4>2, <5>1 DEF Get
      <4> QED BY <4>1, <4>2
    <3>6. val \in IF x.var = "i" THEN 0 .. Size ELSE Values
      OBVIOUS
    <3> HIDE DEF w, x
    <3>7. frames' = [frames EXCEPT ![Len(frames)].store = w]
      BY <1>0, <2>3
    <3>8. \A y \in Leaves : Get(w, y) = IF y = x THEN val ELSE Get(frames[Len(frames)].store, y)
      BY <1>0, <3>5 DEF Top
    <3>9. LeafWrite(frames, frames', x, w, val)
      BY <3>7, <3>8, <3>6 DEF LeafWrite
    <3> QED BY <2>4, <3>2, <3>9 DEF LeafWritten
  <2>7. CASE lv.index # NoIndex /\ ~(k < Size)
    <3>1. w = Top.store
      BY <2>7 DEF WriteLValue
    <3>2. [Top EXCEPT !.store = w] = Top
      BY <1>0, <3>1 DEF Frame
    <3>3. frames' = [frames EXCEPT ![Depth] = Top]
      BY <2>3, <3>2 DEF Top
    <3> QED BY <1>0, <3>3 DEF Top
  <2> QED BY <2>5, <2>6, <2>7
<1>2. CASE AssignIndex
  <2>1. PICK k \in 0 .. Size : frames' = [frames EXCEPT ![Depth].store.i = k]
    BY <1>2 DEF AssignIndex
  <2> DEFINE w == [Top.store EXCEPT !.i = k]
             x == [var |-> "i", index |-> NoIndex]
  <2>2. w \in Store /\ w["i"] = k /\ \A m \in {"hs", "h", "g"} : w[m] = Top.store[m]
    BY <1>0 DEF Store
  <2>3. frames' = [frames EXCEPT ![Depth].store = w]
    BY <2>1 DEF Top
  <2>4. x \in Leaves
    BY DEF Leaves
  <2>5. ASSUME NEW y \in Leaves PROVE Get(w, y) = IF y = x THEN k ELSE Get(Top.store, y)
    <3>1. y = x <=> y.var = "i"
      BY LeafShape
    <3>2. y.var \in {"hs", "h", "g", "i"}
      BY LeafShape
    <3> HIDE DEF w, x
    <3> QED BY <2>2, <3>1, <3>2 DEF Get
  <2>6. k \in IF x.var = "i" THEN 0 .. Size ELSE Values
    OBVIOUS
  <2> HIDE DEF w, x
  <2>7. frames' = [frames EXCEPT ![Len(frames)].store = w]
    BY <1>0, <2>3
  <2>8. \A y \in Leaves : Get(w, y) = IF y = x THEN k ELSE Get(frames[Len(frames)].store, y)
    BY <1>0, <2>5 DEF Top
  <2>9. LeafWrite(frames, frames', x, w, k)
    BY <2>7, <2>8, <2>6 DEF LeafWrite
  <2> QED BY <2>2, <2>4, <2>9 DEF LeafWritten
<1> QED BY <1>1, <1>2

(* A shared parameter starts at zero if it is out, else at what it is bound to.*)
LEMMA CallCopiesIn ==
  ASSUME NEW c \in Calls, NEW s \in Store, NEW f \in Frame, Linked(f), f.dir = c.dir,
         f.arg = ResolvedArgs(c, s), f.store = CopyIn(c, ResolvedArgs(c, s), s)
  PROVE  CopiesIn(f, s)
<1> SUFFICES ASSUME NEW t \in Leaves, NEW x \in Leaves, Sent(f, t, x)
             PROVE  Get(f.store, t) = IF f.dir[t.var] = "out" THEN 0 ELSE Get(s, x)
  BY DEF CopiesIn
<1> DEFINE m == t.var
<1>1. m \in Shared(f) /\ m \in Names /\ f.dir[m] \in {"out", "inout"}
  BY DEF Sent, Shared, OutDirections
<1>2. f.store[m] = IF f.dir[m] \in {"in", "inout"} THEN ReadLValue(s, f.arg[m]) ELSE Zeros[m]
  BY <1>1 DEF CopyIn
<1>3. CASE f.dir[m] = "out"
  <2>1. f.store[m] = Zeros[m]
    BY <1>2, <1>3
  <2>2. CASE m = "hs"
    <3>1. f.store["hs"] = [k \in 0 .. Size - 1 |-> 0] /\ t.index.n \in 0 .. Size - 1
      BY <2>1, <2>2, LeafShape DEF Zeros
    <3> QED BY <1>3, <2>2, <3>1 DEF Get
  <2>3. CASE m # "hs"
    <3>1. Zeros[m] = 0
      BY <2>3, LeafShape DEF Zeros
    <3> QED BY <1>3, <2>1, <2>3, <3>1 DEF Get
  <2> QED BY <2>2, <2>3
<1>4. CASE f.dir[m] = "inout"
  <2>1. f.store[m] = ReadLValue(s, f.arg[m])
    BY <1>2, <1>4
  <2>2. CASE m = "hs"
    <3>1. f.arg["hs"] = [var |-> "hs", index |-> NoIndex]
      BY <1>1, <2>2 DEF Linked, Places, HeaderNames
    <3>2. f.store["hs"] = s["hs"] /\ x = t
      BY <2>1, <2>2, <3>1 DEF ReadLValue, Sent
    <3> QED BY <1>4, <2>2, <3>2 DEF Get
  <2>3. CASE m # "hs"
    <3>1. x = f.arg[m]
      BY <2>3 DEF Sent
    <3>2. CASE x.var = "hs"
      <4>1. x.index # NoIndex /\ x.index.op = "literal" /\ x.index.n \in 0 .. Size - 1
        BY <3>2, LeafShape DEF NoIndex
      <4>2. IndexValue(s, x.index) = x.index.n /\ x.index.n < Size
        BY <4>1, CallsAssumption DEF IndexValue
      <4>3. ReadLValue(s, x) = s.hs[x.index.n]
        BY <4>1, <4>2 DEF ReadLValue
      <4> QED BY <1>4, <2>1, <2>3, <3>1, <3>2, <4>3 DEF Get
    <3>3. CASE x.var # "hs"
      <4>1. ReadLValue(s, x) = s[x.var]
        BY <3>3, LeafShape DEF ReadLValue
      <4> QED BY <1>4, <2>1, <2>3, <3>1, <3>3, <4>1 DEF Get
    <3> QED BY <3>2, <3>3
  <2> QED BY <2>2, <2>3
<1> QED BY <1>1, <1>3, <1>4

LEMMA CallPushes ==
  ASSUME IInv, NEW c \in Calls, Accepted(c, Top)
  PROVE  LET args == ResolvedArgs(c, Top.store)
             f == [store |-> CopyIn(c, args, Top.store), dir |-> c.dir, arg |-> args] IN
         f \in Frame /\ Linked(f) /\ CopiesIn(f, Top.store)
<1> DEFINE args == ResolvedArgs(c, Top.store)
           f == [store |-> CopyIn(c, args, Top.store), dir |-> c.dir, arg |-> args]
<1>0. Top \in Frame /\ Top.store \in Store
  BY TopFrame
<1>1. f \in Frame
  BY <1>0, ArgsTyped, CopyInTyped, CallsAssumption DEF Frame
<1>2. /\ f.dir = c.dir /\ f.arg = ResolvedArgs(c, Top.store)
      /\ f.store = CopyIn(c, ResolvedArgs(c, Top.store), Top.store)
  OBVIOUS
<1> HIDE DEF f
<1>3. Linked(f)
  BY <1>0, <1>1, <1>2, CallLinks
<1>4. CopiesIn(f, Top.store)
  BY <1>0, <1>1, <1>2, <1>3, CallCopiesIn
<1> USE DEF f
<1> QED BY <1>1, <1>3, <1>4

LEMMA FrameSteps ==
  ASSUME IInv, Next
  PROVE  \/ frames' = frames
         \/ LeafWritten(frames, frames')
         \/ Depth < MaxDepth /\ Called(frames, frames')
         \/ Depth > 1 /\ frames' = Popped(frames)
<1>1. CASE AssignHeader \/ AssignIndex
  BY <1>1, AssignsLeaf
<1>2. CASE CallBlock
  <2>1. PICK c \in Calls :
          /\ Accepted(c, Top)
          /\ LET args == ResolvedArgs(c, Top.store) IN
             frames' = Append(frames, [store |-> CopyIn(c, args, Top.store),
                                       dir |-> c.dir, arg |-> args])
    BY <1>2 DEF CallBlock
  <2>2. Called(frames, frames')
    BY <2>1, CallPushes DEF Called, Top, Depth
  <2> QED BY <1>2, <2>2 DEF CallBlock
<1>3. CASE RaiseError
  BY <1>3 DEF RaiseError
<1>4. CASE Return \/ Unwind
  BY <1>4 DEF Return, Unwind, PopFrame, Popped, Depth, Top
<1> QED BY <1>1, <1>2, <1>3, <1>4 DEF Next

LEMMA StaysRight == IInv /\ [Next]_vars => IInv'
<1> SUFFICES ASSUME IInv, [Next]_vars PROVE IInv'
  OBVIOUS
<1>0. FramesOK(frames) /\ TypeOK /\ Depth = Len(frames)
  BY DEF IInv, Depth
<1>1. CASE Next
  <2>1. FramesOK(frames') /\ Len(frames') \in 1 .. MaxDepth
    <3>1. CASE frames' = frames
      BY <1>0, <3>1 DEF TypeOK
    <3>2. CASE LeafWritten(frames, frames')
      <4>1. PICK s \in Store : frames' = [frames EXCEPT ![Len(frames)].store = s]
        BY <3>2 DEF LeafWritten, LeafWrite
      <4>2. FramesOK(frames') /\ Len(frames') = Len(frames)
        BY <1>0, <4>1, TopReplaced
      <4> QED BY <1>0, <4>2 DEF TypeOK
    <3>3. CASE Depth < MaxDepth /\ Called(frames, frames')
      <4>1. FramesOK(frames') /\ Len(frames') = Len(frames) + 1
        BY <1>0, <3>3, Pushed DEF Called
      <4> QED BY <1>0, <3>3, <4>1, CallsAssumption DEF TypeOK
    <3>4. CASE Depth > 1 /\ frames' = Popped(frames)
      <4>1. FramesOK(frames') /\ Len(frames') = Len(frames) - 1
        <5>1. Len(frames) > 1
          BY <1>0, <3>4
        <5>2. FramesOK(Popped(frames)) /\ Len(Popped(frames)) = Len(frames) - 1
          BY <1>0, <5>1, PoppedFrames
        <5> QED BY <3>4, <5>2
      <4> QED BY <1>0, <3>4, <4>1, CallsAssumption DEF TypeOK
    <3> QED BY <1>1, <3>1, <3>2, <3>3, <3>4, FrameSteps
  <2>2. phase' \in {"run", "fault", "done"} /\ steps' \in 0 .. MaxSteps
    BY <1>0, <1>1, CallsAssumption
       DEF TypeOK, Next, AssignHeader, AssignIndex, CallBlock, RaiseError, Return, Unwind, Statement
  <2>3. TypeOK'
    BY <2>1, <2>2 DEF TypeOK, Depth, FramesOK
  <2> QED BY <2>1, <2>3 DEF IInv
<1>2. CASE UNCHANGED vars
  BY <1>0, <1>2 DEF IInv, TypeOK, Depth, vars
<1> QED BY <1>1, <1>2

THEOREM Invariant == Spec => []IInv
  BY StartsRight, StaysRight, PTL DEF Spec

(* The stores, arguments and directions of every activation keep their types:  *)
(* the values a call copies in, the places its arguments resolve to and what   *)
(* copy-back writes are of the callee's and the caller's types (Env.for_block, *)
(* resolve_arg, copy_back).                                                    *)
THEOREM TypeCorrect == Spec => []TypeOK
  BY Invariant, PTL DEF IInv

(* CopyOrderIrrelevant, for every stack size and every set of calls: with the  *)
(* arguments the validator accepts, the order of copy-back never matters,      *)
(* whatever the computed indices turned out to be (check_args, may_alias).     *)
THEOREM CopyOrderNeverMatters == Spec => []CopyOrderIrrelevant
<1>1. IInv => CopyOrderIrrelevant
  <2> SUFFICES ASSUME IInv, NEW d \in 2 .. Depth, NEW order \in Orders
               PROVE  CopyBackIn(order, frames[d], frames[d - 1].store)
                        = CopyBack(frames[d], frames[d - 1].store)
    BY DEF CopyOrderIrrelevant
  <2>1. frames[d] \in Frame /\ frames[d - 1] \in Frame /\ Linked(frames[d])
    BY ElementOfSeq DEF IInv, FramesOK, Depth
  <2>2. frames[d - 1].store \in Store
    BY <2>1 DEF Frame
  <2> QED BY <2>1, <2>2, SameInAnyOrder
<1> QED BY <1>1, Invariant, PTL

-----------------------------------------------------------------------------
(* The recursive functions of the refinement mapping                           *)

LEMMA ReturnTyped ==
  ASSUME NEW fs, FramesOK(fs), NEW d \in 2 .. Len(fs), NEW s \in Store
  PROVE  LET f == [fs[d] EXCEPT !.store = s] IN
         /\ f \in Frame /\ f.store = s /\ Linked(f) /\ SameLinks(f, fs[d])
         /\ fs[d - 1].store \in Store
         /\ CopyBack(f, fs[d - 1].store) \in Store
         /\ CopiedBack(f, fs[d - 1].store, CopyBack(f, fs[d - 1].store))
<1> DEFINE f == [fs[d] EXCEPT !.store = s]
<1>1. d \in 1 .. Len(fs) /\ d - 1 \in 1 .. Len(fs)
  BY DEF FramesOK
<1>2. fs[d] \in Frame /\ Linked(fs[d]) /\ fs[d - 1] \in Frame
  BY <1>1, ElementOfSeq DEF FramesOK
<1>3. f \in Frame /\ f.store = s /\ SameLinks(f, fs[d])
  BY <1>2, NewStore
<1> HIDE DEF f
<1>4. Linked(f) /\ fs[d - 1].store \in Store
  BY <1>2, <1>3, LinkedAsBefore DEF Frame
<1>5. CopyBack(f, fs[d - 1].store) \in Store
      /\ CopiedBack(f, fs[d - 1].store, CopyBack(f, fs[d - 1].store))
  BY <1>3, <1>4, CopyBackLeaves, CopyBackOrder DEF CopyBack
<1> USE DEF f
<1> QED BY <1>3, <1>4, <1>5

LEMMA ViewSteps ==
  ASSUME NEW fs, FramesOK(fs)
  PROVE  LET n == Len(fs)
             v == View(fs) IN
         /\ v \in [1 .. n -> Store]
         /\ v[n] = fs[n].store
         /\ \A d \in 1 .. n - 1 :
              v[d] = CopyBack([fs[d + 1] EXCEPT !.store = v[d + 1]], fs[d].store)
<1> DEFINE n == Len(fs)
           Back(k, s) == CopyBack([fs[n - k + 1] EXCEPT !.store = s], fs[n - k].store)
           it == CHOOSE it : it = [k \in 0 .. Len(fs) - 1 |->
                   IF k = 0 THEN fs[Len(fs)].store
                   ELSE CopyBack([fs[Len(fs) - k + 1] EXCEPT !.store = it[k - 1]],
                                 fs[Len(fs) - k].store)]
           step == [k \in 1 .. n - 1 |-> [s \in Store |-> Back(k, s)]]
           G == {k \in 0 .. n - 1 : it[k] \in Store}
<1>1. n \in Nat \ {0} /\ n - 1 \in Nat /\ fs[n].store \in Store
  <2>1. n \in Nat \ {0} /\ n \in 1 .. n
    BY DEF FramesOK
  <2>2. fs[n] \in Frame
    BY <2>1, ElementOfSeq DEF FramesOK
  <2> QED BY <2>1, <2>2 DEF Frame
<1>2. ASSUME NEW k \in 1 .. n - 1, NEW s \in Store PROVE Back(k, s) \in Store
  <2>1. n - k + 1 \in 2 .. Len(fs) /\ (n - k + 1) - 1 = n - k
    BY <1>1
  <2> QED BY <2>1, ReturnTyped
<1>3. View(fs) = [d \in 1 .. Len(fs) |-> it[Len(fs) - d]]
  BY DEF View
<1>4. step \in Steps(n - 1, Store)
  <2> HIDE DEF Back, n
  <2> QED BY <1>2 DEF Steps
<1>5. Iterations(n - 1, Store, fs[n].store, step) # {}
  <2> HIDE DEF step, n, it
  <2> QED BY <1>1, <1>4, Iterates
<1>6. PICK g \in [0 .. n - 1 -> Store] :
        g[0] = fs[n].store /\ \A k \in 1 .. n - 1 : g[k] = step[k][g[k - 1]]
  <2> HIDE DEF step, n, it
  <2> QED BY <1>5 DEF Iterations
<1>7. \A k \in 1 .. n - 1 : g[k] = Back(k, g[k - 1])
  <2> TAKE k \in 1 .. n - 1
  <2>1. k - 1 \in 0 .. n - 1
    BY <1>1
  <2>2. g[k - 1] \in Store /\ g[k] = step[k][g[k - 1]]
    <3> HIDE DEF step, Back, n, it
    <3> QED BY <1>6, <2>1
  <2> HIDE DEF Back, n, it
  <2> QED BY <2>2
<1>8. g = [k \in 0 .. Len(fs) - 1 |->
             IF k = 0 THEN fs[Len(fs)].store
             ELSE CopyBack([fs[Len(fs) - k + 1] EXCEPT !.store = g[k - 1]], fs[Len(fs) - k].store)]
  <2>1. g = [k \in 0 .. n - 1 |-> IF k = 0 THEN fs[n].store ELSE Back(k, g[k - 1])]
    <3> HIDE DEF Back, n, step, it
    <3> QED BY <1>1, <1>6, <1>7
  <2> QED BY <2>1
<1>9. it = [k \in 0 .. Len(fs) - 1 |->
             IF k = 0 THEN fs[Len(fs)].store
             ELSE CopyBack([fs[Len(fs) - k + 1] EXCEPT !.store = it[k - 1]], fs[Len(fs) - k].store)]
  BY <1>8
<1>10. it[0] = fs[n].store /\ \A k \in 1 .. n - 1 : it[k] = Back(k, it[k - 1])
  <2> HIDE DEF it
  <2>1. it = [k \in 0 .. n - 1 |-> IF k = 0 THEN fs[n].store ELSE Back(k, it[k - 1])]
    BY <1>9
  <2> HIDE DEF Back, n
  <2> QED BY <1>1, <2>1
<1> HIDE DEF it, step, Back
<1>11. 0 \in G /\ \A k \in 1 .. n - 1 : k - 1 \in G => k \in G
  BY <1>1, <1>2, <1>10
<1> HIDE DEF G
<1>12. \A k \in 0 .. n - 1 : k \in G
  BY <1>1, <1>11, Upward
<1>13. \A k \in 0 .. n - 1 : it[k] \in Store
  BY <1>12 DEF G
<1>14. View(fs) \in [1 .. n -> Store]
  BY <1>1, <1>3, <1>13
<1>15. View(fs)[n] = fs[n].store
  BY <1>1, <1>3, <1>10
<1>16. ASSUME NEW d \in 1 .. n - 1
       PROVE  View(fs)[d] = CopyBack([fs[d + 1] EXCEPT !.store = View(fs)[d + 1]], fs[d].store)
  <2>1. View(fs)[d] = it[n - d] /\ View(fs)[d + 1] = it[n - d - 1] /\ n - d \in 1 .. n - 1
    BY <1>1, <1>3
  <2>2. it[n - d] = Back(n - d, it[n - d - 1])
    BY <1>10, <2>1
  <2>3. n - (n - d) + 1 = d + 1 /\ n - (n - d) = d
    BY <1>1
  <2>4. Back(n - d, it[n - d - 1]) = CopyBack([fs[d + 1] EXCEPT !.store = it[n - d - 1]], fs[d].store)
    BY <2>3 DEF Back
  <2> QED BY <2>1, <2>2, <2>4
<1> QED BY <1>14, <1>15, <1>16

-----------------------------------------------------------------------------
(* Addresses                                                                   *)

Addresses == [at : Nat \ {0}, var : Names, elem : {Whole} \cup 0 .. Size - 1]
Refs == [Names -> Addresses]
Own(d) == [n \in Names |-> OwnCell(d, n)]

(* What a leaf denotes, given what the names denote.                           *)
Addr(refs, a) == IF a.var = "hs" THEN [refs["hs"] EXCEPT !.elem = a.index.n] ELSE refs[a.var]
OwnLeaf(d, a) == [at |-> d, var |-> a.var, elem |-> IF a.var = "hs" THEN a.index.n ELSE Whole]

LEMMA OwnTyped ==
  ASSUME NEW d \in Nat \ {0}
  PROVE  Own(d) \in Refs /\ \A a \in Leaves : Addr(Own(d), a) = OwnLeaf(d, a)
<1>1. \A n \in Names : OwnCell(d, n) \in Addresses
  BY DEF OwnCell, Addresses, Whole
<1>2. Own(d) \in Refs
  BY <1>1 DEF Own, Refs
<1>3. ASSUME NEW a \in Leaves PROVE Addr(Own(d), a) = OwnLeaf(d, a)
  <2>1. a.var \in Names /\ "hs" \in Names
    BY LeafShape DEF Names
  <2>2. Own(d)[a.var] = OwnCell(d, a.var) /\ Own(d)["hs"] = OwnCell(d, "hs")
    BY <2>1 DEF Own
  <2> QED BY <2>2 DEF Addr, OwnLeaf, OwnCell
<1> QED BY <1>2, <1>3

LEMMA OwnLeavesDiffer ==
  ASSUME NEW d, NEW e, NEW a \in Leaves, NEW b \in Leaves, OwnLeaf(d, a) = OwnLeaf(e, b)
  PROVE  d = e /\ a = b
<1>1. d = e /\ a.var = b.var
  BY DEF OwnLeaf
<1>2. a.var = "hs" => a.index.n = b.index.n
  BY <1>1 DEF OwnLeaf
<1> QED BY <1>1, <1>2, SameLeaf

LEMMA BindingTyped ==
  ASSUME NEW f \in Frame, Linked(f), NEW d \in Nat \ {0}, NEW caller \in Refs
  PROVE  Binding(f, d, caller) \in Refs
<1> DEFINE e(n) == LET lv == f.arg[n] IN
                   IF n \notin Shared(f) THEN OwnCell(d, n)
                   ELSE IF lv.index = NoIndex THEN caller[lv.var]
                   ELSE IF lv.index.n < Size THEN [caller["hs"] EXCEPT !.elem = lv.index.n]
                   ELSE OwnCell(d, n)
<1>1. Binding(f, d, caller) = [n \in Names |-> e(n)]
  BY DEF Binding
<1>2. ASSUME NEW n \in Names PROVE e(n) \in Addresses
  <2> DEFINE lv == f.arg[n]
  <2>1. OwnCell(d, n) \in Addresses
    BY DEF OwnCell, Addresses, Whole
  <2>2. \A m \in Names : caller[m] \in Addresses
    BY DEF Refs
  <2>3. ASSUME n \in Shared(f), lv.index # NoIndex, lv.index.n < Size
        PROVE  [caller["hs"] EXCEPT !.elem = lv.index.n] \in Addresses
    <3>1. lv \in Places(n)
      BY <2>3 DEF Linked
    <3>2. lv.index.n \in 0 .. Size - 1
      BY <2>3, <3>1, CallsAssumption DEF Places
    <3>3. caller["hs"] \in Addresses
      BY <2>2 DEF Names
    <3> QED BY <3>2, <3>3 DEF Addresses
  <2>4. ASSUME n \in Shared(f) PROVE lv.var \in Names
    <3>1. lv \in Places(n)
      BY <2>4 DEF Linked
    <3> HIDE DEF lv
    <3>2. CASE n \in HeaderNames
      BY <3>1, <3>2 DEF Places, Names, HeaderNames
    <3>3. CASE n \notin HeaderNames
      BY <3>1, <3>3 DEF Places
    <3> QED BY <3>2, <3>3
  <2> HIDE DEF lv
  <2> QED BY <2>1, <2>2, <2>3, <2>4 DEF lv
<1> HIDE DEF e
<1> QED BY <1>1, <1>2 DEF Refs

(* A leaf that copy-back sends denotes what it is sent to denotes; any other   *)
(* denotes a leaf of the activation's own.                                     *)
LEMMA BindingLeaves ==
  ASSUME NEW f \in Frame, Linked(f), NEW d \in Nat \ {0}, NEW caller \in Refs, NEW t \in Leaves
  PROVE  /\ \A s \in Leaves : Sent(f, t, s) => Addr(Binding(f, d, caller), t) = Addr(caller, s)
         /\ (\A s \in Leaves : ~Sent(f, t, s)) => Addr(Binding(f, d, caller), t) = OwnLeaf(d, t)
<1> DEFINE b == Binding(f, d, caller)
           lv == f.arg[t.var]
<1>0. t.var \in Names /\ "hs" \in Names /\ Size \in Nat
  BY LeafShape, CallsAssumption DEF Names
<1>1. b[t.var] = IF t.var \notin Shared(f) THEN OwnCell(d, t.var)
                 ELSE IF lv.index = NoIndex THEN caller[lv.var]
                 ELSE IF lv.index.n < Size THEN [caller["hs"] EXCEPT !.elem = lv.index.n]
                 ELSE OwnCell(d, t.var)
  BY <1>0 DEF Binding
<1> HIDE DEF b
<1>2. CASE t.var \notin Shared(f)
  <2>1. \A s \in Leaves : ~Sent(f, t, s)
    BY <1>2 DEF Sent
  <2>2. Addr(b, t) = OwnLeaf(d, t)
    BY <1>1, <1>2 DEF Addr, OwnLeaf, OwnCell
  <2> QED BY <2>1, <2>2 DEF b
<1>3. CASE t.var \in Shared(f) /\ t.var = "hs"
  <2>1. lv = [var |-> "hs", index |-> NoIndex]
    BY <1>3 DEF Linked, Places, HeaderNames
  <2>2. b["hs"] = caller["hs"]
    BY <1>1, <1>3, <2>1
  <2>3. Sent(f, t, t) /\ \A s \in Leaves : Sent(f, t, s) => s = t
    BY <1>3 DEF Sent
  <2>4. Addr(b, t) = Addr(caller, t)
    BY <2>2, <1>3 DEF Addr
  <2> QED BY <2>3, <2>4 DEF b
<1>4. CASE t.var \in Shared(f) /\ t.var # "hs" /\ lv.index = NoIndex
  <2>1. lv \in Places(t.var) /\ t.var \in {"h", "g", "i"}
    BY <1>4, LeafShape DEF Linked
  <2>2. lv.var \in {"h", "g", "i"} /\ lv = [var |-> lv.var, index |-> NoIndex]
    BY <1>4, <2>1 DEF Places, HeaderNames, NoIndex
  <2>3. lv \in Leaves
    BY <2>2 DEF Leaves
  <2>4. Sent(f, t, lv) /\ \A s \in Leaves : Sent(f, t, s) => s = lv
    BY <1>4 DEF Sent
  <2>5. Addr(b, t) = caller[lv.var]
    BY <1>1, <1>4 DEF Addr
  <2>6. Addr(caller, lv) = caller[lv.var]
    BY <2>2 DEF Addr
  <2> HIDE DEF lv
  <2> QED BY <2>3, <2>4, <2>5, <2>6 DEF b
<1>5. CASE t.var \in Shared(f) /\ t.var # "hs" /\ lv.index # NoIndex
  <2> DEFINE k == lv.index.n
  <2>1. lv \in Places(t.var) /\ t.var \in {"h", "g", "i"}
    BY <1>5, LeafShape DEF Linked
  <2>2. k \in 0 .. Size /\ lv = [var |-> "hs", index |-> [op |-> "literal", n |-> k]]
    BY <1>5, <2>1 DEF Places, HeaderNames, NoIndex
  <2>3. \A s \in Leaves : Sent(f, t, s) => s = lv
    BY <1>5 DEF Sent
  <2>4. CASE k < Size
    <3>1. lv \in Leaves
      BY <1>0, <2>2, <2>4 DEF Leaves
    <3>2. Sent(f, t, lv)
      BY <1>5 DEF Sent
    <3>3. Addr(b, t) = [caller["hs"] EXCEPT !.elem = k]
      BY <1>1, <1>5, <2>4 DEF Addr
    <3>4. Addr(caller, lv) = [caller["hs"] EXCEPT !.elem = k]
      BY <2>2 DEF Addr
    <3> HIDE DEF lv, k
    <3> QED BY <2>3, <3>1, <3>2, <3>3, <3>4 DEF b
  <2>5. CASE ~(k < Size)
    <3>1. lv \notin Leaves
      <4> SUFFICES ASSUME lv \in Leaves PROVE FALSE
        OBVIOUS
      <4>1. lv.var = "hs"
        BY <2>2
      <4>2. k \in 0 .. Size - 1
        BY <4>1, LeafShape
      <4> QED BY <4>2, <2>5, <1>0
    <3>2. \A s \in Leaves : ~Sent(f, t, s)
      <4> HIDE DEF lv, k
      <4> QED BY <2>3, <3>1
    <3>3. b[t.var] = OwnCell(d, t.var)
      BY <1>1, <1>5, <2>5
    <3>4. Addr(b, t) = OwnLeaf(d, t)
      BY <1>5, <3>3 DEF Addr, OwnLeaf, OwnCell
    <3> QED BY <3>2, <3>4 DEF b
  <2> QED BY <2>4, <2>5
<1> QED BY <1>2, <1>3, <1>4, <1>5

LEMMA DenotedSteps ==
  ASSUME NEW fs, FramesOK(fs)
  PROVE  LET n == Len(fs)
             r == Denoted(fs) IN
         /\ r \in [1 .. n -> Refs]
         /\ r[1] = Own(1)
         /\ \A d \in 2 .. n : r[d] = Binding(fs[d], d, r[d - 1])
<1> DEFINE n == Len(fs)
           ref == CHOOSE ref : ref = [d \in 1 .. Len(fs) |->
                    IF d = 1 THEN [m \in Names |-> OwnCell(1, m)]
                    ELSE Binding(fs[d], d, ref[d - 1])]
           step == [k \in 1 .. n - 1 |-> [x \in Refs |-> Binding(fs[k + 1], k + 1, x)]]
           G == {0} \cup {k \in 1 .. n : ref[k] \in Refs}
<1>1. n \in Nat \ {0} /\ n - 1 \in Nat /\ \A d \in 1 .. n : fs[d] \in Frame /\ Linked(fs[d])
  BY ElementOfSeq DEF FramesOK
<1>2. Own(1) \in Refs /\ Own(1) = [m \in Names |-> OwnCell(1, m)]
  BY OwnTyped DEF Own
<1>3. Denoted(fs) = ref
  BY DEF Denoted
<1>4. step \in Steps(n - 1, Refs)
  <2>1. ASSUME NEW k \in 1 .. n - 1, NEW x \in Refs PROVE Binding(fs[k + 1], k + 1, x) \in Refs
    <3>1. k + 1 \in 1 .. n /\ k + 1 \in Nat \ {0}
      BY <1>1
    <3> QED BY <1>1, <3>1, BindingTyped
  <2> HIDE DEF n
  <2> QED BY <2>1 DEF Steps
<1>5. Iterations(n - 1, Refs, Own(1), step) # {}
  <2> HIDE DEF step, n, ref, G
  <2> QED BY <1>1, <1>2, <1>4, Iterates
<1>6. PICK g \in [0 .. n - 1 -> Refs] :
        g[0] = Own(1) /\ \A k \in 1 .. n - 1 : g[k] = step[k][g[k - 1]]
  <2> HIDE DEF step, n, ref, G
  <2> QED BY <1>5 DEF Iterations
<1>7. \A k \in 1 .. n - 1 : g[k] = Binding(fs[k + 1], k + 1, g[k - 1])
  <2> TAKE k \in 1 .. n - 1
  <2>1. k - 1 \in 0 .. n - 1
    BY <1>1
  <2>2. g[k - 1] \in Refs /\ g[k] = step[k][g[k - 1]]
    <3> HIDE DEF step, n, ref
    <3> QED BY <1>6, <2>1
  <2> HIDE DEF n, ref
  <2> QED BY <2>2
<1> DEFINE h == [d \in 1 .. n |-> g[d - 1]]
<1>8. h = [d \in 1 .. Len(fs) |-> IF d = 1 THEN [m \in Names |-> OwnCell(1, m)]
                                  ELSE Binding(fs[d], d, h[d - 1])]
  <2>1. ASSUME NEW d \in 1 .. n, d # 1 PROVE g[d - 1] = Binding(fs[d], d, h[d - 1])
    <3>1. d - 1 \in 1 .. n - 1 /\ (d - 1) + 1 = d /\ h[d - 1] = g[(d - 1) - 1]
      BY <1>1, <2>1
    <3> HIDE DEF h, n
    <3> QED BY <1>7, <3>1
  <2>2. h = [d \in 1 .. n |-> IF d = 1 THEN Own(1) ELSE Binding(fs[d], d, h[d - 1])]
    <3>1. \A d \in 1 .. n : g[d - 1] = IF d = 1 THEN Own(1) ELSE Binding(fs[d], d, h[d - 1])
      <4> HIDE DEF h, n
      <4> QED BY <2>1, <1>6
    <3> QED BY <3>1
  <2> HIDE DEF h
  <2> QED BY <2>2, <1>2
<1>9. ref = [d \in 1 .. Len(fs) |-> IF d = 1 THEN [m \in Names |-> OwnCell(1, m)]
                                    ELSE Binding(fs[d], d, ref[d - 1])]
  <2> HIDE DEF h
  <2> QED BY <1>8
<1>10. ref[1] = Own(1) /\ \A d \in 2 .. n : ref[d] = Binding(fs[d], d, ref[d - 1])
  <2> HIDE DEF ref
  <2>1. ref = [d \in 1 .. n |-> IF d = 1 THEN Own(1) ELSE Binding(fs[d], d, ref[d - 1])]
    BY <1>9, <1>2
  <2> HIDE DEF n
  <2> QED BY <1>1, <2>1
<1>11. ASSUME NEW k \in 1 .. n, k - 1 \in G PROVE k \in G
  <2>1. CASE k = 1
    BY <1>2, <1>10, <2>1
  <2>2. CASE k # 1
    <3>1. k \in 2 .. n /\ ref[k - 1] \in Refs /\ k \in Nat \ {0}
      BY <1>11, <2>2, <1>1
    <3> HIDE DEF ref
    <3>2. ref[k] \in Refs
      BY <1>1, <1>10, <3>1, BindingTyped
    <3> QED BY <3>2
  <2> QED BY <2>1, <2>2
<1> HIDE DEF ref
<1>12. 0 \in G
  OBVIOUS
<1> HIDE DEF G
<1>13. \A k \in 0 .. n : k \in G
  BY <1>1, <1>11, <1>12, Upward
<1>14. \A d \in 1 .. n : ref[d] \in Refs
  <2> TAKE d \in 1 .. n
  <2>1. d \in G /\ d # 0
    BY <1>1, <1>13
  <2> QED BY <2>1 DEF G
<1>15. ref = [d \in 1 .. n |-> IF d = 1 THEN Own(1) ELSE Binding(fs[d], d, ref[d - 1])]
  BY <1>9, <1>2
<1>16. ref \in [1 .. n -> Refs]
  <2> HIDE DEF n
  <2> QED BY <1>14, <1>15
<1> QED BY <1>3, <1>10, <1>16

-----------------------------------------------------------------------------
(* What names denote                                                           *)

SameKind(a, b) == a.var = "i" <=> b.var = "i"

LEMMA SentKind ==
  ASSUME NEW f \in Frame, Linked(f), NEW t \in Leaves, NEW s \in Leaves, Sent(f, t, s)
  PROVE  SameKind(t, s)
<1>1. CASE t.var = "hs"
  BY <1>1 DEF Sent, SameKind
<1>2. CASE t.var = "i"
  <2>1. f.arg["i"] = [var |-> "i", index |-> NoIndex] /\ s = f.arg["i"]
    BY <1>2 DEF Sent, Linked, Places, HeaderNames
  <2> QED BY <1>2, <2>1 DEF SameKind
<1>3. CASE t.var \in {"h", "g"}
  <2>1. s \in Places(t.var)
    BY <1>3 DEF Sent, Linked
  <2>2. s.var # "i"
    BY <1>3, <2>1 DEF Places, HeaderNames
  <2> QED BY <1>3, <2>2 DEF SameKind
<1> QED BY <1>1, <1>2, <1>3, LeafShape

(* Each leaf of activation d denotes a leaf of its kind that an activation e,  *)
(* not above d, owns; two leaves denote different ones; the stack of d is a    *)
(* whole stack.                                                                *)
Rooted(r, d) ==
  /\ \A a \in Leaves : \E e \in 1 .. d, b \in Leaves :
       Addr(r[d], a) = OwnLeaf(e, b) /\ Addr(r[e], b) = OwnLeaf(e, b) /\ SameKind(a, b)
  /\ \A a, b \in Leaves : Addr(r[d], a) = Addr(r[d], b) => a = b
  /\ \E e \in 1 .. d : r[d]["hs"] = OwnCell(e, "hs")

LEMMA DenotedRooted ==
  ASSUME NEW fs, FramesOK(fs)
  PROVE  \A d \in 1 .. Len(fs) : Rooted(Denoted(fs), d)
<1> DEFINE n == Len(fs)
           r == Denoted(fs)
           G == {0} \cup {k \in 1 .. n : Rooted(r, k)}
<1>1. n \in Nat \ {0} /\ \A d \in 1 .. n : fs[d] \in Frame /\ Linked(fs[d])
  BY ElementOfSeq DEF FramesOK
<1>2. /\ r \in [1 .. n -> Refs] /\ r[1] = Own(1)
      /\ \A d \in 2 .. n : r[d] = Binding(fs[d], d, r[d - 1])
  BY DenotedSteps
<1> HIDE DEF n, r
<1>3. Rooted(r, 1)
  <2>1. \A a \in Leaves : Addr(r[1], a) = OwnLeaf(1, a)
    BY <1>2, OwnTyped
  <2>2. r[1]["hs"] = OwnCell(1, "hs")
    BY <1>2 DEF Own, Names
  <2>3. 1 \in 1 .. 1 /\ \A a \in Leaves : SameKind(a, a)
    BY DEF SameKind
  <2> QED BY <2>1, <2>2, <2>3, OwnLeavesDiffer DEF Rooted
<1>4. ASSUME NEW d \in 2 .. n, Rooted(r, d - 1) PROVE Rooted(r, d)
  <2> DEFINE f == fs[d]
             c == r[d - 1]
             b == r[d]
  <2>1. f \in Frame /\ Linked(f) /\ d \in Nat \ {0} /\ c \in Refs /\ d - 1 \in 1 .. n
    BY <1>1, <1>2
  <2>2. b = Binding(f, d, c)
    BY <1>2
  <2>3. \A t \in Leaves : /\ \A s \in Leaves : Sent(f, t, s) => Addr(b, t) = Addr(c, s)
                          /\ (\A s \in Leaves : ~Sent(f, t, s)) => Addr(b, t) = OwnLeaf(d, t)
    BY <2>1, <2>2, BindingLeaves
  <2>4. \A a \in Leaves : \E e \in 1 .. d - 1, u \in Leaves :
          Addr(c, a) = OwnLeaf(e, u) /\ Addr(r[e], u) = OwnLeaf(e, u) /\ SameKind(a, u)
    BY <1>4 DEF Rooted
  <2>5. ASSUME NEW t \in Leaves
        PROVE  \/ \E s \in Leaves : Sent(f, t, s) /\ Addr(b, t) = Addr(c, s)
               \/ Addr(b, t) = OwnLeaf(d, t)
    BY <2>3
  <2>6. ASSUME NEW t \in Leaves
        PROVE  \E e \in 1 .. d, u \in Leaves :
                 Addr(b, t) = OwnLeaf(e, u) /\ Addr(r[e], u) = OwnLeaf(e, u) /\ SameKind(t, u)
    <3>1. CASE \E s \in Leaves : Sent(f, t, s) /\ Addr(b, t) = Addr(c, s)
      <4>1. PICK s \in Leaves : Sent(f, t, s) /\ Addr(b, t) = Addr(c, s)
        BY <3>1
      <4>2. PICK e \in 1 .. d - 1, u \in Leaves :
              Addr(c, s) = OwnLeaf(e, u) /\ Addr(r[e], u) = OwnLeaf(e, u) /\ SameKind(s, u)
        BY <2>4
      <4>3. e \in 1 .. d
        BY <2>1
      <4>4. SameKind(t, s)
        BY <2>1, <4>1, SentKind
      <4>5. SameKind(t, u)
        BY <4>2, <4>4 DEF SameKind
      <4> QED BY <4>1, <4>2, <4>3, <4>5
    <3>2. CASE Addr(b, t) = OwnLeaf(d, t)
      <4>1. d \in 1 .. d /\ SameKind(t, t)
        BY <2>1 DEF SameKind
      <4> QED BY <3>2, <4>1
    <3> QED BY <2>5, <3>1, <3>2
  <2>7. ASSUME NEW t \in Leaves, NEW u \in Leaves, NEW s \in Leaves,
               Sent(f, t, s), Addr(b, t) = Addr(c, s), Addr(b, u) = OwnLeaf(d, u)
        PROVE  Addr(b, t) # Addr(b, u)
    <3>1. PICK e \in 1 .. d - 1, v \in Leaves : Addr(c, s) = OwnLeaf(e, v)
      BY <2>4
    <3>2. e # d
      BY <2>1
    <3> HIDE DEF b, c
    <3> QED BY <2>7, <3>1, <3>2, OwnLeavesDiffer
  <2>8. ASSUME NEW t \in Leaves, NEW u \in Leaves, Addr(b, t) = Addr(b, u)
        PROVE  t = u
    <3>1. CASE \E s \in Leaves : Sent(f, t, s) /\ Addr(b, t) = Addr(c, s)
      <4>1. PICK s \in Leaves : Sent(f, t, s) /\ Addr(b, t) = Addr(c, s)
        BY <3>1
      <4>2. PICK v \in Leaves : Sent(f, u, v) /\ Addr(b, u) = Addr(c, v)
        BY <2>5, <2>7, <2>8, <4>1
      <4>3. s = v
        BY <1>4, <2>8, <4>1, <4>2 DEF Rooted
      <4> QED BY <2>1, <4>1, <4>2, <4>3, SentApart
    <3>2. CASE Addr(b, t) = OwnLeaf(d, t)
      <4>1. Addr(b, u) = OwnLeaf(d, u)
        BY <2>5, <2>7, <2>8, <3>2
      <4> QED BY <2>8, <3>2, <4>1, OwnLeavesDiffer
    <3> QED BY <2>5, <3>1, <3>2
  <2>9. \E e \in 1 .. d : b["hs"] = OwnCell(e, "hs")
    <3>1. b["hs"] = LET lv == f.arg["hs"] IN
                    IF "hs" \notin Shared(f) THEN OwnCell(d, "hs")
                    ELSE IF lv.index = NoIndex THEN c[lv.var]
                    ELSE IF lv.index.n < Size THEN [c.hs EXCEPT !.elem = lv.index.n]
                    ELSE OwnCell(d, "hs")
      BY <2>2 DEF Binding, Names
    <3>2. CASE "hs" \notin Shared(f)
      <4>1. b["hs"] = OwnCell(d, "hs")
        BY <3>1, <3>2
      <4> QED BY <4>1, <2>1
    <3>3. CASE "hs" \in Shared(f)
      <4>1. f.arg["hs"] = [var |-> "hs", index |-> NoIndex]
        BY <2>1, <3>3 DEF Linked, Places, HeaderNames
      <4>2. b["hs"] = c["hs"]
        BY <3>1, <3>3, <4>1
      <4>3. PICK e \in 1 .. d - 1 : c["hs"] = OwnCell(e, "hs")
        BY <1>4 DEF Rooted
      <4>4. e \in 1 .. d
        BY <2>1
      <4> QED BY <4>2, <4>3, <4>4
    <3> QED BY <3>2, <3>3
  <2> QED BY <2>6, <2>8, <2>9 DEF Rooted
<1>5. ASSUME NEW k \in 1 .. n, k - 1 \in G PROVE k \in G
  <2>1. CASE k = 1
    BY <1>1, <1>3, <2>1
  <2>2. CASE k # 1
    <3>1. k \in 2 .. n /\ Rooted(r, k - 1)
      BY <1>5, <2>2, <1>1
    <3> QED BY <1>4, <3>1
  <2> QED BY <2>1, <2>2
<1>6. 0 \in G
  OBVIOUS
<1> HIDE DEF G
<1>7. \A k \in 0 .. n : k \in G
  BY <1>1, <1>5, <1>6, Upward
<1>8. \A d \in 1 .. n : Rooted(r, d)
  <2> TAKE d \in 1 .. n
  <2>1. d \in G /\ d # 0
    BY <1>1, <1>7
  <2> QED BY <2>1 DEF G
<1> QED BY <1>8 DEF n, r

(* What names denote depends on directions and arguments alone, and what the   *)
(* names of an activation denote not on those above it.                        *)
LEMMA DenotedPrefix ==
  ASSUME NEW fs, FramesOK(fs), NEW gs, FramesOK(gs), Len(gs) <= Len(fs),
         \A d \in 1 .. Len(gs) : SameLinks(gs[d], fs[d])
  PROVE  \A d \in 1 .. Len(gs) : Denoted(gs)[d] = Denoted(fs)[d]
<1> DEFINE n == Len(gs)
           r == Denoted(gs)
           q == Denoted(fs)
           G == {0} \cup {k \in 1 .. n : r[k] = q[k]}
<1>1. n \in Nat \ {0} /\ Len(fs) \in Nat /\ n <= Len(fs)
  BY DEF FramesOK
<1>2. r[1] = Own(1) /\ \A d \in 2 .. n : r[d] = Binding(gs[d], d, r[d - 1])
  BY DenotedSteps
<1>3. q[1] = Own(1) /\ \A d \in 2 .. Len(fs) : q[d] = Binding(fs[d], d, q[d - 1])
  BY DenotedSteps
<1> HIDE DEF n, r, q
<1>4. \A d \in 1 .. n : \A x : Binding(gs[d], d, x) = Binding(fs[d], d, x)
  BY DEF SameLinks, Binding, Shared, n
<1>5. ASSUME NEW k \in 1 .. n, k - 1 \in G PROVE k \in G
  <2>1. CASE k = 1
    BY <1>1, <1>2, <1>3, <2>1
  <2>2. CASE k # 1
    <3>1. k \in 2 .. n /\ k \in 2 .. Len(fs) /\ r[k - 1] = q[k - 1]
      BY <1>1, <1>5, <2>2
    <3>2. r[k] = q[k]
      BY <1>2, <1>3, <1>4, <3>1
    <3> QED BY <3>2
  <2> QED BY <2>1, <2>2
<1>6. 0 \in G
  OBVIOUS
<1> HIDE DEF G
<1>7. \A k \in 0 .. n : k \in G
  BY <1>1, <1>5, <1>6, Upward
<1>8. \A d \in 1 .. n : r[d] = q[d]
  <2> TAKE d \in 1 .. n
  <2>1. d \in G /\ d # 0
    BY <1>1, <1>7
  <2> QED BY <2>1 DEF G
<1> QED BY <1>8 DEF n, r, q

(* A return does not change what the frames below would hold.                  *)
LEMMA ViewPopped ==
  ASSUME NEW fs, FramesOK(fs), Len(fs) > 1
  PROVE  \A d \in 1 .. Len(fs) - 1 : View(Popped(fs))[d] = View(fs)[d]
<1> DEFINE n == Len(fs) - 1
           gs == Popped(fs)
           v == View(fs)
           w == View(gs)
           G == {k \in 0 .. n - 1 : w[n - k] = v[n - k]}
<1>1. n \in Nat \ {0} /\ n + 1 = Len(fs) /\ n - 1 \in Nat
  BY DEF FramesOK
<1>2. /\ FramesOK(gs) /\ Len(gs) = n
      /\ \A d \in 1 .. n - 1 : gs[d] = fs[d]
      /\ \A d \in 1 .. n : SameLinks(gs[d], fs[d])
      /\ gs[n].store = CopyBack(fs[n + 1], fs[n].store)
  BY PoppedFrames
<1>3. /\ v \in [1 .. n + 1 -> Store] /\ v[n + 1] = fs[n + 1].store
      /\ \A d \in 1 .. (n + 1) - 1 :
           v[d] = CopyBack([fs[d + 1] EXCEPT !.store = v[d + 1]], fs[d].store)
  BY <1>1, ViewSteps
<1>4. /\ w \in [1 .. n -> Store] /\ w[n] = gs[n].store
      /\ \A d \in 1 .. n - 1 :
           w[d] = CopyBack([gs[d + 1] EXCEPT !.store = w[d + 1]], gs[d].store)
  BY <1>2, ViewSteps
<1> HIDE DEF n, gs, v, w
<1>5. ASSUME NEW d \in 1 .. n, NEW s \in Store
      PROVE  [gs[d] EXCEPT !.store = s] = [fs[d] EXCEPT !.store = s]
  <2>1. gs[d] \in Frame /\ fs[d] \in Frame /\ SameLinks(gs[d], fs[d])
    BY <1>1, <1>2, ElementOfSeq DEF FramesOK
  <2> QED BY <2>1 DEF Frame, SameLinks
<1>6. w[n] = v[n]
  <2>1. fs[n + 1] \in Frame
    BY <1>1, ElementOfSeq DEF FramesOK
  <2>2. [fs[n + 1] EXCEPT !.store = v[n + 1]] = fs[n + 1]
    BY <1>3, <2>1 DEF Frame
  <2>3. n \in 1 .. (n + 1) - 1
    BY <1>1
  <2>4. v[n] = CopyBack([fs[n + 1] EXCEPT !.store = v[n + 1]], fs[n].store)
    BY <1>3, <2>3
  <2> QED BY <1>2, <1>4, <2>2, <2>4
<1>7. ASSUME NEW k \in 1 .. n - 1, k - 1 \in G PROVE k \in G
  <2> DEFINE d == n - k
  <2>1. d \in 1 .. n - 1 /\ d + 1 = n - (k - 1) /\ d + 1 \in 1 .. n /\ k \in 0 .. n - 1
        /\ d \in 1 .. (n + 1) - 1
    BY <1>1
  <2> HIDE DEF d
  <2>2. w[d + 1] = v[d + 1] /\ w[d + 1] \in Store
    BY <1>4, <1>7, <2>1
  <2>3. [gs[d + 1] EXCEPT !.store = w[d + 1]] = [fs[d + 1] EXCEPT !.store = v[d + 1]]
    BY <1>5, <2>1, <2>2
  <2>4. gs[d] = fs[d]
    BY <1>2, <2>1
  <2>5. w[d] = v[d]
    BY <1>3, <1>4, <2>1, <2>3, <2>4
  <2> QED BY <2>1, <2>5 DEF d
<1>8. 0 \in G
  BY <1>1, <1>6
<1> HIDE DEF G
<1>9. \A k \in 0 .. n - 1 : k \in G
  BY <1>1, <1>7, <1>8, Upward
<1>10. \A d \in 1 .. n : w[d] = v[d]
  <2> TAKE d \in 1 .. n
  <2>1. n - d \in 0 .. n - 1 /\ n - (n - d) = d
    BY <1>1
  <2>2. n - d \in G
    BY <1>9, <2>1
  <2> QED BY <2>1, <2>2 DEF G
<1> QED BY <1>10 DEF n, v, w, gs

(* The leaves that denote a member of A hold val, the others what they held.   *)
Changes(refs, A, val, before, after) ==
  \A x \in Leaves : Get(after, x) = IF Addr(refs, x) \in A THEN val ELSE Get(before, x)
Reached(refs, A) == \A a \in A : \E x \in Leaves : a = Addr(refs, x)

(* One value written at the top to the leaves that denote A reaches, by the    *)
(* copy-backs, every leaf below that denotes a member of A, and no other.      *)
LEMMA Spread ==
  ASSUME NEW fs, FramesOK(fs), NEW s \in Store, NEW A, NEW val,
         Reached(Denoted(fs)[Len(fs)], A),
         Changes(Denoted(fs)[Len(fs)], A, val, fs[Len(fs)].store, s)
  PROVE  \A d \in 1 .. Len(fs) :
           Changes(Denoted(fs)[d], A, val, View(fs)[d], View([fs EXCEPT ![Len(fs)].store = s])[d])
<1> DEFINE n == Len(fs)
           gs == [fs EXCEPT ![n].store = s]
           r == Denoted(fs)
           v == View(fs)
           w == View(gs)
           Holds(d) ==
             /\ \A x \in Leaves : Get(w[d], x) = IF Addr(r[d], x) \in A THEN val ELSE Get(v[d], x)
             /\ \A a \in A : a.at <= d => \E x \in Leaves : a = Addr(r[d], x)
           G == {k \in 0 .. n - 1 : Holds(n - k)}
<1>1. /\ n \in Nat \ {0} /\ n - 1 \in Nat
      /\ \A d \in 1 .. n : fs[d] \in Frame /\ Linked(fs[d])
  BY ElementOfSeq DEF FramesOK
<1>2. /\ FramesOK(gs) /\ Len(gs) = n /\ gs[n].store = s
      /\ \A d \in 1 .. n - 1 : gs[d] = fs[d]
      /\ \A d \in 1 .. n : SameLinks(gs[d], fs[d])
  BY TopReplaced
<1>3. /\ v \in [1 .. n -> Store] /\ v[n] = fs[n].store
      /\ \A d \in 1 .. n - 1 : v[d] = CopyBack([fs[d + 1] EXCEPT !.store = v[d + 1]], fs[d].store)
  BY ViewSteps
<1>4. /\ w \in [1 .. n -> Store] /\ w[n] = s
      /\ \A d \in 1 .. n - 1 : w[d] = CopyBack([gs[d + 1] EXCEPT !.store = w[d + 1]], gs[d].store)
  BY <1>2, ViewSteps
<1>5. /\ r \in [1 .. n -> Refs]
      /\ \A d \in 2 .. n : r[d] = Binding(fs[d], d, r[d - 1])
      /\ \A d \in 1 .. n : Rooted(r, d)
  BY DenotedSteps, DenotedRooted
<1>6. /\ \A a \in A : \E x \in Leaves : a = Addr(r[n], x)
      /\ \A x \in Leaves : Get(s, x) = IF Addr(r[n], x) \in A THEN val ELSE Get(fs[n].store, x)
  BY DEF Reached, Changes
<1>7. ASSUME NEW d \in 1 .. n - 1, NEW x \in Store, NEW y \in Store
      PROVE  /\ CopiedBack([fs[d + 1] EXCEPT !.store = x], fs[d].store,
                           CopyBack([fs[d + 1] EXCEPT !.store = x], fs[d].store))
             /\ CopiedBack([gs[d + 1] EXCEPT !.store = y], fs[d].store,
                           CopyBack([gs[d + 1] EXCEPT !.store = y], gs[d].store))
             /\ [fs[d + 1] EXCEPT !.store = x].store = x
             /\ [gs[d + 1] EXCEPT !.store = y].store = y
             /\ SameLinks([fs[d + 1] EXCEPT !.store = x], fs[d + 1])
             /\ SameLinks([gs[d + 1] EXCEPT !.store = y], fs[d + 1])
  <2>1. d + 1 \in 2 .. Len(fs) /\ d + 1 \in 2 .. Len(gs) /\ d + 1 \in 1 .. n /\ (d + 1) - 1 = d
    BY <1>1, <1>2
  <2> HIDE DEF gs
  <2>2. /\ CopiedBack([fs[d + 1] EXCEPT !.store = x], fs[d].store,
                      CopyBack([fs[d + 1] EXCEPT !.store = x], fs[d].store))
        /\ [fs[d + 1] EXCEPT !.store = x].store = x
        /\ SameLinks([fs[d + 1] EXCEPT !.store = x], fs[d + 1])
    BY <2>1, ReturnTyped
  <2>3. /\ CopiedBack([gs[d + 1] EXCEPT !.store = y], gs[d].store,
                      CopyBack([gs[d + 1] EXCEPT !.store = y], gs[d].store))
        /\ [gs[d + 1] EXCEPT !.store = y].store = y
        /\ SameLinks([gs[d + 1] EXCEPT !.store = y], gs[d + 1])
    <3>0. FramesOK(gs) /\ d + 1 \in 2 .. Len(gs)
      BY <1>2, <2>1
    <3>1. /\ CopiedBack([gs[d + 1] EXCEPT !.store = y], gs[(d + 1) - 1].store,
                         CopyBack([gs[d + 1] EXCEPT !.store = y], gs[(d + 1) - 1].store))
          /\ [gs[d + 1] EXCEPT !.store = y].store = y
          /\ SameLinks([gs[d + 1] EXCEPT !.store = y], gs[d + 1])
      BY <3>0, ReturnTyped
    <3> QED BY <2>1, <3>1
  <2>4. gs[d] = fs[d] /\ SameLinks(gs[d + 1], fs[d + 1])
    BY <1>2, <2>1
  <2> QED BY <2>2, <2>3, <2>4 DEF SameLinks
<1> HIDE DEF n, gs, r, v, w
<1>8. Holds(n)
  BY <1>3, <1>4, <1>6
<1>9. ASSUME NEW d \in 1 .. n - 1, Holds(d + 1) PROVE Holds(d)
  <2> DEFINE f == fs[d + 1]
             f1 == [fs[d + 1] EXCEPT !.store = v[d + 1]]
             f2 == [gs[d + 1] EXCEPT !.store = w[d + 1]]
             below == fs[d].store
  <2>1. d \in 1 .. n /\ d + 1 \in 2 .. n /\ d + 1 \in 1 .. n /\ (d + 1) - 1 = d /\ d + 1 \in Nat \ {0}
    BY <1>1
  <2>2. v[d + 1] \in Store /\ w[d + 1] \in Store
    BY <1>3, <1>4, <2>1
  <2>3. /\ CopiedBack(f1, below, v[d]) /\ CopiedBack(f2, below, w[d])
        /\ f1.store = v[d + 1] /\ f2.store = w[d + 1]
        /\ SameLinks(f1, f) /\ SameLinks(f2, f)
    <3>1. v[d] = CopyBack(f1, below) /\ w[d] = CopyBack(f2, gs[d].store)
      BY <1>3, <1>4
    <3> QED BY <1>7, <2>2, <3>1
  <2> HIDE DEF f1, f2
  <2>4. \A t, x : (Sent(f1, t, x) <=> Sent(f, t, x)) /\ (Sent(f2, t, x) <=> Sent(f, t, x))
    BY <2>3, LinkedAsBefore
  <2>5. \A x \in Leaves :
          /\ \A t \in Leaves : Sent(f, t, x) =>
               Get(v[d], x) = Get(v[d + 1], t) /\ Get(w[d], x) = Get(w[d + 1], t)
          /\ (\A t \in Leaves : ~Sent(f, t, x)) =>
               Get(v[d], x) = Get(below, x) /\ Get(w[d], x) = Get(below, x)
    BY <2>3, <2>4 DEF CopiedBack
  <2>6. f \in Frame /\ Linked(f) /\ r[d] \in Refs /\ r[d + 1] = Binding(f, d + 1, r[d])
    BY <1>1, <1>5, <2>1
  <2>7. ASSUME NEW t \in Leaves
        PROVE  /\ \A x \in Leaves : Sent(f, t, x) => Addr(r[d + 1], t) = Addr(r[d], x)
               /\ (\A x \in Leaves : ~Sent(f, t, x)) => Addr(r[d + 1], t) = OwnLeaf(d + 1, t)
    BY <2>1, <2>6, BindingLeaves
  <2>8. ASSUME NEW a \in A, a.at <= d
        PROVE  \E t \in Leaves, x \in Leaves :
                 a = Addr(r[d + 1], t) /\ Sent(f, t, x) /\ a = Addr(r[d], x)
    <3>1. a.at <= d + 1
      <4>1. PICK x \in Leaves : a = Addr(r[n], x)
        BY <1>6
      <4>2. PICK e \in 1 .. n, b \in Leaves : a = OwnLeaf(e, b)
        <5>1. Rooted(r, n)
          BY <1>1, <1>5
        <5> QED BY <4>1, <5>1 DEF Rooted
      <4>3. a.at = e
        BY <4>2 DEF OwnLeaf
      <4> QED BY <2>1, <2>8, <4>3
    <3>2. PICK t \in Leaves : a = Addr(r[d + 1], t)
      BY <1>9, <3>1
    <3>3. Addr(r[d + 1], t) # OwnLeaf(d + 1, t)
      <4>1. OwnLeaf(d + 1, t).at = d + 1
        BY DEF OwnLeaf
      <4> QED BY <2>1, <2>8, <3>2, <4>1
    <3>4. PICK x \in Leaves : Sent(f, t, x)
      BY <2>7, <3>3
    <3> QED BY <2>7, <3>2, <3>4
  <2>9. ASSUME NEW x \in Leaves
        PROVE  Get(w[d], x) = IF Addr(r[d], x) \in A THEN val ELSE Get(v[d], x)
    <3>1. CASE \E t \in Leaves : Sent(f, t, x)
      <4>1. PICK t \in Leaves : Sent(f, t, x)
        BY <3>1
      <4>2. Addr(r[d + 1], t) = Addr(r[d], x)
        BY <2>7, <4>1
      <4>3. Get(w[d + 1], t) = IF Addr(r[d + 1], t) \in A THEN val ELSE Get(v[d + 1], t)
        BY <1>9
      <4>4. Get(v[d], x) = Get(v[d + 1], t) /\ Get(w[d], x) = Get(w[d + 1], t)
        BY <2>5, <4>1
      <4> QED BY <4>2, <4>3, <4>4
    <3>2. CASE \A t \in Leaves : ~Sent(f, t, x)
      <4>1. Addr(r[d], x) \notin A
        <5> SUFFICES ASSUME Addr(r[d], x) \in A PROVE FALSE
          OBVIOUS
        <5>1. PICK e \in 1 .. d, b \in Leaves : Addr(r[d], x) = OwnLeaf(e, b)
          BY <1>5, <2>1 DEF Rooted
        <5>2. Addr(r[d], x).at <= d
          BY <5>1 DEF OwnLeaf
        <5>3. PICK t \in Leaves, y \in Leaves : Sent(f, t, y) /\ Addr(r[d], x) = Addr(r[d], y)
          BY <2>8, <5>2
        <5>4. x = y
          BY <1>5, <2>1, <5>3 DEF Rooted
        <5> QED BY <3>2, <5>3, <5>4
      <4> QED BY <2>5, <3>2, <4>1
    <3> QED BY <3>1, <3>2
  <2> QED BY <2>8, <2>9
<1> HIDE DEF Holds
<1>10. ASSUME NEW k \in 1 .. n - 1, k - 1 \in G PROVE k \in G
  <2>1. n - k \in 1 .. n - 1 /\ n - (k - 1) = (n - k) + 1 /\ k \in 0 .. n - 1
    BY <1>1
  <2>2. Holds(n - (k - 1))
    BY <1>10
  <2> QED BY <1>9, <2>1, <2>2
<1>11. 0 \in G
  BY <1>1, <1>8
<1> HIDE DEF G
<1>12. \A k \in 0 .. n - 1 : k \in G
  BY <1>1, <1>10, <1>11, Upward
<1>13. \A d \in 1 .. n : Holds(d)
  <2> TAKE d \in 1 .. n
  <2>1. n - d \in 0 .. n - 1 /\ n - (n - d) = d
    BY <1>1
  <2>2. n - d \in G
    BY <1>12, <2>1
  <2> QED BY <2>1, <2>2 DEF G
<1>14. \A d \in 1 .. n : Changes(r[d], A, val, v[d], w[d])
  BY <1>13 DEF Holds, Changes
<1> QED BY <1>14 DEF n, v, w, gs, r

-----------------------------------------------------------------------------
(* The storage each activation owns                                            *)

LEMMA CellsLeaves ==
  ASSUME NEW fs, FramesOK(fs)
  PROVE  LET n == Len(fs)
             r == Denoted(fs)
             c == OwnCells(fs) IN
         /\ c \in [1 .. n -> Store]
         /\ \A d \in 1 .. n :
              /\ \A x \in Leaves : Get(c[d], x) = IF Addr(r[d], x) = OwnLeaf(d, x)
                                                  THEN Get(View(fs)[d], x) ELSE 0
              /\ \A m \in Names : r[d][m] # OwnCell(d, m) => c[d][m] = Zeros[m]
<1> DEFINE n == Len(fs)
           r == Denoted(fs)
           v == View(fs)
           c == OwnCells(fs)
           e(d, m) == IF r[d][m] = OwnCell(d, m) THEN v[d][m] ELSE Zeros[m]
<1>1. v \in [1 .. n -> Store]
  BY ViewSteps
<1>2. \A d \in 1 .. n : Rooted(r, d)
  BY DenotedRooted
<1>3. c = [d \in 1 .. n |-> [m \in Names |-> e(d, m)]]
  BY DEF OwnCells
<1> HIDE DEF n, r, v, c
<1>4. ASSUME NEW d \in 1 .. n PROVE [m \in Names |-> e(d, m)] \in Store
  <2>1. v[d] \in Store
    BY <1>1
  <2>2. \A m \in Names : e(d, m) = v[d][m] \/ e(d, m) = Zeros[m]
    OBVIOUS
  <2> HIDE DEF e
  <2>3. /\ e(d, "hs") = v[d]["hs"] \/ e(d, "hs") = Zeros["hs"]
        /\ e(d, "h") = v[d]["h"] \/ e(d, "h") = Zeros["h"]
        /\ e(d, "g") = v[d]["g"] \/ e(d, "g") = Zeros["g"]
        /\ e(d, "i") = v[d]["i"] \/ e(d, "i") = Zeros["i"]
    BY <2>2 DEF Names
  <2>4. /\ e(d, "hs") \in [0 .. Size - 1 -> Values] /\ e(d, "i") \in 0 .. Size
        /\ e(d, "h") \in Values /\ e(d, "g") \in Values
    <3>1. \A s \in Store : /\ s["hs"] \in [0 .. Size - 1 -> Values] /\ s["i"] \in 0 .. Size
                           /\ s["h"] \in Values /\ s["g"] \in Values
      BY DEF Store
    <3> QED BY <2>1, <2>3, <3>1, ZerosTyped
  <2> QED BY <2>4 DEF Store, Names
<1>5. c \in [1 .. n -> Store]
  <2> HIDE DEF e
  <2> QED BY <1>3, <1>4
<1>6. ASSUME NEW d \in 1 .. n, NEW m \in Names PROVE c[d][m] = e(d, m)
  <2>1. c[d] = [k \in Names |-> e(d, k)]
    BY <1>3
  <2> HIDE DEF e
  <2> QED BY <2>1
<1>7. ASSUME NEW d \in 1 .. n, NEW x \in Leaves
      PROVE  Get(c[d], x) = IF Addr(r[d], x) = OwnLeaf(d, x) THEN Get(v[d], x) ELSE 0
  <2>1. CASE x.var = "hs"
    <3> DEFINE k == x.index.n
    <3>1. k \in 0 .. Size - 1
      BY <2>1, LeafShape
    <3>2. PICK a \in 1 .. d : r[d]["hs"] = OwnCell(a, "hs")
      BY <1>2 DEF Rooted
    <3>3. Addr(r[d], x) = [at |-> a, var |-> "hs", elem |-> k]
      BY <2>1, <3>2 DEF Addr, OwnCell
    <3>4. OwnLeaf(d, x) = [at |-> d, var |-> "hs", elem |-> k]
      BY <2>1 DEF OwnLeaf
    <3>5. Addr(r[d], x) = OwnLeaf(d, x) <=> a = d
      BY <3>3, <3>4
    <3>6. r[d]["hs"] = OwnCell(d, "hs") <=> a = d
      BY <3>2 DEF OwnCell
    <3>7. c[d]["hs"] = e(d, "hs")
      BY <1>6 DEF Names
    <3>8. Zeros["hs"][k] = 0
      BY <3>1 DEF Zeros
    <3>9. Get(c[d], x) = c[d]["hs"][k] /\ Get(v[d], x) = v[d]["hs"][k]
      BY <2>1 DEF Get
    <3> HIDE DEF k
    <3>10. CASE a = d
      BY <3>5, <3>6, <3>7, <3>9, <3>10
    <3>11. CASE a # d
      BY <3>5, <3>6, <3>7, <3>8, <3>9, <3>11
    <3> QED BY <3>10, <3>11
  <2>2. CASE x.var # "hs"
    <3>1. x.var \in {"h", "g", "i"} /\ x.var \in Names
      BY <2>2, LeafShape DEF Names
    <3>2. c[d][x.var] = e(d, x.var)
      BY <1>6, <3>1
    <3>3. Zeros[x.var] = 0
      BY <3>1 DEF Zeros
    <3>4. OwnLeaf(d, x) = OwnCell(d, x.var) /\ Addr(r[d], x) = r[d][x.var]
      BY <2>2 DEF OwnLeaf, OwnCell, Addr
    <3> QED BY <2>2, <3>2, <3>3, <3>4 DEF Get
  <2> QED BY <2>1, <2>2
<1>8. ASSUME NEW d \in 1 .. n, NEW m \in Names, r[d][m] # OwnCell(d, m) PROVE c[d][m] = Zeros[m]
  BY <1>6, <1>8
<1> QED BY <1>5, <1>7, <1>8 DEF n, r, v, c

(* Storage is told by its leaves.                                              *)
LEMMA SameCells ==
  ASSUME NEW n \in Nat, NEW b \in [1 .. n -> Store], NEW c \in [1 .. n -> Store],
         \A d \in 1 .. n, x \in Leaves : Get(b[d], x) = Get(c[d], x)
  PROVE  b = c
<1>1. ASSUME NEW d \in 1 .. n PROVE b[d] = c[d]
  <2>1. b[d] \in Store /\ c[d] \in Store
    OBVIOUS
  <2> QED BY <2>1, SameStore
<1> QED BY <1>1

LEMMA FunctionIsSeq ==
  ASSUME NEW S, NEW n \in Nat, NEW f \in [1 .. n -> S]
  PROVE  f \in Seq(S) /\ Len(f) = n /\ DOMAIN f = 1 .. n
<1>1. f \in Seq(S)
  BY SeqDef
<1>2. DOMAIN f = 1 .. n /\ DOMAIN f = 1 .. Len(f) /\ Len(f) \in Nat
  BY <1>1, LenProperties
<1> QED BY <1>1, <1>2

LEMMA Prefix ==
  ASSUME NEW S, NEW n \in Nat, NEW k \in 0 .. n, NEW f \in [1 .. n -> S], NEW g \in [1 .. k -> S],
         \A d \in 1 .. k : g[d] = f[d]
  PROVE  SubSeq(f, 1, k) = g
<1>1. f \in Seq(S) /\ Len(f) = n /\ g \in Seq(S) /\ Len(g) = k
  BY FunctionIsSeq
<1>2. \A i \in 1 .. k : f[i] \in S
  OBVIOUS
<1>3. /\ SubSeq(f, 1, k) \in Seq(S) /\ Len(SubSeq(f, 1, k)) = k
      /\ \A i \in 1 .. k : SubSeq(f, 1, k)[i] = f[i]
  BY <1>2, SubSeqProperties
<1> QED BY <1>1, <1>3, SeqEqual

-----------------------------------------------------------------------------
(* The refinement: initial states                                              *)

LEMMA ReferenceTerms ==
  /\ Reference!Names = Names /\ Reference!HeaderNames = HeaderNames /\ Reference!Whole = Whole
  /\ Reference!Store = Store /\ Reference!Zeros = Zeros
  /\ \A d : Reference!Own(d) = Own(d)
  BY DEF Reference!Names, Reference!HeaderNames, Reference!Whole, Reference!Store,
         Reference!Zeros, Reference!Own, Names, HeaderNames, Whole, Store, Zeros, Own, OwnCell

LEMMA MapsToInit == Init => Reference!Init
<1> SUFFICES ASSUME Init PROVE Reference!Init
  OBVIOUS
<1> DEFINE r == Denoted(frames)
           c == OwnCells(frames)
           v == View(frames)
<1>1. FramesOK(frames)
  BY StartsRight DEF IInv
<1>2. Len(frames) = 1 /\ frames[1].store = Zeros
  BY DEF Init
<1>3. r \in [1 .. 1 -> Refs] /\ r[1] = Own(1)
  BY <1>1, <1>2, DenotedSteps
<1>4. v[1] = Zeros
  BY <1>1, <1>2, ViewSteps
<1>5. /\ c \in [1 .. 1 -> Store]
      /\ \A x \in Leaves : Get(c[1], x) = IF Addr(r[1], x) = OwnLeaf(1, x) THEN Get(v[1], x) ELSE 0
  BY <1>1, <1>2, CellsLeaves
<1> HIDE DEF r, c, v
<1>6. \A x \in Leaves : Get(c[1], x) = Get(Zeros, x)
  BY <1>3, <1>4, <1>5, OwnTyped
<1>7. c[1] = Zeros
  BY <1>5, <1>6, SameStore, ZerosTyped
<1>8. r = <<Own(1)>> /\ c = <<Zeros>>
  BY <1>3, <1>5, <1>7
<1> QED BY <1>8, ReferenceTerms DEF Reference!Init, r, c

-----------------------------------------------------------------------------
(* The refinement: a statement's write                                         *)

LEMMA PutLeaves ==
  ASSUME NEW n \in Nat, NEW c \in [1 .. n -> Store], NEW e \in 1 .. n, NEW b \in Leaves,
         NEW val \in IF b.var = "i" THEN 0 .. Size ELSE Values
  PROVE  LET p == Reference!Put(c, OwnLeaf(e, b), val) IN
         /\ p \in [1 .. n -> Store]
         /\ \A d \in 1 .. n, y \in Leaves :
              Get(p[d], y) = IF d = e /\ y = b THEN val ELSE Get(c[d], y)
<1> DEFINE p == Reference!Put(c, OwnLeaf(e, b), val)
           new == IF b.var = "hs" THEN [c[e] EXCEPT !.hs[b.index.n] = val]
                  ELSE [c[e] EXCEPT ![b.var] = val]
<1>1. p = [c EXCEPT ![e] = new]
  <2>1. OwnLeaf(e, b).at = e /\ OwnLeaf(e, b).var = b.var
    BY DEF OwnLeaf
  <2>2. CASE b.var = "hs"
    <3>1. OwnLeaf(e, b).elem = b.index.n /\ b.index.n # Reference!Whole
      BY <2>2, LeafShape DEF OwnLeaf, Reference!Whole
    <3> QED BY <2>1, <2>2, <3>1 DEF Reference!Put
  <2>3. CASE b.var # "hs"
    <3>1. OwnLeaf(e, b).elem = Reference!Whole
      BY <2>3 DEF OwnLeaf, Whole, Reference!Whole
    <3> QED BY <2>1, <2>3, <3>1 DEF Reference!Put
  <2> QED BY <2>2, <2>3
<1>2. c[e] \in Store
  OBVIOUS
<1>3. new \in Store /\ \A y \in Leaves : Get(new, y) = IF y = b THEN val ELSE Get(c[e], y)
  <2>1. CASE b.var = "hs"
    <3> DEFINE k == b.index.n
    <3>1. k \in 0 .. Size - 1 /\ val \in Values
      BY <2>1, LeafShape
    <3>2. new = [c[e] EXCEPT !.hs[k] = val]
      BY <2>1
    <3>3. new \in Store
      <4> HIDE DEF new, k
      <4> QED BY <1>2, <3>1, <3>2 DEF Store
    <3>4. /\ new.hs[k] = val /\ \A j \in 0 .. Size - 1 : j # k => new.hs[j] = c[e].hs[j]
          /\ \A m \in {"h", "g", "i"} : new[m] = c[e][m]
      <4> HIDE DEF new, k
      <4> QED BY <1>2, <3>1, <3>2 DEF Store
    <3> HIDE DEF new
    <3>5. ASSUME NEW y \in Leaves PROVE Get(new, y) = IF y = b THEN val ELSE Get(c[e], y)
      <4>1. CASE y.var = "hs"
        <5>1. y.index.n \in 0 .. Size - 1 /\ (y = b <=> y.index.n = k)
          BY <2>1, <4>1, LeafShape, SameLeaf
        <5> HIDE DEF k
        <5> QED BY <3>4, <4>1, <5>1 DEF Get
      <4>2. CASE y.var # "hs"
        <5>1. y # b /\ y.var \in {"h", "g", "i"}
          BY <2>1, <4>2, LeafShape
        <5> QED BY <3>4, <4>2, <5>1 DEF Get
      <4> QED BY <4>1, <4>2
    <3> QED BY <3>3, <3>5
  <2>2. CASE b.var # "hs"
    <3> DEFINE m == b.var
    <3>1. m \in {"h", "g", "i"} /\ (m = "i" => val \in 0 .. Size) /\ (m # "i" => val \in Values)
      BY <2>2, LeafShape
    <3>2. new = [c[e] EXCEPT ![m] = val]
      BY <2>2
    <3>3. new \in Store /\ new[m] = val /\ \A j \in Names : j # m => new[j] = c[e][j]
      <4> HIDE DEF new, m
      <4> QED BY <1>2, <3>1, <3>2 DEF Store, Names
    <3> HIDE DEF new
    <3>4. ASSUME NEW y \in Leaves PROVE Get(new, y) = IF y = b THEN val ELSE Get(c[e], y)
      <4>1. y.var \in Names /\ "hs" \in Names
        BY LeafShape DEF Names
      <4>2. CASE y = b
        BY <2>2, <3>3, <4>2 DEF Get
      <4>3. CASE y # b
        <5>1. y.var # m
          BY <2>2, <4>3, SameLeaf
        <5> HIDE DEF m
        <5> QED BY <3>1, <3>3, <4>1, <4>3, <5>1 DEF Get
      <4> QED BY <4>2, <4>3
    <3> QED BY <3>3, <3>4
  <2> QED BY <2>1, <2>2
<1> HIDE DEF p, new
<1>4. p \in [1 .. n -> Store] /\ \A d \in 1 .. n : p[d] = IF d = e THEN new ELSE c[d]
  BY <1>1, <1>3
<1>5. ASSUME NEW d \in 1 .. n, NEW y \in Leaves
      PROVE  Get(p[d], y) = IF d = e /\ y = b THEN val ELSE Get(c[d], y)
  <2>1. CASE d = e
    BY <1>3, <1>4, <2>1
  <2>2. CASE d # e
    BY <1>4, <2>2
  <2> QED BY <2>1, <2>2
<1> QED BY <1>4, <1>5 DEF p

LEMMA WriteIsPut ==
  ASSUME NEW fs, FramesOK(fs), NEW gs, NEW x \in Leaves, NEW s \in Store, NEW val,
         LeafWrite(fs, gs, x, s, val)
  PROVE  /\ Denoted(gs) = Denoted(fs)
         /\ OwnCells(gs) = Reference!Put(OwnCells(fs), Addr(Denoted(fs)[Len(fs)], x), val)
<1> DEFINE n == Len(fs)
           r == Denoted(fs)
           c == OwnCells(fs)
           a == Addr(r[n], x)
           A == {a}
<1>1. /\ gs = [fs EXCEPT ![n].store = s] /\ val \in IF x.var = "i" THEN 0 .. Size ELSE Values
      /\ \A y \in Leaves : Get(s, y) = IF y = x THEN val ELSE Get(fs[n].store, y)
  BY DEF LeafWrite
<1>2. n \in Nat \ {0} /\ FramesOK(gs) /\ Len(gs) = n /\ \A d \in 1 .. n : SameLinks(gs[d], fs[d])
  BY <1>1, TopReplaced DEF FramesOK
<1>3. Denoted(gs) = r
  <2>1. \A d \in 1 .. n : Denoted(gs)[d] = r[d]
    BY <1>2, DenotedPrefix
  <2>2. r \in [1 .. n -> Refs] /\ Denoted(gs) \in [1 .. n -> Refs]
    BY <1>2, DenotedSteps
  <2> HIDE DEF r, n
  <2>3. r = [d \in 1 .. n |-> r[d]] /\ Denoted(gs) = [d \in 1 .. n |-> Denoted(gs)[d]]
    BY <2>2
  <2>4. [d \in 1 .. n |-> r[d]] = [d \in 1 .. n |-> Denoted(gs)[d]]
    BY <2>1
  <2> QED BY <2>3, <2>4
<1>4. /\ \A d \in 1 .. n : Rooted(r, d)
      /\ \A y, z \in Leaves : Addr(r[n], y) = Addr(r[n], z) => y = z
  <2>1. \A d \in 1 .. n : Rooted(r, d)
    BY DenotedRooted
  <2>2. Rooted(r, n)
    BY <1>2, <2>1
  <2> HIDE DEF r, n
  <2> QED BY <2>1, <2>2 DEF Rooted
<1>5. PICK e \in 1 .. n, b \in Leaves :
        a = OwnLeaf(e, b) /\ Addr(r[e], b) = OwnLeaf(e, b) /\ SameKind(x, b)
  <2>1. Rooted(r, n)
    BY <1>2, <1>4
  <2> HIDE DEF r
  <2> QED BY <2>1 DEF Rooted
<1>6. \A d \in 1 .. n, y \in Leaves :
        Get(View(gs)[d], y) = IF Addr(r[d], y) \in A THEN val ELSE Get(View(fs)[d], y)
  <2>1. Reached(r[n], A)
    BY DEF Reached
  <2>2. Changes(r[n], A, val, fs[n].store, s)
    BY <1>1, <1>4 DEF Changes
  <2> HIDE DEF A
  <2>3. \A d \in 1 .. n : Changes(r[d], A, val, View(fs)[d], View([fs EXCEPT ![n].store = s])[d])
    BY <2>1, <2>2, Spread
  <2> HIDE DEF n, r
  <2> QED BY <1>1, <2>3 DEF Changes
<1>7. /\ c \in [1 .. n -> Store]
      /\ \A d \in 1 .. n, y \in Leaves :
           Get(c[d], y) = IF Addr(r[d], y) = OwnLeaf(d, y) THEN Get(View(fs)[d], y) ELSE 0
  BY CellsLeaves
<1>8. /\ OwnCells(gs) \in [1 .. n -> Store]
      /\ \A d \in 1 .. n, y \in Leaves :
           Get(OwnCells(gs)[d], y) = IF Addr(r[d], y) = OwnLeaf(d, y) THEN Get(View(gs)[d], y) ELSE 0
  BY <1>2, <1>3, CellsLeaves
<1> DEFINE p == Reference!Put(c, OwnLeaf(e, b), val)
<1>9. /\ p \in [1 .. n -> Store]
      /\ \A d \in 1 .. n, y \in Leaves :
           Get(p[d], y) = IF d = e /\ y = b THEN val ELSE Get(c[d], y)
  <2>1. val \in IF b.var = "i" THEN 0 .. Size ELSE Values
    BY <1>1, <1>5 DEF SameKind
  <2> HIDE DEF c, n
  <2> QED BY <1>2, <1>7, <2>1, PutLeaves
<1> HIDE DEF n, r, c, a, p
<1>10. ASSUME NEW d \in 1 .. n, NEW y \in Leaves
       PROVE  Get(OwnCells(gs)[d], y) = Get(p[d], y)
  <2>1. CASE Addr(r[d], y) = OwnLeaf(d, y)
    <3>1. Addr(r[d], y) \in A <=> d = e /\ y = b
      BY <1>5, <2>1, OwnLeavesDiffer
    <3> HIDE DEF A
    <3> QED BY <1>6, <1>7, <1>8, <1>9, <2>1, <3>1
  <2>2. CASE Addr(r[d], y) # OwnLeaf(d, y)
    <3>1. ~(d = e /\ y = b)
      BY <1>5, <2>2
    <3> QED BY <1>7, <1>8, <1>9, <2>2, <3>1
  <2> QED BY <2>1, <2>2
<1>11. OwnCells(gs) = p
  BY <1>2, <1>8, <1>9, <1>10, SameCells
<1> QED BY <1>3, <1>5, <1>11 DEF n, r, c, a, p

LEMMA MapsToModify ==
  ASSUME IInv, LeafWritten(frames, frames')
  PROVE  Reference!Modify
<1> DEFINE n == Len(frames)
           r == Denoted(frames)
           c == OwnCells(frames)
<1>1. FramesOK(frames) /\ n \in Nat \ {0}
  BY DEF IInv, FramesOK
<1>0. PICK x \in Leaves, s \in Store : \E v : LeafWrite(frames, frames', x, s, v)
  BY DEF LeafWritten
<1>2. PICK val : LeafWrite(frames, frames', x, s, val)
  BY <1>0
<1>3. Denoted(frames') = r /\ OwnCells(frames') = Reference!Put(c, Addr(r[n], x), val)
  BY <1>1, <1>2, WriteIsPut
<1>4. r \in [1 .. n -> Refs] /\ Len(r) = n
  BY <1>1, DenotedSteps, FunctionIsSeq
<1>5. <<Addr(r[n], x), val>> \in Reference!Writes(r[n])
  <2>1. val \in IF x.var = "i" THEN 0 .. Size ELSE Values
    BY <1>2 DEF LeafWrite
  <2> HIDE DEF r, n
  <2>2. CASE x.var \in {"h", "g"}
    BY <2>1, <2>2 DEF Addr, Reference!Writes, Reference!HeaderNames
  <2>3. CASE x.var = "i"
    BY <2>1, <2>3 DEF Addr, Reference!Writes
  <2>4. CASE x.var = "hs"
    BY <2>1, <2>4, LeafShape DEF Addr, Reference!Writes, Reference!Element
  <2> QED BY <2>2, <2>3, <2>4, LeafShape
<1>6. Reference!Depth = n
  BY <1>4 DEF Reference!Depth
<1> HIDE DEF r, n, c
<1> QED BY <1>3, <1>5, <1>6 DEF Reference!Modify, r, c

-----------------------------------------------------------------------------
(* The refinement: a call                                                      *)

(* What the out parameters of a call denote, leaf by leaf.                     *)
OutLeaves(f, refs) ==
  {Addr(refs, x) : x \in {y \in Leaves : \E t \in Leaves : Sent(f, t, y) /\ f.dir[t.var] = "out"}}

(* Were the call to return at once, its out parameters would be zero, where    *)
(* they denote, and nothing else would have changed.                           *)
LEMMA CallZeroes ==
  ASSUME NEW fs, FramesOK(fs), NEW f \in Frame, Linked(f), CopiesIn(f, fs[Len(fs)].store)
  PROVE  LET refs == Denoted(fs)[Len(fs)]
             store == fs[Len(fs)].store
             after == CopyBack(f, store) IN
         /\ after \in Store
         /\ Reached(refs, OutLeaves(f, refs))
         /\ Changes(refs, OutLeaves(f, refs), 0, store, after)
<1> DEFINE n == Len(fs)
           refs == Denoted(fs)[n]
           store == fs[n].store
           after == CopyBack(f, store)
           A == OutLeaves(f, refs)
<1>1. n \in Nat \ {0} /\ store \in Store
  <2>1. n \in Nat \ {0} /\ n \in 1 .. n
    BY DEF FramesOK
  <2>2. fs[n] \in Frame
    BY <2>1, ElementOfSeq DEF FramesOK
  <2> QED BY <2>1, <2>2 DEF Frame
<1>2. \A x, y \in Leaves : Addr(refs, x) = Addr(refs, y) => x = y
  <2>1. Rooted(Denoted(fs), n)
    BY <1>1, DenotedRooted
  <2> QED BY <2>1 DEF Rooted
<1>3. after \in Store /\ CopiedBack(f, store, after)
  BY <1>1, CopyBackLeaves, CopyBackOrder DEF CopyBack
<1>4. CopiesIn(f, store)
  OBVIOUS
<1> HIDE DEF refs, store, after, A
<1>5. Reached(refs, A)
  BY DEF Reached, A, OutLeaves
<1>6. \A x \in Leaves : Addr(refs, x) \in A <=> \E t \in Leaves : Sent(f, t, x) /\ f.dir[t.var] = "out"
  BY <1>2 DEF A, OutLeaves
<1>7. ASSUME NEW x \in Leaves
      PROVE  Get(after, x) = IF Addr(refs, x) \in A THEN 0 ELSE Get(store, x)
  <2>1. CASE \E t \in Leaves : Sent(f, t, x)
    <3>1. PICK t \in Leaves : Sent(f, t, x)
      BY <2>1
    <3>2. Get(after, x) = Get(f.store, t)
      BY <1>3, <3>1 DEF CopiedBack
    <3>3. Get(f.store, t) = IF f.dir[t.var] = "out" THEN 0 ELSE Get(store, x)
      BY <1>4, <3>1 DEF CopiesIn
    <3>4. \A u \in Leaves : Sent(f, u, x) => u = t
      BY <3>1, SentApart
    <3>5. Addr(refs, x) \in A <=> f.dir[t.var] = "out"
      BY <1>6, <3>1, <3>4
    <3> QED BY <3>2, <3>3, <3>5
  <2>2. CASE \A t \in Leaves : ~Sent(f, t, x)
    <3>1. Get(after, x) = Get(store, x)
      BY <1>3, <2>2 DEF CopiedBack
    <3>2. Addr(refs, x) \notin A
      BY <1>6, <2>2
    <3> QED BY <3>1, <3>2
  <2> QED BY <2>1, <2>2
<1>8. Changes(refs, A, 0, store, after)
  BY <1>7 DEF Changes
<1> QED BY <1>3, <1>5, <1>8 DEF refs, store, after, A, n

LEMMA CallChanges ==
  ASSUME NEW fs, FramesOK(fs), NEW f \in Frame, Linked(f), CopiesIn(f, fs[Len(fs)].store)
  PROVE  \A d \in 1 .. Len(fs) :
           Changes(Denoted(fs)[d], OutLeaves(f, Denoted(fs)[Len(fs)]), 0,
                   View(fs)[d], View(Append(fs, f))[d])
<1> DEFINE n == Len(fs)
           gs == Append(fs, f)
           after == CopyBack(f, fs[n].store)
           ps == [fs EXCEPT ![n].store = after]
<1>1. /\ n \in Nat \ {0} /\ FramesOK(gs) /\ Len(gs) = n + 1
      /\ (\A d \in 1 .. n : gs[d] = fs[d]) /\ gs[n + 1] = f
  BY Pushed DEF FramesOK
<1>2. after \in Store
  BY CallZeroes
<1>3. Popped(gs) = ps
  <2> DEFINE qs == Popped(gs)
  <2>1. /\ FramesOK(qs) /\ Len(qs) = n
        /\ \A d \in 1 .. n - 1 : qs[d] = gs[d]
        /\ \A d \in 1 .. n : SameLinks(qs[d], gs[d])
        /\ qs[n].store = CopyBack(gs[n + 1], gs[n].store)
    <3>1. Len(gs) > 1 /\ Len(gs) - 1 = n
      BY <1>1
    <3> HIDE DEF gs
    <3> QED BY <1>1, <3>1, PoppedFrames
  <2>2. /\ FramesOK(ps) /\ Len(ps) = n
        /\ \A d \in 1 .. n - 1 : ps[d] = fs[d]
        /\ \A d \in 1 .. n : SameLinks(ps[d], fs[d])
        /\ ps[n].store = after
    <3> HIDE DEF after
    <3> QED BY <1>2, TopReplaced
  <2> HIDE DEF qs, ps, gs, n
  <2>3. qs \in Seq(Frame) /\ ps \in Seq(Frame) /\ n \in 1 .. n
    BY <1>1, <2>1, <2>2 DEF FramesOK
  <2>4. qs[n].store = ps[n].store /\ SameLinks(qs[n], ps[n])
    BY <1>1, <2>1, <2>2, <2>3 DEF SameLinks
  <2>5. qs[n] \in Frame /\ ps[n] \in Frame
    BY <2>1, <2>2, <2>3, ElementOfSeq
  <2>6. qs[n] = ps[n]
    BY <2>4, <2>5 DEF SameLinks, Frame
  <2>7. \A d \in 1 .. n : qs[d] = ps[d]
    <3> TAKE d \in 1 .. n
    <3>1. CASE d = n
      BY <2>6, <3>1
    <3>2. CASE d # n
      <4>1. d \in 1 .. n - 1
        BY <1>1, <3>2
      <4> QED BY <1>1, <2>1, <2>2, <4>1
    <3> QED BY <3>1, <3>2
  <2>8. qs = ps
    BY <2>1, <2>2, <2>3, <2>7, SeqEqual
  <2> QED BY <2>8 DEF qs
<1>4. \A d \in 1 .. n : View(gs)[d] = View(ps)[d]
  <2>1. Len(gs) > 1 /\ Len(gs) - 1 = n
    BY <1>1
  <2>2. \A d \in 1 .. Len(gs) - 1 : View(Popped(gs))[d] = View(gs)[d]
    <3> HIDE DEF gs
    <3> QED BY <1>1, <2>1, ViewPopped
  <2> HIDE DEF gs, ps, n
  <2> QED BY <1>3, <2>1, <2>2
<1>5. \A d \in 1 .. n : Changes(Denoted(fs)[d], OutLeaves(f, Denoted(fs)[n]), 0, View(fs)[d], View(ps)[d])
  <2>1. Reached(Denoted(fs)[n], OutLeaves(f, Denoted(fs)[n]))
        /\ Changes(Denoted(fs)[n], OutLeaves(f, Denoted(fs)[n]), 0, fs[n].store, after)
    BY CallZeroes
  <2> HIDE DEF after
  <2> QED BY <1>2, <2>1, Spread
<1> HIDE DEF gs, ps, n
<1>6. \A d \in 1 .. n : Changes(Denoted(fs)[d], OutLeaves(f, Denoted(fs)[n]), 0, View(fs)[d], View(gs)[d])
  BY <1>4, <1>5
<1> QED BY <1>6 DEF gs, n

(* The bindings of a new activation: what its names denote.                    *)
Bound(fs, f) == Denoted(Append(fs, f))[Len(fs) + 1]

LEMMA BoundLeaves ==
  ASSUME NEW fs, FramesOK(fs), NEW f \in Frame, Linked(f)
  PROVE  LET n == Len(fs)
             r == Denoted(fs)
             b == Bound(fs, f) IN
         /\ n \in Nat \ {0} /\ r[n] \in Refs /\ b \in Refs
         /\ \A d \in 1 .. n : Denoted(Append(fs, f))[d] = r[d]
         /\ b = Binding(f, n + 1, r[n])
         /\ Rooted(Denoted(Append(fs, f)), n + 1)
         /\ \A t \in Leaves :
              /\ \A s \in Leaves : Sent(f, t, s) => Addr(b, t) = Addr(r[n], s)
              /\ (\A s \in Leaves : ~Sent(f, t, s)) => Addr(b, t) = OwnLeaf(n + 1, t)
<1> DEFINE n == Len(fs)
           gs == Append(fs, f)
           r == Denoted(fs)
           q == Denoted(gs)
<1>1. /\ n \in Nat \ {0} /\ FramesOK(gs) /\ Len(gs) = n + 1
      /\ (\A d \in 1 .. n : gs[d] = fs[d]) /\ gs[n + 1] = f
  BY Pushed DEF FramesOK
<1>2. \A d \in 1 .. n : q[d] = r[d]
  <2>1. \A d \in 1 .. n : SameLinks(fs[d], gs[d])
    BY <1>1 DEF SameLinks
  <2>2. Len(fs) <= Len(gs)
    BY <1>1
  <2> HIDE DEF gs
  <2> QED BY <1>1, <2>1, <2>2, DenotedPrefix
<1>3. /\ r \in [1 .. n -> Refs] /\ q \in [1 .. n + 1 -> Refs]
      /\ \A d \in 2 .. n + 1 : q[d] = Binding(gs[d], d, q[d - 1])
  <2> HIDE DEF gs
  <2> QED BY <1>1, DenotedSteps
<1>4. Rooted(q, n + 1)
  <2>1. n + 1 \in 1 .. Len(gs)
    BY <1>1
  <2> HIDE DEF gs
  <2> QED BY <1>1, <2>1, DenotedRooted
<1>5. n + 1 \in 2 .. n + 1 /\ (n + 1) - 1 = n /\ n \in 1 .. n /\ n + 1 \in Nat \ {0} /\ n + 1 \in 1 .. n + 1
  BY <1>1
<1> HIDE DEF gs, q, r, n
<1>6. q[n + 1] = Binding(f, n + 1, r[n]) /\ r[n] \in Refs /\ q[n + 1] \in Refs
  BY <1>1, <1>2, <1>3, <1>5
<1>7. ASSUME NEW t \in Leaves
      PROVE  /\ \A s \in Leaves : Sent(f, t, s) => Addr(q[n + 1], t) = Addr(r[n], s)
             /\ (\A s \in Leaves : ~Sent(f, t, s)) => Addr(q[n + 1], t) = OwnLeaf(n + 1, t)
  BY <1>5, <1>6, BindingLeaves
<1> QED BY <1>1, <1>2, <1>4, <1>6, <1>7 DEF n, gs, q, r, Bound

(* The shared names of a new activation, and those that are out.               *)
SharedNames(b, d) == {m \in Names : b[m].at < d}
OutAddresses(f, b, d) == {b[m] : m \in {k \in SharedNames(b, d) : f.dir[k] = "out"}}

LEMMA NameLeaf ==
  ASSUME NEW m \in Names, m # "hs"
  PROVE  LET t == [var |-> m, index |-> NoIndex] IN
         t \in Leaves /\ t.var = m /\ \A refs : Addr(refs, t) = refs[m]
<1>1. m \in {"h", "g", "i"}
  BY DEF Names
<1>2. [var |-> m, index |-> NoIndex] \in Leaves
  BY <1>1 DEF Leaves
<1> QED BY <1>1, <1>2 DEF Addr

(* A leaf owned below is zeroed exactly when it, or its stack, is denoted by   *)
(* an out parameter.                                                           *)
LEMMA ZeroedAddresses ==
  ASSUME NEW fs, FramesOK(fs), NEW f \in Frame, Linked(f),
         NEW d \in 1 .. Len(fs), NEW x \in Leaves
  PROVE  LET out == OutAddresses(f, Bound(fs, f), Len(fs) + 1) IN
         OwnLeaf(d, x) \in OutLeaves(f, Denoted(fs)[Len(fs)])
           <=> OwnLeaf(d, x) \in out \/ (x.var = "hs" /\ OwnCell(d, "hs") \in out)
<1> DEFINE n == Len(fs)
           c == Denoted(fs)[n]
           b == Bound(fs, f)
           out == OutAddresses(f, b, n + 1)
<1>1. /\ n \in Nat \ {0}
      /\ Rooted(Denoted(Append(fs, f)), n + 1)
      /\ \A t \in Leaves :
           /\ \A s \in Leaves : Sent(f, t, s) => Addr(b, t) = Addr(c, s)
           /\ (\A s \in Leaves : ~Sent(f, t, s)) => Addr(b, t) = OwnLeaf(n + 1, t)
  BY BoundLeaves
<1>2. /\ \A a \in Leaves : \E e \in 1 .. n + 1, u \in Leaves : Addr(b, a) = OwnLeaf(e, u)
      /\ \E e \in 1 .. n + 1 : b["hs"] = OwnCell(e, "hs")
  BY <1>1 DEF Rooted, Bound
<1> HIDE DEF n, c, b, out
<1>3. \A t, y \in Leaves : OwnLeaf(d, y) # OwnLeaf(n + 1, t)
  <2>1. d # n + 1
    BY <1>1 DEF n
  <2> QED BY <2>1, OwnLeavesDiffer
<1>4. OwnLeaf(d, x).at < n + 1 /\ OwnCell(d, "hs").at < n + 1
  BY <1>1 DEF OwnLeaf, OwnCell, n
<1>5. ASSUME OwnLeaf(d, x) \in OutLeaves(f, c)
      PROVE  OwnLeaf(d, x) \in out \/ (x.var = "hs" /\ OwnCell(d, "hs") \in out)
  <2>1. PICK s \in Leaves, t \in Leaves : OwnLeaf(d, x) = Addr(c, s) /\ Sent(f, t, s) /\ f.dir[t.var] = "out"
    BY <1>5 DEF OutLeaves
  <2>2. Addr(b, t) = OwnLeaf(d, x) /\ t.var \in Names
    BY <1>1, <2>1, LeafShape DEF Names
  <2>3. CASE t.var = "hs"
    <3>1. PICK e \in 1 .. n + 1 : b["hs"] = OwnCell(e, "hs")
      BY <1>2
    <3>2. Addr(b, t) = [at |-> e, var |-> "hs", elem |-> t.index.n]
      BY <2>3, <3>1 DEF Addr, OwnCell
    <3>3. e = d /\ x.var = "hs"
      BY <2>2, <3>2 DEF OwnLeaf
    <3>4. b["hs"] = OwnCell(d, "hs")
      BY <3>1, <3>3
    <3>5. "hs" \in SharedNames(b, n + 1)
      BY <1>4, <2>2, <2>3, <3>4 DEF SharedNames
    <3>6. OwnCell(d, "hs") \in out
      BY <2>1, <2>3, <3>4, <3>5 DEF out, OutAddresses
    <3> QED BY <3>3, <3>6
  <2>4. CASE t.var # "hs"
    <3>1. b[t.var] = OwnLeaf(d, x)
      BY <2>2, <2>4 DEF Addr
    <3>2. t.var \in SharedNames(b, n + 1)
      BY <1>4, <2>2, <3>1 DEF SharedNames
    <3> QED BY <2>1, <3>1, <3>2 DEF out, OutAddresses
  <2> QED BY <2>3, <2>4
<1>6. ASSUME NEW t \in Leaves, Addr(b, t) = OwnLeaf(d, x), f.dir[t.var] = "out"
      PROVE  OwnLeaf(d, x) \in OutLeaves(f, c)
  <2>1. PICK s \in Leaves : Sent(f, t, s)
    BY <1>1, <1>3, <1>6
  <2>2. OwnLeaf(d, x) = Addr(c, s)
    BY <1>1, <1>6, <2>1
  <2> QED BY <1>6, <2>1, <2>2 DEF OutLeaves
<1>7. ASSUME OwnLeaf(d, x) \in out
      PROVE  OwnLeaf(d, x) \in OutLeaves(f, c)
  <2>1. PICK m \in Names : OwnLeaf(d, x) = b[m] /\ f.dir[m] = "out"
    BY <1>7 DEF out, OutAddresses, SharedNames
  <2>2. CASE m = "hs"
    <3>1. OwnLeaf(d, x).var = "hs" /\ OwnLeaf(d, x).elem = Whole
      BY <1>2, <2>1, <2>2 DEF OwnCell
    <3>2. x.var = "hs" /\ x.index.n = Whole
      BY <3>1 DEF OwnLeaf
    <3>3. x.index.n \in 0 .. Size - 1
      BY <3>2, LeafShape
    <3> QED BY <3>2, <3>3 DEF Whole
  <2>3. CASE m # "hs"
    <3> DEFINE t == [var |-> m, index |-> NoIndex]
    <3>1. t \in Leaves /\ t.var = m /\ Addr(b, t) = b[m]
      BY <2>3, NameLeaf
    <3> HIDE DEF t
    <3> QED BY <1>6, <2>1, <3>1
  <2> QED BY <2>2, <2>3
<1>8. ASSUME x.var = "hs", OwnCell(d, "hs") \in out
      PROVE  OwnLeaf(d, x) \in OutLeaves(f, c)
  <2>1. PICK m \in Names : OwnCell(d, "hs") = b[m] /\ f.dir[m] = "out"
    BY <1>8 DEF out, OutAddresses, SharedNames
  <2>2. m = "hs"
    <3> SUFFICES ASSUME m # "hs" PROVE FALSE
      OBVIOUS
    <3> DEFINE t == [var |-> m, index |-> NoIndex]
    <3>1. t \in Leaves /\ Addr(b, t) = b[m]
      BY NameLeaf
    <3> HIDE DEF t
    <3>2. PICK e \in 1 .. n + 1, u \in Leaves : b[m] = OwnLeaf(e, u)
      BY <1>2, <3>1
    <3>3. u.var = "hs" /\ u.index.n = Whole
      BY <2>1, <3>2 DEF OwnCell, OwnLeaf
    <3>4. u.index.n \in 0 .. Size - 1
      BY <3>3, LeafShape
    <3> QED BY <3>3, <3>4 DEF Whole
  <2>3. Addr(b, x) = OwnLeaf(d, x)
    BY <1>8, <2>1, <2>2 DEF Addr, OwnLeaf, OwnCell
  <2> QED BY <1>6, <1>8, <2>1, <2>2, <2>3
<1> QED BY <1>5, <1>7, <1>8 DEF n, c, b, out

ZeroesAt(d, out, before, after) ==
  \A x \in Leaves :
    Get(after, x) = IF OwnLeaf(d, x) \in out \/ (x.var = "hs" /\ OwnCell(d, "hs") \in out)
                    THEN 0 ELSE Get(before, x)

LEMMA ZeroedLeaves ==
  ASSUME NEW d, NEW cell \in Store, NEW out
  PROVE  Reference!Zeroed(d, cell, out) \in Store /\ ZeroesAt(d, out, cell, Reference!Zeroed(d, cell, out))
<1> DEFINE z == Reference!Zeroed(d, cell, out)
           stack == [k \in 0 .. Size - 1 |->
                      IF Reference!Element(OwnCell(d, "hs"), k) \in out THEN 0 ELSE cell.hs[k]]
           e(m) == IF OwnCell(d, m) \in out THEN Zeros[m] ELSE IF m = "hs" THEN stack ELSE cell[m]
<1>1. z = [m \in Names |-> e(m)]
  BY ReferenceTerms DEF Reference!Zeroed, Own, Names
<1>2. stack \in [0 .. Size - 1 -> Values]
  BY CallsAssumption DEF Store
<1>3. /\ e("hs") = IF OwnCell(d, "hs") \in out THEN Zeros["hs"] ELSE stack
      /\ \A m \in {"h", "g", "i"} : e(m) = IF OwnCell(d, m) \in out THEN 0 ELSE cell[m]
  BY DEF Zeros
<1> HIDE DEF e, z
<1>4. z["hs"] = e("hs") /\ \A m \in {"h", "g", "i"} : z[m] = e(m)
  BY <1>1 DEF Names
<1>5. /\ e("hs") \in [0 .. Size - 1 -> Values] /\ e("i") \in 0 .. Size
      /\ e("h") \in Values /\ e("g") \in Values
  <2>1. /\ Zeros["hs"] \in [0 .. Size - 1 -> Values] /\ 0 \in Values /\ 0 \in 0 .. Size
        /\ cell["h"] \in Values /\ cell["g"] \in Values /\ cell["i"] \in 0 .. Size
    BY ZerosTyped, CallsAssumption DEF Store
  <2> HIDE DEF stack
  <2> QED BY <1>2, <1>3, <2>1
<1>6. z \in Store
  BY <1>1, <1>5 DEF Store, Names
<1>7. ASSUME NEW x \in Leaves
      PROVE  Get(z, x) = IF OwnLeaf(d, x) \in out \/ (x.var = "hs" /\ OwnCell(d, "hs") \in out)
                         THEN 0 ELSE Get(cell, x)
  <2>1. CASE x.var = "hs"
    <3> DEFINE k == x.index.n
    <3>1. k \in 0 .. Size - 1
      BY <2>1, LeafShape
    <3>2. OwnLeaf(d, x) = Reference!Element(OwnCell(d, "hs"), k)
      BY <2>1 DEF OwnLeaf, OwnCell, Reference!Element
    <3>3. Zeros["hs"][k] = 0
      BY <3>1 DEF Zeros
    <3>4. stack[k] = IF OwnLeaf(d, x) \in out THEN 0 ELSE cell.hs[k]
      <4> HIDE DEF k
      <4> QED BY <3>1, <3>2
    <3>5. Get(z, x) = e("hs")[k] /\ Get(cell, x) = cell.hs[k]
      BY <2>1, <1>4 DEF Get
    <3> HIDE DEF k, stack
    <3> QED BY <1>3, <2>1, <3>3, <3>4, <3>5
  <2>2. CASE x.var # "hs"
    <3>1. x.var \in {"h", "g", "i"}
      BY <2>2, LeafShape
    <3>2. OwnLeaf(d, x) = OwnCell(d, x.var)
      BY <2>2 DEF OwnLeaf, OwnCell
    <3>3. Get(z, x) = e(x.var) /\ Get(cell, x) = cell[x.var]
      BY <1>4, <2>2, <3>1 DEF Get
    <3> HIDE DEF stack
    <3> QED BY <1>3, <2>2, <3>1, <3>2, <3>3
  <2> QED BY <2>1, <2>2
<1> QED BY <1>6, <1>7 DEF z, ZeroesAt

(* What each name of a new activation denotes.                                 *)
LEMMA CallDenotes ==
  ASSUME NEW fs, FramesOK(fs), NEW f \in Frame, Linked(f), NEW m \in Names
  PROVE  LET b == Bound(fs, f)
             c == Denoted(fs)[Len(fs)] IN
         \/ b[m] = OwnCell(Len(fs) + 1, m)
         \/ m \in HeaderNames /\ \E j \in HeaderNames : b[m] = c[j]
         \/ m \in HeaderNames /\ \E k \in 0 .. Size - 1 : b[m] = [c["hs"] EXCEPT !.elem = k]
         \/ m \notin HeaderNames /\ b[m] = c[m]
<1> DEFINE n == Len(fs)
           b == Bound(fs, f)
           c == Denoted(fs)[n]
           lv == f.arg[m]
<1>1. b = Binding(f, n + 1, c)
  BY BoundLeaves
<1> HIDE DEF b, c, n
<1>2. b[m] = IF m \notin Shared(f) THEN OwnCell(n + 1, m)
             ELSE IF lv.index = NoIndex THEN c[lv.var]
             ELSE IF lv.index.n < Size THEN [c["hs"] EXCEPT !.elem = lv.index.n]
             ELSE OwnCell(n + 1, m)
  BY <1>1 DEF Binding
<1>3. m \in Shared(f) => lv \in Places(m)
  BY DEF Linked
<1> HIDE DEF lv
<1>4. CASE m \notin Shared(f)
  BY <1>2, <1>4 DEF b, n
<1>5. CASE m \in Shared(f) /\ lv.index = NoIndex
  <2>1. b[m] = c[lv.var]
    BY <1>2, <1>5
  <2>2. CASE m \in HeaderNames
    <3>1. lv.var \in HeaderNames
      BY <1>3, <1>5, <2>2 DEF Places, NoIndex
    <3> QED BY <2>1, <2>2, <3>1 DEF b, c, n
  <2>3. CASE m \notin HeaderNames
    <3>1. lv.var = m
      BY <1>3, <1>5, <2>3 DEF Places
    <3> QED BY <2>1, <2>3, <3>1 DEF b, c, n
  <2> QED BY <2>2, <2>3
<1>6. CASE m \in Shared(f) /\ lv.index # NoIndex
  <2>1. m \in HeaderNames /\ lv.index.n \in 0 .. Size
    BY <1>3, <1>6 DEF Places
  <2>2. CASE lv.index.n < Size
    <3>1. lv.index.n \in 0 .. Size - 1 /\ b[m] = [c["hs"] EXCEPT !.elem = lv.index.n]
      BY <1>2, <1>6, <2>1, <2>2, CallsAssumption
    <3> QED BY <2>1, <3>1 DEF b, c, n
  <2>3. CASE ~(lv.index.n < Size)
    BY <1>2, <1>6, <2>3 DEF b, n
  <2> QED BY <2>2, <2>3
<1> QED BY <1>4, <1>5, <1>6

(* Two names of an activation never denote storage that overlaps.              *)
LEMMA CallApart ==
  ASSUME NEW fs, FramesOK(fs), NEW f \in Frame, Linked(f),
         NEW m \in Names, NEW k \in Names, m # k
  PROVE  ~Reference!Overlap(Bound(fs, f)[m], Bound(fs, f)[k])
<1> DEFINE n == Len(fs)
           b == Bound(fs, f)
<1>1. Rooted(Denoted(Append(fs, f)), n + 1) /\ b = Denoted(Append(fs, f))[n + 1]
  BY BoundLeaves DEF Bound
<1> HIDE DEF n, b
<1>2. /\ \A a \in Leaves : \E e \in 1 .. n + 1, u \in Leaves : Addr(b, a) = OwnLeaf(e, u)
      /\ \A x, y \in Leaves : Addr(b, x) = Addr(b, y) => x = y
      /\ \E e \in 1 .. n + 1 : b["hs"] = OwnCell(e, "hs")
  BY <1>1 DEF Rooted
<1>3. \A u \in Leaves, e \in 1 .. n + 1 :
        /\ OwnLeaf(e, u).at = e /\ OwnLeaf(e, u).var = u.var
        /\ OwnLeaf(e, u).elem = Whole <=> u.var # "hs"
  <2> TAKE u \in Leaves, e \in 1 .. n + 1
  <2>1. u.var = "hs" => u.index.n # Whole
    BY LeafShape DEF Whole
  <2> QED BY <2>1 DEF OwnLeaf
<1>4. ASSUME NEW j \in Names, j # "hs"
      PROVE  \E t \in Leaves, e \in 1 .. n + 1, u \in Leaves :
               t.var = j /\ b[j] = Addr(b, t) /\ b[j] = OwnLeaf(e, u)
  <2> DEFINE t == [var |-> j, index |-> NoIndex]
  <2>1. t \in Leaves /\ t.var = j /\ Addr(b, t) = b[j]
    BY <1>4, NameLeaf
  <2> HIDE DEF t
  <2> QED BY <1>2, <2>1
<1>5. ASSUME NEW j \in Names, j # "hs"
      PROVE  ~Reference!Overlap(b["hs"], b[j]) /\ ~Reference!Overlap(b[j], b["hs"])
  <2>1. PICK t \in Leaves, e \in 1 .. n + 1, u \in Leaves :
               t.var = j /\ b[j] = Addr(b, t) /\ b[j] = OwnLeaf(e, u)
    BY <1>4, <1>5
  <2>2. PICK d \in 1 .. n + 1 : b["hs"] = OwnCell(d, "hs")
    BY <1>2
  <2>3. SUFFICES ASSUME d = e, u.var = "hs" PROVE FALSE
    <3>1. b[j].at = e /\ b[j].var = u.var /\ b["hs"].at = d /\ b["hs"].var = "hs"
      BY <1>3, <2>1, <2>2 DEF OwnCell
    <3> QED BY <3>1 DEF Reference!Overlap
  <2>4. Addr(b, u) = OwnLeaf(e, u)
    BY <2>2, <2>3 DEF Addr, OwnLeaf, OwnCell
  <2>5. u = t
    BY <1>2, <2>1, <2>4
  <2> QED BY <1>5, <2>1, <2>3, <2>5
<1>6. ASSUME m # "hs", k # "hs" PROVE ~Reference!Overlap(b[m], b[k])
  <2>1. PICK t \in Leaves, e \in 1 .. n + 1, u \in Leaves :
               t.var = m /\ b[m] = Addr(b, t) /\ b[m] = OwnLeaf(e, u)
    BY <1>4, <1>6
  <2>2. PICK s \in Leaves, d \in 1 .. n + 1, v \in Leaves :
               s.var = k /\ b[k] = Addr(b, s) /\ b[k] = OwnLeaf(d, v)
    BY <1>4, <1>6
  <2>3. SUFFICES ASSUME Reference!Overlap(b[m], b[k]) PROVE FALSE
    OBVIOUS
  <2>4. d = e /\ u.var = v.var
        /\ (b[m].elem = b[k].elem \/ b[m].elem = Whole \/ b[k].elem = Whole)
    BY <1>3, <2>1, <2>2, <2>3, ReferenceTerms DEF Reference!Overlap
  <2>5. b[m].elem = b[k].elem
    BY <1>3, <2>1, <2>2, <2>4
  <2>6. u.var = "hs" => u.index.n = v.index.n
    BY <2>1, <2>2, <2>4, <2>5 DEF OwnLeaf
  <2>7. u = v
    BY <2>4, <2>6, SameLeaf
  <2>8. t = s
    BY <1>2, <2>1, <2>2, <2>4, <2>7
  <2> QED BY <2>1, <2>2, <2>8
<1>7. CASE m = "hs"
  BY <1>5, <1>7 DEF b
<1>8. CASE k = "hs"
  BY <1>5, <1>8 DEF b
<1>9. CASE m # "hs" /\ k # "hs"
  BY <1>6, <1>9 DEF b
<1> QED BY <1>7, <1>8, <1>9

(* The storage below a call, its out parameters zeroed, else as it was.        *)
LEMMA CallCells ==
  ASSUME NEW fs, FramesOK(fs), NEW f \in Frame, Linked(f), CopiesIn(f, fs[Len(fs)].store)
  PROVE  LET n == Len(fs)
             out == OutAddresses(f, Bound(fs, f), n + 1) IN
         SubSeq(OwnCells(Append(fs, f)), 1, n) = Reference!AllZeroed(OwnCells(fs), out)
<1> DEFINE n == Len(fs)
           gs == Append(fs, f)
           r == Denoted(fs)
           q == Denoted(gs)
           c == OwnCells(fs)
           p == OwnCells(gs)
           A == OutLeaves(f, r[n])
           out == OutAddresses(f, Bound(fs, f), n + 1)
           z == Reference!AllZeroed(c, out)
<1>1. n \in Nat \ {0} /\ FramesOK(gs) /\ Len(gs) = n + 1
  BY Pushed DEF FramesOK
<1>2. \A d \in 1 .. n : q[d] = r[d]
  BY BoundLeaves
<1>3. \A d \in 1 .. n : Changes(r[d], A, 0, View(fs)[d], View(gs)[d])
  BY CallChanges
<1>4. \A d \in 1 .. n, x \in Leaves :
        OwnLeaf(d, x) \in A <=> OwnLeaf(d, x) \in out \/ (x.var = "hs" /\ OwnCell(d, "hs") \in out)
  BY ZeroedAddresses
<1>5. /\ c \in [1 .. n -> Store]
      /\ \A d \in 1 .. n, x \in Leaves :
           Get(c[d], x) = IF Addr(r[d], x) = OwnLeaf(d, x) THEN Get(View(fs)[d], x) ELSE 0
  BY CellsLeaves
<1>6. /\ p \in [1 .. n + 1 -> Store]
      /\ \A d \in 1 .. n + 1, x \in Leaves :
           Get(p[d], x) = IF Addr(q[d], x) = OwnLeaf(d, x) THEN Get(View(gs)[d], x) ELSE 0
  <2> HIDE DEF gs
  <2> QED BY <1>1, CellsLeaves
<1>7. z = [d \in 1 .. n |-> Reference!Zeroed(d, c[d], out)]
  <2> HIDE DEF c, out, n
  <2> QED BY <1>5 DEF Reference!AllZeroed
<1> HIDE DEF n, gs, r, q, c, p, A, out, z
<1>8. ASSUME NEW d \in 1 .. n
      PROVE  /\ z[d] \in Store
             /\ \A x \in Leaves : Get(z[d], x) = IF OwnLeaf(d, x) \in A THEN 0 ELSE Get(c[d], x)
  <2>1. z[d] = Reference!Zeroed(d, c[d], out) /\ c[d] \in Store
    BY <1>5, <1>7
  <2>2. /\ z[d] \in Store
        /\ \A x \in Leaves :
             Get(z[d], x) = IF OwnLeaf(d, x) \in out \/ (x.var = "hs" /\ OwnCell(d, "hs") \in out)
                            THEN 0 ELSE Get(c[d], x)
    <3> DEFINE w == Reference!Zeroed(d, c[d], out)
    <3>1. w \in Store /\ ZeroesAt(d, out, c[d], w)
      BY <2>1, ZeroedLeaves
    <3> HIDE DEF w
    <3> QED BY <2>1, <3>1 DEF ZeroesAt, w
  <2> QED BY <1>4, <2>2
<1>9. z \in [1 .. n -> Store]
  BY <1>7, <1>8
<1>10. ASSUME NEW d \in 1 .. n, NEW x \in Leaves PROVE Get(p[d], x) = Get(z[d], x)
  <2>0. d \in 1 .. n + 1 /\ q[d] = r[d]
    BY <1>1, <1>2
  <2>1. Get(p[d], x) = IF Addr(r[d], x) = OwnLeaf(d, x) THEN Get(View(gs)[d], x) ELSE 0
    BY <1>6, <2>0
  <2>2. Get(z[d], x) = IF OwnLeaf(d, x) \in A THEN 0 ELSE Get(c[d], x)
    BY <1>8
  <2>3. Get(c[d], x) = IF Addr(r[d], x) = OwnLeaf(d, x) THEN Get(View(fs)[d], x) ELSE 0
    BY <1>5
  <2>4. Get(View(gs)[d], x) = IF Addr(r[d], x) \in A THEN 0 ELSE Get(View(fs)[d], x)
    BY <1>3 DEF Changes
  <2> QED BY <2>1, <2>2, <2>3, <2>4
<1>11. \A d \in 1 .. n : z[d] = p[d]
  <2> TAKE d \in 1 .. n
  <2>1. z[d] \in Store /\ p[d] \in Store
    BY <1>1, <1>6, <1>8
  <2> QED BY <1>10, <2>1, SameStore
<1>12. SubSeq(p, 1, n) = z
  <2>1. n \in 0 .. n + 1 /\ n + 1 \in Nat
    BY <1>1
  <2> QED BY <1>6, <1>9, <1>11, <2>1, Prefix
<1> QED BY <1>12 DEF n, gs, c, p, out, z

LEMMA MapsToEnter ==
  ASSUME IInv, Called(frames, frames')
  PROVE  Reference!Enter
<1> DEFINE n == Len(frames)
           r == Denoted(frames)
           q == Denoted(frames')
           c == OwnCells(frames)
           p == OwnCells(frames')
<1>1. FramesOK(frames) /\ n \in Nat \ {0}
  BY DEF IInv, FramesOK
<1>2. PICK f \in Frame :
        Linked(f) /\ CopiesIn(f, frames[n].store) /\ frames' = Append(frames, f)
  BY DEF Called
<1> DEFINE b == Bound(frames, f)
           out == OutAddresses(f, b, n + 1)
<1>3. FramesOK(frames') /\ Len(frames') = n + 1
  BY <1>1, <1>2, Pushed
<1>4. /\ r \in [1 .. n -> Refs] /\ q \in [1 .. n + 1 -> Refs]
      /\ \A d \in 1 .. n : q[d] = r[d]
      /\ q[n + 1] = b
  <2>1. r \in [1 .. n -> Refs]
    BY <1>1, DenotedSteps
  <2>2. q \in [1 .. n + 1 -> Refs]
    BY <1>3, DenotedSteps
  <2>3. \A d \in 1 .. n : Denoted(Append(frames, f))[d] = r[d]
    BY <1>1, <1>2, BoundLeaves
  <2>4. q = Denoted(Append(frames, f))
    BY <1>2
  <2> HIDE DEF q, r
  <2> QED BY <2>1, <2>2, <2>3, <2>4 DEF Bound
<1>5. /\ p \in [1 .. n + 1 -> Store]
      /\ \A m \in Names : b[m] # OwnCell(n + 1, m) => p[n + 1][m] = Zeros[m]
  <2>1. /\ p \in [1 .. Len(frames') -> Store]
        /\ \A d \in 1 .. Len(frames') :
             \A m \in Names : q[d][m] # OwnCell(d, m) => p[d][m] = Zeros[m]
    BY <1>3, CellsLeaves
  <2>2. n + 1 \in 1 .. Len(frames')
    BY <1>1, <1>3
  <2> HIDE DEF p, q, b, n
  <2> QED BY <1>3, <1>4, <2>1, <2>2
<1>6. SubSeq(p, 1, n) = Reference!AllZeroed(c, out)
  <2>1. SubSeq(OwnCells(Append(frames, f)), 1, n) = Reference!AllZeroed(c, out)
    BY <1>1, <1>2, CallCells
  <2> HIDE DEF c, out, n
  <2> QED BY <1>2, <2>1
<1>7. \A m \in Names :
         \/ b[m] = OwnCell(n + 1, m)
         \/ m \in HeaderNames /\ \E j \in HeaderNames : b[m] = r[n][j]
         \/ m \in HeaderNames /\ \E k \in 0 .. Size - 1 : b[m] = [r[n]["hs"] EXCEPT !.elem = k]
         \/ m \notin HeaderNames /\ b[m] = r[n][m]
  BY <1>1, <1>2, CallDenotes
<1>8. \A m, k \in Names : m # k => ~Reference!Overlap(b[m], b[k])
  BY <1>1, <1>2, CallApart
<1>9. out \in SUBSET {b[m] : m \in SharedNames(b, n + 1)}
  BY DEF OutAddresses
<1> HIDE DEF n, r, q, c, p, b, out
<1>10. /\ Len(r) = n /\ Len(q) = n + 1 /\ Len(p) = n + 1 /\ SubSeq(q, 1, n) = r
       /\ n \in 1 .. n /\ n + 1 \in 1 .. n + 1
  <2>1. n \in Nat /\ n + 1 \in Nat /\ n \in 0 .. n + 1 /\ n \in 1 .. n /\ n + 1 \in 1 .. n + 1
    BY <1>1
  <2>2. Len(r) = n /\ Len(q) = n + 1
    BY <1>4, <2>1, FunctionIsSeq
  <2>3. Len(p) = n + 1
    BY <1>5, <2>1, FunctionIsSeq
  <2>4. SubSeq(q, 1, n) = r
    BY <1>4, <2>1, Prefix
  <2> QED BY <2>1, <2>2, <2>3, <2>4
<1>11. Reference!Depth = n
  BY <1>10 DEF Reference!Depth, r
<1>12. \A m \in Names : b[m] \in Reference!Denotable(m)
  <2> TAKE m \in Names
  <2>1. Reference!Own(n + 1)[m] = OwnCell(n + 1, m)
    BY ReferenceTerms DEF Own
  <2>2. Reference!Denotable(m) =
          {OwnCell(n + 1, m)}
            \cup IF m \in HeaderNames
                 THEN {r[n][j] : j \in HeaderNames} \cup {[r[n]["hs"] EXCEPT !.elem = k] : k \in 0 .. Size - 1}
                 ELSE {r[n][m]}
    BY <1>11, <2>1, ReferenceTerms DEF Reference!Denotable, Reference!Element, r
  <2>3. CASE m \in HeaderNames
    BY <1>7, <2>2, <2>3
  <2>4. CASE m \notin HeaderNames
    BY <1>7, <2>2, <2>4
  <2> QED BY <2>3, <2>4
<1>13. p[n + 1] \in Store /\ \A m \in SharedNames(b, n + 1) : p[n + 1][m] = Zeros[m]
  <2>1. ASSUME NEW m \in SharedNames(b, n + 1) PROVE b[m] # OwnCell(n + 1, m) /\ m \in Names
    <3>1. m \in Names /\ b[m].at < n + 1
      BY DEF SharedNames
    <3>2. OwnCell(n + 1, m).at = n + 1 /\ n \in Nat
      BY <1>1 DEF OwnCell
    <3> QED BY <3>1, <3>2
  <2> QED BY <1>5, <1>10, <2>1
<1> DEFINE shared == {m \in Names : q[n + 1][m].at < n + 1}
<1>14. shared = SharedNames(b, n + 1)
  BY <1>4 DEF SharedNames
<1> HIDE DEF shared
<1>15. /\ Len(q) = n + 1 /\ Len(p) = n + 1 /\ SubSeq(q, 1, n) = r
       /\ \A m \in Names : q[n + 1][m] \in Reference!Denotable(m)
       /\ \A m, k \in shared : m # k => ~Reference!Overlap(q[n + 1][m], q[n + 1][k])
       /\ p[n + 1] \in Store /\ \A m \in shared : p[n + 1][m] = Zeros[m]
       /\ \E o \in SUBSET {q[n + 1][m] : m \in shared} : SubSeq(p, 1, n) = Reference!AllZeroed(c, o)
  <2>1. \A m \in Names : q[n + 1][m] \in Reference!Denotable(m)
    BY <1>4, <1>12
  <2>2. \A m, k \in shared : m # k => ~Reference!Overlap(q[n + 1][m], q[n + 1][k])
    BY <1>4, <1>8, <1>14 DEF SharedNames
  <2>3. p[n + 1] \in Store /\ \A m \in shared : p[n + 1][m] = Zeros[m]
    BY <1>13, <1>14
  <2>4. out \in SUBSET {q[n + 1][m] : m \in shared}
    BY <1>4, <1>9, <1>14
  <2> QED BY <1>6, <1>10, <2>1, <2>2, <2>3, <2>4
<1> QED BY <1>11, <1>15, ReferenceTerms DEF Reference!Enter, shared, r, q, c, p

-----------------------------------------------------------------------------
(* The refinement: a return, or a raised error passing through                 *)

LEMMA MapsToLeave ==
  ASSUME IInv, Depth > 1, frames' = Popped(frames)
  PROVE  Reference!Leave
<1> DEFINE n == Len(frames) - 1
           r == Denoted(frames)
           q == Denoted(frames')
           c == OwnCells(frames)
           p == OwnCells(frames')
<1>1. FramesOK(frames) /\ Len(frames) > 1 /\ Len(frames) = n + 1
  BY DEF IInv, FramesOK, Depth
<1>2. /\ FramesOK(frames') /\ Len(frames') = n /\ n \in Nat \ {0}
      /\ \A d \in 1 .. n : SameLinks(frames'[d], frames[d])
  BY <1>1, PoppedFrames
<1>3. /\ r \in [1 .. n + 1 -> Refs] /\ q \in [1 .. n -> Refs]
      /\ \A d \in 1 .. n : q[d] = r[d]
  <2>1. r \in [1 .. n + 1 -> Refs]
    BY <1>1, DenotedSteps
  <2>2. q \in [1 .. n -> Refs]
    BY <1>2, DenotedSteps
  <2>3. Len(frames') <= Len(frames)
    BY <1>1, <1>2
  <2>4. \A d \in 1 .. Len(frames') : Denoted(frames')[d] = Denoted(frames)[d]
    <3> HIDE DEF n
    <3> QED BY <1>1, <1>2, <2>3, DenotedPrefix
  <2> QED BY <1>2, <2>1, <2>2, <2>4
<1>4. \A d \in 1 .. n : View(frames')[d] = View(frames)[d]
  <2>1. \A d \in 1 .. n : View(Popped(frames))[d] = View(frames)[d]
    BY <1>1, ViewPopped
  <2> QED BY <2>1
<1>5. /\ c \in [1 .. n + 1 -> Store]
      /\ \A d \in 1 .. n + 1, x \in Leaves :
           Get(c[d], x) = IF Addr(r[d], x) = OwnLeaf(d, x) THEN Get(View(frames)[d], x) ELSE 0
  BY <1>1, CellsLeaves
<1>6. /\ p \in [1 .. n -> Store]
      /\ \A d \in 1 .. n, x \in Leaves :
           Get(p[d], x) = IF Addr(q[d], x) = OwnLeaf(d, x) THEN Get(View(frames')[d], x) ELSE 0
  BY <1>2, CellsLeaves
<1> HIDE DEF n, r, q, c, p
<1>7. n \in Nat /\ n + 1 \in Nat /\ n \in 0 .. n + 1 /\ \A d \in 1 .. n : d \in 1 .. n + 1
  BY <1>2
<1>8. \A d \in 1 .. n : p[d] = c[d]
  <2> TAKE d \in 1 .. n
  <2>1. d \in 1 .. n + 1 /\ p[d] \in Store /\ c[d] \in Store
    BY <1>5, <1>6, <1>7
  <2>2. ASSUME NEW x \in Leaves PROVE Get(p[d], x) = Get(c[d], x)
    BY <1>3, <1>4, <1>5, <1>6, <2>1
  <2> QED BY <2>1, <2>2, SameStore
<1>9. SubSeq(c, 1, n) = p /\ SubSeq(r, 1, n) = q /\ Len(r) = n + 1
  <2>1. SubSeq(c, 1, n) = p
    BY <1>5, <1>6, <1>7, <1>8, Prefix
  <2>2. SubSeq(r, 1, n) = q
    BY <1>3, <1>7, Prefix
  <2>3. Len(r) = n + 1
    BY <1>3, <1>7, FunctionIsSeq
  <2> QED BY <2>1, <2>2, <2>3
<1>10. Reference!Depth = n + 1 /\ n + 1 > 1 /\ (n + 1) - 1 = n
  BY <1>2, <1>9 DEF Reference!Depth, r
<1> QED BY <1>9, <1>10 DEF Reference!Leave, r, q, c, p

-----------------------------------------------------------------------------
(* The refinement                                                              *)

LEMMA MapsToNext == IInv /\ [Next]_vars => [Reference!Next]_(Reference!vars)
<1> SUFFICES ASSUME IInv, [Next]_vars PROVE [Reference!Next]_(Reference!vars)
  OBVIOUS
<1>1. CASE LeafWritten(frames, frames')
  BY <1>1, MapsToModify DEF Reference!Next
<1>2. CASE Called(frames, frames')
  BY <1>2, MapsToEnter DEF Reference!Next
<1>3. CASE Depth > 1 /\ frames' = Popped(frames)
  BY <1>3, MapsToLeave DEF Reference!Next
<1>4. CASE frames' = frames
  BY <1>4 DEF Reference!vars
<1> QED BY <1>1, <1>2, <1>3, <1>4, FrameSteps DEF vars

(* PassesByReference, for every stack size, set of values, set of calls and    *)
(* depth: copying in and back, with targets resolved once, out parameters      *)
(* zeroed and copy-back on errors too, implements passing references to        *)
(* disjoint storage, so no write of a sub-block is lost, early, late or        *)
(* misplaced (call_block, copy_in, copy_back, resolve_lvalue, check_args).     *)
THEOREM ImplementsByReference == Spec => PassesByReference
  BY MapsToInit, MapsToNext, Invariant, PTL DEF Spec, PassesByReference, Reference!Spec

=============================================================================
