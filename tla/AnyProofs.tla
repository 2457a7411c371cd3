----------------------------- MODULE AnyProofs -----------------------------
(***************************************************************************)
(* Proofs about Any for any places, values, types and heap.  An operation  *)
(* is a composition of functions on the memory; each of them is shown to   *)
(* keep the memory sound and to do one thing to its view, which says what  *)
(* every storage holds.  What an operation does then follows from views.   *)
(***************************************************************************)
EXTENDS Any, TLAPS

Types == [Storage -> Type \cup {Null}]
Objects == [Storage \cup Heap -> Value \cup {Raw, Moved}]
Pointers == [Storage -> Heap \cup {Null}]
MemoryType == [vtable : Types, object : Objects, dynamic : Pointers, misused : BOOLEAN]

\* Where the object is that the any in s holds.
At(vt, dy, s) == IF vt[s] \in StackType THEN s ELSE dy[s]

OnHeap(vt, s) == vt[s] \in Type /\ vt[s] \notin StackType

(* A storage or a heap address has an object just if one any holds it, and *)
(* the object has the type the any says.                                   *)
Sound(vt, ob, dy) ==
  /\ vt \in Types /\ ob \in Objects /\ dy \in Pointers
  /\ \A s \in Storage : OnHeap(vt, s) => dy[s] \in Heap
  /\ \A s \in Storage : vt[s] # Null =>
       /\ ob[At(vt, dy, s)] # Raw
       /\ ob[At(vt, dy, s)] \in Value => TypeOf[ob[At(vt, dy, s)]] = vt[s]
  /\ \A s \in Storage : ob[s] # Raw => vt[s] \in StackType
  /\ \A h \in Heap : ob[h] # Raw => \E s \in Storage : OnHeap(vt, s) /\ dy[s] = h
  /\ \A s, u \in Storage : OnHeap(vt, s) /\ OnHeap(vt, u) /\ dy[s] = dy[u] => s = u

Nothing == [vtable |-> Null, value |-> Null]
Item(T, v) == [vtable |-> T, value |-> v]

ViewOf(vt, ob, dy) ==
  [s \in Storage |-> IF vt[s] = Null THEN Nothing ELSE Item(vt[s], ob[At(vt, dy, s)])]

Good(m) == m \in MemoryType /\ ~m.misused /\ Sound(m.vtable, m.object, m.dynamic)
View(m) == ViewOf(m.vtable, m.object, m.dynamic)

-----------------------------------------------------------------------------
(* Sound memories.                                                         *)

LEMMA Addresses ==
  /\ StackType \subseteq Type /\ Null \notin Type /\ Null \notin StackType
  /\ \A s \in Storage : s \notin Heap /\ s # Null
  /\ \A h \in Heap : h \notin Storage /\ h # Null
BY Apart, StackByType DEF Type, StackType

Set(f, a, v) == [f EXCEPT ![a] = v]

\* An object is built in an empty storage.
LEMMA PutOnStack ==
  ASSUME NEW vt, NEW ob, NEW dy, Sound(vt, ob, dy), NEW d \in Storage, vt[d] = Null,
         NEW T \in StackType, NEW v \in Value \cup {Moved}, v \in Value => TypeOf[v] = T,
         NEW wt, wt = [vt EXCEPT ![d] = T], NEW oc, oc = [ob EXCEPT ![d] = v]
  PROVE  /\ Sound(wt, oc, dy) /\ ob[d] = Raw
         /\ ViewOf(wt, oc, dy) = [ViewOf(vt, ob, dy) EXCEPT ![d] = Item(T, v)]
<1> USE Addresses
<1>1. ob[d] = Raw
  BY DEF Sound
<1>2. wt \in Types /\ oc \in Objects
  BY DEF Sound, Types, Objects
<1>3. /\ \A s \in Storage : wt[s] = IF s = d THEN T ELSE vt[s]
      /\ \A a \in Storage \cup Heap : oc[a] = IF a = d THEN v ELSE ob[a]
  BY DEF Sound, Types, Objects
<1>4. \A s \in Storage : (OnHeap(wt, s) <=> OnHeap(vt, s)) /\ (OnHeap(wt, s) => s # d)
  BY <1>3 DEF OnHeap
<1>5. \A s \in Storage : s # d => At(wt, dy, s) = At(vt, dy, s)
  BY <1>3 DEF At
<1>6. At(wt, dy, d) = d
  BY <1>3 DEF At
<1>7. \A s \in Storage : vt[s] # Null => At(vt, dy, s) \in Storage \cup Heap /\ At(vt, dy, s) # d
  BY DEF Sound, Types, At, OnHeap
<1>8. v # Raw
  BY Apart
<1>9. Sound(wt, oc, dy)
  <2>1. \A s \in Storage : OnHeap(wt, s) => dy[s] \in Heap
    BY <1>4 DEF Sound
  <2>2. ASSUME NEW s \in Storage, wt[s] # Null
        PROVE  /\ oc[At(wt, dy, s)] # Raw
               /\ oc[At(wt, dy, s)] \in Value => TypeOf[oc[At(wt, dy, s)]] = wt[s]
    <3>1. CASE s = d
      BY <1>3, <1>6, <1>8, <3>1
    <3>2. CASE s # d
      <4>1. vt[s] # Null /\ wt[s] = vt[s] /\ oc[At(wt, dy, s)] = ob[At(vt, dy, s)]
        BY <1>3, <1>5, <1>7, <2>2, <3>2
      <4> QED BY <4>1 DEF Sound
    <3> QED BY <3>1, <3>2
  <2>3. \A s \in Storage : oc[s] # Raw => wt[s] \in StackType
    BY <1>3 DEF Sound
  <2>4. \A h \in Heap : oc[h] # Raw => \E s \in Storage : OnHeap(wt, s) /\ dy[s] = h
    <3>1. \A h \in Heap : oc[h] = ob[h]
      BY <1>3
    <3> QED BY <1>4, <3>1 DEF Sound
  <2>5. \A s, u \in Storage : OnHeap(wt, s) /\ OnHeap(wt, u) /\ dy[s] = dy[u] => s = u
    BY <1>4 DEF Sound
  <2>6. dy \in Pointers
    BY DEF Sound
  <2> QED BY <1>2, <2>1, <2>2, <2>3, <2>4, <2>5, <2>6 DEF Sound
<1>10. ViewOf(wt, oc, dy) = [ViewOf(vt, ob, dy) EXCEPT ![d] = Item(T, v)]
  <2>1. ASSUME NEW s \in Storage PROVE ViewOf(wt, oc, dy)[s] = [ViewOf(vt, ob, dy) EXCEPT ![d] = Item(T, v)][s]
    <3>1. CASE s = d
      BY <1>3, <1>6, <3>1 DEF ViewOf
    <3>2. CASE s # d
      <4>1. wt[s] = vt[s] /\ (vt[s] # Null => oc[At(wt, dy, s)] = ob[At(vt, dy, s)])
        BY <1>3, <1>5, <1>7, <3>2
      <4>2. ViewOf(wt, oc, dy)[s] = ViewOf(vt, ob, dy)[s]
        BY <4>1 DEF ViewOf
      <4> QED BY <3>2, <4>2 DEF ViewOf
    <3> QED BY <3>1, <3>2
  <2> QED BY <2>1 DEF ViewOf
<1> QED BY <1>1, <1>9, <1>10

\* An object is built on the heap, for an empty storage.
LEMMA PutOnHeap ==
  ASSUME NEW vt, NEW ob, NEW dy, Sound(vt, ob, dy), NEW d \in Storage, vt[d] = Null,
         NEW T \in Type \ StackType, NEW v \in Value \cup {Moved}, v \in Value => TypeOf[v] = T,
         NEW h \in Heap, ob[h] = Raw,
         NEW wt, wt = [vt EXCEPT ![d] = T], NEW oc, oc = [ob EXCEPT ![h] = v],
         NEW ec, ec = [dy EXCEPT ![d] = h]
  PROVE  /\ Sound(wt, oc, ec)
         /\ ViewOf(wt, oc, ec) = [ViewOf(vt, ob, dy) EXCEPT ![d] = Item(T, v)]
<1> USE Addresses
<1>1. wt \in Types /\ oc \in Objects /\ ec \in Pointers
  BY DEF Sound, Types, Objects, Pointers
<1>2. /\ \A s \in Storage : wt[s] = (IF s = d THEN T ELSE vt[s]) /\ ec[s] = (IF s = d THEN h ELSE dy[s])
      /\ \A a \in Storage \cup Heap : oc[a] = IF a = h THEN v ELSE ob[a]
  BY DEF Sound, Types, Objects, Pointers
<1>3. \A s \in Storage : IF s = d THEN OnHeap(wt, s) ELSE OnHeap(wt, s) <=> OnHeap(vt, s)
  BY <1>2 DEF OnHeap
<1>4. \A s \in Storage : s # d => At(wt, ec, s) = At(vt, dy, s)
  BY <1>2 DEF At
<1>5. At(wt, ec, d) = h
  BY <1>2 DEF At
<1>6. \A s \in Storage : OnHeap(vt, s) => dy[s] \in Heap /\ dy[s] # h
  <2> SUFFICES ASSUME NEW s \in Storage, OnHeap(vt, s) PROVE dy[s] \in Heap /\ dy[s] # h
    OBVIOUS
  <2>1. ob[At(vt, dy, s)] # Raw /\ At(vt, dy, s) = dy[s] /\ dy[s] \in Heap
    BY DEF Sound, OnHeap, At
  <2> QED BY <2>1
<1>7. \A s \in Storage : vt[s] # Null => At(vt, dy, s) \in Storage \cup Heap /\ At(vt, dy, s) # h
  BY <1>6 DEF Sound, Types, At, OnHeap
<1>8. v # Raw
  BY Apart
<1>9. Sound(wt, oc, ec)
  <2>1. \A s \in Storage : OnHeap(wt, s) => ec[s] \in Heap
    BY <1>2, <1>3, <1>6
  <2>2. ASSUME NEW s \in Storage, wt[s] # Null
        PROVE  /\ oc[At(wt, ec, s)] # Raw
               /\ oc[At(wt, ec, s)] \in Value => TypeOf[oc[At(wt, ec, s)]] = wt[s]
    <3>1. CASE s = d
      BY <1>2, <1>5, <1>8, <3>1
    <3>2. CASE s # d
      <4>1. vt[s] # Null /\ wt[s] = vt[s] /\ oc[At(wt, ec, s)] = ob[At(vt, dy, s)]
        BY <1>2, <1>4, <1>7, <2>2, <3>2
      <4> QED BY <4>1 DEF Sound
    <3> QED BY <3>1, <3>2
  <2>3. ASSUME NEW s \in Storage, oc[s] # Raw PROVE wt[s] \in StackType
    <3>1. ob[s] # Raw
      BY <1>2, <2>3
    <3>2. vt[s] \in StackType
      BY <3>1 DEF Sound
    <3> QED BY <1>2, <3>2
  <2>4. ASSUME NEW g \in Heap, oc[g] # Raw PROVE \E s \in Storage : OnHeap(wt, s) /\ ec[s] = g
    <3>1. CASE g = h
      BY <1>2, <1>3, <3>1
    <3>2. CASE g # h
      <4>1. PICK s \in Storage : OnHeap(vt, s) /\ dy[s] = g
        BY <1>2, <2>4, <3>2 DEF Sound
      <4>2. s # d
        BY <4>1 DEF OnHeap
      <4> QED BY <1>2, <1>3, <4>1, <4>2
    <3> QED BY <3>1, <3>2
  <2>5. ASSUME NEW s \in Storage, NEW u \in Storage, OnHeap(wt, s), OnHeap(wt, u), ec[s] = ec[u] PROVE s = u
    BY <1>2, <1>3, <1>6, <2>5 DEF Sound
  <2> QED BY <1>1, <2>1, <2>2, <2>3, <2>4, <2>5 DEF Sound
<1>10. ASSUME NEW s \in Storage PROVE ViewOf(wt, oc, ec)[s] = [ViewOf(vt, ob, dy) EXCEPT ![d] = Item(T, v)][s]
  <2>1. CASE s = d
    BY <1>2, <1>5, <2>1 DEF ViewOf
  <2>2. CASE s # d
    <3>1. wt[s] = vt[s] /\ (vt[s] # Null => oc[At(wt, ec, s)] = ob[At(vt, dy, s)])
      BY <1>2, <1>4, <1>7, <2>2
    <3>2. ViewOf(wt, oc, ec)[s] = ViewOf(vt, ob, dy)[s]
      BY <3>1 DEF ViewOf
    <3> QED BY <2>2, <3>2 DEF ViewOf
  <2> QED BY <2>1, <2>2
<1>11. ViewOf(wt, oc, ec) = [ViewOf(vt, ob, dy) EXCEPT ![d] = Item(T, v)]
  BY <1>10 DEF ViewOf
<1> QED BY <1>9, <1>11

\* The object of a storage is destroyed, and its any is left empty.
LEMMA Drop ==
  ASSUME NEW vt, NEW ob, NEW dy, Sound(vt, ob, dy), NEW d \in Storage, vt[d] # Null,
         NEW wt, wt = Set(vt, d, Null), NEW oc, oc = Set(ob, At(vt, dy, d), Raw)
  PROVE  /\ Sound(wt, oc, dy) /\ ob[At(vt, dy, d)] # Raw
         /\ ViewOf(wt, oc, dy) = [ViewOf(vt, ob, dy) EXCEPT ![d] = Nothing]
<1> USE Addresses DEF Set
<1> DEFINE a == At(vt, dy, d)
<1>1. a \in Storage \cup Heap /\ ob[a] # Raw /\ (OnHeap(vt, d) => a = dy[d]) /\ (~OnHeap(vt, d) => a = d)
  BY DEF Sound, Types, At, OnHeap
<1>2. wt \in Types /\ oc \in Objects
  BY <1>1 DEF Sound, Types, Objects
<1>3. /\ \A s \in Storage : wt[s] = IF s = d THEN Null ELSE vt[s]
      /\ \A b \in Storage \cup Heap : oc[b] = IF b = a THEN Raw ELSE ob[b]
  BY DEF Sound, Types, Objects
<1>4. \A s \in Storage : OnHeap(wt, s) <=> s # d /\ OnHeap(vt, s)
  BY <1>3 DEF OnHeap
<1>5. \A s \in Storage : s # d => At(wt, dy, s) = At(vt, dy, s)
  BY <1>3 DEF At
<1>6. \A s \in Storage : vt[s] # Null /\ s # d => At(vt, dy, s) \in Storage \cup Heap /\ At(vt, dy, s) # a
  <2> SUFFICES ASSUME NEW s \in Storage, vt[s] # Null, s # d
               PROVE  At(vt, dy, s) \in Storage \cup Heap /\ At(vt, dy, s) # a
    OBVIOUS
  <2>1. CASE OnHeap(vt, s)
    <3>1. At(vt, dy, s) = dy[s] /\ dy[s] \in Heap
      BY <2>1 DEF Sound, OnHeap, At
    <3> QED BY <1>1, <2>1, <3>1 DEF Sound
  <2>2. CASE ~OnHeap(vt, s)
    <3>1. At(vt, dy, s) = s
      BY <2>2 DEF Sound, Types, OnHeap, At
    <3> QED BY <1>1, <3>1 DEF Sound
  <2> QED BY <2>1, <2>2
<1> HIDE DEF a
<1>9. Sound(wt, oc, dy)
  <2>1. \A s \in Storage : OnHeap(wt, s) => dy[s] \in Heap
    BY <1>4 DEF Sound
  <2>2. ASSUME NEW s \in Storage, wt[s] # Null
        PROVE  /\ oc[At(wt, dy, s)] # Raw
               /\ oc[At(wt, dy, s)] \in Value => TypeOf[oc[At(wt, dy, s)]] = wt[s]
    <3>1. s # d /\ vt[s] # Null /\ wt[s] = vt[s] /\ oc[At(wt, dy, s)] = ob[At(vt, dy, s)]
      BY <1>3, <1>5, <1>6, <2>2
    <3> QED BY <3>1 DEF Sound
  <2>3. ASSUME NEW s \in Storage, oc[s] # Raw PROVE wt[s] \in StackType
    <3>1. ob[s] # Raw /\ s # a
      BY <1>3, <2>3
    <3>2. vt[s] \in StackType
      BY <3>1 DEF Sound
    <3>3. s # d
      BY <1>1, <3>1, <3>2 DEF OnHeap
    <3> QED BY <1>3, <3>2, <3>3
  <2>4. ASSUME NEW g \in Heap, oc[g] # Raw PROVE \E s \in Storage : OnHeap(wt, s) /\ dy[s] = g
    <3>1. ob[g] # Raw /\ g # a
      BY <1>3, <2>4
    <3>2. PICK s \in Storage : OnHeap(vt, s) /\ dy[s] = g
      BY <3>1 DEF Sound
    <3> QED BY <1>1, <1>4, <3>1, <3>2
  <2>5. \A s, u \in Storage : OnHeap(wt, s) /\ OnHeap(wt, u) /\ dy[s] = dy[u] => s = u
    BY <1>4 DEF Sound
  <2>6. dy \in Pointers
    BY DEF Sound
  <2> QED BY <1>2, <2>1, <2>2, <2>3, <2>4, <2>5, <2>6 DEF Sound
<1>10. ASSUME NEW s \in Storage PROVE ViewOf(wt, oc, dy)[s] = [ViewOf(vt, ob, dy) EXCEPT ![d] = Nothing][s]
  <2>1. CASE s = d
    BY <1>3, <2>1 DEF ViewOf
  <2>2. CASE s # d
    <3>1. wt[s] = vt[s] /\ (vt[s] # Null => oc[At(wt, dy, s)] = ob[At(vt, dy, s)])
      BY <1>3, <1>5, <1>6, <2>2
    <3>2. ViewOf(wt, oc, dy)[s] = ViewOf(vt, ob, dy)[s]
      BY <3>1 DEF ViewOf
    <3> QED BY <2>2, <3>2 DEF ViewOf
  <2> QED BY <2>1, <2>2
<1>11. ViewOf(wt, oc, dy) = [ViewOf(vt, ob, dy) EXCEPT ![d] = Nothing]
  BY <1>10 DEF ViewOf
<1> QED BY <1>1, <1>9, <1>11 DEF a

\* An object on the heap goes from one any to an empty one.
LEMMA Carry ==
  ASSUME NEW vt, NEW ob, NEW dy, Sound(vt, ob, dy), NEW d \in Storage, vt[d] = Null,
         NEW c \in Storage, OnHeap(vt, c),
         NEW wt, wt = [vt EXCEPT ![d] = vt[c], ![c] = Null],
         NEW ec, ec = [dy EXCEPT ![d] = dy[c], ![c] = Null]
  PROVE  /\ Sound(wt, ob, ec)
         /\ ViewOf(wt, ob, ec) = [ViewOf(vt, ob, dy) EXCEPT ![d] = ViewOf(vt, ob, dy)[c], ![c] = Nothing]
<1> USE Addresses
<1>0. c # d
  BY DEF OnHeap
<1>1. wt \in Types /\ ec \in Pointers
  BY DEF Sound, Types, Pointers
<1>2. \A s \in Storage : /\ wt[s] = IF s = c THEN Null ELSE IF s = d THEN vt[c] ELSE vt[s]
                         /\ ec[s] = IF s = c THEN Null ELSE IF s = d THEN dy[c] ELSE dy[s]
  BY DEF Sound, Types, Pointers
<1>3. \A s \in Storage : OnHeap(wt, s) <=> s = d \/ (s # c /\ OnHeap(vt, s))
  BY <1>0, <1>2 DEF OnHeap
<1>4. \A s \in Storage : s # c /\ s # d => At(wt, ec, s) = At(vt, dy, s)
  BY <1>2 DEF At
<1>5. At(wt, ec, d) = At(vt, dy, c)
  BY <1>0, <1>2 DEF At, OnHeap
<1>9. /\ wt[d] = vt[c] /\ ec[d] = dy[c] /\ wt[d] # Null /\ vt[c] # Null /\ dy[c] \in Heap
      /\ ob[At(vt, dy, c)] # Raw /\ (ob[At(vt, dy, c)] \in Value => TypeOf[ob[At(vt, dy, c)]] = vt[c])
  <2>1. vt[c] # Null /\ dy[c] \in Heap
    BY DEF Sound, OnHeap
  <2>2. wt[d] = vt[c] /\ ec[d] = dy[c]
    BY <1>0, <1>2
  <2> QED BY <2>1, <2>2 DEF Sound
<1>6. Sound(wt, ob, ec)
  <2>1. ASSUME NEW s \in Storage, OnHeap(wt, s) PROVE ec[s] \in Heap
    <3>1. CASE s = d
      BY <1>9, <3>1
    <3>2. CASE s # d
      <4>1. OnHeap(vt, s) /\ ec[s] = dy[s]
        BY <1>2, <1>3, <2>1, <3>2
      <4> QED BY <4>1 DEF Sound
    <3> QED BY <3>1, <3>2
  <2>2. ASSUME NEW s \in Storage, wt[s] # Null
        PROVE  /\ ob[At(wt, ec, s)] # Raw
               /\ ob[At(wt, ec, s)] \in Value => TypeOf[ob[At(wt, ec, s)]] = wt[s]
    <3>1. CASE s = d
      BY <1>5, <1>9, <3>1
    <3>2. CASE s # d
      <4>1. s # c /\ vt[s] # Null /\ wt[s] = vt[s] /\ At(wt, ec, s) = At(vt, dy, s)
        BY <1>2, <1>4, <2>2, <3>2
      <4> QED BY <4>1 DEF Sound
    <3> QED BY <3>1, <3>2
  <2>3. ASSUME NEW s \in Storage, ob[s] # Raw PROVE wt[s] \in StackType
    <3>1. vt[s] \in StackType
      BY <2>3 DEF Sound
    <3>2. s # c /\ s # d
      BY <3>1 DEF OnHeap
    <3> QED BY <1>2, <3>1, <3>2
  <2>4. ASSUME NEW g \in Heap, ob[g] # Raw PROVE \E s \in Storage : OnHeap(wt, s) /\ ec[s] = g
    <3>1. PICK s \in Storage : OnHeap(vt, s) /\ dy[s] = g
      BY <2>4 DEF Sound
    <3>2. CASE s = c
      BY <1>0, <1>2, <1>3, <3>1, <3>2
    <3>3. CASE s # c
      <4>1. s # d
        BY <3>1 DEF OnHeap
      <4> QED BY <1>2, <1>3, <3>1, <3>3, <4>1
    <3> QED BY <3>2, <3>3
  <2>5. ASSUME NEW s \in Storage, NEW u \in Storage, OnHeap(wt, s), OnHeap(wt, u), ec[s] = ec[u] PROVE s = u
    BY <1>0, <1>2, <1>3, <2>5 DEF Sound
  <2>6. ob \in Objects
    BY DEF Sound
  <2> QED BY <1>1, <2>1, <2>2, <2>3, <2>4, <2>5, <2>6 DEF Sound
<1>7. ASSUME NEW s \in Storage
      PROVE  ViewOf(wt, ob, ec)[s] = [ViewOf(vt, ob, dy) EXCEPT ![d] = ViewOf(vt, ob, dy)[c], ![c] = Nothing][s]
  <2>1. CASE s = c
    BY <1>2, <2>1 DEF ViewOf
  <2>2. CASE s = d
    <3>1. ViewOf(wt, ob, ec)[d] = Item(vt[c], ob[At(vt, dy, c)]) /\ ViewOf(vt, ob, dy)[c] = Item(vt[c], ob[At(vt, dy, c)])
      BY <1>5, <1>9 DEF ViewOf
    <3> QED BY <1>0, <2>2, <3>1 DEF ViewOf
  <2>3. CASE s # c /\ s # d
    <3>1. wt[s] = vt[s] /\ At(wt, ec, s) = At(vt, dy, s)
      BY <1>2, <1>4, <2>3
    <3>2. ViewOf(wt, ob, ec)[s] = ViewOf(vt, ob, dy)[s]
      BY <3>1 DEF ViewOf
    <3> QED BY <2>3, <3>2 DEF ViewOf
  <2> QED BY <2>1, <2>2, <2>3
<1>8. ViewOf(wt, ob, ec) = [ViewOf(vt, ob, dy) EXCEPT ![d] = ViewOf(vt, ob, dy)[c], ![c] = Nothing]
  BY <1>7 DEF ViewOf
<1> QED BY <1>6, <1>8

\* Two objects of one type in storages are exchanged.
LEMMA ExchangeOnStack ==
  ASSUME NEW vt, NEW ob, NEW dy, Sound(vt, ob, dy), NEW l \in Storage, NEW r \in Storage,
         vt[l] \in StackType, vt[r] = vt[l],
         NEW oc, oc = [ob EXCEPT ![l] = ob[r], ![r] = ob[l]]
  PROVE  /\ Sound(vt, oc, dy)
         /\ ViewOf(vt, oc, dy) =
              [ViewOf(vt, ob, dy) EXCEPT ![l] = ViewOf(vt, ob, dy)[r], ![r] = ViewOf(vt, ob, dy)[l]]
<1> USE Addresses
<1>1. oc \in Objects
  BY DEF Sound, Objects
<1>2. \A a \in Storage \cup Heap : oc[a] = IF a = r THEN ob[l] ELSE IF a = l THEN ob[r] ELSE ob[a]
  BY DEF Sound, Objects
<1>3. At(vt, dy, l) = l /\ At(vt, dy, r) = r
  BY DEF At
<1>4. \A s \in Storage : vt[s] # Null /\ s # l /\ s # r =>
        At(vt, dy, s) \in Storage \cup Heap /\ oc[At(vt, dy, s)] = ob[At(vt, dy, s)]
  <2> SUFFICES ASSUME NEW s \in Storage, vt[s] # Null, s # l, s # r
               PROVE  At(vt, dy, s) \in Storage \cup Heap /\ oc[At(vt, dy, s)] = ob[At(vt, dy, s)]
    OBVIOUS
  <2>1. At(vt, dy, s) \in Storage \cup Heap /\ At(vt, dy, s) # l /\ At(vt, dy, s) # r
    BY DEF Sound, Types, At, OnHeap
  <2> QED BY <1>2, <2>1
<1>5. /\ ob[l] # Raw /\ (ob[l] \in Value => TypeOf[ob[l]] = vt[l])
      /\ ob[r] # Raw /\ (ob[r] \in Value => TypeOf[ob[r]] = vt[l])
  BY <1>3 DEF Sound
<1>6. Sound(vt, oc, dy)
  <2>1. ASSUME NEW s \in Storage, vt[s] # Null
        PROVE  /\ oc[At(vt, dy, s)] # Raw
               /\ oc[At(vt, dy, s)] \in Value => TypeOf[oc[At(vt, dy, s)]] = vt[s]
    <3>1. CASE s = l \/ s = r
      BY <1>2, <1>3, <1>5, <3>1
    <3>2. CASE s # l /\ s # r
      <4>1. oc[At(vt, dy, s)] = ob[At(vt, dy, s)]
        BY <1>4, <2>1, <3>2
      <4> QED BY <2>1, <4>1 DEF Sound
    <3> QED BY <3>1, <3>2
  <2>2. \A s \in Storage : oc[s] # Raw => vt[s] \in StackType
    BY <1>2 DEF Sound
  <2>3. \A g \in Heap : oc[g] = ob[g]
    BY <1>2
  <2>4. \A g \in Heap : oc[g] # Raw => \E s \in Storage : OnHeap(vt, s) /\ dy[s] = g
    BY <2>3 DEF Sound
  <2> QED BY <1>1, <2>1, <2>2, <2>4 DEF Sound
<1>7. ASSUME NEW s \in Storage
      PROVE  ViewOf(vt, oc, dy)[s] =
               [ViewOf(vt, ob, dy) EXCEPT ![l] = ViewOf(vt, ob, dy)[r], ![r] = ViewOf(vt, ob, dy)[l]][s]
  <2>1. CASE s = l \/ s = r
    <3>1. /\ ViewOf(vt, oc, dy)[l] = Item(vt[l], oc[l]) /\ ViewOf(vt, oc, dy)[r] = Item(vt[l], oc[r])
          /\ ViewOf(vt, ob, dy)[l] = Item(vt[l], ob[l]) /\ ViewOf(vt, ob, dy)[r] = Item(vt[l], ob[r])
      BY <1>3 DEF ViewOf
    <3>2. oc[r] = ob[l] /\ oc[l] = ob[r]
      BY <1>2
    <3> QED BY <2>1, <3>1, <3>2 DEF ViewOf
  <2>2. CASE s # l /\ s # r
    <3>1. ViewOf(vt, oc, dy)[s] = ViewOf(vt, ob, dy)[s]
      <4>1. vt[s] # Null => oc[At(vt, dy, s)] = ob[At(vt, dy, s)]
        BY <1>4, <2>2
      <4> QED BY <4>1 DEF ViewOf
    <3> QED BY <2>2, <3>1 DEF ViewOf
  <2> QED BY <2>1, <2>2
<1>8. ViewOf(vt, oc, dy) =
        [ViewOf(vt, ob, dy) EXCEPT ![l] = ViewOf(vt, ob, dy)[r], ![r] = ViewOf(vt, ob, dy)[l]]
  BY <1>7 DEF ViewOf
<1> QED BY <1>6, <1>8

\* Two anys exchange their pointers.
LEMMA ExchangeOnHeap ==
  ASSUME NEW vt, NEW ob, NEW dy, Sound(vt, ob, dy), NEW l \in Storage, NEW r \in Storage,
         OnHeap(vt, l), vt[r] = vt[l],
         NEW ec, ec = [dy EXCEPT ![l] = dy[r], ![r] = dy[l]]
  PROVE  /\ Sound(vt, ob, ec)
         /\ ViewOf(vt, ob, ec) =
              [ViewOf(vt, ob, dy) EXCEPT ![l] = ViewOf(vt, ob, dy)[r], ![r] = ViewOf(vt, ob, dy)[l]]
<1> USE Addresses
<1>0. OnHeap(vt, r) /\ vt[l] # Null
  BY DEF OnHeap
<1>1. ec \in Pointers
  BY DEF Sound, Pointers
<1>2. \A s \in Storage : ec[s] = IF s = r THEN dy[l] ELSE IF s = l THEN dy[r] ELSE dy[s]
  BY DEF Sound, Pointers
<1>3. At(vt, ec, l) = At(vt, dy, r) /\ At(vt, ec, r) = At(vt, dy, l)
  BY <1>0, <1>2 DEF At, OnHeap
<1>4. \A s \in Storage : s # l /\ s # r => At(vt, ec, s) = At(vt, dy, s)
  BY <1>2 DEF At
<1>6. Sound(vt, ob, ec)
  <2>1. ASSUME NEW s \in Storage, vt[s] # Null
        PROVE  /\ ob[At(vt, ec, s)] # Raw
               /\ ob[At(vt, ec, s)] \in Value => TypeOf[ob[At(vt, ec, s)]] = vt[s]
    <3>1. CASE s = l \/ s = r
      BY <1>0, <1>3, <3>1 DEF Sound
    <3>2. CASE s # l /\ s # r
      BY <1>4, <2>1, <3>2 DEF Sound
    <3> QED BY <3>1, <3>2
  <2>2. \A s \in Storage : OnHeap(vt, s) => ec[s] \in Heap
    BY <1>0, <1>2 DEF Sound
  <2>3. ASSUME NEW g \in Heap, ob[g] # Raw PROVE \E s \in Storage : OnHeap(vt, s) /\ ec[s] = g
    <3>1. PICK s \in Storage : OnHeap(vt, s) /\ dy[s] = g
      BY <2>3 DEF Sound
    <3>2. CASE s = l
      BY <1>0, <1>2, <3>1, <3>2
    <3>3. CASE s = r
      BY <1>0, <1>2, <3>1, <3>3
    <3>4. CASE s # l /\ s # r
      BY <1>2, <3>1, <3>4
    <3> QED BY <3>2, <3>3, <3>4
  <2>4. ASSUME NEW s \in Storage, NEW u \in Storage, OnHeap(vt, s), OnHeap(vt, u), ec[s] = ec[u] PROVE s = u
    BY <1>0, <1>2, <2>4 DEF Sound
  <2>5. vt \in Types /\ ob \in Objects /\ \A s \in Storage : ob[s] # Raw => vt[s] \in StackType
    BY DEF Sound
  <2> QED BY <1>1, <2>1, <2>2, <2>3, <2>4, <2>5 DEF Sound
<1>7. ASSUME NEW s \in Storage
      PROVE  ViewOf(vt, ob, ec)[s] =
               [ViewOf(vt, ob, dy) EXCEPT ![l] = ViewOf(vt, ob, dy)[r], ![r] = ViewOf(vt, ob, dy)[l]][s]
  <2>1. CASE s = l \/ s = r
    BY <1>0, <1>3, <2>1 DEF ViewOf
  <2>2. CASE s # l /\ s # r
    <3>1. ViewOf(vt, ob, ec)[s] = ViewOf(vt, ob, dy)[s]
      BY <1>4, <2>2 DEF ViewOf
    <3> QED BY <2>2, <3>1 DEF ViewOf
  <2> QED BY <2>1, <2>2
<1>8. ViewOf(vt, ob, ec) =
        [ViewOf(vt, ob, dy) EXCEPT ![l] = ViewOf(vt, ob, dy)[r], ![r] = ViewOf(vt, ob, dy)[l]]
  BY <1>7 DEF ViewOf
<1> QED BY <1>6, <1>8

\* The value of an object is moved out; the object stays.
LEMMA MovedOut ==
  ASSUME NEW vt, NEW ob, NEW dy, Sound(vt, ob, dy), NEW d \in Storage, vt[d] # Null,
         NEW oc, oc = [ob EXCEPT ![At(vt, dy, d)] = Moved]
  PROVE  Sound(vt, oc, dy)
<1> USE Addresses
<1>1. At(vt, dy, d) \in Storage \cup Heap /\ ob[At(vt, dy, d)] # Raw
  BY DEF Sound, Types, At, OnHeap
<1>2. /\ \A a \in Storage \cup Heap : oc[a] = IF a = At(vt, dy, d) THEN Moved ELSE ob[a]
      /\ Moved # Raw /\ Moved \notin Value
  BY <1>1, Apart DEF Sound, Objects
<1>3. oc \in Objects
  BY DEF Sound, Objects
<1>4. \A s \in Storage : vt[s] # Null => At(vt, dy, s) \in Storage \cup Heap
  BY DEF Sound, Types, At, OnHeap
<1>5. \A s \in Storage : vt[s] # Null =>
        /\ oc[At(vt, dy, s)] # Raw
        /\ oc[At(vt, dy, s)] \in Value => TypeOf[oc[At(vt, dy, s)]] = vt[s]
  BY <1>2, <1>4 DEF Sound
<1>6. \A a \in Storage \cup Heap : oc[a] # Raw => ob[a] # Raw
  BY <1>1, <1>2
<1>7. \A s \in Storage : oc[s] # Raw => vt[s] \in StackType
  BY <1>6 DEF Sound
<1>8. \A h \in Heap : oc[h] # Raw => \E s \in Storage : OnHeap(vt, s) /\ dy[s] = h
  BY <1>6 DEF Sound
<1> QED BY <1>3, <1>5, <1>7, <1>8 DEF Sound

-----------------------------------------------------------------------------
(* The functions on the memory, field by field.                            *)
LEMMA SetVtable ==
  ASSUME NEW m \in MemoryType, NEW s \in Storage, NEW T \in Type \cup {Null}
  PROVE  LET n == [m EXCEPT !.vtable[s] = T]
         IN  /\ n \in MemoryType /\ n.vtable = [m.vtable EXCEPT ![s] = T]
             /\ n.object = m.object /\ n.dynamic = m.dynamic /\ (n.misused <=> m.misused)
BY DEF MemoryType, Types

LEMMA ConstructIs ==
  ASSUME NEW m \in MemoryType, NEW a \in Storage \cup Heap, NEW v \in Value \cup {Raw, Moved}
  PROVE  LET n == Construct(m, a, v)
         IN  /\ n \in MemoryType /\ n.vtable = m.vtable /\ n.dynamic = m.dynamic
             /\ n.object = [m.object EXCEPT ![a] = v]
             /\ n.misused <=> (m.misused \/ m.object[a] # Raw \/ v = Raw)
BY DEF MemoryType, Objects, Construct, Live

LEMMA DestructIs ==
  ASSUME NEW m \in MemoryType, NEW a \in Storage \cup Heap
  PROVE  LET n == Destruct(m, a)
         IN  /\ n \in MemoryType /\ n.vtable = m.vtable /\ n.dynamic = m.dynamic
             /\ n.object = [m.object EXCEPT ![a] = Raw]
             /\ n.misused <=> (m.misused \/ m.object[a] = Raw)
BY DEF MemoryType, Objects, Destruct, Live

LEMMA NewIs ==
  ASSUME NEW m \in MemoryType, NEW s \in Storage, NEW v \in Value \cup {Moved}, Unused(m) # {},
         NEW n, n = New(m, s, v)
  PROVE  /\ n \in MemoryType /\ n.vtable = m.vtable /\ (n.misused <=> m.misused)
         /\ \E h \in Heap : /\ m.object[h] = Raw /\ n.object = Set(m.object, h, v)
                           /\ n.dynamic = Set(m.dynamic, s, h)
<1> DEFINE h == CHOOSE h \in Unused(m) : TRUE
           c == Construct(m, h, v)
           k == [c EXCEPT !.dynamic[s] = h]
<1>1. h \in Heap /\ m.object[h] = Raw
  <2>1. h \in Unused(m)
    OBVIOUS
  <2> QED BY <2>1 DEF Unused, Live
<1>2. n = k
  BY DEF New
<1>3. /\ c \in MemoryType /\ c.vtable = m.vtable /\ c.dynamic = m.dynamic
      /\ c.object = [m.object EXCEPT ![h] = v] /\ (c.misused <=> m.misused)
  <2>1. v # Raw
    BY Apart
  <2> HIDE DEF h
  <2> QED BY <1>1, <2>1, ConstructIs
<1> HIDE DEF h, c
<1>4. /\ k \in MemoryType /\ k.vtable = c.vtable /\ k.object = c.object /\ (k.misused <=> c.misused)
      /\ k.dynamic = [c.dynamic EXCEPT ![s] = h]
  BY <1>1, <1>3 DEF MemoryType, Pointers
<1> HIDE DEF k
<1>5. /\ k \in MemoryType /\ k.vtable = m.vtable /\ (k.misused <=> m.misused)
      /\ k.object = [m.object EXCEPT ![h] = v] /\ k.dynamic = [m.dynamic EXCEPT ![s] = h]
  BY <1>3, <1>4
<1> QED BY <1>1, <1>2, <1>5 DEF Set

\* Null is the type of an empty storage.
LEMMA GoodIs ==
  ASSUME NEW m, Good(m), NEW s \in Storage
  PROVE  /\ m.vtable[s] \in Type \cup {Null}
         /\ View(m)[s] = IF m.vtable[s] = Null THEN Nothing
                         ELSE Item(m.vtable[s], m.object[At(m.vtable, m.dynamic, s)])
         /\ m.vtable[s] # Null => /\ At(m.vtable, m.dynamic, s) \in Storage \cup Heap
                                  /\ m.object[At(m.vtable, m.dynamic, s)] \in Value \cup {Moved}
                                  /\ m.object[At(m.vtable, m.dynamic, s)] \in Value =>
                                       TypeOf[m.object[At(m.vtable, m.dynamic, s)]] = m.vtable[s]
<1>1. m.vtable \in Types /\ m.object \in Objects
  BY DEF Good, Sound
<1>2. m.vtable[s] # Null => At(m.vtable, m.dynamic, s) \in Storage \cup Heap
  BY <1>1 DEF Good, Sound, Types, At, OnHeap
<1> QED BY <1>1, <1>2 DEF Good, Sound, Types, Objects, View, ViewOf

LEMMA FromValueIs ==
  ASSUME NEW m, Good(m), NEW s \in Storage, m.vtable[s] = Null, NEW v \in Value,
         v \in OnStack \/ Unused(m) # {}
  PROVE  /\ Good(FromValue(m, s, v))
         /\ View(FromValue(m, s, v)) = [View(m) EXCEPT ![s] = Item(TypeOf[v], v)]
<1> DEFINE T == TypeOf[v]
           n == [m EXCEPT !.vtable[s] = T]
<1>1. T \in Type /\ (v \in OnStack <=> T \in StackType) /\ v # Raw
  BY StackByType, Apart DEF Type, StackType
<1>2. m \in MemoryType /\ ~m.misused /\ Sound(m.vtable, m.object, m.dynamic)
  BY DEF Good
<1>3. /\ n \in MemoryType /\ n.vtable = [m.vtable EXCEPT ![s] = T]
      /\ n.object = m.object /\ n.dynamic = m.dynamic /\ ~n.misused
  BY <1>1, <1>2, SetVtable
<1>4. FromValue(m, s, v) = IF v \in OnStack THEN Construct(n, s, v) ELSE New(n, s, v)
  BY DEF FromValue
<1> HIDE DEF n, T
<1>5. CASE v \in OnStack
  <2> DEFINE x == Construct(n, s, v)
  <2>1. /\ x \in MemoryType /\ x.vtable = [m.vtable EXCEPT ![s] = T] /\ x.dynamic = m.dynamic
        /\ x.object = [m.object EXCEPT ![s] = v] /\ (x.misused <=> m.object[s] # Raw)
    BY <1>1, <1>3, ConstructIs
  <2> HIDE DEF x
  <2>2. /\ Sound(x.vtable, x.object, x.dynamic) /\ m.object[s] = Raw
        /\ ViewOf(x.vtable, x.object, x.dynamic) = [ViewOf(m.vtable, m.object, m.dynamic) EXCEPT ![s] = Item(T, v)]
    BY <1>1, <1>2, <1>5, <2>1, PutOnStack DEF T
  <2> QED BY <1>4, <1>5, <2>1, <2>2 DEF Good, View, x, T
<1>6. CASE v \notin OnStack
  <2> DEFINE x == New(n, s, v)
  <2>1. Unused(n) # {}
    BY <1>3, <1>6 DEF Unused, Live
  <2>2. PICK h \in Heap : /\ m.object[h] = Raw /\ x.object = Set(m.object, h, v)
                          /\ x.dynamic = Set(m.dynamic, s, h)
                          /\ x \in MemoryType /\ x.vtable = [m.vtable EXCEPT ![s] = T] /\ ~x.misused
    <3>1. /\ x \in MemoryType /\ x.vtable = n.vtable /\ (x.misused <=> n.misused)
          /\ \E h \in Heap : /\ n.object[h] = Raw /\ x.object = Set(n.object, h, v)
                            /\ x.dynamic = Set(n.dynamic, s, h)
      <4>1. n \in MemoryType /\ v \in Value \cup {Moved}
        BY <1>3
      <4> HIDE DEF x
      <4>2. x = New(n, s, v)
        BY DEF x
      <4> QED BY <2>1, <4>1, <4>2, NewIs
    <3> HIDE DEF x
    <3> QED BY <1>3, <3>1
  <2> HIDE DEF x
  <2>3. /\ Sound(x.vtable, x.object, x.dynamic)
        /\ ViewOf(x.vtable, x.object, x.dynamic) = [ViewOf(m.vtable, m.object, m.dynamic) EXCEPT ![s] = Item(T, v)]
    BY <1>1, <1>2, <1>6, <2>2, PutOnHeap DEF T, Set
  <2> QED BY <1>4, <1>6, <2>2, <2>3 DEF Good, View, x, T
<1> QED BY <1>5, <1>6

LEMMA CopyOfIs ==
  ASSUME NEW m, Good(m), NEW d \in Storage, m.vtable[d] = Null, NEW s \in Storage, s # d,
         m.vtable[s] \in StackType \cup {Null} \/ Unused(m) # {}
  PROVE  /\ Good(CopyOf(m, d, s))
         /\ View(CopyOf(m, d, s)) = [View(m) EXCEPT ![d] = View(m)[s]]
<1> DEFINE T == m.vtable[s]
           n == [m EXCEPT !.vtable[d] = T]
           a == At(m.vtable, m.dynamic, s)
           v == m.object[a]
<1>1. /\ T \in Type \cup {Null}
      /\ T # Null => a \in Storage \cup Heap /\ v \in Value \cup {Moved} /\ (v \in Value => TypeOf[v] = T)
      /\ View(m)[s] = IF T = Null THEN Nothing ELSE Item(T, v)
  BY GoodIs
<1>2. m \in MemoryType /\ ~m.misused /\ Sound(m.vtable, m.object, m.dynamic)
  BY DEF Good
<1>3. /\ n \in MemoryType /\ n.vtable = [m.vtable EXCEPT ![d] = T]
      /\ n.object = m.object /\ n.dynamic = m.dynamic /\ ~n.misused
  BY <1>1, <1>2, SetVtable
<1>4. CopyOf(m, d, s) = IF T = Null THEN [m EXCEPT !.vtable[d] = Null] ELSE Copy(n, T, s, d)
  BY DEF CopyOf
<1>5. a = IF T \in StackType THEN s ELSE m.dynamic[s]
  BY DEF At
<1>6. v # Raw \/ T = Null
  BY <1>1, Apart
<1> HIDE DEF n, T, a, v
<1>7. CASE T = Null
  <2>1. n = [m EXCEPT !.vtable[d] = Null]
    BY <1>7 DEF n
  <2>2. n.vtable = m.vtable
    BY <1>2, <1>3, <1>7 DEF Sound, Types
  <2>3. Good(n) /\ View(n) = View(m)
    BY <1>2, <1>3, <2>2 DEF Good, View
  <2>4. View(m)[s] = View(m)[d]
    BY <1>1, <1>7, GoodIs
  <2>5. View(m) = [View(m) EXCEPT ![d] = View(m)[s]]
    BY <2>4 DEF View, ViewOf
  <2> QED BY <1>4, <1>7, <2>1, <2>3, <2>5
<1>8. CASE T \in StackType
  <2> DEFINE x == Construct(n, d, v)
  <2>1. /\ x \in MemoryType /\ x.vtable = [m.vtable EXCEPT ![d] = T] /\ x.dynamic = m.dynamic
        /\ x.object = [m.object EXCEPT ![d] = v] /\ (x.misused <=> m.object[d] # Raw)
    <3>1. T # Null
      BY <1>8, Addresses
    <3> QED BY <1>1, <1>3, <1>6, <3>1, ConstructIs
  <2>2. T # Null /\ CopyOf(m, d, s) = x
    <3>1. T # Null
      BY <1>8, Addresses
    <3>2. v = m.object[s]
      BY <1>5, <1>8 DEF v
    <3> QED BY <1>3, <1>4, <1>8, <3>1, <3>2 DEF Copy
  <2> HIDE DEF x
  <2>3. /\ Sound(x.vtable, x.object, x.dynamic) /\ m.object[d] = Raw
        /\ ViewOf(x.vtable, x.object, x.dynamic) = [ViewOf(m.vtable, m.object, m.dynamic) EXCEPT ![d] = Item(T, v)]
    BY <1>1, <1>2, <1>8, <2>1, <2>2, PutOnStack
  <2> QED BY <1>1, <2>1, <2>2, <2>3 DEF Good, View
<1>9. CASE T # Null /\ T \notin StackType
  <2> DEFINE x == New(n, d, v)
  <2>1. Unused(n) # {}
    BY <1>3, <1>9 DEF Unused, Live, T
  <2>2. /\ x \in MemoryType /\ x.vtable = n.vtable /\ (x.misused <=> n.misused)
        /\ \E h \in Heap : /\ n.object[h] = Raw /\ x.object = Set(n.object, h, v)
                          /\ x.dynamic = Set(n.dynamic, d, h)
    <3>1. n \in MemoryType /\ v \in Value \cup {Moved}
      BY <1>1, <1>3, <1>9
    <3> HIDE DEF x
    <3>2. x = New(n, d, v)
      BY DEF x
    <3> QED BY <2>1, <3>1, <3>2, NewIs
  <2>3. CopyOf(m, d, s) = x
    BY <1>3, <1>4, <1>5, <1>9 DEF Copy, v
  <2> HIDE DEF x
  <2>4. PICK h \in Heap : /\ m.object[h] = Raw /\ x.object = Set(m.object, h, v)
                          /\ x.dynamic = Set(m.dynamic, d, h)
    BY <1>3, <2>2
  <2>5. x \in MemoryType /\ x.vtable = [m.vtable EXCEPT ![d] = T] /\ ~x.misused
    BY <1>3, <2>2
  <2>6. /\ Sound(x.vtable, x.object, x.dynamic)
        /\ ViewOf(x.vtable, x.object, x.dynamic) = [ViewOf(m.vtable, m.object, m.dynamic) EXCEPT ![d] = Item(T, v)]
    BY <1>1, <1>2, <1>9, <2>4, <2>5, PutOnHeap DEF Set
  <2> QED BY <1>1, <1>9, <2>3, <2>5, <2>6 DEF Good, View
<1> QED BY <1>7, <1>8, <1>9

LEMMA ClearIs ==
  ASSUME NEW m, Good(m), NEW s \in Storage
  PROVE  /\ Good(Clear(m, s))
         /\ View(Clear(m, s)) = [View(m) EXCEPT ![s] = Nothing]
<1> DEFINE T == m.vtable[s]
           a == At(m.vtable, m.dynamic, s)
           n == Destruct(m, a)
           x == [n EXCEPT !.vtable[s] = Null]
<1>1. T \in Type \cup {Null} /\ (T # Null => a \in Storage \cup Heap)
  BY GoodIs
<1>2. m \in MemoryType /\ ~m.misused /\ Sound(m.vtable, m.object, m.dynamic)
  BY DEF Good
<1>3. CASE T = Null
  <2>1. Clear(m, s) = m
    BY <1>3 DEF Clear
  <2>2. View(m)[s] = Nothing
    BY <1>3, GoodIs
  <2> QED BY <2>1, <2>2 DEF View, ViewOf
<1>4. CASE T # Null
  <2>1. /\ n \in MemoryType /\ n.vtable = m.vtable /\ n.dynamic = m.dynamic
        /\ n.object = [m.object EXCEPT ![a] = Raw] /\ (n.misused <=> m.object[a] = Raw)
    <3> HIDE DEF a
    <3> QED BY <1>1, <1>2, <1>4, DestructIs
  <2>2. Destroy(m, T, s) = n
    <3>1. OnHeap(m.vtable, s) => m.dynamic[s] # Null
      BY <1>2, Addresses DEF Sound
    <3> QED BY <1>1, <1>4, <3>1 DEF Destroy, At, OnHeap
  <2>3. Clear(m, s) = x
    BY <1>4, <2>2 DEF Clear
  <2> HIDE DEF n
  <2>4. /\ x \in MemoryType /\ x.vtable = [n.vtable EXCEPT ![s] = Null]
        /\ x.object = n.object /\ x.dynamic = n.dynamic /\ (x.misused <=> n.misused)
    BY <2>1, SetVtable
  <2> HIDE DEF x
  <2>5. /\ Sound(x.vtable, x.object, x.dynamic) /\ m.object[a] # Raw
        /\ ViewOf(x.vtable, x.object, x.dynamic) = [ViewOf(m.vtable, m.object, m.dynamic) EXCEPT ![s] = Nothing]
    BY <1>2, <1>4, <2>1, <2>4, Drop DEF Set
  <2> QED BY <2>1, <2>3, <2>4, <2>5 DEF Good, View
<1> QED BY <1>3, <1>4

LEMMA Same ==
  ASSUME NEW m \in MemoryType, NEW n \in MemoryType, m.vtable = n.vtable, m.object = n.object,
         m.dynamic = n.dynamic, m.misused <=> n.misused
  PROVE  m = n
BY DEF MemoryType

\* Setting a vtable twice leaves the second value.
LEMMA SetTwice ==
  ASSUME NEW m \in MemoryType, NEW s \in Storage, NEW T \in Type \cup {Null}, NEW U \in Type \cup {Null}
  PROVE  [[m EXCEPT !.vtable[s] = T] EXCEPT !.vtable[s] = U] = [m EXCEPT !.vtable[s] = U]
<1> DEFINE k == [m EXCEPT !.vtable[s] = T]
           x == [k EXCEPT !.vtable[s] = U]
           y == [m EXCEPT !.vtable[s] = U]
<1>1. /\ k \in MemoryType /\ k.vtable = [m.vtable EXCEPT ![s] = T]
      /\ k.object = m.object /\ k.dynamic = m.dynamic /\ (k.misused <=> m.misused)
  BY SetVtable
<1>2. /\ y \in MemoryType /\ y.vtable = [m.vtable EXCEPT ![s] = U]
      /\ y.object = m.object /\ y.dynamic = m.dynamic /\ (y.misused <=> m.misused)
  BY SetVtable
<1> HIDE DEF k, y
<1>3. /\ x \in MemoryType /\ x.vtable = [k.vtable EXCEPT ![s] = U]
      /\ x.object = k.object /\ x.dynamic = k.dynamic /\ (x.misused <=> k.misused)
  BY <1>1, SetVtable
<1> HIDE DEF x
<1>4. m.vtable \in Types
  BY DEF MemoryType
<1>5. x.vtable = y.vtable
  BY <1>1, <1>2, <1>3, <1>4 DEF Types
<1>6. x = y
  BY <1>1, <1>2, <1>3, <1>5, Same
<1> QED BY <1>6 DEF k, x, y

\* Moving an object from storage to storage.
LEMMA MoveOnStack ==
  ASSUME NEW m \in MemoryType, NEW T \in StackType, NEW s \in Storage, NEW d \in Storage,
         NEW n, n = Move(m, T, s, d)
  PROVE  /\ n \in MemoryType /\ n.vtable = m.vtable /\ n.dynamic = m.dynamic
         /\ m.misused \/ m.object[s] = Raw => n.misused
         /\ s # d => /\ n.object = [m.object EXCEPT ![d] = m.object[s], ![s] = Raw]
                     /\ n.misused <=> (m.misused \/ m.object[s] = Raw \/ m.object[d] # Raw)
<1> DEFINE v == m.object[s]
           c == Construct(m, d, v)
           x == Destruct(c, s)
<1>1. v \in Value \cup {Raw, Moved} /\ m.object \in Objects
  BY DEF MemoryType, Objects
<1>2. n = x
  BY DEF Move
<1>3. /\ c \in MemoryType /\ c.vtable = m.vtable /\ c.dynamic = m.dynamic
      /\ c.object = [m.object EXCEPT ![d] = v]
      /\ c.misused <=> (m.misused \/ m.object[d] # Raw \/ v = Raw)
  <2> HIDE DEF v
  <2> QED BY <1>1, ConstructIs
<1> HIDE DEF c
<1>4. /\ x \in MemoryType /\ x.vtable = c.vtable /\ x.dynamic = c.dynamic
      /\ x.object = [c.object EXCEPT ![s] = Raw]
      /\ x.misused <=> (c.misused \/ c.object[s] = Raw)
  BY <1>3, DestructIs
<1> HIDE DEF x
<1>5. s # d => c.object[s] = m.object[s]
  BY <1>1, <1>3 DEF Objects
<1> QED BY <1>2, <1>3, <1>4, <1>5

\* Moving a pointer.
LEMMA MoveOnHeap ==
  ASSUME NEW m \in MemoryType, NEW T \in Type \ StackType, NEW s \in Storage, NEW d \in Storage,
         NEW n, n = Move(m, T, s, d)
  PROVE  /\ n \in MemoryType /\ n.vtable = m.vtable /\ n.object = m.object /\ (n.misused <=> m.misused)
         /\ n.dynamic = [m.dynamic EXCEPT ![d] = m.dynamic[s], ![s] = Null]
<1> DEFINE k == [m EXCEPT !.dynamic[d] = m.dynamic[s]]
           x == [k EXCEPT !.dynamic[s] = Null]
<1>1. n = x
  BY DEF Move
<1>2. m.dynamic \in Pointers /\ m.dynamic[s] \in Heap \cup {Null}
  BY DEF MemoryType, Pointers
<1>3. /\ k \in MemoryType /\ k.vtable = m.vtable /\ k.object = m.object /\ (k.misused <=> m.misused)
      /\ k.dynamic = [m.dynamic EXCEPT ![d] = m.dynamic[s]]
  BY <1>2 DEF MemoryType, Pointers
<1> HIDE DEF k
<1>4. /\ x \in MemoryType /\ x.vtable = k.vtable /\ x.object = k.object /\ (x.misused <=> k.misused)
      /\ x.dynamic = [k.dynamic EXCEPT ![s] = Null]
  BY <1>3 DEF MemoryType, Pointers
<1> HIDE DEF x
<1> QED BY <1>1, <1>3, <1>4

LEMMA MoveOfIs ==
  ASSUME NEW m, Good(m), NEW d \in Storage, m.vtable[d] = Null, NEW s \in Storage, s # d
  PROVE  /\ Good(MoveOf(m, d, s))
         /\ View(MoveOf(m, d, s)) = [View(m) EXCEPT ![d] = View(m)[s], ![s] = Nothing]
<1> DEFINE T == m.vtable[s]
           n == [m EXCEPT !.vtable[d] = T]
           k == Move(n, T, s, d)
           x == [k EXCEPT !.vtable[s] = Null]
           a == At(m.vtable, m.dynamic, s)
           v == m.object[a]
<1>1. /\ T \in Type \cup {Null}
      /\ T # Null => a \in Storage \cup Heap /\ v \in Value \cup {Moved} /\ (v \in Value => TypeOf[v] = T)
      /\ View(m)[s] = IF T = Null THEN Nothing ELSE Item(T, v)
  BY GoodIs
<1>2. m \in MemoryType /\ ~m.misused /\ Sound(m.vtable, m.object, m.dynamic)
  BY DEF Good
<1>3. /\ n \in MemoryType /\ n.vtable = [m.vtable EXCEPT ![d] = T]
      /\ n.object = m.object /\ n.dynamic = m.dynamic /\ ~n.misused
  BY <1>1, <1>2, SetVtable
<1>4. MoveOf(m, d, s) = IF T = Null THEN [m EXCEPT !.vtable[d] = Null] ELSE x
  BY DEF MoveOf
<1>5. a = IF T \in StackType THEN s ELSE m.dynamic[s]
  BY DEF At
<1>6. m.vtable \in Types /\ m.object \in Objects /\ m.dynamic \in Pointers
  BY <1>2 DEF Sound
<1> HIDE DEF n
<1>7. CASE T = Null
  <2>1. n = [m EXCEPT !.vtable[d] = Null]
    BY <1>7 DEF n
  <2>2. n.vtable = m.vtable
    BY <1>3, <1>6, <1>7 DEF Types
  <2>3. Good(n) /\ View(n) = View(m)
    BY <1>2, <1>3, <2>2 DEF Good, View
  <2>4. View(m)[s] = Nothing /\ View(m)[d] = Nothing
    BY <1>1, <1>7, GoodIs
  <2>5. View(m) = [View(m) EXCEPT ![d] = View(m)[s], ![s] = Nothing]
    BY <2>4 DEF View, ViewOf
  <2> QED BY <1>4, <1>7, <2>1, <2>3, <2>5
<1>8. CASE T \in StackType
  <2> DEFINE wt == [m.vtable EXCEPT ![d] = T]
             oc == [m.object EXCEPT ![d] = v]
  <2>1. v = m.object[s] /\ T # Null /\ a = s
    BY <1>5, <1>8, Addresses
  <2>2. /\ Sound(wt, oc, m.dynamic) /\ m.object[d] = Raw
        /\ ViewOf(wt, oc, m.dynamic) = [View(m) EXCEPT ![d] = Item(T, v)]
    BY <1>1, <1>2, <1>8, <2>1, PutOnStack DEF View
  <2>3. /\ k \in MemoryType /\ k.vtable = wt /\ k.dynamic = m.dynamic
        /\ k.object = [m.object EXCEPT ![d] = v, ![s] = Raw] /\ ~k.misused
    <3> DEFINE j == Move(n, T, s, d)
    <3> HIDE DEF j
    <3>1. /\ j \in MemoryType /\ j.vtable = n.vtable /\ j.dynamic = n.dynamic
          /\ j.object = [n.object EXCEPT ![d] = n.object[s], ![s] = Raw]
          /\ j.misused <=> (n.misused \/ n.object[s] = Raw \/ n.object[d] # Raw)
      BY <1>3, <1>8, MoveOnStack DEF j
    <3>2. v # Raw
      BY <1>1, <2>1, Apart
    <3> QED BY <1>3, <2>1, <2>2, <3>1, <3>2 DEF j
  <2> HIDE DEF k
  <2>4. /\ x \in MemoryType /\ x.vtable = [wt EXCEPT ![s] = Null] /\ x.dynamic = m.dynamic
        /\ x.object = k.object /\ ~x.misused
    <3> HIDE DEF wt
    <3> QED BY <2>3, SetVtable
  <2> HIDE DEF x
  <2>5. wt[s] = T /\ At(wt, m.dynamic, s) = s
    BY <1>6, <1>8 DEF At, Types
  <2>6. x.object = [oc EXCEPT ![At(wt, m.dynamic, s)] = Raw]
    BY <2>3, <2>4, <2>5
  <2>7. ViewOf(wt, oc, m.dynamic)[s] = View(m)[s]
    BY <2>2 DEF ViewOf
  <2> HIDE DEF wt, oc
  <2>8. /\ Sound(x.vtable, x.object, x.dynamic)
        /\ ViewOf(x.vtable, x.object, x.dynamic) = [ViewOf(wt, oc, m.dynamic) EXCEPT ![s] = Nothing]
    <3> DEFINE dy == m.dynamic
               xt == x.vtable
               xc == x.object
    <3>1. Sound(wt, oc, dy) /\ wt[s] # Null /\ xt = Set(wt, s, Null) /\ xc = Set(oc, At(wt, dy, s), Raw)
      BY <2>1, <2>2, <2>4, <2>5, <2>6 DEF Set
    <3> HIDE DEF dy, xt, xc
    <3>2. Sound(xt, xc, dy) /\ ViewOf(xt, xc, dy) = [ViewOf(wt, oc, dy) EXCEPT ![s] = Nothing]
      BY <3>1, Drop
    <3> QED BY <2>4, <3>2 DEF dy, xt, xc
  <2>9. View(x) = [View(m) EXCEPT ![d] = View(m)[s], ![s] = Nothing]
    BY <1>1, <2>1, <2>2, <2>8 DEF View
  <2> QED BY <1>4, <2>1, <2>4, <2>8, <2>9 DEF Good
<1>9. CASE T # Null /\ T \notin StackType
  <2>1. /\ k \in MemoryType /\ k.vtable = n.vtable /\ k.object = m.object /\ ~k.misused
        /\ k.dynamic = [m.dynamic EXCEPT ![d] = m.dynamic[s], ![s] = Null]
    <3> DEFINE j == Move(n, T, s, d)
    <3> HIDE DEF j
    <3>1. /\ j \in MemoryType /\ j.vtable = n.vtable /\ j.object = n.object /\ (j.misused <=> n.misused)
          /\ j.dynamic = [n.dynamic EXCEPT ![d] = n.dynamic[s], ![s] = Null]
      BY <1>1, <1>3, <1>9, MoveOnHeap DEF j
    <3> QED BY <1>3, <3>1 DEF j
  <2> HIDE DEF k
  <2>2. /\ x \in MemoryType /\ x.vtable = [k.vtable EXCEPT ![s] = Null] /\ x.dynamic = k.dynamic
        /\ x.object = k.object /\ ~x.misused
    BY <2>1, SetVtable
  <2> HIDE DEF x
  <2>3. x.vtable = [m.vtable EXCEPT ![d] = T, ![s] = Null]
    BY <1>3, <2>1, <2>2
  <2>4. OnHeap(m.vtable, s)
    BY <1>1, <1>9 DEF OnHeap
  <2>5. /\ Sound(x.vtable, x.object, x.dynamic)
        /\ ViewOf(x.vtable, x.object, x.dynamic) =
             [View(m) EXCEPT ![d] = View(m)[s], ![s] = Nothing]
    BY <1>2, <2>1, <2>2, <2>3, <2>4, Carry DEF View
  <2> QED BY <1>4, <1>9, <2>2, <2>5 DEF Good, View
<1> QED BY <1>7, <1>8, <1>9

-----------------------------------------------------------------------------
(* Swap.  Objects of one type are swapped by their vtable, through its     *)
(* temporary storage; anys of different types by three moves.              *)
LEMMA SwapStack ==
  ASSUME NEW m, Good(m), NEW l \in Storage, NEW r \in Storage, l # r,
         m.vtable[l] \in StackType, m.vtable[r] = m.vtable[l],
         m.vtable["tmp_storage"] = Null, NEW n, n = Swap(m, m.vtable[l], l, r)
  PROVE  Good(n) /\ View(n) = [View(m) EXCEPT ![l] = View(m)[r], ![r] = View(m)[l]]
<1> DEFINE T == m.vtable[l]
           u == "tmp_storage"
           j == Move(m, T, r, u)
           k == Move(j, T, l, r)
           x == Move(k, T, u, l)
<1>0. u \in Storage
  BY DEF Storage, Temporary
<1>1. m \in MemoryType /\ ~m.misused /\ Sound(m.vtable, m.object, m.dynamic) /\ m.object \in Objects
  BY DEF Good, Sound
<1>2. n = x
  BY DEF Swap
<1>3. m.vtable[l] # Null /\ m.object[l] # Raw /\ m.object[r] # Raw /\ m.object[u] = Raw /\ l # u /\ r # u
  BY <1>0, <1>1, Addresses DEF Sound, At
<1>4. /\ j \in MemoryType /\ j.vtable = m.vtable /\ j.dynamic = m.dynamic
      /\ j.object = [m.object EXCEPT ![u] = m.object[r], ![r] = Raw]
      /\ j.misused <=> (m.misused \/ m.object[r] = Raw \/ m.object[u] # Raw)
  <2> HIDE DEF u, j
  <2> QED BY <1>0, <1>1, <1>3, MoveOnStack DEF j
<1>5. ~j.misused
  BY <1>1, <1>3, <1>4
<1>t. T \in StackType
  OBVIOUS
<1> HIDE DEF j, u, T
<1>6. j.object \in Objects /\ \A a \in Storage \cup Heap :
        j.object[a] = IF a = r THEN Raw ELSE IF a = u THEN m.object[r] ELSE m.object[a]
  BY <1>0, <1>1, <1>4 DEF Objects
<1>7. /\ k \in MemoryType /\ k.vtable = m.vtable /\ k.dynamic = m.dynamic
      /\ k.object = [j.object EXCEPT ![r] = j.object[l], ![l] = Raw]
      /\ ~k.misused
  <2>3. k = Move(j, T, l, r)
    OBVIOUS
  <2> HIDE DEF k
  <2>1. /\ k \in MemoryType /\ k.vtable = j.vtable /\ k.dynamic = j.dynamic
        /\ k.object = [j.object EXCEPT ![r] = j.object[l], ![l] = Raw]
        /\ k.misused <=> (j.misused \/ j.object[l] = Raw \/ j.object[r] # Raw)
    <3>1. j \in MemoryType /\ l \in Storage /\ r \in Storage /\ l # r
      BY <1>4
    <3> QED BY ONLY <1>t, <2>3, <3>1, MoveOnStack
  <2>2. j.object[l] # Raw /\ j.object[r] = Raw
    BY <1>3, <1>6
  <2> QED BY <1>4, <1>5, <2>1, <2>2
<1> HIDE DEF k
<1>8. \A a \in Storage \cup Heap :
        k.object[a] = IF a = l THEN Raw ELSE IF a = r THEN m.object[l] ELSE IF a = u THEN m.object[r] ELSE m.object[a]
  BY <1>3, <1>6, <1>7 DEF Objects
<1>9. k.object \in Objects
  BY <1>7 DEF MemoryType
<1>10. /\ x \in MemoryType /\ x.vtable = m.vtable /\ x.dynamic = m.dynamic
       /\ x.object = [k.object EXCEPT ![l] = k.object[u], ![u] = Raw]
       /\ ~x.misused
  <2>3. x = Move(k, T, u, l)
    OBVIOUS
  <2> HIDE DEF x
  <2>1. /\ x \in MemoryType /\ x.vtable = k.vtable /\ x.dynamic = k.dynamic
        /\ x.object = [k.object EXCEPT ![l] = k.object[u], ![u] = Raw]
        /\ x.misused <=> (k.misused \/ k.object[u] = Raw \/ k.object[l] # Raw)
    <3>1. k \in MemoryType /\ u \in Storage /\ l \in Storage /\ u # l
      BY <1>0, <1>3, <1>7
    <3> QED BY ONLY <1>t, <2>3, <3>1, MoveOnStack
  <2>2. k.object[u] # Raw /\ k.object[l] = Raw
    BY <1>0, <1>3, <1>8
  <2> QED BY <1>7, <2>1, <2>2
<1> HIDE DEF x
<1>11. x.object = [m.object EXCEPT ![l] = m.object[r], ![r] = m.object[l]]
  <2> DEFINE oc == [m.object EXCEPT ![l] = m.object[r], ![r] = m.object[l]]
  <2>1. oc \in Objects /\ x.object \in Objects
    BY <1>1, <1>10 DEF Objects, MemoryType
  <2>2. ASSUME NEW a \in Storage \cup Heap PROVE x.object[a] = oc[a]
    <3>1. x.object[a] = IF a = u THEN Raw ELSE IF a = l THEN k.object[u] ELSE k.object[a]
      BY <1>0, <1>9, <1>10 DEF Objects
    <3>2. oc[a] = IF a = r THEN m.object[l] ELSE IF a = l THEN m.object[r] ELSE m.object[a]
      BY <1>1 DEF Objects
    <3> QED BY <1>0, <1>3, <1>8, <3>1, <3>2
  <2> HIDE DEF oc
  <2>3. x.object = oc
    BY <2>1, <2>2 DEF Objects
  <2> QED BY <2>3 DEF oc
<1>12. /\ Sound(x.vtable, x.object, x.dynamic)
       /\ ViewOf(x.vtable, x.object, x.dynamic) = [View(m) EXCEPT ![l] = View(m)[r], ![r] = View(m)[l]]
  BY <1>1, <1>10, <1>11, ExchangeOnStack DEF View, T
<1> QED BY <1>2, <1>10, <1>12 DEF Good, View

LEMMA SwapHeap ==
  ASSUME NEW m, Good(m), NEW l \in Storage, NEW r \in Storage,
         m.vtable[l] # Null, m.vtable[l] \notin StackType, m.vtable[r] = m.vtable[l],
         NEW n, n = Swap(m, m.vtable[l], l, r)
  PROVE  Good(n) /\ View(n) = [View(m) EXCEPT ![l] = View(m)[r], ![r] = View(m)[l]]
<1> DEFINE k == [m EXCEPT !.dynamic[l] = m.dynamic[r]]
           x == [k EXCEPT !.dynamic[r] = m.dynamic[l]]
<1>1. m \in MemoryType /\ ~m.misused /\ Sound(m.vtable, m.object, m.dynamic)
  BY DEF Good
<1>2. n = x
  BY DEF Swap
<1>3. m.dynamic \in Pointers /\ m.dynamic[r] \in Heap \cup {Null} /\ m.dynamic[l] \in Heap \cup {Null}
  BY <1>1 DEF MemoryType, Pointers
<1>4. /\ k \in MemoryType /\ k.vtable = m.vtable /\ k.object = m.object /\ (k.misused <=> m.misused)
      /\ k.dynamic = [m.dynamic EXCEPT ![l] = m.dynamic[r]]
  BY <1>1, <1>3 DEF MemoryType, Pointers
<1> HIDE DEF k
<1>5. /\ x \in MemoryType /\ x.vtable = k.vtable /\ x.object = k.object /\ (x.misused <=> k.misused)
      /\ x.dynamic = [k.dynamic EXCEPT ![r] = m.dynamic[l]]
  BY <1>3, <1>4 DEF MemoryType, Pointers
<1> HIDE DEF x
<1>6. x.dynamic = [m.dynamic EXCEPT ![l] = m.dynamic[r], ![r] = m.dynamic[l]]
  BY <1>4, <1>5
<1>7. OnHeap(m.vtable, l)
  BY GoodIs DEF OnHeap
<1>8. /\ Sound(x.vtable, x.object, x.dynamic)
      /\ ViewOf(x.vtable, x.object, x.dynamic) = [View(m) EXCEPT ![l] = View(m)[r], ![r] = View(m)[l]]
  BY <1>1, <1>4, <1>5, <1>6, <1>7, ExchangeOnHeap DEF View
<1> QED BY <1>1, <1>2, <1>4, <1>5, <1>8 DEF Good, View

\* Swapping an object in the storage with itself builds it from nothing.
LEMMA SwapSelf ==
  ASSUME NEW m, Good(m), NEW l \in Storage, m.vtable[l] \in StackType, m.vtable["tmp_storage"] = Null
  PROVE  Swap(m, m.vtable[l], l, l).misused
<1> DEFINE T == m.vtable[l]
           u == "tmp_storage"
           j == Move(m, T, l, u)
           k == Move(j, T, l, l)
           x == Move(k, T, u, l)
<1>0. u \in Storage
  BY DEF Storage, Temporary
<1>1. m \in MemoryType /\ m.object \in Objects
  BY DEF Good, Sound
<1>2. Swap(m, T, l, l) = x
  BY DEF Swap
<1>3. l # u
  BY Addresses
<1> HIDE DEF u, j, k, x
<1>4. j \in MemoryType /\ j.object = [m.object EXCEPT ![u] = m.object[l], ![l] = Raw]
  BY <1>0, <1>1, <1>3, MoveOnStack DEF j
<1>5. j.object[l] = Raw
  BY <1>1, <1>4 DEF Objects
<1>6. k \in MemoryType /\ k.misused
  BY <1>4, <1>5, MoveOnStack DEF k
<1>7. x.misused
  <2>1. x = Move(k, T, u, l) /\ T \in StackType
    BY DEF x
  <2> HIDE DEF T
  <2> QED BY <1>0, <1>6, <2>1, MoveOnStack
<1> QED BY <1>2, <1>7

\* The view says whether an any is empty, and which type it has.
LEMMA ViewSays ==
  ASSUME NEW m, Good(m), NEW s \in Storage
  PROVE  View(m)[s].vtable = m.vtable[s] /\ (m.vtable[s] = Null <=> View(m)[s] = Nothing)
<1>1. View(m)[s].vtable = m.vtable[s]
  BY DEF View, ViewOf, Nothing, Item
<1>2. m.vtable[s] = Null => View(m)[s] = Nothing
  BY DEF View, ViewOf
<1> QED BY <1>1, <1>2 DEF Nothing

\* A move leaves a memory, whatever the type.
LEMMA MoveTyped ==
  ASSUME NEW m \in MemoryType, NEW T \in Type, NEW s \in Storage, NEW d \in Storage,
         NEW n, n = Move(m, T, s, d)
  PROVE  n \in MemoryType /\ n.vtable = m.vtable
<1>1. CASE T \in StackType
  BY <1>1, MoveOnStack
<1>2. CASE T \notin StackType
  <2>1. m \in MemoryType /\ T \in Type \ StackType /\ s \in Storage /\ d \in Storage /\ n = Move(m, T, s, d)
    BY <1>2
  <2>2. /\ n \in MemoryType /\ n.vtable = m.vtable /\ n.object = m.object /\ (n.misused <=> m.misused)
        /\ n.dynamic = [m.dynamic EXCEPT ![d] = m.dynamic[s], ![s] = Null]
    BY ONLY <2>1, MoveOnHeap
  <2> QED BY <2>2
<1> QED BY <1>1, <1>2

(* Anys of different types are swapped by moving the right one to tmp, the *)
(* left one to the right, and tmp to the left.                             *)
LEMMA SwapIsThreeMoves ==
  ASSUME NEW m, Good(m), NEW l \in Storage, NEW r \in Storage, l # "tmp",
         m.vtable[l] # m.vtable[r], NEW a, a = MoveOf(m, "tmp", r), a \in MemoryType
  PROVE  Swapped(m, l, r) = Clear(MoveOf(MoveOf(a, r, l), l, "tmp"), "tmp")
<1> DEFINE t == "tmp"
           S == a.vtable[l]
           o == [a EXCEPT !.vtable[r] = S]
           y == IF S = Null THEN o ELSE Move(o, S, l, r)
           b == MoveOf(a, r, l)
           T == y.vtable[t]
           N == [y EXCEPT !.vtable[l] = T]
           z == IF T = Null THEN N ELSE [Move(N, T, t, l) EXCEPT !.vtable[t] = Null]
<1>1. t \in Storage /\ S \in Type \cup {Null}
  BY DEF Storage, Temporary, MemoryType, Types
<1>2. Swapped(m, l, r) = Clear(z, t)
  BY DEF Swapped, MoveBack
<1>3. b = IF S = Null THEN [a EXCEPT !.vtable[r] = Null] ELSE [y EXCEPT !.vtable[l] = Null]
  BY DEF MoveOf
<1>4. MoveOf(b, l, t) = LET U == b.vtable[t]
                            M == [b EXCEPT !.vtable[l] = U]
                        IN  IF U = Null THEN [b EXCEPT !.vtable[l] = Null]
                            ELSE [Move(M, U, t, l) EXCEPT !.vtable[t] = Null]
  BY DEF MoveOf
<1>5. o \in MemoryType
  <2> HIDE DEF S
  <2> QED BY <1>1, SetVtable
<1>6. y \in MemoryType
  <2>1. CASE S = Null
    BY <1>5, <2>1
  <2>2. CASE S # Null
    <3> HIDE DEF o, S
    <3> QED BY <1>1, <1>5, <2>2, MoveTyped
  <2> QED BY <2>1, <2>2
<1>7. S = Null => b = y
  BY <1>3
<1> HIDE DEF y, b
<1>8. T \in Type \cup {Null}
  BY <1>1, <1>6 DEF MemoryType, Types
<1>9. b.vtable[t] = T /\ [b EXCEPT !.vtable[l] = T] = N
  <2>1. CASE S = Null
    BY <1>7, <2>1
  <2>2. CASE S # Null
    <3> DEFINE x == [y EXCEPT !.vtable[l] = Null]
    <3>1. x.vtable = [y.vtable EXCEPT ![l] = Null]
      BY <1>6, SetVtable
    <3>2. [x EXCEPT !.vtable[l] = T] = N
      <4> HIDE DEF T
      <4> QED BY <1>6, <1>8, SetTwice
    <3> HIDE DEF x
    <3>3. b = x
      BY <1>3, <2>2 DEF x
    <3>4. x.vtable[t] = y.vtable[t]
      BY <1>1, <1>6, <3>1 DEF MemoryType, Types
    <3> QED BY <3>2, <3>3, <3>4
  <2> QED BY <2>1, <2>2
<1> HIDE DEF N, T
<1>10. MoveOf(b, l, t) = z
  BY <1>4, <1>9
<1> QED BY <1>2, <1>10 DEF b

LEMMA SwapDifferent ==
  ASSUME NEW m, Good(m), NEW l \in Storage, NEW r \in Storage, l # "tmp", r # "tmp",
         m.vtable[l] # m.vtable[r], m.vtable["tmp"] = Null, NEW n, n = Swapped(m, l, r)
  PROVE  Good(n) /\ View(n) = [View(m) EXCEPT ![l] = View(m)[r], ![r] = View(m)[l]]
<1> DEFINE t == "tmp"
           a == MoveOf(m, t, r)
           b == MoveOf(a, r, l)
           c == MoveOf(b, l, t)
<1>1. t \in Storage /\ l # r
  BY DEF Storage, Temporary
<1>2. Good(a) /\ View(a) = [View(m) EXCEPT ![t] = View(m)[r], ![r] = Nothing]
  BY <1>1, MoveOfIs
<1>3. n = Clear(c, t)
  <2>1. a \in MemoryType
    BY <1>2 DEF Good
  <2> QED BY <2>1, SwapIsThreeMoves
<1> HIDE DEF a
<1>4. /\ View(m) = [s \in Storage |-> View(m)[s]] /\ View(m)[t] = Nothing
  BY <1>1, ViewSays DEF View, ViewOf
<1> DEFINE V == View(m)
<1> HIDE DEF V
<1>5. View(a)[r] = Nothing /\ View(a)[l] = View(m)[l] /\ View(a)[t] = View(m)[r]
  BY <1>1, <1>2, <1>4
<1>6. Good(b) /\ View(b) = [View(a) EXCEPT ![r] = View(a)[l], ![l] = Nothing]
  <2>1. a.vtable[r] = Null
    BY <1>2, <1>5, ViewSays
  <2>2. Good(a) /\ r \in Storage /\ l \in Storage /\ l # r /\ b = MoveOf(a, r, l)
    BY <1>1, <1>2
  <2> HIDE DEF b
  <2> QED BY ONLY <2>1, <2>2, MoveOfIs
<1> HIDE DEF b
<1>7. View(b)[l] = Nothing /\ View(b)[t] = View(m)[r] /\ View(b)[r] = View(m)[l]
  BY <1>1, <1>2, <1>4, <1>5, <1>6
<1>8. Good(c) /\ View(c) = [View(b) EXCEPT ![l] = View(b)[t], ![t] = Nothing]
  <2>1. b.vtable[l] = Null
    BY <1>6, <1>7, ViewSays
  <2>2. Good(b) /\ l \in Storage /\ t \in Storage /\ l # t /\ c = MoveOf(b, l, t)
    BY <1>1, <1>6
  <2> HIDE DEF c, t
  <2> QED BY ONLY <2>1, <2>2, MoveOfIs
<1> HIDE DEF c
<1>9. Good(n) /\ View(n) = [View(c) EXCEPT ![t] = Nothing]
  <2>1. Good(c) /\ t \in Storage /\ n = Clear(c, t)
    BY <1>1, <1>3, <1>8
  <2> HIDE DEF t
  <2> QED BY ONLY <2>1, ClearIs
<1> DEFINE W == [View(m) EXCEPT ![l] = View(m)[r], ![r] = View(m)[l]]
<1>10. \A s \in Storage : View(n)[s] = W[s]
  <2>1. \A s \in Storage : View(n)[s] = IF s = t THEN Nothing ELSE View(c)[s]
    BY <1>2, <1>4, <1>6, <1>8, <1>9
  <2>2. \A s \in Storage : s # t => View(c)[s] = IF s = l THEN View(m)[r] ELSE View(b)[s]
    BY <1>2, <1>4, <1>6, <1>7, <1>8
  <2>3. \A s \in Storage : s # l => View(b)[s] = IF s = r THEN View(m)[l] ELSE View(a)[s]
    BY <1>2, <1>4, <1>5, <1>6
  <2>4. \A s \in Storage : s # r /\ s # t => View(a)[s] = View(m)[s]
    BY <1>2, <1>4
  <2>5. \A s \in Storage : W[s] = IF s = r THEN View(m)[l] ELSE IF s = l THEN View(m)[r] ELSE View(m)[s]
    BY <1>4
  <2> HIDE DEF W
  <2> QED BY <1>1, <1>4, <2>1, <2>2, <2>3, <2>4, <2>5
<1>11. View(n) = [s \in Storage |-> View(n)[s]] /\ W = [s \in Storage |-> W[s]]
  BY DEF View, ViewOf
<1> QED BY <1>9, <1>10, <1>11

LEMMA SwappedIs ==
  ASSUME NEW m, Good(m), NEW l \in Storage, NEW r \in Storage, l # "tmp", r # "tmp",
         m.vtable["tmp"] = Null, m.vtable["tmp_storage"] = Null,
         l # r \/ m.vtable[l] \notin StackType, NEW n, n = Swapped(m, l, r)
  PROVE  Good(n) /\ View(n) = [View(m) EXCEPT ![l] = View(m)[r], ![r] = View(m)[l]]
<1> DEFINE Result == Good(n) /\ View(n) = [View(m) EXCEPT ![l] = View(m)[r], ![r] = View(m)[l]]
<1>1. CASE m.vtable[l] # m.vtable[r]
  BY <1>1, SwapDifferent
<1>2. CASE m.vtable[l] = m.vtable[r] /\ m.vtable[l] = Null
  <2>1. n = m
    BY <1>2 DEF Swapped
  <2>2. View(m)[l] = Nothing /\ View(m)[r] = Nothing
    BY <1>2, ViewSays
  <2> QED BY <2>1, <2>2 DEF View, ViewOf
<1>3. CASE m.vtable[l] = m.vtable[r] /\ m.vtable[l] # Null
  <2>1. n = Swap(m, m.vtable[l], l, r)
    BY <1>3 DEF Swapped
  <2>2. CASE m.vtable[l] \in StackType
    BY <1>3, <2>1, <2>2, SwapStack
  <2>3. CASE m.vtable[l] \notin StackType
    BY <1>3, <2>1, <2>3, SwapHeap
  <2> QED BY <2>2, <2>3
<1> QED BY <1>1, <1>2, <1>3

-----------------------------------------------------------------------------
(* The program's operations, from a memory whose temporaries are empty.    *)

Clean(m) == Good(m) /\ \A s \in Temporary : m.vtable[s] = Null

LEMMA Places ==
  /\ Place \subseteq Storage /\ Temporary \subseteq Storage
  /\ \A s \in Storage : s \in Place <=> s \notin Temporary
  /\ "value" \in Temporary /\ "tmp" \in Temporary /\ "tmp_storage" \in Temporary
BY Apart DEF Storage, Temporary

LEMMA CleanIs ==
  ASSUME NEW m, Clean(m)
  PROVE  /\ Good(m) /\ \A s \in Temporary : m.vtable[s] = Null /\ View(m)[s] = Nothing
         /\ View(m) = [s \in Storage |-> View(m)[s]]
BY ViewSays, Places DEF Clean, View, ViewOf

\* A memory is clean when its view is one of a clean memory with places changed.
LEMMA CleanView ==
  ASSUME NEW m, Clean(m), NEW n, Good(n), \A s \in Temporary : View(n)[s] = View(m)[s]
  PROVE  Clean(n)
<1>1. \A s \in Temporary : View(n)[s] = Nothing
  BY CleanIs
<1>2. ASSUME NEW s \in Temporary PROVE n.vtable[s] = Null
  <2>1. s \in Storage /\ View(n)[s] = Nothing
    BY <1>1, Places
  <2> QED BY <2>1, ViewSays
<1> QED BY <1>2 DEF Clean

\* An assignment puts what the temporary holds, and destroys what was there.
LEMMA AssignedIs ==
  ASSUME NEW m, Good(m), m.vtable["tmp"] = Null, m.vtable["tmp_storage"] = Null, NEW p \in Place,
         NEW n, n = Assigned(m, p)
  PROVE  Good(n) /\ View(n) = [View(m) EXCEPT ![p] = View(m)["value"], !["value"] = Nothing]
<1> DEFINE w == "value"
           x == Swapped(m, w, p)
<1>1. p \in Storage /\ w \in Storage /\ p # "tmp" /\ w # "tmp" /\ p # w
  BY Places
<1>2. Good(x) /\ View(x) = [View(m) EXCEPT ![w] = View(m)[p], ![p] = View(m)[w]]
  <2>1. x = Swapped(m, w, p)
    OBVIOUS
  <2> HIDE DEF x, w
  <2> QED BY ONLY Good(m), m.vtable["tmp"] = Null, m.vtable["tmp_storage"] = Null, <1>1, <2>1, SwappedIs
<1>3. n = Clear(x, w)
  BY DEF Assigned
<1> HIDE DEF x
<1>4. Good(n) /\ View(n) = [View(x) EXCEPT ![w] = Nothing]
  <2> HIDE DEF w
  <2> QED BY ONLY <1>1, <1>2, <1>3, ClearIs
<1>5. View(m) = [s \in Storage |-> View(m)[s]]
  BY DEF View, ViewOf
<1> QED BY <1>1, <1>2, <1>4, <1>5

LEMMA ValueAssignedIs ==
  ASSUME NEW m, Clean(m), NEW p \in Place, NEW v \in Value, v \in OnStack \/ Unused(m) # {},
         NEW n, n = ValueAssigned(m, p, v)
  PROVE  Clean(n) /\ View(n) = [View(m) EXCEPT ![p] = Item(TypeOf[v], v)]
<1> DEFINE w == "value"
           x == FromValue(m, w, v)
<1>1. w \in Storage /\ w \in Temporary /\ Good(m) /\ m.vtable[w] = Null /\ p \in Storage /\ p \notin Temporary
  BY Places, CleanIs
<1>2. Good(x) /\ View(x) = [View(m) EXCEPT ![w] = Item(TypeOf[v], v)]
  <2>1. v \in Value /\ (v \in OnStack \/ Unused(m) # {})
    OBVIOUS
  <2> HIDE DEF w
  <2> QED BY ONLY <1>1, <2>1, FromValueIs
<1>3. n = Assigned(x, p)
  BY DEF ValueAssigned
<1> HIDE DEF x
<1>4. View(m) = [s \in Storage |-> View(m)[s]] /\ \A s \in Temporary : View(m)[s] = Nothing
  BY CleanIs
<1>5. x.vtable["tmp"] = Null /\ x.vtable["tmp_storage"] = Null
  <2>1. View(x)["tmp"] = Nothing /\ View(x)["tmp_storage"] = Nothing
    BY <1>2, <1>4, Places
  <2> QED BY <1>2, <2>1, Places, ViewSays
<1>6. Good(n) /\ View(n) = [View(x) EXCEPT ![p] = View(x)["value"], !["value"] = Nothing]
  BY <1>2, <1>3, <1>5, AssignedIs
<1>7. View(n) = [View(m) EXCEPT ![p] = Item(TypeOf[v], v)]
  BY <1>1, <1>2, <1>4, <1>6
<1>8. \A s \in Temporary : View(n)[s] = View(m)[s]
  BY <1>1, <1>4, <1>7, Places
<1> QED BY <1>6, <1>7, <1>8, CleanView

LEMMA CopyAssignedIs ==
  ASSUME NEW m, Clean(m), NEW p \in Place, NEW q \in Place,
         m.vtable[q] \in StackType \cup {Null} \/ Unused(m) # {}, NEW n, n = CopyAssigned(m, p, q)
  PROVE  Clean(n) /\ View(n) = [View(m) EXCEPT ![p] = View(m)[q]]
<1> DEFINE w == "value"
           x == CopyOf(m, w, q)
<1>1. /\ w \in Storage /\ w \in Temporary /\ Good(m) /\ m.vtable[w] = Null
      /\ p \in Storage /\ p \notin Temporary /\ q \in Storage /\ q \notin Temporary /\ q # w
  BY Places, CleanIs
<1>2. Good(x) /\ View(x) = [View(m) EXCEPT ![w] = View(m)[q]]
  <2>1. m.vtable[q] \in StackType \cup {Null} \/ Unused(m) # {}
    OBVIOUS
  <2> HIDE DEF w
  <2> QED BY ONLY <1>1, <2>1, CopyOfIs
<1>3. n = Assigned(x, p)
  BY DEF CopyAssigned
<1> HIDE DEF x
<1>4. View(m) = [s \in Storage |-> View(m)[s]] /\ \A s \in Temporary : View(m)[s] = Nothing
  BY CleanIs
<1>5. x.vtable["tmp"] = Null /\ x.vtable["tmp_storage"] = Null
  <2>1. View(x)["tmp"] = Nothing /\ View(x)["tmp_storage"] = Nothing
    BY <1>2, <1>4, Places
  <2> QED BY <1>2, <2>1, Places, ViewSays
<1>6. Good(n) /\ View(n) = [View(x) EXCEPT ![p] = View(x)["value"], !["value"] = Nothing]
  BY <1>2, <1>3, <1>5, AssignedIs
<1>7. View(n) = [View(m) EXCEPT ![p] = View(m)[q]]
  BY <1>1, <1>2, <1>4, <1>6
<1>8. \A s \in Temporary : View(n)[s] = View(m)[s]
  BY <1>1, <1>4, <1>7, Places
<1> QED BY <1>6, <1>7, <1>8, CleanView

LEMMA MoveAssignedIs ==
  ASSUME NEW m, Clean(m), NEW p \in Place, NEW q \in Place, NEW n, n = MoveAssigned(m, p, q)
  PROVE  Clean(n) /\ View(n) = [View(m) EXCEPT ![q] = Nothing, ![p] = View(m)[q]]
<1> DEFINE w == "value"
           x == MoveOf(m, w, q)
<1>1. /\ w \in Storage /\ w \in Temporary /\ Good(m) /\ m.vtable[w] = Null
      /\ p \in Storage /\ p \notin Temporary /\ q \in Storage /\ q \notin Temporary /\ q # w
  BY Places, CleanIs
<1>2. Good(x) /\ View(x) = [View(m) EXCEPT ![w] = View(m)[q], ![q] = Nothing]
  <2> HIDE DEF w
  <2> QED BY ONLY <1>1, MoveOfIs
<1>3. n = Assigned(x, p)
  BY DEF MoveAssigned
<1> HIDE DEF x
<1>4. View(m) = [s \in Storage |-> View(m)[s]] /\ \A s \in Temporary : View(m)[s] = Nothing
  BY CleanIs
<1>5. x.vtable["tmp"] = Null /\ x.vtable["tmp_storage"] = Null
  <2>1. View(x)["tmp"] = Nothing /\ View(x)["tmp_storage"] = Nothing
    BY <1>1, <1>2, <1>4, Places
  <2> QED BY <1>2, <2>1, Places, ViewSays
<1>6. Good(n) /\ View(n) = [View(x) EXCEPT ![p] = View(x)["value"], !["value"] = Nothing]
  BY <1>2, <1>3, <1>5, AssignedIs
<1>7. View(n) = [View(m) EXCEPT ![q] = Nothing, ![p] = View(m)[q]]
  BY <1>1, <1>2, <1>4, <1>6
<1>8. \A s \in Temporary : View(n)[s] = View(m)[s]
  BY <1>1, <1>4, <1>7, Places
<1> QED BY <1>6, <1>7, <1>8, CleanView

LEMMA SwapIs ==
  ASSUME NEW m, Clean(m), NEW p \in Place, NEW q \in Place, p # q \/ m.vtable[p] \notin StackType,
         NEW n, n = Swapped(m, p, q)
  PROVE  Clean(n) /\ View(n) = [View(m) EXCEPT ![p] = View(m)[q], ![q] = View(m)[p]]
<1>1. /\ Good(m) /\ m.vtable["tmp"] = Null /\ m.vtable["tmp_storage"] = Null
      /\ p \in Storage /\ q \in Storage /\ p # "tmp" /\ q # "tmp"
  BY Places, CleanIs
<1>2. Good(n) /\ View(n) = [View(m) EXCEPT ![p] = View(m)[q], ![q] = View(m)[p]]
  BY <1>1, SwappedIs
<1>3. \A s \in Temporary : View(n)[s] = View(m)[s]
  BY <1>2, CleanIs, Places
<1> QED BY <1>2, <1>3, CleanView

LEMMA ClearingIs ==
  ASSUME NEW m, Clean(m), NEW p \in Place
  PROVE  Clean(Clear(m, p)) /\ View(Clear(m, p)) = [View(m) EXCEPT ![p] = Nothing]
<1> DEFINE n == Clear(m, p)
<1>1. Good(m) /\ p \in Storage
  BY Places, CleanIs
<1>2. Good(n) /\ View(n) = [View(m) EXCEPT ![p] = Nothing]
  BY <1>1, ClearIs
<1> HIDE DEF n
<1>3. \A s \in Temporary : View(n)[s] = View(m)[s]
  BY <1>2, CleanIs, Places
<1>4. Clean(n)
  BY <1>2, <1>3, CleanView
<1> QED BY <1>2, <1>4 DEF n

\* The constructors build in an empty storage.
LEMMA Constructors ==
  ASSUME NEW m, Clean(m), NEW p \in Place, m.vtable[p] = Null
  PROVE  /\ \A v \in Value : v \in OnStack \/ Unused(m) # {} => Clean(FromValue(m, p, v))
         /\ \A q \in Place : p # q /\ (m.vtable[q] \in StackType \cup {Null} \/ Unused(m) # {})
                               => Clean(CopyOf(m, p, q))
         /\ \A q \in Place : p # q => Clean(MoveOf(m, p, q))
<1>1. /\ Good(m) /\ p \in Storage /\ View(m) = [s \in Storage |-> View(m)[s]]
      /\ \A s \in Temporary : s \in Storage /\ s # p
  BY Places, CleanIs
<1>2. ASSUME NEW v \in Value, v \in OnStack \/ Unused(m) # {} PROVE Clean(FromValue(m, p, v))
  <2> DEFINE n == FromValue(m, p, v)
  <2>1. Good(n) /\ View(n) = [View(m) EXCEPT ![p] = Item(TypeOf[v], v)]
    BY <1>1, <1>2, FromValueIs
  <2> HIDE DEF n
  <2>2. \A s \in Temporary : View(n)[s] = View(m)[s]
    BY <1>1, <2>1
  <2>3. Clean(n)
    BY <2>1, <2>2, CleanView
  <2> QED BY <2>3 DEF n
<1>3. ASSUME NEW q \in Place, p # q, m.vtable[q] \in StackType \cup {Null} \/ Unused(m) # {}
      PROVE  Clean(CopyOf(m, p, q))
  <2> DEFINE n == CopyOf(m, p, q)
  <2>1. Good(n) /\ View(n) = [View(m) EXCEPT ![p] = View(m)[q]]
    <3>1. q \in Storage
      BY Places
    <3> QED BY <1>1, <1>3, <3>1, CopyOfIs
  <2> HIDE DEF n
  <2>2. \A s \in Temporary : View(n)[s] = View(m)[s]
    BY <1>1, <2>1
  <2>3. Clean(n)
    BY <2>1, <2>2, CleanView
  <2> QED BY <2>3 DEF n
<1>4. ASSUME NEW q \in Place, p # q PROVE Clean(MoveOf(m, p, q))
  <2> DEFINE n == MoveOf(m, p, q)
  <2>1. q \in Storage /\ \A s \in Temporary : s # q
    BY Places
  <2>2. Good(n) /\ View(n) = [View(m) EXCEPT ![p] = View(m)[q], ![q] = Nothing]
    BY <1>1, <1>4, <2>1, MoveOfIs
  <2> HIDE DEF n
  <2>3. \A s \in Temporary : View(n)[s] = View(m)[s]
    BY <1>1, <2>1, <2>2
  <2>4. Clean(n)
    BY <2>2, <2>3, CleanView
  <2> QED BY <2>4 DEF n
<1> QED BY <1>2, <1>3, <1>4

-----------------------------------------------------------------------------
(* What the casts return is what the view shows.                           *)

Shown(i) == IF i = Nothing THEN {} ELSE {i.value}
Showing(V) == [p \in Place |-> Shown(V[p])]

LEMMA CastIs ==
  ASSUME NEW m, Good(m), NEW s \in Storage, NEW T \in Type
  PROVE  AnyCast(m, T, s) = IF m.vtable[s] = T THEN At(m.vtable, m.dynamic, s) ELSE Null
BY DEF AnyCast, cast, At

LEMMA ContentIs ==
  ASSUME NEW m, Good(m)
  PROVE  Content(m) = Showing(View(m))
<1>1. ASSUME NEW p \in Place PROVE {Get(m, T, p) : T \in Type} \ {Null} = Shown(View(m)[p])
  <2> DEFINE U == m.vtable[p]
             a == At(m.vtable, m.dynamic, p)
             v == m.object[a]
  <2>1. p \in Storage
    BY Places
  <2>2. /\ U \in Type \cup {Null}
        /\ U # Null => a \in Storage \cup Heap /\ v \in Value \cup {Moved}
        /\ View(m)[p] = IF U = Null THEN Nothing ELSE Item(U, v)
    BY <2>1, GoodIs
  <2>3. \A T \in Type : AnyCast(m, T, p) = IF U = T THEN a ELSE Null
    BY <2>1, CastIs
  <2>4. CASE U = Null
    <3>1. \A T \in Type : Get(m, T, p) = Null
      BY <2>3, <2>4, Addresses DEF Get
    <3>2. Shown(View(m)[p]) = {}
      BY <2>2, <2>4 DEF Shown
    <3> QED BY <3>1, <3>2
  <2>5. CASE U # Null
    <3>1. a # Null /\ v # Null
      BY <2>2, <2>5, Apart
    <3>2. \A T \in Type : Get(m, T, p) = IF U = T THEN v ELSE Null
      BY <2>3, <3>1 DEF Get
    <3>3. U \in Type
      BY <2>2, <2>5
    <3> HIDE DEF U, a, v
    <3>4. {Get(m, T, p) : T \in Type} \ {Null} = {v}
      BY <3>1, <3>2, <3>3
    <3>5. Shown(View(m)[p]) = {v}
      BY <2>2, <2>5 DEF Shown, Item, Nothing
    <3> QED BY <3>4, <3>5
  <2> QED BY <2>4, <2>5
<1> QED BY <1>1 DEF Content, Showing

-----------------------------------------------------------------------------
(* The invariant.                                                          *)

IInv == Clean(Memory)

LEMMA MemoryIs ==
  /\ Memory.vtable = vtable /\ Memory.object = object
  /\ Memory.dynamic = dynamic /\ (Memory.misused <=> misused)
BY DEF Memory

LEMMA Kept ==
  ASSUME NEW n, Clean(n), Become(n)
  PROVE  IInv'
<1>1. /\ Memory'.vtable = n.vtable /\ Memory'.object = n.object
      /\ Memory'.dynamic = n.dynamic /\ (Memory'.misused <=> n.misused)
  BY DEF Memory, Become
<1>2. n.misused \in BOOLEAN /\ n.vtable \in Types /\ n.object \in Objects /\ n.dynamic \in Pointers
  BY DEF Clean, Good, MemoryType
<1>3. Memory' \in MemoryType
  BY <1>2 DEF Memory, MemoryType, Become
<1> QED BY <1>1, <1>3 DEF IInv, Clean, Good

LEMMA Initially == Init => IInv
<1> SUFFICES ASSUME Init PROVE IInv
  OBVIOUS
<1>1. vtable \in Types /\ object \in Objects /\ dynamic \in Pointers /\ misused = FALSE
  BY DEF Init, Types, Objects, Pointers
<1>2. \A s \in Storage : vtable[s] = Null /\ ~OnHeap(vtable, s)
  BY Addresses DEF Init, OnHeap
<1>3. \A a \in Storage \cup Heap : object[a] = Raw
  BY DEF Init
<1>4. Sound(vtable, object, dynamic)
  BY <1>1, <1>2, <1>3 DEF Sound
<1>5. Memory \in MemoryType
  BY <1>1 DEF Memory, MemoryType
<1> QED BY <1>1, <1>2, <1>4, <1>5, MemoryIs, Places DEF IInv, Clean, Good

LEMMA Inductive == IInv /\ [Next]_vars => IInv'
<1> SUFFICES ASSUME IInv, [Next]_vars PROVE IInv'
  OBVIOUS
<1>m. Clean(Memory)
  BY DEF IInv
<1>1. ASSUME NEW p \in Place, ConstructValue(p) PROVE IInv'
  <2>1. PICK v \in Value : Fits(v) /\ Become(FromValue(Memory, p, v))
    BY <1>1 DEF ConstructValue
  <2>2. Clean(FromValue(Memory, p, v))
    BY <1>1, <1>m, <2>1, MemoryIs, Constructors DEF ConstructValue, Fits, Room
  <2> QED BY <2>1, <2>2, Kept
<1>2. ASSUME NEW p \in Place, AssignValue(p) PROVE IInv'
  <2>1. PICK v \in Value : Fits(v) /\ Become(ValueAssigned(Memory, p, v))
    BY <1>2 DEF AssignValue
  <2>2. Clean(ValueAssigned(Memory, p, v))
    BY <1>m, <2>1, ValueAssignedIs DEF Fits, Room
  <2> QED BY <2>1, <2>2, Kept
<1>3. ASSUME NEW p \in Place, ClearAny(p) PROVE IInv'
  BY <1>3, <1>m, ClearingIs, Kept DEF ClearAny
<1>4. ASSUME NEW p \in Place, CastMove(p) PROVE IInv'
  <2>1. PICK T \in Type : /\ AnyCast(Memory, T, p) # Null
                          /\ object' = [object EXCEPT ![AnyCast(Memory, T, p)] = Moved]
    BY <1>4 DEF CastMove
  <2>2. Good(Memory) /\ p \in Storage
    BY <1>m, Places DEF Clean
  <2>3. vtable[p] = T /\ AnyCast(Memory, T, p) = At(vtable, dynamic, p)
    BY <2>1, <2>2, CastIs, MemoryIs
  <2>4. Sound(vtable, object, dynamic) /\ ~misused
    BY <2>2, MemoryIs DEF Good
  <2>5. UNCHANGED <<vtable, dynamic, misused>>
    BY <1>4 DEF CastMove
  <2>6. Sound(vtable, object', dynamic)
    BY <2>1, <2>2, <2>3, <2>4, Addresses, MovedOut
  <2>7. object' \in Objects /\ vtable \in Types /\ dynamic \in Pointers
    BY <2>6 DEF Sound
  <2>8. Memory' \in MemoryType
    <3>1. misused \in BOOLEAN
      BY <2>2 DEF Good, MemoryType, Memory
    <3> QED BY <2>5, <2>7, <3>1 DEF Memory, MemoryType
  <2>9. /\ Memory'.vtable = vtable /\ Memory'.object = object'
        /\ Memory'.dynamic = dynamic /\ ~Memory'.misused
    BY <2>4, <2>5 DEF Memory
  <2>10. \A s \in Temporary : vtable[s] = Null
    BY <1>m, MemoryIs DEF Clean
  <2> QED BY <2>6, <2>8, <2>9, <2>10 DEF IInv, Clean, Good
<1>5. ASSUME NEW p \in Place, NEW q \in Place, ConstructCopy(p, q) PROVE IInv'
  <2>1. Clean(CopyOf(Memory, p, q))
    BY <1>5, <1>m, MemoryIs, Constructors DEF ConstructCopy, CopyFits, Room
  <2> QED BY <1>5, <2>1, Kept DEF ConstructCopy
<1>6. ASSUME NEW p \in Place, NEW q \in Place, ConstructMove(p, q) PROVE IInv'
  <2>1. Clean(MoveOf(Memory, p, q))
    BY <1>6, <1>m, MemoryIs, Constructors DEF ConstructMove
  <2> QED BY <1>6, <2>1, Kept DEF ConstructMove
<1>7. ASSUME NEW p \in Place, NEW q \in Place, AssignCopy(p, q) PROVE IInv'
  <2>1. Clean(CopyAssigned(Memory, p, q))
    BY <1>7, <1>m, MemoryIs, CopyAssignedIs DEF AssignCopy, CopyFits, Room
  <2> QED BY <1>7, <2>1, Kept DEF AssignCopy
<1>8. ASSUME NEW p \in Place, NEW q \in Place, AssignMove(p, q) PROVE IInv'
  BY <1>8, <1>m, MoveAssignedIs, Kept DEF AssignMove
<1>9. ASSUME NEW p \in Place, NEW q \in Place, SwapAnys(p, q) PROVE IInv'
  <2>1. Clean(Swapped(Memory, p, q))
    BY <1>9, <1>m, MemoryIs, SwapIs DEF SwapAnys, MaySwap
  <2> QED BY <1>9, <2>1, Kept DEF SwapAnys
<1>10. CASE UNCHANGED vars
  BY <1>10 DEF vars, IInv, Clean, Good, Memory
<1> QED BY <1>1, <1>2, <1>3, <1>4, <1>5, <1>6, <1>7, <1>8, <1>9, <1>10 DEF Next

(* Between two operations memory is sound and no temporary of an operation *)
(* holds anything.                                                         *)
THEOREM StaysClean == Spec => []IInv
BY Initially, Inductive, PTL DEF Spec

LEMMA NothingMisusedFollows == IInv => NothingMisused
<1> SUFFICES ASSUME IInv PROVE NothingMisused
  OBVIOUS
<1>1. Clean(Memory) /\ Good(Memory)
  BY DEF IInv, Clean
<1>2. ~misused
  BY <1>1, MemoryIs DEF Good
<1>3. ASSUME NEW p \in Place, NEW q \in Place, MaySwap(p, q) PROVE ~Swapped(Memory, p, q).misused
  <2>1. Clean(Swapped(Memory, p, q))
    BY <1>1, <1>3, MemoryIs, SwapIs DEF MaySwap
  <2> QED BY <2>1 DEF Clean, Good
<1>4. ASSUME NEW p \in Place, NEW q \in Place, ~MaySwap(p, q) PROVE Swapped(Memory, p, q).misused
  <2>1. p = q /\ vtable[p] \in StackType /\ p \in Storage
    BY <1>4, Places DEF MaySwap
  <2>2. Swapped(Memory, p, q) = Swap(Memory, vtable[p], p, p)
    BY <2>1, MemoryIs, Addresses DEF Swapped
  <2>3. Memory.vtable["tmp_storage"] = Null
    BY <1>1, CleanIs, Places
  <2>4. Swap(Memory, Memory.vtable[p], p, p).misused
    BY <1>1, <2>1, <2>3, MemoryIs, SwapSelf
  <2> QED BY <2>2, <2>4, MemoryIs
<1> QED BY <1>2, <1>3, <1>4 DEF NothingMisused

(* No operation misuses an object, and of all swaps only that of an any    *)
(* with itself would, when vtable_stack::swap builds it from nothing.      *)
THEOREM NothingIsMisused == Spec => []NothingMisused
BY StaysClean, NothingMisusedFollows, PTL

LEMMA OneOwnerFollows == IInv => OneOwner
<1> SUFFICES ASSUME IInv PROVE OneOwner
  OBVIOUS
<1> DEFINE full == {p \in Place : vtable[p] # Null}
           at(p) == AnyCast(Memory, vtable[p], p)
<1>1. Good(Memory) /\ Sound(vtable, object, dynamic) /\ \A s \in Temporary : vtable[s] = Null
  BY MemoryIs DEF IInv, Clean, Good
<1>2. vtable \in Types /\ object \in Objects /\ dynamic \in Pointers
  BY <1>1 DEF Sound
<1>3. TypeOK
  <2>1. misused \in BOOLEAN
    BY <1>1 DEF Good, MemoryType, Memory
  <2> QED BY <1>2, <2>1 DEF TypeOK, Types, Objects, Pointers
<1>4. \A p \in full : p \in Storage /\ vtable[p] \in Type /\ at(p) = At(vtable, dynamic, p)
  <2> SUFFICES ASSUME NEW p \in full PROVE p \in Storage /\ vtable[p] \in Type /\ at(p) = At(vtable, dynamic, p)
    OBVIOUS
  <2>1. p \in Storage /\ vtable[p] \in Type
    BY <1>2, Places DEF Types
  <2> QED BY <1>1, <2>1, CastIs, MemoryIs
<1>5. \A p \in full : IF vtable[p] \in StackType THEN at(p) = p
                      ELSE at(p) = dynamic[p] /\ OnHeap(vtable, p) /\ dynamic[p] \in Heap
  BY <1>1, <1>4 DEF At, OnHeap, Sound
<1>6. \A p \in full : at(p) \in Storage \cup Heap /\ object[at(p)] # Raw
  <2> SUFFICES ASSUME NEW p \in full PROVE at(p) \in Storage \cup Heap /\ object[at(p)] # Raw
    OBVIOUS
  <2>1. vtable[p] # Null /\ p \in Storage
    BY <1>4
  <2>2. object[At(vtable, dynamic, p)] # Raw
    BY <1>1, <2>1 DEF Sound
  <2> HIDE DEF full, at
  <2> QED BY <1>4, <1>5, <2>1, <2>2
<1>7. ASSUME NEW a \in Storage \cup Heap, object[a] # Raw PROVE \E p \in full : a = at(p)
  <2>1. CASE a \in Storage
    <3>1. vtable[a] \in StackType
      BY <1>1, <1>7, <2>1 DEF Sound
    <3>2. a \in full
      BY <1>1, <2>1, <3>1, Addresses, Places
    <3> HIDE DEF full, at
    <3>3. at(a) = a
      BY <1>5, <3>1, <3>2
    <3> QED BY <3>2, <3>3
  <2>2. CASE a \in Heap
    <3>1. PICK s \in Storage : OnHeap(vtable, s) /\ dynamic[s] = a
      BY <1>1, <1>7, <2>2 DEF Sound
    <3>2. s \in full /\ vtable[s] \notin StackType
      BY <1>1, <3>1, Addresses, Places DEF OnHeap
    <3> HIDE DEF full, at
    <3>3. at(s) = a
      BY <1>5, <3>1, <3>2
    <3> QED BY <3>2, <3>3
  <2> QED BY <2>1, <2>2
<1>8. ASSUME NEW p \in full, NEW q \in full, p # q PROVE at(p) # at(q)
  <2> HIDE DEF at
  <2>1. CASE vtable[p] \in StackType /\ vtable[q] \in StackType
    BY <1>5, <1>8, <2>1
  <2>2. CASE vtable[p] \notin StackType /\ vtable[q] \notin StackType
    BY <1>1, <1>4, <1>5, <1>8, <2>2 DEF Sound
  <2>3. CASE (vtable[p] \in StackType) # (vtable[q] \in StackType)
    BY <1>4, <1>5, <2>3, Addresses
  <2> QED BY <2>1, <2>2, <2>3
<1>9. \A p \in full : object[at(p)] \in Value => TypeOf[object[at(p)]] = vtable[p]
  BY <1>1, <1>4 DEF Sound
<1>10. {a \in Storage \cup Heap : object[a] # Raw} = {at(p) : p \in full}
  <2> HIDE DEF full, at
  <2> QED BY <1>6, <1>7
<1> QED BY <1>3, <1>8, <1>9, <1>10 DEF OneOwner

(* Every live object belongs to one any that says its type, and no any     *)
(* that is not empty lacks one: nothing leaks, nothing is shared.          *)
THEOREM EveryObjectHasOneOwner == Spec => []OneOwner
BY StaysClean, OneOwnerFollows, PTL

LEMMA DoesWhatItSaysFollows == IInv => DoesWhatItSays
<1> SUFFICES ASSUME IInv PROVE DoesWhatItSays
  OBVIOUS
<1> DEFINE V == View(Memory)
           c == Content(Memory)
<1>1. Clean(Memory) /\ Good(Memory)
  BY DEF IInv, Clean
<1>2. c = Showing(V) /\ V = [s \in Storage |-> V[s]]
  BY <1>1, ContentIs, CleanIs
<1>3. c = [r \in Place |-> Shown(V[r])]
  BY <1>2 DEF Showing
<1>4. \A n : Clean(n) => Content(n) = Showing(View(n))
  BY ContentIs DEF Clean
<1> HIDE DEF V, c
<1>5. SUFFICES ASSUME NEW p \in Place, NEW q \in Place
               PROVE
        /\ \A v \in Value :
             Fits(v) => Content(ValueAssigned(Memory, p, v)) = [c EXCEPT ![p] = {v}]
        /\ CopyFits(q) => Content(CopyAssigned(Memory, p, q)) = [c EXCEPT ![p] = c[q]]
        /\ \E left \in {{}} \cup {{v} : v \in Value \cup {Moved}} :
             Content(MoveAssigned(Memory, p, q)) = [c EXCEPT ![q] = left, ![p] = c[q]]
        /\ MaySwap(p, q) => Content(Swapped(Memory, p, q)) = [c EXCEPT ![p] = c[q], ![q] = c[p]]
        /\ Content(Clear(Memory, p)) = [c EXCEPT ![p] = {}]
  BY DEF DoesWhatItSays, c
<1>6. Place \subseteq Storage /\ Shown(Nothing) = {}
  BY Places DEF Shown
<1>7. ASSUME NEW v \in Value, Fits(v) PROVE Content(ValueAssigned(Memory, p, v)) = [c EXCEPT ![p] = {v}]
  <2> DEFINE n == ValueAssigned(Memory, p, v)
             i == Item(TypeOf[v], v)
  <2>1. Clean(n) /\ View(n) = [V EXCEPT ![p] = i]
    BY <1>1, <1>7, ValueAssignedIs DEF Fits, Room, V
  <2>2. Shown(i) = {v}
    BY Apart DEF Shown, Item, Nothing
  <2> HIDE DEF n, i
  <2>3. Content(n) = Showing(View(n))
    BY <1>4, <2>1
  <2>4. Showing(View(n)) = [c EXCEPT ![p] = {v}]
    BY <1>2, <1>3, <1>6, <2>1, <2>2 DEF Showing
  <2> QED BY <2>3, <2>4 DEF n
<1>8. ASSUME CopyFits(q) PROVE Content(CopyAssigned(Memory, p, q)) = [c EXCEPT ![p] = c[q]]
  <2> DEFINE n == CopyAssigned(Memory, p, q)
  <2>1. Clean(n) /\ View(n) = [V EXCEPT ![p] = V[q]]
    BY <1>1, <1>8, CopyAssignedIs, MemoryIs DEF CopyFits, Room, V
  <2> HIDE DEF n
  <2>3. Content(n) = Showing(View(n))
    BY <1>4, <2>1
  <2>4. Showing(View(n)) = [c EXCEPT ![p] = c[q]]
    BY <1>2, <1>3, <1>6, <2>1 DEF Showing
  <2> QED BY <2>3, <2>4 DEF n
<1>9. \E left \in {{}} \cup {{v} : v \in Value \cup {Moved}} :
         Content(MoveAssigned(Memory, p, q)) = [c EXCEPT ![q] = left, ![p] = c[q]]
  <2> DEFINE n == MoveAssigned(Memory, p, q)
  <2>1. Clean(n) /\ View(n) = [V EXCEPT ![q] = Nothing, ![p] = V[q]]
    BY <1>1, MoveAssignedIs DEF V
  <2> HIDE DEF n
  <2>3. Content(n) = Showing(View(n))
    BY <1>4, <2>1
  <2>4. Showing(View(n)) = [c EXCEPT ![q] = {}, ![p] = c[q]]
    <3> DEFINE d == [c EXCEPT ![q] = {}, ![p] = c[q]]
    <3>1. \A r \in Place : View(n)[r] = IF r = p THEN V[q] ELSE IF r = q THEN Nothing ELSE V[r]
      BY <1>2, <1>6, <2>1
    <3>2. \A r \in Place : d[r] = IF r = p THEN c[q] ELSE IF r = q THEN {} ELSE c[r]
      BY <1>3
    <3>3. d = [r \in Place |-> d[r]]
      BY <1>3
    <3> HIDE DEF d
    <3>4. \A r \in Place : Shown(View(n)[r]) = d[r]
      BY <1>3, <1>6, <3>1, <3>2
    <3>5. Showing(View(n)) = d
      BY <3>3, <3>4 DEF Showing
    <3> QED BY <3>5 DEF d
  <2>5. Content(MoveAssigned(Memory, p, q)) = [c EXCEPT ![q] = {}, ![p] = c[q]]
    BY <2>3, <2>4 DEF n
  <2> QED BY <2>5
<1>10. ASSUME MaySwap(p, q)
       PROVE  Content(Swapped(Memory, p, q)) = [c EXCEPT ![p] = c[q], ![q] = c[p]]
  <2> DEFINE n == Swapped(Memory, p, q)
  <2>1. Clean(n) /\ View(n) = [V EXCEPT ![p] = V[q], ![q] = V[p]]
    BY <1>1, <1>10, SwapIs, MemoryIs DEF MaySwap, V
  <2> HIDE DEF n
  <2>3. Content(n) = Showing(View(n))
    BY <1>4, <2>1
  <2>4. Showing(View(n)) = [c EXCEPT ![p] = c[q], ![q] = c[p]]
    <3> DEFINE d == [c EXCEPT ![p] = c[q], ![q] = c[p]]
    <3>1. \A r \in Place : View(n)[r] = IF r = q THEN V[p] ELSE IF r = p THEN V[q] ELSE V[r]
      BY <1>2, <1>6, <2>1
    <3>2. \A r \in Place : d[r] = IF r = q THEN c[p] ELSE IF r = p THEN c[q] ELSE c[r]
      BY <1>3
    <3>3. d = [r \in Place |-> d[r]]
      BY <1>3
    <3> HIDE DEF d
    <3>4. \A r \in Place : Shown(View(n)[r]) = d[r]
      BY <1>3, <3>1, <3>2
    <3>5. Showing(View(n)) = d
      BY <3>3, <3>4 DEF Showing
    <3> QED BY <3>5 DEF d
  <2> QED BY <2>3, <2>4 DEF n
<1>11. Content(Clear(Memory, p)) = [c EXCEPT ![p] = {}]
  <2> DEFINE n == Clear(Memory, p)
  <2>1. Clean(n) /\ View(n) = [V EXCEPT ![p] = Nothing]
    BY <1>1, ClearingIs DEF V
  <2> HIDE DEF n
  <2>3. Content(n) = Showing(View(n))
    BY <1>4, <2>1
  <2>4. Showing(View(n)) = [c EXCEPT ![p] = {}]
    BY <1>2, <1>3, <1>6, <2>1 DEF Showing
  <2> QED BY <2>3, <2>4 DEF n
<1> QED BY <1>7, <1>8, <1>9, <1>10, <1>11

(* Each operation does to what the casts return what any.h says, from any  *)
(* state that can be reached, an assignment to itself included.            *)
THEOREM OperationsDoWhatTheySay == Spec => []DoesWhatItSays
BY StaysClean, DoesWhatItSaysFollows, PTL
=============================================================================
