-------------------------------- MODULE Any --------------------------------
(***************************************************************************)
(* class any of any.h.  An any has a vtable and a storage; the vtable of a *)
(* type says whether its objects live in the storage itself or on the heap *)
(* behind a pointer.  The operations are sequences of vtable calls on the  *)
(* storages of the operands and of temporaries: each one is written here   *)
(* as a function on the memory, and the program's operation is one step.   *)
(***************************************************************************)
CONSTANTS
  Place,       \* where the program keeps anys
  Heap,        \* addresses `new` can return
  Value,
  OnStack,     \* the values whose type does not require allocation
  TypeOf,      \* the type of each value
  Moved,       \* what a moved-from object holds
  Raw,         \* no object
  Null         \* no vtable, or the null pointer

ASSUME StackByType ==
  /\ OnStack \subseteq Value
  /\ \A v, w \in Value : TypeOf[v] = TypeOf[w] => (v \in OnStack <=> w \in OnStack)

VARIABLES
  vtable,      \* any::vtable: the type of what is held, or Null
  object,      \* the object in each storage and at each heap address
  dynamic,     \* storage_union::dynamic
  misused      \* history: a dead object was used, or a live one overwritten

vars == <<vtable, object, dynamic, misused>>

\* The temporaries of assignments and of swap, and the storage of vtable_stack::swap.
Temporary == {"value", "tmp", "tmp_storage"}
Storage == Place \cup Temporary
Type == {TypeOf[v] : v \in Value}
StackType == {TypeOf[v] : v \in OnStack}

\* Addresses, types, values and the marks for their absence are different things.
ASSUME Apart ==
  /\ Place \cap Temporary = {} /\ Storage \cap Heap = {}
  /\ Null \notin Storage \cup Heap \cup Type \cup Value \cup {Raw, Moved}
  /\ Raw \notin Value /\ Moved \notin Value /\ Raw # Moved

Memory == [vtable |-> vtable, object |-> object, dynamic |-> dynamic, misused |-> misused]

Become(m) ==
  /\ vtable' = m.vtable /\ object' = m.object /\ dynamic' = m.dynamic /\ misused' = m.misused

Init ==
  /\ vtable = [s \in Storage |-> Null]
  /\ object = [a \in Storage \cup Heap |-> Raw]
  /\ dynamic = [s \in Storage |-> Null]
  /\ misused = FALSE

-----------------------------------------------------------------------------
(* The language: constructing and destroying an object at an address.      *)

Live(m, a) == m.object[a] # Raw

Construct(m, a, v) ==
  [m EXCEPT !.object[a] = v, !.misused = @ \/ Live(m, a) \/ v = Raw]

Destruct(m, a) == [m EXCEPT !.object[a] = Raw, !.misused = @ \/ ~Live(m, a)]

Unused(m) == {h \in Heap : ~Live(m, h)}

New(m, s, v) ==
  LET h == CHOOSE h \in Unused(m) : TRUE
  IN  [Construct(m, h, v) EXCEPT !.dynamic[s] = h]

-----------------------------------------------------------------------------
(* The functions of the two vtables.                                       *)

\* `delete` of a null pointer does nothing.
Destroy(m, T, s) ==
  IF T \in StackType THEN Destruct(m, s)
  ELSE IF m.dynamic[s] = Null THEN m ELSE Destruct(m, m.dynamic[s])

Copy(m, T, s, d) ==
  IF T \in StackType THEN Construct(m, d, m.object[s])
  ELSE New(m, d, m.object[m.dynamic[s]])

Move(m, T, s, d) ==
  IF T \in StackType THEN Destruct(Construct(m, d, m.object[s]), s)
  ELSE [m EXCEPT !.dynamic[d] = m.dynamic[s], !.dynamic[s] = Null]

Swap(m, T, l, r) ==
  IF T \in StackType
  THEN Move(Move(Move(m, T, r, "tmp_storage"), T, l, r), T, "tmp_storage", l)
  ELSE [m EXCEPT !.dynamic[l] = m.dynamic[r], !.dynamic[r] = m.dynamic[l]]

-----------------------------------------------------------------------------
(* The members of any, on the memory.                                      *)

\* Mutant: the any forgets its object without destroying it.
MutantClear(m, s) == [m EXCEPT !.vtable[s] = Null]

Clear(m, s) ==
  IF m.vtable[s] = Null THEN m
  ELSE [Destroy(m, m.vtable[s], s) EXCEPT !.vtable[s] = Null]

\* any(ValueType&&) at s
FromValue(m, s, v) ==
  LET n == [m EXCEPT !.vtable[s] = TypeOf[v]]
  IN  IF v \in OnStack THEN Construct(n, s, v) ELSE New(n, s, v)

\* any(const any&) at d
CopyOf(m, d, s) ==
  IF m.vtable[s] = Null THEN [m EXCEPT !.vtable[d] = Null]
  ELSE Copy([m EXCEPT !.vtable[d] = m.vtable[s]], m.vtable[s], s, d)

\* any(any&&) at d
MoveOf(m, d, s) ==
  IF m.vtable[s] = Null THEN [m EXCEPT !.vtable[d] = Null]
  ELSE [Move([m EXCEPT !.vtable[d] = m.vtable[s]], m.vtable[s], s, d) EXCEPT !.vtable[s] = Null]

\* Mutant: tmp keeps its vtable, and its destructor destroys what was moved away.
MutantMoveBack(m, l) ==
  LET T == m.vtable["tmp"]
      n == [m EXCEPT !.vtable[l] = T]
  IN  Clear(IF T = Null THEN n ELSE Move(n, T, "tmp", l), "tmp")

\* The second half of swap, once the right operand has been moved to tmp, and tmp's destructor.
MoveBack(m, l) ==
  LET T == m.vtable["tmp"]
      n == [m EXCEPT !.vtable[l] = T]
  IN  Clear(IF T = Null THEN n ELSE [Move(n, T, "tmp", l) EXCEPT !.vtable["tmp"] = Null], "tmp")

\* Mutant: two anys of one type are taken for equal, and left alone.
MutantSwapped(m, l, r) ==
  IF m.vtable[l] = m.vtable[r] THEN m
  ELSE LET n == MoveOf(m, "tmp", r)
           o == [n EXCEPT !.vtable[r] = n.vtable[l]]
       IN  MoveBack(IF n.vtable[l] = Null THEN o ELSE Move(o, n.vtable[l], l, r), l)

Swapped(m, l, r) ==
  IF m.vtable[l] = m.vtable[r]
  THEN IF m.vtable[l] = Null THEN m ELSE Swap(m, m.vtable[l], l, r)
  ELSE LET n == MoveOf(m, "tmp", r)
           o == [n EXCEPT !.vtable[r] = n.vtable[l]]
       IN  MoveBack(IF n.vtable[l] = Null THEN o ELSE Move(o, n.vtable[l], l, r), l)

\* The assignments build a temporary, swap with it and destroy it.
Assigned(m, p) == Clear(Swapped(m, "value", p), "value")

ValueAssigned(m, p, v) == Assigned(FromValue(m, "value", v), p)
CopyAssigned(m, p, q) == Assigned(CopyOf(m, "value", q), p)
MoveAssigned(m, p, q) == Assigned(MoveOf(m, "value", q), p)

-----------------------------------------------------------------------------
(* The any_casts.                                                          *)

\* The address of the object, were it of type T.
cast(m, T, p) == IF T \in StackType THEN p ELSE m.dynamic[p]

\* any_cast<T>(&p): a pointer, null unless p holds a T.
AnyCast(m, T, p) == IF m.vtable[p] = T THEN cast(m, T, p) ELSE Null

\* any_cast<T>(p): the object, or bad_any_cast, for which Null stands.
Get(m, T, p) == IF AnyCast(m, T, p) = Null THEN Null ELSE m.object[AnyCast(m, T, p)]

-----------------------------------------------------------------------------
(* The program's operations.  A copy constructor of the value's type, or   *)
(* `new`, may throw before anything has been changed: such a call is no    *)
(* step.  Heap bounds how many objects need an allocation.                 *)

Room == Unused(Memory) # {}
Fits(v) == v \in OnStack \/ Room
CopyFits(q) == vtable[q] \in StackType \cup {Null} \/ Room

\* An empty any is as good as the raw storage that a constructor begins with.
ConstructValue(p) ==
  /\ vtable[p] = Null
  /\ \E v \in Value : Fits(v) /\ Become(FromValue(Memory, p, v))

ConstructCopy(p, q) == p # q /\ vtable[p] = Null /\ CopyFits(q) /\ Become(CopyOf(Memory, p, q))

ConstructMove(p, q) == p # q /\ vtable[p] = Null /\ Become(MoveOf(Memory, p, q))

AssignValue(p) == \E v \in Value : Fits(v) /\ Become(ValueAssigned(Memory, p, v))

AssignCopy(p, q) == CopyFits(q) /\ Become(CopyAssigned(Memory, p, q))

AssignMove(p, q) == Become(MoveAssigned(Memory, p, q))

(* p.swap(q).  An object in the storage is not swapped with itself:        *)
(* vtable_stack::swap would construct it from a destroyed one.             *)
MaySwap(p, q) == p # q \/ vtable[p] \notin StackType

SwapAnys(p, q) == MaySwap(p, q) /\ Become(Swapped(Memory, p, q))

ClearAny(p) == Become(Clear(Memory, p))

\* any_cast<T>(std::move(p)): the object is moved out, the any keeps what is left of it.
CastMove(p) ==
  /\ \E T \in Type :
       /\ AnyCast(Memory, T, p) # Null
       /\ object' = [object EXCEPT ![AnyCast(Memory, T, p)] = Moved]
  /\ UNCHANGED <<vtable, dynamic, misused>>

Next ==
  \E p \in Place :
    \/ ConstructValue(p) \/ AssignValue(p) \/ ClearAny(p) \/ CastMove(p)
    \/ \E q \in Place : \/ ConstructCopy(p, q) \/ ConstructMove(p, q)
                        \/ AssignCopy(p, q) \/ AssignMove(p, q) \/ SwapAnys(p, q)

Spec == Init /\ [][Next]_vars

-----------------------------------------------------------------------------
\* A part of OneOwner.
TypeOK ==
  /\ vtable \in [Storage -> Type \cup {Null}]
  /\ object \in [Storage \cup Heap -> Value \cup {Raw, Moved}]
  /\ dynamic \in [Storage -> Heap \cup {Null}]
  /\ misused \in BOOLEAN

(* No operation, however it moves objects through temporaries, reads or    *)
(* destroys an object that is gone, or builds one over another; and of all *)
(* swaps only that of an any with itself would, if its object is in the    *)
(* storage: an exception that the comment of swap does not make.           *)
NothingMisused ==
  ~misused /\ \A p, q \in Place : Swapped(Memory, p, q).misused <=> ~MaySwap(p, q)

(* Every live object is held by exactly one any, and every any that is not *)
(* empty holds a live one, of the type it says: nothing leaks, nothing is  *)
(* destroyed twice, two anys never share an object, no temporary keeps one.*)
OneOwner ==
  TypeOK /\
  LET full == {p \in Place : vtable[p] # Null}
      at(p) == AnyCast(Memory, vtable[p], p)
  IN  /\ {a \in Storage \cup Heap : object[a] # Raw} = {at(p) : p \in full}
      /\ \A p, q \in full : p # q => at(p) # at(q)
      /\ \A p \in full : object[at(p)] \in Value => TypeOf[object[at(p)]] = vtable[p]

\* What a program can get out of each any: at most one object, whatever types it tries.
Content(m) == [p \in Place |-> {Get(m, T, p) : T \in Type} \ {Null}]

(* From any state that can be reached, each operation does to what the     *)
(* casts return what the comments of any.h say, an assignment to itself    *)
(* included: a copy leaves its source alone, a move leaves the target with *)
(* the original state of the source, swap exchanges the two, and nobody    *)
(* else is touched.                                                        *)
DoesWhatItSays ==
  LET c == Content(Memory)
  IN  \A p, q \in Place :
        /\ \A v \in Value :
             Fits(v) => Content(ValueAssigned(Memory, p, v)) = [c EXCEPT ![p] = {v}]
        /\ CopyFits(q) => Content(CopyAssigned(Memory, p, q)) = [c EXCEPT ![p] = c[q]]
        /\ \E left \in {{}} \cup {{v} : v \in Value \cup {Moved}} :
             Content(MoveAssigned(Memory, p, q)) = [c EXCEPT ![q] = left, ![p] = c[q]]
        /\ MaySwap(p, q) => Content(Swapped(Memory, p, q)) = [c EXCEPT ![p] = c[q], ![q] = c[p]]
        /\ Content(Clear(Memory, p)) = [c EXCEPT ![p] = {}]
=============================================================================
