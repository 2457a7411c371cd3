------------------------------- MODULE Signal -------------------------------
(***************************************************************************)
(* sigslot.h, the synchronous signals: a vector of slots that are called   *)
(* one after the other with the arguments forwarded.  (An asynchronous     *)
(* slot has a thread pool as a member, which cannot be default-constructed:*)
(* no program can have one.)                                               *)
(***************************************************************************)
EXTENDS Naturals, Sequences

CONSTANTS
  Process,
  MaxSlots   \* bound: how many slots the program binds itself

VARIABLES
  pc,        \* "signal": no emission; "emit": in the loop; "emitted": it has returned
  slots_,    \* what each slot does when it is called
  emission,  \* the loop of operator()
  received   \* history: which slots were called, and with what

signalVars == <<slots_, emission, received>>

\* A slot returns, throws, or binds another slot to the signal that is calling it.
Slot == {"returns", "throws", "binds"}

(* next and end: the iterators of the range-for, dangling once slots_ has  *)
(* moved to other memory; arg: the emitted argument, "sent" or "moved";    *)
(* ref: "rvalue" if it is one and Args are values, so that each call moves *)
(* from it.                                                                *)
Begun(n, r) == [next |-> 1, end |-> n, arg |-> "sent", ref |-> r, iterators |-> "valid"]
NoEmission == Begun(0, "lvalue")

SignalInit ==
  /\ slots_ = [p \in Process |-> <<>>]
  /\ emission = [p \in Process |-> NoEmission]
  /\ received = [p \in Process |-> <<>>]

Goto(p, l) == pc' = [pc EXCEPT ![p] = l]

\* The process is gone, and its signal with it.
Forget(p) ==
  /\ slots_' = [slots_ EXCEPT ![p] = <<>>]
  /\ emission' = [emission EXCEPT ![p] = NoEmission]
  /\ received' = [received EXCEPT ![p] = <<>>]

-----------------------------------------------------------------------------
Bind(p) ==
  /\ pc[p] = "signal" /\ Len(slots_[p]) < MaxSlots
  /\ \E s \in Slot : slots_' = [slots_ EXCEPT ![p] = Append(@, s)]
  /\ UNCHANGED <<pc, emission, received>>

\* operator() is called: begin() and end() are evaluated once.
Emit(p) ==
  /\ pc[p] = "signal" /\ Goto(p, "emit")
  /\ \E r \in {"lvalue", "rvalue"} :
       emission' = [emission EXCEPT ![p] = Begun(Len(slots_[p]), r)]
  /\ UNCHANGED <<slots_, received>>

\* Mutant: the loop looks at the size of slots_ again.
MutantMore(p) == emission[p].next <= Len(slots_[p])

More(p) == emission[p].next <= emission[p].end

\* Mutant: a slot that threw is followed by the next one.
MutantAfter(s) == "emit"

\* An exception of a slot leaves the loop, and nobody catches it.
After(s) == IF s = "throws" THEN "terminated" ELSE "emit"

Advance(p, i) ==
  emission' = [emission EXCEPT ![p] =
                 [next |-> @.next + 1, end |-> @.end, ref |-> @.ref, iterators |-> i,
                  arg |-> IF @.ref = "rvalue" THEN "moved" ELSE @.arg]]

\* One call; a push_back by the slot may move slots_.
Run(p) ==
  /\ pc[p] = "emit" /\ More(p) /\ emission[p].iterators = "valid"
  /\ received' = [received EXCEPT ![p] = Append(@, <<emission[p].next, emission[p].arg>>)]
  /\ LET s == slots_[p][emission[p].next] IN
     /\ Goto(p, After(s))
     /\ \/ s # "binds" /\ UNCHANGED slots_ /\ Advance(p, "valid")
        \/ /\ s = "binds" /\ slots_' = [slots_ EXCEPT ![p] = Append(@, "returns")]
           /\ \E i \in {"valid", "dangling"} : Advance(p, i)

\* The next iterator is used after slots_ has moved.
Dangle(p) ==
  /\ pc[p] = "emit" /\ More(p) /\ emission[p].iterators = "dangling"
  /\ Goto(p, "undefined")
  /\ UNCHANGED signalVars

Done(p) ==
  /\ pc[p] = "emit" /\ ~More(p)
  /\ Goto(p, "emitted")
  /\ UNCHANGED signalVars

SignalStep(p) == Bind(p) \/ Emit(p) \/ Run(p) \/ Dangle(p) \/ Done(p)

-----------------------------------------------------------------------------
(* An emission calls the slots in the order of Bind, each one once, and    *)
(* when it returns it has called all that were bound when it began and     *)
(* none that was bound by one of them; nothing follows a slot that threw.  *)
(* Each slot gets the argument that was sent, except from the second one   *)
(* on when the argument was an rvalue taken by value.                      *)
EmissionReachesSlots ==
  \A p \in Process :
    /\ \A i \in DOMAIN received[p] :
         /\ received[p][i][1] = i
         /\ received[p][i][2] # "sent" => i > 1 /\ emission[p].ref = "rvalue"
         /\ slots_[p][i] = "throws" => i = Len(received[p]) /\ pc[p] # "emitted"
    /\ pc[p] = "emitted" => Len(received[p]) = emission[p].end
=============================================================================
