------------------------------- MODULE Deleter -------------------------------
(***************************************************************************)
(* deleter (include/deleter.h): a handle that carries out an action when it *)
(* is destroyed.  Handles are moved, shared (a counted impl) and appended   *)
(* to one another (the next of an impl, itself a handle).  Destroying the  *)
(* last owner of an impl runs its action and then destroys what it owns,   *)
(* handle by handle; other threads work on their own handles meanwhile.    *)
(* Every turn of the loop in append() is a step.                           *)
(***************************************************************************)
EXTENDS Integers, Sequences, FiniteSets, Functions

CONSTANTS Threads,
          Handles,     \* deleter objects outside of any impl
          Actions,     \* what can be encapsulated, each one once
          Nobody, NoAction,
          MaxImpls,    \* bound: impls allocated
          Disciplined  \* clients only append to chains whose shared links
                       \* have nothing behind them

ASSUME ObjectsAssumption == Threads \cap Handles = {} /\ Nobody \notin Handles
ASSUME ActionsAssumption == NoAction \notin Actions
ASSUME BoundAssumption == MaxImpls \in Nat /\ Disciplined \in BOOLEAN

(* The parameter d of the append() a thread is in is a deleter, too. *)
Objects == Handles \cup Threads

VARIABLES handle,  \* the _impl of each deleter object: Null, Raw(a) or Link(i)
          impl,    \* the impls that are allocated
          made,    \* impls allocated so far
          work,    \* deleters each thread still has to destroy, the next one last
          to, at,  \* append(): on which handle, or Nobody, and the impl whose next
                   \* is looked at (0: the handle itself)
          ran,     \* actions carried out, in order
          given,   \* actions encapsulated so far (history)
          promised \* the actions each deleter object answers for (history)

vars == <<handle, impl, made, work, to, at, ran, given, promised>>

Null == <<>>
Raw(a) == <<"object", a>>   \* the low bit of the pointer is set
Link(i) == <<"impl", i>>

IsRaw(d) == d # Null /\ d[1] = "object"
IsLink(d) == d # Null /\ d[1] = "impl"

(* NoAction is that of an impl that only wraps a deleter, its obj. *)
Impl(action, obj, next) == [refs |-> 1, action |-> action, obj |-> obj, next |-> next]

Deleters == {Null} \cup {Raw(a) : a \in Actions} \cup {Link(i) : i \in 1..MaxImpls}
Impls == [refs : Nat \ {0}, action : Actions \cup {NoAction}, obj : Deleters, next : Deleters]

TypeOK ==
  /\ handle \in [Objects -> Deleters]
  /\ DOMAIN impl \subseteq 1..made /\ impl \in [DOMAIN impl -> Impls]
  /\ made \in 0..MaxImpls
  /\ work \in [Threads -> Seq(Deleters)]
  /\ to \in [Threads -> Handles \cup {Nobody}]
  /\ at \in [Threads -> 0..MaxImpls]
  /\ ran \in Seq(Actions)
  /\ given \subseteq Actions
  /\ promised \in [Objects -> SUBSET Actions]

Init ==
  /\ handle = [o \in Objects |-> Null]
  /\ impl = <<>>
  /\ made = 0
  /\ work = [t \in Threads |-> <<>>]
  /\ to = [t \in Threads |-> Nobody]
  /\ at = [t \in Threads |-> 0]
  /\ ran = <<>>
  /\ given = {}
  /\ promised = [o \in Objects |-> {}]

-----------------------------------------------------------------------------
Idle(t) == work[t] = <<>> /\ to[t] = Nobody

(* A handle that is being appended to is nobody else's to use. *)
Free(h) == \A t \in Threads : to[t] # h

(* The heap m with impl i in it. *)
With(m, i, x) == [j \in DOMAIN m \cup {i} |-> IF j = i THEN x ELSE m[j]]

Room == made < MaxImpls

(* make_free_deleter(obj) *)
MakeFree(t, h, a) ==
  /\ Idle(t) /\ Free(h) /\ handle[h] = Null
  /\ handle' = [handle EXCEPT ![h] = Raw(a)]
  /\ given' = given \cup {a}
  /\ promised' = [promised EXCEPT ![h] = {a}]
  /\ UNCHANGED <<impl, made, work, to, at, ran>>

(* make_deleter(next, obj), make_object_deleter(next, obj) and             *)
(* make_free_deleter(next, obj); next may be empty.                        *)
Make(t, h, g, a) ==
  /\ Idle(t) /\ Free(h) /\ Free(g) /\ handle[h] = Null /\ g # h
  /\ Room
  /\ impl' = With(impl, made + 1, Impl(a, Null, handle[g]))
  /\ made' = made + 1
  /\ handle' = [handle EXCEPT ![h] = Link(made + 1), ![g] = Null]
  /\ given' = given \cup {a}
  /\ promised' = [promised EXCEPT ![h] = {a} \cup promised[g], ![g] = {}]
  /\ UNCHANGED <<work, to, at, ran>>

(* Variant of Counted that forgets the second owner. *)
CountedNot(m, i) == m

(* ++_impl->refs *)
Counted(m, i) == [m EXCEPT ![i].refs = @ + 1]

(* g = h.share(): a raw object gets an impl first. *)
ShareRaw(t, h, g) ==
  /\ Idle(t) /\ Free(h) /\ Free(g) /\ handle[g] = Null /\ IsRaw(handle[h])
  /\ Room
  /\ impl' = Counted(With(impl, made + 1, Impl(handle[h][2], Null, Null)), made + 1)
  /\ made' = made + 1
  /\ handle' = [handle EXCEPT ![h] = Link(made + 1), ![g] = Link(made + 1)]
  /\ promised' = [promised EXCEPT ![g] = promised[h]]
  /\ UNCHANGED <<work, to, at, ran, given>>

Share(t, h, g) ==
  /\ Idle(t) /\ Free(h) /\ Free(g) /\ handle[g] = Null /\ IsLink(handle[h])
  /\ impl' = Counted(impl, handle[h][2])
  /\ handle' = [handle EXCEPT ![g] = handle[h]]
  /\ promised' = [promised EXCEPT ![g] = promised[h]]
  /\ UNCHANGED <<made, work, to, at, ran, given>>

(* ~deleter() and reset(nullptr): the handle is left to the destructor. *)
Drop(t, h) ==
  /\ Idle(t) /\ Free(h) /\ handle[h] # Null
  /\ work' = [work EXCEPT ![t] = <<handle[h]>>]
  /\ handle' = [handle EXCEPT ![h] = Null]
  /\ promised' = [promised EXCEPT ![h] = {}]
  /\ UNCHANGED <<impl, made, to, at, ran, given>>

(* h = std::move(g): what h held is destroyed, although h is in use again. *)
MoveAssign(t, h, g) ==
  /\ Idle(t) /\ Free(h) /\ Free(g) /\ h # g /\ handle[g] # Null
  /\ work' = [work EXCEPT ![t] = <<handle[h]>>]
  /\ handle' = [handle EXCEPT ![h] = handle[g], ![g] = Null]
  /\ promised' = [promised EXCEPT ![h] = promised[g], ![g] = {}]
  /\ UNCHANGED <<impl, made, to, at, ran, given>>

-----------------------------------------------------------------------------
(* h.append(std::move(g)): d is moved from g, and the walk starts at h.    *)
AppendTo(t, h, g) ==
  /\ Idle(t) /\ Free(h) /\ Free(g) /\ h # g /\ handle[g] # Null
  /\ to' = [to EXCEPT ![t] = h]
  /\ at' = [at EXCEPT ![t] = 0]
  /\ handle' = [handle EXCEPT ![t] = handle[g], ![g] = Null]
  /\ promised' = [promised EXCEPT ![t] = promised[g], ![g] = {}]
  /\ UNCHANGED <<impl, made, work, ran, given>>

(* next_d is that handle or the next of an impl, next_impl what it holds.  *)
NextImpl(t) == IF at[t] = 0 THEN handle[to[t]] ELSE impl[at[t]].next
PutHandle(t, d) == IF at[t] = 0 THEN [handle EXCEPT ![to[t]] = d] ELSE handle
PutImpl(t, d) == IF at[t] = 0 THEN impl ELSE [impl EXCEPT ![at[t]].next = d]

(* The end of the chain: d goes there. *)
AppendLink(t) ==
  /\ to[t] # Nobody /\ NextImpl(t) = Null
  /\ handle' = [PutHandle(t, handle[t]) EXCEPT ![t] = Null]
  /\ impl' = PutImpl(t, handle[t])
  /\ to' = [to EXCEPT ![t] = Nobody]
  /\ at' = [at EXCEPT ![t] = 0]
  /\ promised' = [promised EXCEPT ![to[t]] = @ \cup promised[t], ![t] = {}]
  /\ UNCHANGED <<made, work, ran, given>>

(* The chain has the impl of d already: it stays as it is, d is destroyed. *)
AppendRefuse(t) ==
  /\ to[t] # Nobody /\ NextImpl(t) = handle[t]
  /\ handle' = [handle EXCEPT ![t] = Null]
  /\ work' = [work EXCEPT ![t] = <<handle[t]>>]
  /\ to' = [to EXCEPT ![t] = Nobody]
  /\ at' = [at EXCEPT ![t] = 0]
  /\ promised' = [promised EXCEPT ![to[t]] = @ \cup promised[t], ![t] = {}]
  /\ UNCHANGED <<impl, made, ran, given>>

(* A raw object becomes a free_deleter_impl. *)
AppendBox(t) ==
  /\ to[t] # Nobody /\ NextImpl(t) # handle[t] /\ IsRaw(NextImpl(t))
  /\ Room
  /\ made' = made + 1
  /\ handle' = PutHandle(t, Link(made + 1))
  /\ impl' = With(PutImpl(t, Link(made + 1)), made + 1, Impl(NextImpl(t)[2], Null, Null))
  /\ at' = [at EXCEPT ![t] = made + 1]
  /\ UNCHANGED <<work, to, ran, given, promised>>

(* A link of this chain alone: on to what is behind it. *)
AppendPass(t) ==
  /\ to[t] # Nobody /\ NextImpl(t) # handle[t] /\ IsLink(NextImpl(t))
  /\ LET i == NextImpl(t)[2]
     IN  /\ impl[i].refs = 1
         /\ at' = [at EXCEPT ![t] = i]
  /\ UNCHANGED <<handle, impl, made, work, to, ran, given, promised>>

(* Variant of AppendWrap that goes on behind a shared link as it is.       *)
AppendWrapNot(t) ==
  /\ to[t] # Nobody /\ NextImpl(t) # handle[t] /\ IsLink(NextImpl(t))
  /\ LET i == NextImpl(t)[2]
     IN  /\ impl[i].refs # 1
         /\ Disciplined => impl[i].next = Null
         /\ at' = [at EXCEPT ![t] = i]
  /\ UNCHANGED <<handle, impl, made, work, to, ran, given, promised>>

(* A link with other owners is wrapped: the new impl owns it in this       *)
(* chain's stead and takes over, out of the shared link, what is behind it. *)
AppendWrap(t) ==
  /\ to[t] # Nobody /\ NextImpl(t) # handle[t] /\ IsLink(NextImpl(t))
  /\ Room
  /\ LET i == NextImpl(t)[2]
     IN  /\ impl[i].refs # 1
         /\ Disciplined => impl[i].next = Null
         /\ impl' = With([PutImpl(t, Link(made + 1)) EXCEPT ![i].next = Null], made + 1,
                         Impl(NoAction, Link(i), impl[i].next))
  /\ made' = made + 1
  /\ handle' = PutHandle(t, Link(made + 1))
  /\ at' = [at EXCEPT ![t] = made + 1]
  /\ UNCHANGED <<work, to, ran, given, promised>>

-----------------------------------------------------------------------------
(* ~deleter(): nothing for an empty one, and a raw object is freed. *)
Top(t) == work[t][Len(work[t])]
Rest(t) == SubSeq(work[t], 1, Len(work[t]) - 1)

DestroyNone(t) ==
  /\ work[t] # <<>> /\ ~IsLink(Top(t))
  /\ work' = [work EXCEPT ![t] = Rest(t)]
  /\ ran' = IF IsRaw(Top(t)) THEN Append(ran, Top(t)[2]) ELSE ran
  /\ UNCHANGED <<handle, impl, made, to, at, given, promised>>

(* --_impl->refs, and other owners are left. *)
Release(t) ==
  /\ work[t] # <<>> /\ IsLink(Top(t))
  /\ LET i == Top(t)[2]
     IN  /\ impl[i].refs > 1
         /\ impl' = [impl EXCEPT ![i].refs = @ - 1]
  /\ work' = [work EXCEPT ![t] = Rest(t)]
  /\ UNCHANGED <<handle, made, to, at, ran, given, promised>>

(* The last owner deletes the impl: its action, its obj, its next. *)
Delete(t) ==
  /\ work[t] # <<>> /\ IsLink(Top(t))
  /\ LET i == Top(t)[2]
     IN  /\ impl[i].refs = 1
         /\ impl' = [j \in DOMAIN impl \ {i} |-> impl[j]]
         /\ ran' = IF impl[i].action = NoAction THEN ran ELSE Append(ran, impl[i].action)
         /\ work' = [work EXCEPT ![t] = Rest(t) \o <<impl[i].next, impl[i].obj>>]
  /\ UNCHANGED <<handle, made, to, at, given, promised>>

Next ==
  \E t \in Threads :
    \/ DestroyNone(t) \/ Release(t) \/ Delete(t)
    \/ AppendLink(t) \/ AppendRefuse(t) \/ AppendBox(t) \/ AppendPass(t) \/ AppendWrap(t)
    \/ \E h \in Handles : Drop(t, h)
    \/ \E h \in Handles, a \in Actions \ given :
         \/ MakeFree(t, h, a)
         \/ \E g \in Handles : Make(t, h, g, a)
    \/ \E h, g \in Handles :
         ShareRaw(t, h, g) \/ Share(t, h, g) \/ MoveAssign(t, h, g) \/ AppendTo(t, h, g)

Spec == Init /\ [][Next]_vars

-----------------------------------------------------------------------------
(* The places that hold d: deleter objects, the obj and next of impls, and  *)
(* what threads have to destroy.                                           *)
InHandles(d) == {o \in Objects : handle[o] = d}
InObjs(d) == {i \in DOMAIN impl : impl[i].obj = d}
InNexts(d) == {i \in DOMAIN impl : impl[i].next = d}
InWork(d) == UNION {{<<t, k>> : k \in {n \in 1..Len(work[t]) : work[t][n] = d}} : t \in Threads}

Owners(d) == Cardinality(InHandles(d)) + Cardinality(InObjs(d))
             + Cardinality(InNexts(d)) + Cardinality(InWork(d))

(* refs is the number of owners, whatever is moved, shared, wrapped or     *)
(* half destroyed: no owner is left with a deleted impl, and no impl is    *)
(* left without an owner.                                                  *)
OwnersCounted ==
  \A i \in 1..MaxImpls :
    IF i \in DOMAIN impl THEN impl[i].refs = Owners(Link(i)) /\ impl[i].refs > 0
    ELSE Owners(Link(i)) = 0

(* "The encapsulated action will only be carried out after both the        *)
(* original deleter and the returned deleter are both destroyed."          *)
Kept == \A o \in Objects : promised[o] \cap Range(ran) = {}

(* "When this deleter is destroyed, both encapsulated actions will be      *)
(* carried out": with the last handle that answers for it, and only once.  *)
CarriedOut ==
  /\ \A i, j \in DOMAIN ran : ran[i] = ran[j] => i = j
  /\ (\A t \in Threads : Idle(t)) =>
       \A a \in given : a \in Range(ran) \/ \E h \in Handles : a \in promised[h]

(* Every action runs once, with the last of the handles that answer for it *)
(* and not before.                                                         *)
RunsAtLast == Kept /\ CarriedOut

=============================================================================
