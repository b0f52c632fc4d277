--------------------------- MODULE StateContract ---------------------------
(***************************************************************************)
(* What Terraform may rely on when it lets the provider look after the     *)
(* objects of a service, with requests, answers and snapshots left out: a  *)
(* Create makes at most one object; an object the configuration made or    *)
(* imported is in a state, or with a method that runs, or a diagnostic has *)
(* said that it may be left behind, or a resource was misled; a state      *)
(* names one object until the resource leaves it; and a resource that is   *)
(* not misled leaves the state only when there is nothing left that it     *)
(* alone stands for.                                                       *)
(*                                                                         *)
(* ResourceLifecycle and ManagedURLResource implement it.                  *)
(***************************************************************************)
CONSTANTS
  Instances,  \* resource instances of one kind
  Names,      \* what the objects of the service can be called
  None        \* no name

VARIABLES
  renewable,  \* a name can be given to one object after another
  present,    \* the names of objects on the service
  given,      \* the names that were ever given to an object
  kept,       \* kept[r]: the name in the Terraform state of r, None if not in it
  pending,    \* pending[r]: the object a running Create of r is about
  ours,       \* objects there that the configuration made or imported
  told,       \* names a diagnostic was about
  misled      \* names left on an answer that was not about their objects

contractVars ==
  <<renewable, present, given, kept, pending, ours, told, misled>>

Init ==
  /\ renewable \in BOOLEAN
  /\ given \in SUBSET Names
  /\ present \in SUBSET given
  /\ kept = [r \in Instances |-> None]
  /\ pending = [r \in Instances |-> None]
  /\ ours = {}
  /\ told = {}
  /\ misled = {}

\* Somebody has the object k again.
Finds(k) ==
  /\ told' \in {told, told \ {k}}
  /\ misled' \in {misled, misled \ {k}}

\* A Create for an object whose name is in the configuration.
Begins(r, k) ==
  /\ renewable
  /\ kept[r] = None /\ pending[r] = None
  /\ pending' = [pending EXCEPT ![r] = k]
  /\ UNCHANGED <<renewable, present, given, kept, ours, told, misled>>

\* The service makes the object of a Create: one of that name, or one of a new
\* name when the service gives them.
Makes(r, k) ==
  /\ kept[r] = None
  /\ \/ renewable /\ pending[r] = k
     \/ ~renewable /\ pending[r] = None /\ k \notin given
  /\ pending' = [pending EXCEPT ![r] = k]
  /\ present' = present \union {k}
  /\ given' = given \union {k}
  /\ ours' = ours \union {k}
  /\ misled' = misled \ {k}
  /\ UNCHANGED <<renewable, kept, told>>

\* A Create ends well: the state has its object.
Keeps(r) ==
  /\ kept[r] = None /\ pending[r] \in given
  /\ kept' = [kept EXCEPT ![r] = pending[r]]
  /\ pending' = [pending EXCEPT ![r] = None]
  /\ Finds(pending[r])
  /\ UNCHANGED <<renewable, present, given, ours>>

\* Methods end with diagnostics, one of them or all at the end of a process.
Fails(R) ==
  /\ pending' = [r \in Instances |-> IF r \in R THEN None ELSE pending[r]]
  /\ told' = told \union ({pending[r] : r \in R} \ {None})
  /\ UNCHANGED <<renewable, present, given, kept, ours, misled>>

\* An import of an object that is or was there.
Adopts(r, k) ==
  /\ kept[r] = None /\ pending[r] = None /\ k \in given
  /\ kept' = [kept EXCEPT ![r] = k]
  /\ ours' = ours \union ({k} \intersect present)
  /\ Finds(k)
  /\ UNCHANGED <<renewable, present, given, pending>>

\* A Read or an Update ends well: the state goes on naming the same object.
Refreshes(r) ==
  /\ kept[r] # None
  /\ ours' \in {ours, ours \union ({kept[r]} \intersect present)}
  /\ Finds(kept[r])
  /\ UNCHANGED <<renewable, present, given, kept, pending>>

\* A Read or a Delete takes the resource out of the state: its object is gone,
\* or, when a name can be given again, nobody loses sight of an object of ours.
Forgets(r) ==
  /\ kept[r] # None
  /\ ~renewable => kept[r] \notin present
  /\ kept[r] \in ours =>
       \/ kept[r] \in told \union misled
       \/ \E q \in Instances \ {r} : kept[r] \in {kept[q], pending[q]}
  /\ kept' = [kept EXCEPT ![r] = None]
  /\ UNCHANGED <<renewable, present, given, pending, ours, told, misled>>

\* They do so on a 404 that is not about the object.
Drops(r) ==
  /\ kept[r] # None
  /\ kept' = [kept EXCEPT ![r] = None]
  /\ misled' = misled \union ({kept[r]} \intersect ours)
  /\ UNCHANGED <<renewable, present, given, pending, ours, told>>

\* An object goes: by a Delete, by somebody else, or by a Delete given up.
Removes(k) ==
  /\ present' = present \ {k}
  /\ ours' = ours \ {k}
  /\ misled' = misled \ {k}
  /\ UNCHANGED <<renewable, given, kept, pending, told>>

\* An object comes that is nobody's here, or that a Create made after a
\* diagnostic had given it up.
Appears(k) ==
  /\ ~renewable => k \notin given
  /\ present' = present \union {k}
  /\ given' = given \union {k}
  /\ \/ UNCHANGED <<ours, told, misled>>
     \/ /\ ours' = ours \union {k} /\ told' = told \union {k}
        /\ misled' = misled \ {k}
  /\ UNCHANGED <<renewable, kept, pending>>

Next ==
  \/ \E R \in SUBSET Instances : Fails(R)
  \/ \E r \in Instances :
        \/ Keeps(r) \/ Refreshes(r) \/ Forgets(r) \/ Drops(r)
        \/ \E k \in Names : Begins(r, k) \/ Makes(r, k) \/ Adopts(r, k)
  \/ \E k \in Names : Removes(k) \/ Appears(k)

Spec == Init /\ [][Next]_contractVars

-----------------------------------------------------------------------------
\* What follows from it: nothing is lost without a word, unless a resource was
\* misled.
NoneLost ==
  \A k \in ours :
     k \in told \union misled \/ \E r \in Instances : k \in {kept[r], pending[r]}
=============================================================================
