-------------------------- MODULE MachineLifecycle --------------------------
(***************************************************************************)
(* What the provider promises, without caches, handlers and requests: the  *)
(* order in which a Machine, its VirtualMachine and its Node come and go.  *)
(*                                                                         *)
(* A Machine claims its name before a VirtualMachine is created for it,    *)
(* and gives the name back only after it was condemned (its owner deleted  *)
(* it) and the VirtualMachine is gone.  A name is used up by its first     *)
(* VirtualMachine, or by the attempt to create one: there is no second.    *)
(* A Node joins under a name that was used, and leaves only without a      *)
(* VirtualMachine.                                                         *)
(***************************************************************************)
CONSTANTS Machines, Names, NameOf

VARIABLES claims,           \* Machine -> "none", "held" or "condemned"
          used,             \* names that have had their VirtualMachine, or never will
          backed,           \* names with a VirtualMachine
          joined            \* names with a Node
lifecycleVars == <<claims, used, backed, joined>>

LifecycleInit ==
  /\ claims = [k \in Machines |-> "none"]
  /\ used = {} /\ backed = {} /\ joined = {}

Claim(k) ==
  /\ claims[k] = "none"
  /\ claims' = [claims EXCEPT ![k] = "held"]
  /\ UNCHANGED <<used, backed, joined>>

Condemn(k) ==
  /\ claims[k] = "held"
  /\ claims' = [claims EXCEPT ![k] = "condemned"]
  /\ UNCHANGED <<used, backed, joined>>

Release(k) ==
  /\ claims[k] = "condemned"
  /\ NameOf[k] \notin backed
  /\ claims' = [claims EXCEPT ![k] = "none"]
  /\ UNCHANGED <<used, backed, joined>>

\* The VirtualMachine of a name is created, for a Machine that claims it ...
Back(n) ==
  /\ n \notin used
  /\ \E k \in Machines : NameOf[k] = n /\ claims[k] # "none"
  /\ used' = used \cup {n} /\ backed' = backed \cup {n}
  /\ UNCHANGED <<claims, joined>>

\* ... or the attempt fails, for good.
Spoil(n) ==
  /\ n \notin used
  /\ \E k \in Machines : NameOf[k] = n /\ claims[k] # "none"
  /\ used' = used \cup {n}
  /\ UNCHANGED <<claims, backed, joined>>

\* It is deleted, by the provider or behind its back.
Lose(n) ==
  /\ n \in backed
  /\ backed' = backed \ {n}
  /\ UNCHANGED <<claims, used, joined>>

Join(n) ==
  /\ n \in used \ joined
  /\ joined' = joined \cup {n}
  /\ UNCHANGED <<claims, used, backed>>

Leave(n) ==
  /\ n \in joined \ backed
  /\ joined' = joined \ {n}
  /\ UNCHANGED <<claims, used, backed>>

LifecycleNext ==
  \/ \E k \in Machines : Claim(k) \/ Condemn(k) \/ Release(k)
  \/ \E n \in Names : Back(n) \/ Spoil(n) \/ Lose(n) \/ Join(n) \/ Leave(n)

LifecycleSpec == LifecycleInit /\ [][LifecycleNext]_lifecycleVars
=============================================================================
