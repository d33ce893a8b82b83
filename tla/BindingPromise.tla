---------------------------- MODULE BindingPromise ----------------------------
(***************************************************************************)
(* What the credential store promises to the commands that use it: each    *)
(* profile name has at most one usable binding of profile and credential,  *)
(* a command obtains it in one atomic step, and a binding that has been    *)
(* replaced or removed is gone for good.                                   *)
(***************************************************************************)
CONSTANTS Procs, Names, Gens, NoGen

VARIABLES
  usable,   \* the binding a command would obtain for each name
  dead,     \* bindings replaced or removed
  session   \* the binding each command works with
vars == <<usable, dead, session>>

Init ==
  /\ usable = [n \in Names |-> NoGen]
  /\ dead = {}
  /\ session = [p \in Procs |-> NoGen]

InUse(bindings) == {<<n, bindings[n]>> : n \in Names}
Expire(bindings) ==
  \E gone \in SUBSET ((Names \X Gens) \ InUse(bindings)) : dead' = dead \cup gone

\* A login or a logout starts: its name has no usable binding for a while.
Withdraw(n) ==
  /\ usable' = [usable EXCEPT ![n] = NoGen]
  /\ UNCHANGED <<dead, session>>

\* A login completes, or a failed login or logout puts the old binding back.
Activate(n, g) ==
  /\ usable[n] = NoGen
  /\ <<n, g>> \notin dead
  /\ usable' = [usable EXCEPT ![n] = g]
  /\ Expire(usable')
  /\ UNCHANGED session

\* A logout completes.
Retire ==
  /\ Expire(usable)
  /\ UNCHANGED <<usable, session>>

Open(p, n) ==
  /\ session[p] = NoGen
  /\ usable[n] # NoGen
  /\ session' = [session EXCEPT ![p] = usable[n]]
  /\ UNCHANGED <<usable, dead>>

Close(p) ==
  /\ session' = [session EXCEPT ![p] = NoGen]
  /\ UNCHANGED <<usable, dead>>

\* Power loss ends every command; it can lose bindings, never bring one back.
PowerLoss ==
  /\ \E lost \in SUBSET Names :
       usable' = [n \in Names |-> IF n \in lost THEN NoGen ELSE usable[n]]
  /\ session' = [p \in Procs |-> NoGen]
  /\ UNCHANGED dead

Next ==
  \/ \E n \in Names : Withdraw(n) \/ \E g \in Gens : Activate(n, g)
  \/ \E p \in Procs : Close(p) \/ \E n \in Names : Open(p, n)
  \/ Retire \/ PowerLoss

Spec == Init /\ [][Next]_vars
=============================================================================
