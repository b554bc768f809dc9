------------------------- MODULE CapabilityRegistry -------------------------
(***************************************************************************)
(* What the plugin load path promises its users, whatever scans, gates,    *)
(* failures and goroutines stand behind it: a capability identity is       *)
(* claimed once and for good, by a unit that advertises it, and only after *)
(* everything that unit cannot do without has an owner.                    *)
(***************************************************************************)
CONSTANTS
  Key,          \* capability identities
  Unit,         \* plugins
  None,         \* no owner
  Compiled,     \* the owner of an identity linked into the host
  CompiledKey,  \* those identities
  Offers(_),    \* the identities a unit advertises
  Needs(_)      \* the identities a unit cannot serve without

VARIABLE owner  \* [Key -> Unit \cup {None, Compiled}]

Owned(k) == owner[k] # None

Init == owner = [k \in Key |-> IF k \in CompiledKey THEN Compiled ELSE None]

Claim(u, k) ==
  /\ ~Owned(k)
  /\ k \in Offers(u)
  /\ \A n \in Needs(u) : Owned(n)
  /\ owner' = [owner EXCEPT ![k] = u]

Next == \E u \in Unit, k \in Key : Claim(u, k)

Spec == Init /\ [][Next]_owner
=============================================================================
