------------------------- MODULE DeployTargetProofs -------------------------
(* Where a deployment's operations land, and what they leave held, for every *)
(* tree, every set of substrates and any sequence of operations.            *)
EXTENDS DeployTarget, TLAPS

-----------------------------------------------------------------------------
(* Types *)

LEMMA RequestType ==
  ASSUME NEW op \in Op, NEW n \in Node, NEW d \in Dir
  PROVE  Request(op, n, d) \in Requests
<1>1. Nil \in Venue
  BY DEF Nil, Venue
<1>2. (CASE op = "add" -> "hops" [] op = "del" -> "resolve" [] op \in ByName -> "plugins")
        \in {"plugins", "hops", "resolve"}
  BY DEF Op, ByName, Verbs
<1> DEFINE first == CASE op = "add" -> "hops" [] op = "del" -> "resolve" [] op \in ByName -> "plugins"
<1>3. Request(op, n, d) =
        [op |-> op, node |-> n, dir |-> d, exec |-> Nil, hop |-> 1, base |-> None, pc |-> first]
  BY DEF Request
<1>4. first \in {"plugins", "hops", "resolve"}
  BY <1>2
<1> HIDE DEF first
<1> QED
  BY <1>1, <1>3, <1>4 DEF Requests

LEMMA BusyType ==
  ASSUME TypeOK, req.op # "none"
  PROVE  /\ req \in Requests /\ req # Idle
         /\ req.op \in Op /\ req.node \in Node /\ req.dir \in Dir /\ req.exec \in Venue
         /\ req.hop \in Nat \ {0} /\ req.base \in Taggable \cup {"empty", None}
BY DEF TypeOK, Idle, Requests

LEMMA RootType == ASSUME NEW n \in Node PROVE Root(n) \in Venue /\ Root(n) # Nil
BY TreeAssumption DEF TreeAssumption, Root, Venue, Nil

LEMMA LocalType ==
  ASSUME NEW v \in Venue PROVE Local(v) \in Venue /\ Local(v) # Nil
<1>1. <<Operator>> \in Venue /\ <<Operator>> # Nil
  BY TreeAssumption DEF TreeAssumption, Venue, Nil
<1> QED
  BY <1>1 DEF Local

LEMMA InsideType ==
  ASSUME NEW v \in Venue, NEW n \in Node
  PROVE  Append(v, n) \in Venue /\ Append(v, n) # Nil
<1>1. v \in Seq(Machine \cup Node) /\ n \in Machine \cup Node
  BY DEF Venue
<1>2. Append(v, n) \in Seq(Machine \cup Node)
  BY <1>1
<1>3. Len(Append(v, n)) = Len(v) + 1 /\ Len(v) \in Nat
  BY <1>1
<1> QED
  BY <1>2, <1>3 DEF Venue, Nil

LEMMA ChildType ==
  ASSUME NEW v \in Venue, NEW a \in Node
  PROVE  /\ DeriveChild(a, v) \in Venue
         /\ v # Nil \/ ~HandsOn(a) => DeriveChild(a, v) # Nil
BY LocalType, InsideType DEF DeriveChild

LEMMA PreparedType ==
  ASSUME TypeOK, req.op # "none" PROVE Prepared(req) \in Venue
BY BusyType, RootType, InsideType DEF Prepared

LEMMA TouchesType ==
  ASSUME TypeOK, req.op # "none" PROVE Touches(req) \in SUBSET Venue
BY BusyType, PreparedType, RootType DEF Touches, Exec, Wire

LEMMA TypeInit == Init => TypeOK
BY DEF Init, TypeOK

LEMMA TypeStep == TypeOK /\ [Next]_vars => TypeOK'
<1> SUFFICES ASSUME TypeOK, [Next]_vars PROVE TypeOK'
  OBVIOUS
<1> USE DEF build, lease
<1>1. ASSUME NEW op \in Op, NEW n \in Node, NEW d \in Dir, Begin(op, n, d) PROVE TypeOK'
  BY <1>1, RequestType DEF Begin, TypeOK
<1>2. CASE LoadPlugins \/ HopsDone \/ Resolve \/ Refuse
  BY <1>2, BusyType DEF LoadPlugins, HopsDone, Resolve, Refuse, Over, TypeOK, Requests
<1>3. CASE Hop
  <2> DEFINE a == Ancestors[req.node][req.hop]
  <2>1. a \in Node
    BY <1>3, BusyType, TreeAssumption DEF TreeAssumption, Hop
  <2>2. DeriveChild(a, req.exec) \in Venue
    BY <1>3, <2>1, BusyType, ChildType DEF Hop
  <2> HIDE DEF a
  <2>3. req' = Idle \/ req' = [req EXCEPT !.exec = DeriveChild(a, req.exec), !.hop = req.hop + 1]
    BY <1>3 DEF Hop, Over, a
  <2>4. req.hop + 1 \in Nat \ {0}
    BY <1>3, BusyType DEF Hop
  <2>5. req' \in Requests \cup {Idle}
    BY <1>3, <2>2, <2>3, <2>4, BusyType DEF Hop, Requests
  <2> QED
    BY <1>3, <2>5 DEF Hop, TypeOK
<1>4. CASE Dispatch
  <2>1. req' \in Requests
    BY <1>4, BusyType DEF Dispatch, Requests
  <2> QED
    BY <1>4, <2>1, TouchesType DEF Dispatch, TypeOK
<1>5. CASE Walk
  <2>1. req.node \in Node /\ req.op # "none"
    BY <1>5, BusyType DEF Walk
  <2>2. venue' \in [Node -> SUBSET Venue]
    BY <1>5, <2>1 DEF Walk, TypeOK
  <2>3. claims' \in SUBSET Node
    BY <1>5, <2>1 DEF Walk, Bracket, TypeOK
  <2> QED
    BY <1>5, <2>2, <2>3 DEF Walk, Over, TypeOK
<1>6. ASSUME NEW tag \in BOOLEAN, NEW qualified \in BOOLEAN,
             NEW resolver \in {"elects", "silent", "refuses"}, Overlay(tag, qualified, resolver)
      PROVE  TypeOK'
  BY <1>6, BusyType DEF Overlay, Store, BaseRef, Over, Taggable, TypeOK, Requests
<1>7. CASE EmitStep \/ OverlayBuilt
  BY <1>7, BusyType DEF EmitStep, Render, Cached, OverlayBuilt, Over, TypeOK, Requests
<1>8. CASE EndSession
  BY <1>8 DEF EndSession, TypeOK
<1>9. ASSUME NEW n \in Node, BeginSession(n) \/ Remove(n) PROVE TypeOK'
  BY <1>9 DEF BeginSession, Remove, ReleaseResourceClaim, TypeOK
<1>10. CASE UNCHANGED vars
  BY <1>10 DEF vars, TypeOK
<1> QED
  BY <1>1, <1>2, <1>3, <1>4, <1>5, <1>6, <1>7, <1>8, <1>9, <1>10 DEF Next

\* Requests, venues, caches and claims keep their types.
THEOREM TypeCorrect == Spec => []TypeOK
BY TypeInit, TypeStep, PTL DEF Spec

-----------------------------------------------------------------------------
(* Claims *)

\* An outer charly's claim outlives everything done under its lease: a start or a stop does not
\* bracket, a removal does not release (releaseResourceClaim).
THEOREM ClaimSafe == Spec => []ClaimHeldForSession
<1>1. Init => ClaimHeldForSession
  BY DEF Init, ClaimHeldForSession
<1>2. ClaimHeldForSession /\ [Next]_vars => ClaimHeldForSession'
  <2> SUFFICES ASSUME ClaimHeldForSession, [Next]_vars PROVE ClaimHeldForSession'
    OBVIOUS
  <2> USE DEF ClaimHeldForSession, build, lease
  <2>1. CASE EndSession
    BY <2>1 DEF EndSession
  <2>2. ASSUME NEW n \in Node, BeginSession(n) \/ Remove(n) PROVE ClaimHeldForSession'
    BY <2>2 DEF BeginSession, Remove, ReleaseResourceClaim
  <2>3. CASE Walk
    BY <2>3 DEF Walk, Bracket
  <2>4. CASE UNCHANGED lease
    BY <2>4
  <2> QED
    BY <2>1, <2>2, <2>3, <2>4 DEF Next, Begin, LoadPlugins, Hop, HopsDone, Resolve, Refuse,
      Dispatch, Overlay, EmitStep, OverlayBuilt, vars
<1> QED
  BY <1>1, <1>2, PTL DEF Spec

-----------------------------------------------------------------------------
(* The overlay *)

\* Between the base and the end of the build the directory's entry is this deploy's.
OverlayInv ==
  req # Idle =>
    /\ req.op # "none"
    /\ req.base \in Taggable \cup {None}
    /\ emitted \subseteq {req.node}
    /\ req.pc \in {"plugins", "hops", "resolve", "dispatch"} => req.base = None
    /\ req.pc = "overlay" /\ req.base # None => cache[req.dir] = req.node

LEMMA OverlayInit == Init => OverlayInv
BY DEF Init, OverlayInv

LEMMA OverlayStep == TypeOK /\ OverlayInv /\ [Next]_vars => OverlayInv'
<1> SUFFICES ASSUME TypeOK, OverlayInv, [Next]_vars PROVE OverlayInv'
  OBVIOUS
<1> USE DEF build, lease
<1>1. ASSUME NEW op \in Op, NEW n \in Node, NEW d \in Dir, Begin(op, n, d) PROVE OverlayInv'
  <2>1. /\ req' = Request(op, n, d) /\ emitted' = {}
        /\ req'.op = op /\ req'.base = None /\ req'.node = n
    BY <1>1 DEF Begin, Request
  <2>2. op # "none"
    BY DEF Op, ByName, Verbs
  <2> QED
    BY <2>1, <2>2 DEF OverlayInv
<1>2. CASE LoadPlugins \/ HopsDone \/ Resolve \/ Refuse
  BY <1>2, BusyType DEF LoadPlugins, HopsDone, Resolve, Refuse, Over, OverlayInv, Requests
<1>3. CASE Hop
  <2>1. \/ req' = Idle
        \/ req'.pc = req.pc /\ req'.base = req.base /\ req'.node = req.node /\ req'.op = req.op
    BY <1>3, BusyType DEF Hop, Over, Requests
  <2> QED
    BY <1>3, <2>1, BusyType DEF Hop, OverlayInv
<1>4. CASE Dispatch
  <2>1. /\ req'.base = req.base /\ req'.node = req.node /\ req'.op = req.op /\ req'.dir = req.dir
        /\ emitted' = emitted
    BY <1>4, BusyType DEF Dispatch, Requests
  <2> QED
    BY <1>4, <2>1, BusyType DEF Dispatch, OverlayInv
<1>5. CASE Walk
  BY <1>5 DEF Walk, Over, OverlayInv
<1>6. ASSUME NEW tag \in BOOLEAN, NEW qualified \in BOOLEAN,
             NEW resolver \in {"elects", "silent", "refuses"}, Overlay(tag, qualified, resolver)
      PROVE  OverlayInv'
  <2>1. BaseRef(tag, qualified, resolver) # "error" => BaseRef(tag, qualified, resolver) \in Taggable
    BY DEF BaseRef, Taggable
  <2> HIDE DEF Taggable
  <2> QED
    BY <1>6, <2>1, BusyType DEF Overlay, Store, Over, OverlayInv, TypeOK, Requests
<1>7. CASE EmitStep \/ OverlayBuilt
  BY <1>7, BusyType DEF EmitStep, Render, Cached, OverlayBuilt, Over, OverlayInv, Requests
<1>8. CASE EndSession \/ \E n \in Node : BeginSession(n) \/ Remove(n)
  BY <1>8 DEF EndSession, BeginSession, Remove, OverlayInv
<1>9. CASE UNCHANGED vars
  BY <1>9 DEF vars, OverlayInv
<1> QED
  BY <1>1, <1>2, <1>3, <1>4, <1>5, <1>6, <1>7, <1>8, <1>9 DEF Next

LEMMA OverlayInvariance == Spec => [](TypeOK /\ OverlayInv)
BY TypeInit, TypeStep, OverlayInit, OverlayStep, PTL DEF Spec

\* Steps are rendered with their own deploy's context, whatever shares the directory's entry.
THEOREM OwnContext == Spec => []EmitsOwnContext
<1>1. OverlayInv => EmitsOwnContext
  BY DEF OverlayInv, EmitsOwnContext
<1> QED
  BY OverlayInvariance, <1>1, PTL

\* No overlay is built on an empty or a bare reference (overlayBaseRefFromResolution).
THEOREM BaseNamesImage == Spec => []BaseTaggable
<1>1. OverlayInv => BaseTaggable
  BY DEF OverlayInv, BaseTaggable
<1> QED
  BY OverlayInvariance, <1>1, PTL

-----------------------------------------------------------------------------
(* Venues *)

\* The words whose children are reached by a hop are those that prepare a venue.
HopsWhenPrepared == \A w \in Word : w \in Lifecycle <=> Transport[w] \in Hops

\* What has members beside it only is a root of the walk, or is on a path that is still unmoored.
GroupsOnTop == \A n \in Node : Parent[n] \notin Bearing \cup {None} => Unmoored(Parent[n])

\* Where the ancestors of a node lead, and the venues it belongs on.
Entry(n) ==
  IF Unmoored(n) THEN {Root(n)}
  ELSE IF Unmoored(Parent[n]) THEN {DeriveChild(Parent[n], Nil)}
  ELSE venue[Parent[n]]
Due(n) == IF HasLifecycle(n) THEN {Append(v, n) : v \in Entry(n)} ELSE Entry(n)

Placed ==
  \A n \in Node : Deployed(n) =>
    /\ venue[n] = Due(n)
    /\ \E v \in Venue : v # Nil /\ venue[n] = {v}
    /\ \A i \in 1 .. Len(Ancestors[n]) : Deployed(Ancestors[n][i])

\* What the operator's order of the operations lets each of them find.
Ordered ==
  req # Idle =>
    /\ req.op = "add" => \A i \in 1 .. Len(Ancestors[req.node]) : Deployed(Ancestors[req.node][i])
    /\ req.op # "add" => Deployed(req.node)
    /\ req.op = "del" => \A m \in Node : Parent[m] = req.node => ~Deployed(m)
    /\ req.op \in ByName => Parent[req.node] = None

\* The node whose ancestors have been hopped over.
At(r) == IF r.hop <= Len(Ancestors[r.node]) THEN Ancestors[r.node][r.hop] ELSE r.node

\* The executor is where the ancestors lead, or none when they lead nowhere.
Derived ==
  req # Idle =>
    /\ req.hop <= Len(Ancestors[req.node]) + 1
    /\ IF Unmoored(At(req)) THEN req.exec = Nil ELSE req.exec # Nil /\ Entry(At(req)) = {req.exec}
    /\ req.pc \in {"dispatch", "overlay", "walk"} \/ (req.op = "add" /\ req.pc = "resolve")
         => req.hop = Len(Ancestors[req.node]) + 1
    /\ req.pc \in {"overlay", "walk"} => acts = Due(req.node)
    /\ req.pc = "plugins" => req.op # "add"

VenueInv == Placed /\ Ordered /\ Derived

LEMMA TreeFacts ==
  ASSUME NEW n \in Node
  PROVE  /\ Parent[n] = None => Len(Ancestors[n]) = 0
         /\ Parent[n] # None =>
              /\ Parent[n] \in Node \ {n}
              /\ Len(Ancestors[n]) = Len(Ancestors[Parent[n]]) + 1
              /\ Ancestors[n][Len(Ancestors[n])] = Parent[n]
              /\ \A i \in 1 .. Len(Ancestors[Parent[n]]) : Ancestors[n][i] = Ancestors[Parent[n]][i]
         /\ Len(Ancestors[n]) \in Nat
         /\ \A i \in 1 .. Len(Ancestors[n]) :
              /\ Ancestors[n][i] \in Node
              /\ Parent[Ancestors[n][i]] = IF i = 1 THEN None ELSE Ancestors[n][i - 1]
<1>1. Ancestors[n] \in Seq(Node)
  BY TreeAssumption DEF TreeAssumption
<1>2. CASE Parent[n] = None
  BY <1>1, <1>2, TreeAssumption DEF TreeAssumption
<1>3. CASE Parent[n] # None
  <2>1. Parent[n] \in Node /\ Ancestors[Parent[n]] \in Seq(Node)
    BY <1>3, TreeAssumption DEF TreeAssumption
  <2>2. Ancestors[n] = Append(Ancestors[Parent[n]], Parent[n])
    BY <1>3, TreeAssumption DEF TreeAssumption
  <2>3. Len(Ancestors[n]) = Len(Ancestors[Parent[n]]) + 1 /\ Len(Ancestors[Parent[n]]) \in Nat
    BY <2>1, <2>2
  <2>4. Ancestors[n][Len(Ancestors[n])] = Parent[n]
    BY <2>1, <2>2, <2>3
  <2>5. \A i \in 1 .. Len(Ancestors[Parent[n]]) : Ancestors[n][i] = Ancestors[Parent[n]][i]
    BY <2>1, <2>2
  <2>6. Parent[n] # n
    BY <2>3
  <2>7. \A i \in 1 .. Len(Ancestors[n]) :
          Parent[Ancestors[n][i]] = IF i = 1 THEN None ELSE Ancestors[n][i - 1]
    BY TreeAssumption DEF TreeAssumption
  <2> QED
    <3>1. Len(Ancestors[n]) \in Nat /\ \A i \in 1 .. Len(Ancestors[n]) : Ancestors[n][i] \in Node
      BY <1>1
    <3> QED
      BY <1>3, <2>1, <2>3, <2>4, <2>5, <2>6, <2>7, <3>1
<1> QED
  BY <1>2, <1>3

\* A node is moored by its parent or by what its parent is moored to.
LEMMA MooredBy ==
  ASSUME NEW n \in Node
  PROVE  /\ Parent[n] = None => Unmoored(n)
         /\ Parent[n] # None => (Unmoored(n) <=> Unmoored(Parent[n]) /\ HandsOn(Parent[n]))
<1>1. CASE Parent[n] = None
  BY <1>1, TreeFacts DEF Unmoored
<1>2. CASE Parent[n] # None
  <2> DEFINE p == Parent[n]
             k == Len(Ancestors[p])
  <2>1. /\ p \in Node /\ k \in Nat /\ Len(Ancestors[n]) = k + 1 /\ Ancestors[n][k + 1] = p
        /\ \A i \in 1 .. k : Ancestors[n][i] = Ancestors[p][i]
    BY <1>2, TreeFacts
  <2> HIDE DEF p, k
  <2>2. ASSUME Unmoored(n) PROVE Unmoored(p) /\ HandsOn(p)
    <3>1. \A i \in 1 .. k + 1 : HandsOn(Ancestors[n][i])
      BY <2>1, <2>2 DEF Unmoored
    <3>2. k + 1 \in 1 .. k + 1 /\ \A i \in 1 .. k : i \in 1 .. k + 1
      BY <2>1
    <3> QED
      BY <2>1, <3>1, <3>2 DEF Unmoored, k
  <2>3. ASSUME Unmoored(p), HandsOn(p) PROVE Unmoored(n)
    <3>1. ASSUME NEW i \in 1 .. k + 1 PROVE HandsOn(Ancestors[n][i])
      <4>1. i = k + 1 \/ i \in 1 .. k
        BY <2>1
      <4>2. \A j \in 1 .. k : HandsOn(Ancestors[p][j])
        BY <2>3 DEF Unmoored, k
      <4> QED
        BY <2>1, <2>3, <4>1, <4>2
    <3> QED
      BY <2>1, <3>1 DEF Unmoored
  <2> QED
    BY <1>2, <2>2, <2>3 DEF p
<1> QED
  BY <1>1, <1>2

LEMMA EntrySingle ==
  ASSUME TypeOK, Placed, NEW n \in Node, Parent[n] # None => Deployed(Parent[n])
  PROVE  \E v \in Venue : v # Nil /\ Entry(n) = {v}
<1>1. CASE Unmoored(n)
  BY <1>1, RootType DEF Entry
<1>2. CASE ~Unmoored(n)
  <2>1. Parent[n] \in Node /\ Parent[n] # None
    BY <1>2, MooredBy, TreeFacts
  <2>2. CASE Unmoored(Parent[n])
    <3>1. ~HandsOn(Parent[n])
      BY <1>2, <2>1, <2>2, MooredBy
    <3>2. Nil \in Venue
      BY DEF Nil, Venue
    <3> QED
      BY <1>2, <2>1, <2>2, <3>1, <3>2, ChildType DEF Entry
  <2>3. CASE ~Unmoored(Parent[n])
    BY <1>2, <2>1, <2>3 DEF Entry, Placed
  <2> QED
    BY <2>2, <2>3
<1> QED
  BY <1>1, <1>2

LEMMA DueSingle ==
  ASSUME TypeOK, Placed, NEW n \in Node, Parent[n] # None => Deployed(Parent[n])
  PROVE  \E v \in Venue : v # Nil /\ Due(n) = {v}
<1>1. PICK v \in Venue : v # Nil /\ Entry(n) = {v}
  BY EntrySingle
<1>2. Append(v, n) \in Venue /\ Append(v, n) # Nil
  BY InsideType
<1>3. Due(n) = IF HasLifecycle(n) THEN {Append(v, n)} ELSE {v}
  BY <1>1 DEF Due
<1> QED
  BY <1>1, <1>2, <1>3

\* Where a node belongs depends on no venue but its parent's.
LEMMA EntryKept ==
  ASSUME NEW n \in Node, Parent[n] # None => venue'[Parent[n]] = venue[Parent[n]]
  PROVE  Entry(n)' = Entry(n) /\ Due(n)' = Due(n)
<1>1. Unmoored(n)' = Unmoored(n) /\ Unmoored(Parent[n])' = Unmoored(Parent[n])
  BY DEF Unmoored, HandsOn, Reached, WordOf
<1>2. Root(n)' = Root(n) /\ DeriveChild(Parent[n], Nil)' = DeriveChild(Parent[n], Nil)
  BY DEF Root, DeriveChild, HandsOn, Reached, WordOf, Local, Nil
<1>3. Entry(n)' = IF Unmoored(n) THEN {Root(n)}
                  ELSE IF Unmoored(Parent[n]) THEN {DeriveChild(Parent[n], Nil)}
                  ELSE venue'[Parent[n]]
  BY <1>1, <1>2 DEF Entry
<1>4. Entry(n)' = Entry(n)
  BY <1>3, MooredBy DEF Entry
<1>5. Due(n)' = IF HasLifecycle(n) THEN {Append(v, n) : v \in Entry(n)'} ELSE Entry(n)'
  BY DEF Due, HasLifecycle, WordOf
<1> QED
  BY <1>4, <1>5 DEF Due

LEMMA AncestorsDeployed ==
  ASSUME VenueInv, TypeOK, req.op # "none"
  PROVE  \A i \in 1 .. Len(Ancestors[req.node]) : Deployed(Ancestors[req.node][i])
BY BusyType DEF VenueInv, Ordered, Placed

\* The child on the path of an ancestor, or the node itself.
LEMMA PathFacts ==
  ASSUME TypeOK, req.op # "none", req.hop <= Len(Ancestors[req.node]),
         NEW c, c = At([req EXCEPT !.hop = req.hop + 1])
  PROVE  /\ c \in Node /\ Parent[c] = Ancestors[req.node][req.hop] /\ Parent[c] \in Node
         /\ Parent[c] # None
<1> DEFINE n == req.node
           h == req.hop
<1>1. n \in Node /\ h \in Nat \ {0} /\ Len(Ancestors[n]) \in Nat /\ h \in 1 .. Len(Ancestors[n])
  BY BusyType, TreeFacts
<1>2. Ancestors[n][h] \in Node /\ None \notin Node
  BY <1>1, TreeFacts, TreeAssumption DEF TreeAssumption
<1>3. c = IF h + 1 <= Len(Ancestors[n]) THEN Ancestors[n][h + 1] ELSE n
  BY BusyType DEF At, Requests
<1>4. CASE h + 1 <= Len(Ancestors[n])
  <2>1. h + 1 \in 1 .. Len(Ancestors[n]) /\ h + 1 # 1 /\ (h + 1) - 1 = h
    BY <1>1, <1>4
  <2>2. Ancestors[n][h + 1] \in Node /\ Parent[Ancestors[n][h + 1]] = Ancestors[n][h]
    BY <1>1, <2>1, TreeFacts
  <2> QED
    BY <1>2, <1>3, <1>4, <2>2
<1>5. CASE ~(h + 1 <= Len(Ancestors[n]))
  <2>1. h = Len(Ancestors[n]) /\ Len(Ancestors[n]) # 0
    BY <1>1, <1>5
  <2>2. Parent[n] # None
    BY <1>1, <2>1, TreeFacts
  <2> QED
    BY <1>1, <1>2, <1>3, <1>5, <2>1, <2>2, TreeFacts
<1> QED
  BY <1>4, <1>5

\* One hop leads where the ancestors of the next node on the path lead.
LEMMA HopLands ==
  ASSUME HopsWhenPrepared, GroupsOnTop, TypeOK, VenueInv, req.op # "none",
         req.hop <= Len(Ancestors[req.node]), ~Rejects(Ancestors[req.node][req.hop]),
         NEW c, c = At([req EXCEPT !.hop = req.hop + 1]),
         NEW e, e = DeriveChild(Ancestors[req.node][req.hop], req.exec)
  PROVE  IF Unmoored(c) THEN e = Nil ELSE e # Nil /\ Entry(c) = {e}
<1>1. PICK a \in Node : a = Ancestors[req.node][req.hop]
  BY PathFacts
<1>2. c \in Node /\ Parent[c] = a /\ a # None /\ req # Idle /\ req.exec \in Venue
  BY <1>1, PathFacts, BusyType
<1>3. At(req) = a
  BY <1>1 DEF At
<1>4. IF Unmoored(a) THEN req.exec = Nil ELSE req.exec # Nil /\ Entry(a) = {req.exec}
  BY <1>2, <1>3 DEF VenueInv, Derived
<1>5. Unmoored(c) <=> Unmoored(a) /\ HandsOn(a)
  BY <1>2, MooredBy
<1>6. CASE Unmoored(a) /\ HandsOn(a)
  BY <1>1, <1>4, <1>5, <1>6 DEF DeriveChild
<1>7. CASE Unmoored(a) /\ ~HandsOn(a)
  <2>1. e = DeriveChild(a, Nil) /\ e # Nil
    BY <1>1, <1>2, <1>4, <1>7, ChildType
  <2> QED
    BY <1>2, <1>5, <1>7, <2>1 DEF Entry
<1>8. CASE ~Unmoored(a)
  <2>1. a \in Bearing
    BY <1>2, <1>8 DEF GroupsOnTop
  <2>2. WordOf(a) \in Word
    BY <1>1, TreeAssumption DEF TreeAssumption, WordOf
  <2>3. HasLifecycle(a) <=> Reached(a) \in Hops
    BY <2>2 DEF HopsWhenPrepared, HasLifecycle, Reached
  <2>4. Deployed(a)
    <3>1. /\ req.node \in Node /\ Len(Ancestors[req.node]) \in Nat /\ req.hop \in Nat \ {0}
          /\ req.hop \in 1 .. Len(Ancestors[req.node])
      BY BusyType, TreeFacts
    <3> QED
      BY <1>1, <3>1, AncestorsDeployed
  <2>5. Entry(c) = Due(a)
    BY <1>2, <1>5, <1>8, <2>4 DEF Entry, VenueInv, Placed
  <2>6. Due(a) = IF HasLifecycle(a) THEN {Append(req.exec, a)} ELSE {req.exec}
    BY <1>4, <1>8 DEF Due
  <2>7. e = IF HasLifecycle(a) THEN Append(req.exec, a) ELSE req.exec
    <3>1. Local(req.exec) = req.exec
      BY <1>4, <1>8 DEF Local
    <3>2. CASE HandsOn(a)
      <4>1. Reached(a) = "other"
        BY <2>1, <3>2 DEF HandsOn
      <4> QED
        BY <1>1, <2>3, <3>2, <4>1 DEF DeriveChild, Hops
    <3>3. CASE ~HandsOn(a)
      BY <1>1, <2>3, <3>1, <3>3 DEF DeriveChild
    <3> QED
      BY <3>2, <3>3
  <2>8. e # Nil
    BY <1>1, <1>2, <1>4, <1>8, ChildType
  <2> QED
    BY <1>5, <1>8, <2>5, <2>6, <2>7, <2>8
<1> QED
  BY <1>6, <1>7, <1>8

\* A dispatch touches the venues its node belongs on.
LEMMA TouchesDue ==
  ASSUME TypeOK, VenueInv, req.op # "none", req.pc = "dispatch"
  PROVE  Touches(req) = Due(req.node)
<1> DEFINE n == req.node
<1>1. n \in Node /\ req # Idle /\ req.hop = Len(Ancestors[n]) + 1 /\ Len(Ancestors[n]) \in Nat
  BY BusyType, TreeFacts DEF VenueInv, Derived
<1>2. At(req) = n
  BY <1>1 DEF At
<1>3. IF Unmoored(n) THEN req.exec = Nil ELSE req.exec # Nil /\ Entry(n) = {req.exec}
  BY <1>1, <1>2 DEF VenueInv, Derived
<1>4. Entry(n) = {IF req.exec = Nil THEN Root(n) ELSE req.exec}
  BY <1>3 DEF Entry
<1>5. CASE HasLifecycle(n)
  BY <1>4, <1>5 DEF Touches, Due, Prepared
<1>6. CASE ~HasLifecycle(n)
  BY <1>4, <1>6 DEF Touches, Due, Exec, Wire, Overridden
<1> QED
  BY <1>5, <1>6

-----------------------------------------------------------------------------

LEMMA PlacedKept == ASSUME Placed, venue' = venue PROVE Placed'
BY EntryKept DEF Placed, Deployed

LEMMA VenueInit == Init => VenueInv
BY DEF Init, VenueInv, Placed, Ordered, Derived, Deployed

\* Without a change of venues or ancestors passed, a request that keeps its place keeps its
\* promises.
LEMMA VenueIdle == ASSUME VenueInv, venue' = venue, req' = Idle PROVE VenueInv'
BY PlacedKept DEF VenueInv, Ordered, Derived

LEMMA OrderKept ==
  ASSUME Ordered, req # Idle, venue' = venue, req'.op = req.op, req'.node = req.node PROVE Ordered'
BY DEF Ordered, Deployed

LEMMA VenueBegin ==
  ASSUME TypeOK, VenueInv, NEW op \in Op, NEW n \in Node, NEW d \in Dir, Begin(op, n, d)
  PROVE  VenueInv'
<1>1. /\ venue' = venue /\ req' = Request(op, n, d)
      /\ req'.op = op /\ req'.node = n /\ req'.hop = 1 /\ req'.exec = Nil
  BY DEF Begin, Request
<1>2. op = "add" \/ op = "del" \/ op \in {"rebuild", "start", "stop", "attach"}
  BY DEF Op, ByName, Verbs
<1>3. /\ req'.pc \in {"hops", "resolve", "plugins"}
      /\ op = "add" => req'.pc = "hops"
      /\ req'.pc = "plugins" => op # "add"
  <2>1. CASE op = "add"
    BY <1>1, <2>1 DEF Request, ByName, Verbs
  <2>2. CASE op = "del"
    BY <1>1, <2>2 DEF Request, ByName, Verbs
  <2>3. CASE op \in {"rebuild", "start", "stop", "attach"}
    BY <1>1, <2>3 DEF Request, ByName, Verbs
  <2> QED
    BY <1>2, <2>1, <2>2, <2>3
<1>4. Placed'
  BY <1>1, PlacedKept DEF VenueInv
<1>5. Derived'
  <2>1. Unmoored(At(req'))
    <3>1. CASE Parent[n] = None
      BY <1>1, <3>1, TreeFacts, MooredBy DEF At
    <3>2. CASE Parent[n] # None
      <4>1. Len(Ancestors[n]) \in Nat \ {0}
        BY <3>2, TreeFacts
      <4>2. At(req') = Ancestors[n][1] /\ 1 \in 1 .. Len(Ancestors[n])
        BY <1>1, <4>1 DEF At
      <4>3. Ancestors[n][1] \in Node /\ Parent[Ancestors[n][1]] = None
        BY <4>2, TreeFacts
      <4> QED
        BY <4>2, <4>3, MooredBy
    <3> QED
      BY <3>1, <3>2
  <2>2. Unmoored(At(req))'
    BY <2>1 DEF Unmoored, HandsOn, Reached, WordOf, At
  <2>3. req'.hop <= Len(Ancestors[req'.node]) + 1
    BY <1>1, TreeFacts
  <2> QED
    BY <1>1, <1>3, <2>2, <2>3 DEF Derived
<1>6. Ordered'
  <2>1. CASE op = "add"
    <3>1. \A i \in 1 .. Len(Ancestors[n]) : Deployed(Ancestors[n][i])
      <4>1. CASE Parent[n] = None
        BY <4>1, TreeFacts
      <4>2. CASE Parent[n] # None
        <5>1. Deployed(Parent[n]) /\ Parent[n] \in Node
          BY <2>1, <4>2, TreeFacts DEF Begin
        <5>2. \A i \in 1 .. Len(Ancestors[Parent[n]]) : Deployed(Ancestors[Parent[n]][i])
          BY <5>1 DEF VenueInv, Placed
        <5>3. ASSUME NEW i \in 1 .. Len(Ancestors[n]) PROVE Deployed(Ancestors[n][i])
          <6>1. CASE i = Len(Ancestors[n])
            BY <4>2, <5>1, <6>1, TreeFacts
          <6>2. CASE i # Len(Ancestors[n])
            <7>1. i \in 1 .. Len(Ancestors[Parent[n]])
              BY <4>2, <5>1, <6>2, TreeFacts
            <7> QED
              BY <4>2, <5>2, <7>1, TreeFacts
          <6> QED
            BY <6>1, <6>2
        <5> QED
          BY <5>3
      <4> QED
        BY <4>1, <4>2
    <3>2. op # "del" /\ op \notin ByName
      BY <2>1 DEF ByName, Verbs
    <3> QED
      BY <1>1, <2>1, <3>1, <3>2 DEF Ordered, Deployed
  <2>2. CASE op = "del"
    <3>2. op # "add" /\ op \notin ByName
      BY <2>2 DEF ByName, Verbs
    <3>1. Deployed(n) /\ \A m \in Node : Parent[m] = n => ~Deployed(m)
      BY <2>2, <3>2 DEF Begin
    <3> QED
      BY <1>1, <2>2, <3>1, <3>2 DEF Ordered, Deployed
  <2>3. CASE op \in ByName
    <3>1. op # "add" /\ op # "del"
      BY <2>3 DEF ByName, Verbs
    <3>2. Deployed(n) /\ Parent[n] = None
      BY <2>3, <3>1 DEF Begin
    <3> QED
      BY <1>1, <2>3, <3>1, <3>2 DEF Ordered, Deployed
  <2> QED
    BY <2>1, <2>2, <2>3 DEF Op
<1> QED
  BY <1>4, <1>5, <1>6 DEF VenueInv

\* What tells where a request is on its path.
LEMMA AtKept ==
  ASSUME req'.node = req.node, req'.hop = req.hop
  PROVE  /\ At(req)' = At(req) /\ Unmoored(At(req))' = Unmoored(At(req))
BY DEF At, Unmoored, HandsOn, Reached, WordOf

LEMMA AtNode ==
  ASSUME TypeOK, req.op # "none" PROVE At(req) \in Node
BY BusyType, TreeFacts DEF At

\* Without a change of venues, a request that stays where it is on its path keeps its executor.
LEMMA DerivedKept ==
  ASSUME TypeOK, req.op # "none", venue' = venue,
         req'.node = req.node, req'.hop = req.hop, req'.exec = req.exec,
         IF Unmoored(At(req)) THEN req.exec = Nil ELSE req.exec # Nil /\ Entry(At(req)) = {req.exec}
  PROVE  (IF Unmoored(At(req)) THEN req.exec = Nil ELSE req.exec # Nil /\ Entry(At(req)) = {req.exec})'
<1>1. PICK c \in Node : c = At(req)
  BY AtNode
<1>2. At(req)' = c /\ Unmoored(At(req))' = Unmoored(c)
  BY <1>1, AtKept
<1>3. Entry(c)' = Entry(c)
  BY EntryKept
<1>4. Entry(At(req))' = Entry(c)
  BY <1>2, <1>3 DEF Entry, Unmoored, HandsOn, Reached, WordOf, Root, DeriveChild, Local, Nil
<1> QED
  BY <1>1, <1>2, <1>4 DEF Nil

LEMMA VenueHop ==
  ASSUME HopsWhenPrepared, GroupsOnTop, TypeOK, VenueInv, Hop PROVE VenueInv'
<1>1. /\ req.op # "none" /\ req.pc = "hops" /\ venue' = venue
      /\ req \in Requests /\ req # Idle /\ req.hop \in Nat \ {0} /\ req.node \in Node
      /\ req.hop <= Len(Ancestors[req.node]) /\ Len(Ancestors[req.node]) \in Nat
  BY BusyType, TreeFacts DEF Hop
<1>2. CASE Rejects(Ancestors[req.node][req.hop])
  BY <1>1, <1>2, VenueIdle DEF Hop, Over
<1>3. CASE ~Rejects(Ancestors[req.node][req.hop])
  <2>1. PICK c \in Node : c = At([req EXCEPT !.hop = req.hop + 1])
    BY <1>1, PathFacts
  <2>2. PICK e : e = DeriveChild(Ancestors[req.node][req.hop], req.exec)
    OBVIOUS
  <2>3. IF Unmoored(c) THEN e = Nil ELSE e # Nil /\ Entry(c) = {e}
    BY <1>1, <1>3, <2>1, <2>2, HopLands
  <2>4. req' = [req EXCEPT !.exec = e, !.hop = req.hop + 1]
    BY <1>3, <2>2 DEF Hop
  <2>5. /\ req'.op = req.op /\ req'.node = req.node /\ req'.pc = req.pc
        /\ req'.exec = e /\ req'.hop = req.hop + 1
    BY <1>1, <2>4 DEF Requests
  <2>6. Placed' /\ Ordered'
    BY <1>1, <2>5, PlacedKept, OrderKept DEF VenueInv
  <2>7. At(req') = c
    BY <1>1, <2>1, <2>5 DEF At, Requests
  <2>8. Entry(c)' = Entry(c) /\ Unmoored(c)' = Unmoored(c)
    BY <1>1, EntryKept DEF Unmoored, HandsOn, Reached, WordOf
  <2>9. IF Unmoored(At(req')) THEN req'.exec = Nil ELSE req'.exec # Nil /\ Entry(c)' = {req'.exec}
    BY <2>3, <2>5, <2>7, <2>8
  <2>10. (IF Unmoored(At(req)) THEN req.exec = Nil ELSE req.exec # Nil /\ Entry(At(req)) = {req.exec})'
    BY <2>7, <2>9
      DEF At, Entry, Unmoored, HandsOn, Reached, WordOf, Root, DeriveChild, Local, Nil
  <2>11. req'.hop <= Len(Ancestors[req'.node]) + 1
    BY <1>1, <2>5
  <2>12. req'.pc = "hops"
    BY <1>1, <2>5
  <2> QED
    BY <2>6, <2>10, <2>11, <2>12 DEF VenueInv, Derived
<1> QED
  BY <1>2, <1>3

\* What only moves on needs all the ancestors hopped over.
LEMMA VenueMoves ==
  ASSUME TypeOK, VenueInv, req.op # "none", venue' = venue,
         NEW pc, req' = [req EXCEPT !.pc = pc],
         \/ pc = "hops"
         \/ pc = "resolve" /\ req.op # "add"
         \/ pc \in {"resolve", "dispatch"} /\ req.hop = Len(Ancestors[req.node]) + 1
  PROVE  VenueInv'
<1>1. req \in Requests /\ req # Idle
  BY BusyType
<1>2. /\ req'.op = req.op /\ req'.node = req.node /\ req'.hop = req.hop /\ req'.exec = req.exec
      /\ req'.pc = pc
  BY <1>1 DEF Requests
<1>3. Placed' /\ Ordered'
  BY <1>1, <1>2, PlacedKept, OrderKept DEF VenueInv
<1>4. (IF Unmoored(At(req)) THEN req.exec = Nil ELSE req.exec # Nil /\ Entry(At(req)) = {req.exec})'
  BY <1>1, <1>2, DerivedKept DEF VenueInv, Derived
<1>5. Derived'
  BY <1>1, <1>2, <1>4 DEF VenueInv, Derived
<1> QED
  BY <1>3, <1>5 DEF VenueInv

LEMMA VenueDispatch == ASSUME TypeOK, VenueInv, Dispatch PROVE VenueInv'
<1>1. /\ req \in Requests /\ req # Idle /\ req.node \in Node /\ venue' = venue /\ req.pc = "dispatch"
      /\ acts' = Due(req.node)
  BY BusyType, TouchesDue DEF Dispatch
<1>2. /\ req'.op = req.op /\ req'.node = req.node /\ req'.hop = req.hop /\ req'.exec = req.exec
      /\ req'.pc \in {"overlay", "walk"}
  BY <1>1 DEF Dispatch, Requests
<1>3. Placed' /\ Ordered'
  BY <1>1, <1>2, PlacedKept, OrderKept DEF VenueInv
<1>4. PICK n \in Node : n = req.node
  BY <1>1
<1>5. Due(n)' = Due(n)
  BY <1>1, EntryKept
<1>6. acts' = Due(req.node)'
  BY <1>1, <1>2, <1>4, <1>5 DEF Due, Entry
<1>7. (IF Unmoored(At(req)) THEN req.exec = Nil ELSE req.exec # Nil /\ Entry(At(req)) = {req.exec})'
  BY <1>1, <1>2, BusyType, DerivedKept DEF VenueInv, Derived, Dispatch
<1>8. Derived'
  BY <1>1, <1>2, <1>6, <1>7 DEF VenueInv, Derived
<1> QED
  BY <1>3, <1>8 DEF VenueInv

\* The overlay's own steps change neither venues nor what was touched.
LEMMA VenueOverlay ==
  ASSUME TypeOK, VenueInv, req.op # "none", req.pc = "overlay", venue' = venue, acts' = acts,
         \/ req' = Idle
         \/ req' = req
         \/ req' = [req EXCEPT !.pc = "walk"]
         \/ \E b : req' = [req EXCEPT !.base = b]
  PROVE  VenueInv'
<1>1. req \in Requests /\ req # Idle /\ req.node \in Node
  BY BusyType
<1>2. CASE req' = Idle
  BY <1>2, VenueIdle
<1>3. CASE req' # Idle
  <2>1. /\ req'.op = req.op /\ req'.node = req.node /\ req'.hop = req.hop /\ req'.exec = req.exec
        /\ req'.pc \in {"overlay", "walk"}
    BY <1>1, <1>3 DEF Requests
  <2>2. Placed' /\ Ordered'
    BY <1>1, <2>1, PlacedKept, OrderKept DEF VenueInv
  <2>3. PICK n \in Node : n = req.node
    BY <1>1
  <2>4. Due(n)' = Due(n) /\ acts = Due(n)
    BY <1>1, <2>3, EntryKept DEF VenueInv, Derived
  <2>5. acts' = Due(req.node)'
    BY <2>1, <2>3, <2>4 DEF Due, Entry
  <2>6. (IF Unmoored(At(req)) THEN req.exec = Nil ELSE req.exec # Nil /\ Entry(At(req)) = {req.exec})'
    BY <1>1, <2>1, DerivedKept DEF VenueInv, Derived
  <2>7. Derived'
    BY <1>1, <2>1, <2>5, <2>6 DEF VenueInv, Derived
  <2> QED
    BY <2>2, <2>7 DEF VenueInv
<1> QED
  BY <1>2, <1>3

\* Adding where its place is, or removing what has no member left, keeps everything in place.
LEMMA VenueWalk == ASSUME TypeOK, VenueInv, Walk PROVE VenueInv'
<1>0. PICK n \in Node : n = req.node
  BY BusyType DEF Walk
<1>1. /\ req.op # "none" /\ req.pc = "walk" /\ req' = Idle /\ req # Idle /\ n \in Node
      /\ venue \in [Node -> SUBSET Venue]
  BY <1>0, BusyType DEF Walk, Over, TypeOK
<1>2. Placed /\ Ordered /\ acts = Due(n)
  BY <1>0, <1>1 DEF VenueInv, Derived
<1>3. Ordered' /\ Derived'
  BY <1>1 DEF Ordered, Derived
<1>4. \/ venue' = venue
      \/ req.op = "add" /\ venue' = [venue EXCEPT ![n] = venue[n] \cup acts]
      \/ req.op = "del" /\ venue' = [venue EXCEPT ![n] = {}]
  BY <1>0, <1>1 DEF Walk
<1>5. CASE venue' = venue
  BY <1>2, <1>3, <1>5, PlacedKept DEF VenueInv
<1>6. CASE req.op = "add" /\ venue' = [venue EXCEPT ![n] = venue[n] \cup acts] /\ venue' # venue
  <2>1. ~Deployed(n)
    BY <1>1, <1>2, <1>6 DEF Placed
  <2>2. \A i \in 1 .. Len(Ancestors[n]) : Deployed(Ancestors[n][i])
    BY <1>0, <1>1, <1>2, <1>6 DEF Ordered
  <2>3. Parent[n] # None => Deployed(Parent[n]) /\ Parent[n] \in Node \ {n}
    <3> SUFFICES ASSUME Parent[n] # None PROVE Deployed(Parent[n]) /\ Parent[n] \in Node \ {n}
      OBVIOUS
    <3>1. /\ Len(Ancestors[n]) = Len(Ancestors[Parent[n]]) + 1 /\ Parent[n] \in Node \ {n}
          /\ Ancestors[n][Len(Ancestors[n])] = Parent[n]
      BY <1>1, TreeFacts
    <3>2. Len(Ancestors[Parent[n]]) \in Nat
      BY <3>1, TreeFacts
    <3>3. Len(Ancestors[n]) \in 1 .. Len(Ancestors[n])
      BY <3>1, <3>2
    <3> QED
      BY <2>2, <3>1, <3>3
  <2>4. PICK v \in Venue : v # Nil /\ Due(n) = {v}
    BY <1>1, <1>2, <2>3, DueSingle
  <2>5. venue' = [venue EXCEPT ![n] = {v}]
    BY <1>2, <1>6, <2>1, <2>4 DEF Deployed
  <2>6. \A m \in Node \ {n} : venue'[m] = venue[m]
    BY <1>1, <2>5
  <2>7. venue'[n] = {v}
    BY <1>1, <2>5
  <2>8. ASSUME NEW m \in Node, m # n, Deployed(m) PROVE Parent[m] # n
    <3> SUFFICES ASSUME Parent[m] = n PROVE FALSE
      OBVIOUS
    <3>1. Parent[m] # None
      BY <1>1, TreeAssumption DEF TreeAssumption
    <3>2. Len(Ancestors[m]) = Len(Ancestors[n]) + 1 /\ Ancestors[m][Len(Ancestors[m])] = n
      BY <3>1, TreeFacts
    <3>3. Len(Ancestors[n]) \in Nat
      BY <1>1, TreeFacts
    <3>4. Len(Ancestors[m]) \in 1 .. Len(Ancestors[m])
      BY <3>2, <3>3
    <3>5. Deployed(n)
      BY <1>2, <2>8, <3>2, <3>4 DEF Placed
    <3> QED
      BY <2>1, <3>5
  <2>9. Due(n)' = Due(n)
    <3>1. Parent[n] # None => venue'[Parent[n]] = venue[Parent[n]]
      BY <2>3, <2>6
    <3> QED
      BY <3>1, EntryKept
  <2>10. ASSUME NEW m \in Node, Deployed(m)'
         PROVE  /\ venue'[m] = Due(m)'
                /\ \E w \in Venue : w # Nil /\ venue'[m] = {w}
                /\ \A i \in 1 .. Len(Ancestors[m]) : Deployed(Ancestors[m][i])'
    <3>1. \A k \in Node : Deployed(k) => Deployed(k)'
      BY <2>6, <2>7 DEF Deployed
    <3>2. CASE m = n
      BY <2>2, <2>4, <2>7, <2>9, <3>1, <3>2, TreeFacts
    <3>3. CASE m # n
      <4>1. Deployed(m) /\ venue'[m] = venue[m]
        BY <2>6, <2>10, <3>3 DEF Deployed
      <4>2. Parent[m] # n
        BY <2>8, <3>3, <4>1
      <4>3. Due(m)' = Due(m)
        <5>1. Parent[m] # None => venue'[Parent[m]] = venue[Parent[m]]
          BY <2>6, <4>2, TreeFacts
        <5> QED
          BY <5>1, EntryKept
      <4> QED
        BY <1>2, <3>1, <4>1, <4>3, TreeFacts DEF Placed
    <3> QED
      BY <3>2, <3>3
  <2>11. Placed'
    BY <2>10 DEF Placed
  <2> QED
    BY <1>3, <2>11 DEF VenueInv
<1>7. CASE req.op = "del" /\ venue' = [venue EXCEPT ![n] = {}]
  <2>1. \A m \in Node : Parent[m] = n => ~Deployed(m)
    BY <1>0, <1>1, <1>2, <1>7 DEF Ordered
  <2>2. \A m \in Node : IF m = n THEN venue'[m] = {} ELSE venue'[m] = venue[m]
    BY <1>1, <1>7
  <2>3. ASSUME NEW m \in Node, Deployed(m)'
        PROVE  /\ venue'[m] = Due(m)'
               /\ \E w \in Venue : w # Nil /\ venue'[m] = {w}
               /\ \A i \in 1 .. Len(Ancestors[m]) : Deployed(Ancestors[m][i])'
    <3>1. Deployed(m) /\ m # n /\ venue'[m] = venue[m] /\ Parent[m] # n
      BY <2>1, <2>2, <2>3 DEF Deployed
    <3>2. Due(m)' = Due(m)
      <4>1. Parent[m] # None => venue'[Parent[m]] = venue[Parent[m]]
        BY <2>2, <3>1, TreeFacts
      <4> QED
        BY <4>1, EntryKept
    <3>3. ASSUME NEW i \in 1 .. Len(Ancestors[m]) PROVE Deployed(Ancestors[m][i])'
      <4>1. Ancestors[m][i] \in Node /\ Deployed(Ancestors[m][i])
        BY <1>2, <3>1, TreeFacts DEF Placed
      <4>2. Ancestors[m][i] # n
        <5> SUFFICES ASSUME Ancestors[m][i] = n PROVE FALSE
          OBVIOUS
        <5>1. CASE i = Len(Ancestors[m])
          <6>1. Parent[m] # None
            BY <3>3, <5>1, TreeFacts
          <6>2. Parent[m] = n
            BY <5>1, <6>1, TreeFacts
          <6> QED
            BY <3>1, <6>2
        <5>2. CASE i # Len(Ancestors[m])
          <6>1. i + 1 \in 1 .. Len(Ancestors[m]) /\ i + 1 # 1 /\ (i + 1) - 1 = i
            BY <3>3, <5>2, TreeFacts
          <6>2. Ancestors[m][i + 1] \in Node /\ Parent[Ancestors[m][i + 1]] = Ancestors[m][i]
            BY <6>1, TreeFacts
          <6>3. Deployed(Ancestors[m][i + 1])
            BY <1>2, <3>1, <6>1 DEF Placed
          <6> QED
            BY <2>1, <6>2, <6>3
        <5> QED
          BY <5>1, <5>2
      <4> QED
        BY <2>2, <4>1, <4>2 DEF Deployed
    <3> QED
      BY <1>2, <3>1, <3>2, <3>3 DEF Placed
  <2>4. Placed'
    BY <2>3 DEF Placed
  <2> QED
    BY <1>3, <2>4 DEF VenueInv
<1> QED
  BY <1>4, <1>5, <1>6, <1>7

LEMMA VenueStep ==
  ASSUME HopsWhenPrepared, GroupsOnTop
  PROVE  TypeOK /\ VenueInv /\ [Next]_vars => VenueInv'
<1> SUFFICES ASSUME TypeOK, VenueInv, [Next]_vars PROVE VenueInv'
  OBVIOUS
<1> USE DEF build, lease
<1>1. ASSUME NEW op \in Op, NEW n \in Node, NEW d \in Dir, Begin(op, n, d) PROVE VenueInv'
  BY <1>1, VenueBegin
<1>2. CASE LoadPlugins
  <2>1. req.op # "none" /\ req # Idle /\ req.pc = "plugins" /\ venue' = venue
    BY <1>2, BusyType DEF LoadPlugins
  <2>2. req.op # "add"
    BY <2>1 DEF VenueInv, Derived
  <2>3. req' = Idle \/ req' = [req EXCEPT !.pc = "resolve"]
    BY <1>2 DEF LoadPlugins, Over
  <2> QED
    BY <2>1, <2>2, <2>3, VenueIdle, VenueMoves
<1>3. CASE HopsDone
  <2>1. /\ req.op # "none" /\ req # Idle /\ venue' = venue /\ req.hop \in Nat /\ req.node \in Node
        /\ req.hop > Len(Ancestors[req.node]) /\ Len(Ancestors[req.node]) \in Nat
    BY <1>3, BusyType, TreeFacts DEF HopsDone
  <2>2. req.hop = Len(Ancestors[req.node]) + 1
    BY <2>1 DEF VenueInv, Derived
  <2>3. \/ req' = Idle
        \/ req' = [req EXCEPT !.pc = "resolve"]
        \/ req' = [req EXCEPT !.pc = "dispatch"]
    BY <1>3 DEF HopsDone, Over
  <2> QED
    BY <2>1, <2>2, <2>3, VenueIdle, VenueMoves
<1>4. CASE Resolve
  <2>1. /\ req.op # "none" /\ req # Idle /\ venue' = venue /\ req.pc = "resolve" /\ req.op \in Op
        /\ req.hop \in Nat \ {0} /\ req.node \in Node
    BY <1>4, BusyType DEF Resolve
  <2>2. \/ req' = Idle
        \/ req.op = "del" /\ req' = [req EXCEPT !.pc = "hops"]
        \/ req.op # "del" /\ req' = [req EXCEPT !.pc = "dispatch"]
    BY <1>4 DEF Resolve, Over
  <2>3. req.op # "del" => req.hop = Len(Ancestors[req.node]) + 1
    <3>1. CASE req.op = "add"
      BY <2>1, <3>1 DEF VenueInv, Derived
    <3>2. CASE req.op \in ByName
      <4>1. Parent[req.node] = None
        BY <2>1, <3>2 DEF VenueInv, Ordered
      <4>2. Len(Ancestors[req.node]) = 0
        BY <2>1, <4>1, TreeFacts
      <4> QED
        BY <2>1, <4>2 DEF VenueInv, Derived
    <3> QED
      BY <2>1, <3>1, <3>2 DEF Op
  <2> QED
    BY <2>1, <2>2, <2>3, VenueIdle, VenueMoves
<1>5. CASE Hop \/ Dispatch \/ Walk
  BY <1>5, VenueHop, VenueDispatch, VenueWalk
<1>6. CASE Refuse
  BY <1>6, VenueIdle DEF Refuse, Over
<1>7. ASSUME NEW tag \in BOOLEAN, NEW qualified \in BOOLEAN,
             NEW resolver \in {"elects", "silent", "refuses"}, Overlay(tag, qualified, resolver)
      PROVE  VenueInv'
  BY <1>7, VenueOverlay DEF Overlay, Over
<1>8. CASE EmitStep \/ OverlayBuilt
  BY <1>8, VenueOverlay DEF EmitStep, OverlayBuilt, Over
<1>9. CASE UNCHANGED <<req, venue, acts>>
  <2>1. CASE req = Idle
    BY <1>9, <2>1, VenueIdle
  <2>2. CASE req # Idle
    <3>1. req \in Requests /\ req.op # "none" /\ req.node \in Node
      BY <2>2 DEF TypeOK, Requests, Op, ByName, Verbs
    <3>2. Placed' /\ Ordered'
      BY <1>9, <2>2, PlacedKept, OrderKept DEF VenueInv
    <3>3. PICK n \in Node : n = req.node
      BY <3>1
    <3>4. Due(n)' = Due(n)
      BY <1>9, EntryKept
    <3>5. Due(req.node)' = Due(req.node)
      BY <1>9, <3>3, <3>4 DEF Due, Entry
    <3>6. (IF Unmoored(At(req)) THEN req.exec = Nil ELSE req.exec # Nil /\ Entry(At(req)) = {req.exec})'
      BY <1>9, <2>2, <3>1, DerivedKept DEF VenueInv, Derived
    <3>7. Derived'
      BY <1>9, <2>2, <3>5, <3>6 DEF VenueInv, Derived
    <3> QED
      BY <3>2, <3>7 DEF VenueInv
  <2> QED
    BY <2>1, <2>2
<1> QED
  BY <1>1, <1>2, <1>3, <1>4, <1>5, <1>6, <1>7, <1>8, <1>9
    DEF Next, EndSession, BeginSession, Remove, vars

THEOREM VenueInvariance ==
  ASSUME HopsWhenPrepared, GroupsOnTop PROVE Spec => [](TypeOK /\ VenueInv)
<1>1. TypeOK /\ VenueInv /\ [Next]_vars => VenueInv'
  BY VenueStep
<1> QED
  BY <1>1, TypeInit, TypeStep, VenueInit, PTL DEF Spec

\* What is done to a deployed node lands where its add landed, whichever fresh target it goes
\* through (applyDelParentExec, charly#765).
THEOREM StaysPut ==
  ASSUME HopsWhenPrepared, GroupsOnTop PROVE Spec => []StaysWhereAdded
<1>1. TypeOK /\ VenueInv => StaysWhereAdded
  <2> SUFFICES ASSUME TypeOK, VenueInv, req # Idle, req.op # "add", req.pc = "walk"
               PROVE  acts \subseteq venue[req.node]
    BY DEF StaysWhereAdded
  <2>1. req.node \in Node /\ Deployed(req.node) /\ acts = Due(req.node)
    BY DEF TypeOK, Requests, VenueInv, Ordered, Derived
  <2>2. venue[req.node] = Due(req.node)
    BY <2>1 DEF VenueInv, Placed
  <2> QED
    BY <2>1, <2>2
<1> QED
  BY <1>1, VenueInvariance, PTL

\* A member without a lifecycle is applied where its parent is, at any depth and through any
\* mixture of words, but for what an unmoored parent on another machine carries itself
\* (applyParentExecOverride, ReconstructParentExec).
THEOREM MembersJoin ==
  ASSUME HopsWhenPrepared, GroupsOnTop PROVE Spec => []MembersJoinParent
<1>1. ASSUME Placed, NEW n \in Node, InsideParent(n), ~Misses(n)
      PROVE  venue[n] \subseteq venue[Parent[n]]
  <2> DEFINE p == Parent[n]
  <2>1. p \in Node /\ p # None /\ p \in Bearing /\ venue[n] = Entry(n)
    BY <1>1, TreeAssumption DEF TreeAssumption, InsideParent, Placed, Due
  <2>2. Len(Ancestors[n]) \in 1 .. Len(Ancestors[n]) /\ Ancestors[n][Len(Ancestors[n])] = p
    BY <2>1, TreeFacts
  <2>3. Deployed(p)
    BY <1>1, <2>2 DEF InsideParent, Placed
  <2>4. venue[p] = Due(p)
    BY <1>1, <2>1, <2>3 DEF Placed
  <2>5. CASE ~Unmoored(p)
    BY <2>1, <2>5, MooredBy DEF Entry
  <2>6. CASE Unmoored(p)
    <3>1. Entry(p) = {Root(p)}
      BY <2>6 DEF Entry
    <3>2. HasLifecycle(p) <=> Reached(p) \in Hops
      BY <2>1, TreeAssumption DEF TreeAssumption, HopsWhenPrepared, HasLifecycle, Reached, WordOf
    <3>3. CASE HandsOn(p)
      <4>1. Entry(n) = {Root(n)} /\ Host[n] = Host[p] /\ Reached(p) = "other"
        BY <1>1, <2>1, <2>6, <3>3, MooredBy DEF Entry, Misses, HandsOn
      <4>2. ~HasLifecycle(p)
        BY <3>2, <4>1 DEF Reached, Hops
      <4> QED
        BY <2>1, <2>4, <3>1, <4>1, <4>2 DEF Due, Root
    <3>4. CASE ~HandsOn(p)
      <4>1. Entry(n) = {DeriveChild(p, Nil)} /\ Root(p) = <<Operator>>
        BY <1>1, <2>1, <2>6, <3>4, MooredBy DEF Entry, Misses, Root
      <4>2. DeriveChild(p, Nil) =
              IF Reached(p) \in Hops THEN Append(<<Operator>>, p) ELSE <<Operator>>
        BY <3>4 DEF DeriveChild, Local
      <4>3. Due(p) = IF HasLifecycle(p) THEN {Append(<<Operator>>, p)} ELSE {<<Operator>>}
        BY <3>1, <4>1 DEF Due
      <4> QED
        BY <2>1, <2>4, <3>2, <4>1, <4>2, <4>3
    <3> QED
      BY <3>3, <3>4
  <2> QED
    BY <2>5, <2>6
<1>2. TypeOK /\ VenueInv => MembersJoinParent
  BY <1>1 DEF MembersJoinParent, VenueInv
<1> QED
  BY <1>2, VenueInvariance, PTL

=============================================================================
