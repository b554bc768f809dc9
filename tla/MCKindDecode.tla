---------------------------- MODULE MCKindDecode ----------------------------
(* Three projects: one that declares names twice, nests members and carries   *)
(* fields named like a kind; one whose directories share a base name; and    *)
(* ones whose values the checks refuse.                                       *)
EXTENDS KindDecode

CONSTANTS vm, pod, kubevirt, candyK, task, bed, note, distro, sidecar,   \* kinds
          a, b, c, d                                            \* names

N(k, n, f, shape) ==
  [kind |-> k, name |-> n, file |-> f, shape |-> shape, body |-> "fine", nested |-> FALSE, lookalike |-> FALSE]
Of(node0, body) == [node0 EXCEPT !.body = body]
Nesting(node0) == [node0 EXCEPT !.nested = TRUE]
Alike(node0) == [node0 EXCEPT !.lookalike = TRUE]

Twice ==
  [docs |-> <<<<Alike(Nesting(N(pod, a, "f1", "deploy"))), N(distro, b, "f1", "plain"), Alike(N(bed, c, "f1", "plain"))>>,
              <<N(vm, a, "f2", "deploy"), N(distro, b, "f2", "plain"), Of(N(candyK, d, "f2", "layer"), "hollow")>>>>,
   found |-> <<[dir |-> d, node |-> N(candyK, d, "m1", "layer")], [dir |-> a, node |-> N(candyK, d, "m2", "image")]>>]

Shared ==
  [docs |-> <<<<Alike(N(kubevirt, a, "f1", "plain")), N(candyK, b, "f1", "image"), Of(N(vm, c, "f1", "template"), "scalar")>>>>,
   found |-> <<[dir |-> c, node |-> Of(N(candyK, c, "m1", "layer"), "typo")],
               [dir |-> c, node |-> N(candyK, c, "m2", "layer")],
               [dir |-> b, node |-> N(candyK, b, "m3", "image")],
               [dir |-> d, node |-> Alike(N(note, d, "m4", "plain"))]>>]

One(node0) == [docs |-> <<<<node0>>>>, found |-> <<>>]

Spoilt ==
  {One(Of(N(k, a, "f1", IF k \in {vm, pod} THEN "deploy" ELSE IF k = candyK THEN "image" ELSE "plain"), body)) :
     k \in {vm, pod, candyK, task, bed, distro, kubevirt}, body \in {"typo", "hollow"}}
  \cup {One(Nesting(N(k, a, "f1", "plain"))) : k \in {task, note, distro, bed}}
  \cup {One(N(sidecar, a, "f1", "plain"))}

MCProjects == {Twice, Shared} \cup Spoilt
MCDefaults == <<N(distro, b, "e", "plain"), N(distro, d, "e", "plain"), N(pod, c, "e", "deploy")>>
=============================================================================
