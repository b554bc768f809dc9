---------------------------- MODULE MCPluginsGen ----------------------------
(* Plugins a and c may be compiled in, b and d are not; a and d both declare   *)
(* the command w, b and d the kind k, and c re-declares k when it is compiled. *)
EXTENDS PluginsGen

CONSTANTS a, b, c, d, cmdW, cmdB, cmdD, kindK

TreeWith(p, decl) == [decl |-> decl, parses |-> TRUE, block |-> TRUE, kit |-> FALSE, module |-> p]

TreeA == TreeWith(a, {<<cmdW, a>>})
LocalA == [TreeA EXCEPT !.kit = TRUE]
TreeB == TreeWith(b, {<<cmdB, b>>, <<kindK, b>>})
LocalB == TreeWith(b, {<<cmdB, b>>})
TreeC == TreeWith(c, {<<kindK, c>>, <<cmdB, c>>})
TreeD == TreeWith(d, {<<cmdW, d>>, <<cmdD, d>>, <<cmdD, b>>, <<kindK, d>>})
LocalD == [TreeD EXCEPT !.parses = FALSE]

MCSorted == [S \in SUBSET {a, b, c, d} |-> SelectSeq(<<a, b, c, d>>, LAMBDA p : p \in S)]
MCBranch == [p \in {a, b, c, d} |-> CASE p = a -> TreeA [] p = b -> TreeB [] p = c -> TreeC [] p = d -> TreeD]
MCTag == [MCBranch EXCEPT ![c] = [@ EXCEPT !.kit = TRUE]]

With(compiled, corpus, baked) ==
  [compiled |-> compiled, corpus |-> corpus, pins |-> {a, c}, packaged |-> TRUE, baked |-> baked, gover |-> 1]
At(p, tag) == [name |-> p, tag |-> tag]

\* A tree without the packaging list; the lists that agree, name a plugin twice, name one whose
\* words are all another's, name none; a compiled plugin without a pin.
MCConfigs == {
  With(<<a>>, {b, d}, <<At(b, 1), At(d, 2)>>),
  With(<<c, a>>, {a, b, d}, <<At(b, 1)>>),
  With(<<a>>, {b}, <<At(b, 1), At(b, 2)>>),
  With(<<a, d>>, {b}, <<At(c, 1)>>),
  [With(<<c>>, {a, b}, <<>>) EXCEPT !.packaged = FALSE],
  With(<<>>, {a, d}, <<At(d, 1)>>)}

Flags(p, tree) == [name |-> p, tree |-> tree]
MCOverrides == {
  <<>>,
  <<Flags(a, LocalA)>>,
  <<Flags(b, LocalB)>>,
  <<Flags(b, LocalB), Flags(a, LocalA)>>,
  <<Flags(d, LocalD)>>,
  <<Flags(a, LocalB)>>,
  <<Flags(a, LocalA), Flags(a, TreeA)>>}
=============================================================================
