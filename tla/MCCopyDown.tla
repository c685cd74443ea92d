---------------------------- MODULE MCCopyDown ----------------------------
EXTENDS CopyDown, TLC

\* Trees: an entry that may be there, a directory with what is in it, and two
\* beside each other.
May(x, kinds) == {Empty} \cup {x :> k : k \in kinds}
Dir(x, inner) == {(x :> "dir") @@ t : t \in inner}
Both(S, T) == {s @@ t : s \in S, t \in T}

Node == "node_modules"
P == <<"p">>
D == <<"p", "d">>
T == <<"p", "target">>

MCGuestTrees ==
  Dir(P, Both(Both(May(<<"p", "Cargo.toml">>, {"file"}),
                   {Empty} \cup Dir(T, May(Append(T, Node), {"dir"}) \cup May(Append(T, "d"), {"file"}))),
              May(D, {"file", "link"})
                \cup Dir(D, Both(Both(May(Append(D, Node), {"dir"}), May(Append(D, ".git"), {"dir"})),
                                 May(Append(D, "f"), {"file", "fifo"})))))

MCHostTrees ==
  May(P, {"file", "link"})
    \cup Dir(P, May(D, {"file", "link"}) \cup Dir(D, May(Append(D, "f"), {"file", "link"})))

MCSourceLists == {<<P>>, <<D, T>>, <<P, D>>, <<D, Append(T, "d")>>}
InnerFirst == {<<D, P>>}
MCBuildOutput == [n \in {Node, "target"} |-> IF n = Node THEN None ELSE "Cargo.toml"]
MCControl == {".git"}
=============================================================================
