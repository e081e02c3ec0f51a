----------------------------- MODULE MCAnalysis -----------------------------
(***************************************************************************)
(* Two functions that are analysed and one that is not: f branches on a    *)
(* number and again on a Boolean that only a relational domain relates to  *)
(* it; g counts in a loop, fails an assertion, has an unreachable block    *)
(* and more live variables than the threshold.  Two more blocks of g are   *)
(* there for the paths: ga, which no execution of g reaches but a path     *)
(* from gl does, is an assert(false), and gh forgets a Boolean before it   *)
(* assumes it.                                                             *)
(***************************************************************************)
EXTENDS ClamQueries

\* A block is a tuple of one name, so that it compares with an edge.
fe == <<"fe">>
fa == <<"fa">>
fb == <<"fb">>
fc == <<"fc">>
fr == <<"fr">>
he == <<"he">>
ge == <<"ge">>
gl == <<"gl">>
gb == <<"gb">>
gd == <<"gd">>
ga == <<"ga">>
gh == <<"gh">>
gr == <<"gr">>

MCLo      == -1
MCFunSeq  == <<"f", "h", "g">>
MCTracked == {"f", "g"}
MCBlocks  == [ f |-> <<fe, fa, fb, fc, fr>>, h |-> <<he>>,
               g |-> <<ge, gl, gb, gd, ga, gh, gr>> ]
MCMaxLive == [f |-> 2, g |-> 3, h |-> 0]
MCVars    == {"x", "y", "b"}
MCBools   == {"b"}
MCTagOf   == "y" :> "b"

E(p, q) == <<p, q>>
MCEdgeBlocks == {E(fe, fa), E(fe, fb), E(fb, fc), E(fb, fr),
                 E(gl, gb), E(gl, ga), E(gl, gr)}
MCPlain == {E(fa, fr), E(fc, fr), E(ge, gl), E(gb, gl), E(gl, gd), E(gl, gh)}
MCEdges == MCPlain \cup {<<e[1], e>> : e \in MCEdgeBlocks} \cup {<<e, e[2]>> : e \in MCEdgeBlocks}

MCCode ==
    (fe :> <<Stmt("havoc", "x", None, 0), Stmt("test", "b", "x", 1)>>) @@
    (fa :> <<Stmt("add", "y", "x", 1)>>) @@
    (fb :> <<Stmt("add", "y", "x", 0)>>) @@
    (fc :> <<Stmt("assert", None, "x", 2), Stmt("bool_assume", None, "b", 0)>>) @@
    (fr :> <<Stmt("assert", None, "y", 3)>>) @@
    (E(fe, fa) :> <<Stmt("assume", None, "x", 1), Stmt("assume_not", None, "x", -1)>>) @@
    (E(fe, fb) :> <<Stmt("assume_not", None, "x", 1), Stmt("assume", None, "x", 3)>>) @@
    (E(fb, fc) :> <<Stmt("bool_assume", None, "b", 1)>>) @@
    (E(fb, fr) :> <<Stmt("bool_assume", None, "b", 0)>>) @@
    (ge :> <<Stmt("assign", "x", None, 0), Stmt("assign", "b", None, 1)>>) @@
    (gl :> <<Stmt("add", "y", "x", 1)>>) @@
    (gb :> <<Stmt("add", "x", "x", 1)>>) @@
    (gd :> <<AssumeFalse, Stmt("add", "y", "x", 1)>>) @@
    (ga :> <<Stmt("assert", None, None, 0)>>) @@
    (gh :> <<Stmt("havoc", "b", None, 0), Stmt("bool_assume", None, "b", 0)>>) @@
    (gr :> <<Stmt("assert", None, "x", 1), Stmt("assign", "b", None, 0), Stmt("add", "y", "x", 0)>>) @@
    (E(gl, gb) :> <<Stmt("assume", None, "x", 1)>>) @@
    (E(gl, ga) :> <<Stmt("assume_not", None, "x", 2)>>) @@
    (E(gl, gr) :> <<Stmt("assume_not", None, "x", 1)>>)

MCAssumptions == {NoAssumption,
                  fb :> {s \in Top : s["x"] =< 1},
                  gl :> {s \in Top : s["x"] =< 0}}

MCAsked == {<<fb, "y">>, <<fr, "y">>, <<gl, "x">>, <<gl, "y">>, <<gr, "y">>}

MCPaths == {<<fe, fa, fr>>, <<fe, fb, fc, fr>>, <<fe, fb, fr>>,
            <<fe, fr>>,
            <<ge, gl, gr>>, <<ge, gl, gd>>, <<ge, gl, gb, gl>>,
            <<gl, ga>>, <<ge, gl, gh>>}

=============================================================================
