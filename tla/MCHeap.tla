-------------------------------- MODULE MCHeap --------------------------------
(***************************************************************************)
(* Programs for CallTranslation: the layouts of one node, and two          *)
(* functions, of which main calls the other.                               *)
(***************************************************************************)
EXTENDS CallTranslation

I8  == IntType(8, 1)
I16 == IntType(16, 2)
I32 == IntType(32, 4)

Node(size, types) ==
    [size |-> size, types |-> types, links |-> {}, collapsed |-> FALSE, read |-> TRUE,
     mod |-> FALSE, cast |-> FALSE, ext |-> FALSE, heap |-> FALSE, scalar |-> NoScalar]

Plain == [cast |-> FALSE, ext |-> FALSE]
Use(c) == [k |-> "use", cell |-> c]
CallOf(c) == [k |-> "call", c |-> c]

-----------------------------------------------------------------------------
\* One node, with types at up to three offsets, of which an access may be to
\* any byte; size is what the types need.
TypesAt == {{I8}, {I16}, {I32}, {PtrType}, {BoolType}, {I8, I32}}
Layouts == UNION {[S -> TypesAt] : S \in SUBSET {0, 2, 4}}
End(types) == Max({0} \cup UNION {{o + t.bytes : t \in types[o]} : o \in DOMAIN types})

\* A program of main alone, with the node n, that accesses the cells of uses.
Alone(n, opt, uses) ==
    [node |-> (1 :> n), fns |-> <<"main">>, byAddress |-> <<"main">>,
     roots |-> [f \in {"main"} |-> {1}],
     result |-> [f \in {"main"} |-> {}], locals |-> [f \in {"main"} |-> {}],
     calls |-> <<>>, opt |-> opt, params |-> [f \in {"main"} |-> <<>>],
     globals |-> [f \in {"main"} |-> <<>>], at |-> [f \in {"main"} |-> <<>>],
     returns |-> {}, body |-> [f \in {"main"} |-> [i \in DOMAIN uses |-> Use(uses[i])]]]

LayoutHeaps == {Alone(Node(End(l), l), Plain, <<<<1, 0>>, <<1, 4>>, NoCell>>) : l \in Layouts}

\* The other reasons for a region to be unknown.
L0 == (0 :> {I32}) @@ (4 :> {I16})
FlagHeaps ==
    {Alone([Node(6, L0) EXCEPT !.cast = c, !.ext = e, !.collapsed = k, !.read = r], o, <<<<1, 0>>>>) :
       c, e, k, r \in BOOLEAN, o \in [cast : BOOLEAN, ext : BOOLEAN]}

-----------------------------------------------------------------------------
\* What the callee does to a node; a new one is reachable from its result only.
Uses == {"read", "modified", "new"}
CalleeNode(u, types) == [Node(4, types) EXCEPT !.mod = u \in {"modified", "new"}]

\* What a node of the caller is.
Whats == {"int", "untyped", "short", "scalar", "heap", "pointer", "part"}
CallerNode(w) ==
    LET n == Node(4, (0 :> {I32}))
    IN CASE w = "int"     -> n
         [] w = "untyped" -> [n EXCEPT !.collapsed = TRUE]
         [] w = "short"   -> [n EXCEPT !.types = (0 :> {I16})]
         [] w = "scalar"  -> [n EXCEPT !.scalar = Info("int", 32)]
         [] w = "heap"    -> [n EXCEPT !.heap = TRUE]
         [] w = "part"    -> [n EXCEPT !.types = (0 :> {I16}), !.scalar = Info("int", 32)]
         [] w = "pointer" -> [n EXCEPT !.types = (0 :> {PtrType}), !.scalar = Info("int", 32)]

\* g has the nodes 1 to 3, main the nodes 4 and 5; main calls g with the
\* nodes of g mapped to its own by to.
TwoFunctions(use, to, what, scalars, uses, order) ==
    [node |-> [n \in 1..3 |->
                 [CalleeNode(use[n], (0 :> {I32})) EXCEPT
                    !.scalar = IF n \in scalars /\ use[n] # "new"
                               THEN Info("int", 32) ELSE NoScalar]]
              @@ [n \in 4..5 |-> CallerNode(what[n])],
     fns |-> <<"main", "g">>, byAddress |-> order,
     roots  |-> ("main" :> {}) @@ ("g" :> {n \in 1..3 : use[n] # "new"}),
     result |-> ("main" :> {}) @@ ("g" :> {n \in 1..3 : use[n] = "new"}),
     locals |-> ("main" :> {4, 5}) @@ ("g" :> {}),
     calls |-> <<[in |-> "main", callee |-> "g", sim |-> [c \in (1..3) \X {0} |-> <<to[c[1]], 0>>]]>>,
     opt |-> Plain,
     params |-> ("main" :> <<>>) @@ ("g" :> <<<<1, 0>>>>),
     globals |-> ("main" :> <<"v">>) @@ ("g" :> <<"v">>),
     at |-> ("main" :> ("v" :> <<to[2], 0>>)) @@ ("g" :> ("v" :> <<2, 0>>)),
     returns |-> {f \in {"g"} : \E n \in 1..3 : use[n] = "new"},
     body |-> ("main" :> <<Use(uses), CallOf(1)>>) @@ ("g" :> <<Use(<<1, 0>>), Use(<<2, 0>>)>>)]

\* The nodes the callee modifies are different ones in the caller.
Simulations(use) == {to \in [1..3 -> 4..5] :
    \A m, n \in 1..3 : m # n /\ use[m] = "modified" /\ use[n] = "modified" => to[m] # to[n]}

CallHeaps ==
    UNION {{TwoFunctions(use, to, (4 :> w[1]) @@ (5 :> "int"), w[2], <<4, 0>>, <<"g", "main">>) :
              to \in Simulations(use),
              w \in (Whats \X {{}}) \cup {<<"scalar", {1}>>, <<"scalar", {2}>>}} :
           use \in [1..3 -> Uses]}

\* A pointer of main past the bytes of its node, or without a node.
StrayHeaps ==
    UNION {{TwoFunctions([n \in 1..3 |-> IF n = 3 THEN "modified" ELSE "read"], to, (4 :> "int") @@ (5 :> w), s, u, o) :
              to \in [1..3 -> 4..5], w \in {"int", "scalar"}, s \in {{}, {3}},
              o \in {<<"main", "g">>, <<"g", "main">>}} : u \in {<<4, 4>>, NoCell}}

MCHeaps == LayoutHeaps \cup FlagHeaps \cup CallHeaps \cup StrayHeaps
=============================================================================
