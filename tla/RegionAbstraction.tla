--------------------------- MODULE RegionAbstraction ---------------------------
(***************************************************************************)
(* How the memory of a program becomes regions (SeaDsaHeapAbstraction.cc). *)
(* sea-dsa has given every function a graph of nodes; each accessed field  *)
(* of a node gets a number, its region.  So that a function can be         *)
(* analysed alone, the regions it reads, modifies and makes are listed,    *)
(* and for each of its calls the regions of the caller they stand for, in  *)
(* the same order.                                                         *)
(*                                                                         *)
(* A heap of Heaps is what sea-dsa says of one program:                    *)
(*   node          its nodes (RegionTypes; also links, the nodes it points *)
(*                 to, heap, and scalar, the type of the only global that  *)
(*                 it is, or NoScalar); the nodes of a graph are visited   *)
(*                 by number,                                              *)
(*   fns, byAddress  the functions, in the order of the module and in that *)
(*                 of their addresses,                                     *)
(*   roots, result, locals   per function, nodes of its parameters and     *)
(*                 globals, of its result, and of its local pointers,      *)
(*   calls         the calls: in a function, to a callee, and sim, the     *)
(*                 cell of the caller for a cell of the callee,            *)
(*   opt           what the user said to disambiguate: [cast, ext].        *)
(***************************************************************************)
EXTENDS RegionTypes, Sequences, SequencesExt, TLC

CONSTANT Heaps

NoScalar == Untyped

VARIABLES
    heap,      \* the program
    ids,       \* m_node_ids, m_max_id, m_rev_node_ids: [base, max, rev]
    todo,      \* the fields still to be numbered, in order
    lists,     \* m_func_accessed, m_func_mods, m_func_news of a function
    atCall,    \* their images at a call, and whether the types agree
    callLists, \* m_callsite_accessed, m_callsite_mods, m_callsite_news
    equiv,     \* m_func_equiv_class_regions
    unchecked, \* the functions whose calls are still to be compared
    named      \* (history) every region that was handed out

heapVars == <<heap, ids, todo, lists, atCall, callLists, equiv, unchecked, named>>

-----------------------------------------------------------------------------
\* markReachableNodes, from the nodes of R.
Reach(h, R) ==
    LET within[k \in 0..Cardinality(DOMAIN h.node)] ==
          IF k = 0 THEN R
          ELSE within[k - 1] \cup UNION {h.node[n].links : n \in within[k - 1]}
    IN within[Cardinality(DOMAIN h.node)]

\* argReachableNodes.
OnlyFromResult(h, f) == Reach(h, h.result[f]) \ Reach(h, h.roots[f])

\* extractFields.
Fields(n) == IF n.collapsed \/ DOMAIN n.types = {} THEN <<0>>
             ELSE SetToSortSeq(DOMAIN n.types, <)

Accessed(h, f, n) == n \in OnlyFromResult(h, f) \/ h.node[n].read \/ h.node[n].mod

\* The fields of the nodes of N that the loops go over.
FieldsOf(h, f, N) ==
    LET order == SetToSortSeq({n \in N : Accessed(h, f, n)}, <)
        cells(n) == [i \in DOMAIN Fields(h.node[n]) |-> <<n, Fields(h.node[n])[i]>>]
    IN FlattenSeq([i \in DOMAIN order |-> cells(order[i])])

Interface(h, f) == FieldsOf(h, f, Reach(h, h.roots[f] \cup h.result[f]))

RegionInfoOf(h, c) == InfoOf(h.node[c[1]], c[2], h.opt)

-----------------------------------------------------------------------------
\* getId: the first byte of a node that is not numbered yet takes the next
\* number, and its other bytes the numbers after it.
IdOf(I, h, c) == IF c[1] \in DOMAIN I.base THEN I.base[c[1]] + c[2]
                 ELSE IF h.node[c[1]].size = 0 THEN I.max
                 ELSE I.max + c[2]

MutNumbered(I, h, c) ==
    IF c[1] \in DOMAIN I.base THEN I
    ELSE [I EXCEPT !.base = (c[1] :> I.max) @@ @,
                   !.max  = @ + Max(DOMAIN h.node[c[1]].types \cup {c[2]}),
                   !.rev  = IF c[2] = 0 /\ h.node[c[1]].scalar # NoScalar
                            THEN (I.max :> c[1]) @@ @ ELSE @]

Numbered(I, h, c) ==
    LET single == IF c[2] = 0 /\ h.node[c[1]].scalar # NoScalar THEN {I.max} ELSE {}
    IN IF c[1] \in DOMAIN I.base THEN I
       ELSE [base |-> [n \in DOMAIN I.base \cup {c[1]} |->
                         IF n = c[1] THEN I.max ELSE I.base[n]],
             max  |-> I.max + (IF h.node[c[1]].size = 0 THEN 1 ELSE h.node[c[1]].size),
             rev  |-> [i \in DOMAIN I.rev \cup single |->
                         IF i \in single THEN c[1] ELSE I.rev[i]]]

\* getSingleton: the integer or Boolean global a region is, or NoScalar.
Singleton(I, h, id) ==
    IF id \in DOMAIN I.rev /\ ContainScalar(h.node[I.rev[id]].scalar)
    THEN h.node[I.rev[id]].scalar ELSE NoScalar

MutRegion(I, h, c) ==
    [id   |-> IdOf(I, h, c),
     info |-> RegionInfoOf(h, c),
     sing |-> Singleton(I, h, IdOf(I, h, c)),
     heap |-> h.node[c[1]].heap,
     cell |-> c]

\* mkRegion; a region remembers its cell.  NoRegion is Region().
Region(I, h, c) ==
    [id   |-> IdOf(I, h, c),
     info |-> RegionInfoOf(h, c),
     sing |-> Singleton(Numbered(I, h, c), h, IdOf(I, h, c)),
     heap |-> h.node[c[1]].heap,
     cell |-> c]
NoCell == <<>>
NoRegion == [id |-> 0, info |-> Untyped, sing |-> NoScalar, heap |-> FALSE, cell |-> NoCell]

-----------------------------------------------------------------------------
(***************************************************************************)
(* The fields in the order in which initialize numbers them: of each       *)
(* function, its interface, its memory objects (computeEquivClasses), and  *)
(* at its calls the images of the callee's interface.                      *)
(***************************************************************************)
Task(k, who, of, c) == [k |-> k, who |-> who, of |-> of, cell |-> c]
Tasks(k, who, of, cells) == [i \in DOMAIN of |-> Task(k, who, of[i], cells[i])]

CallsIn(h, f) == SetToSortSeq({c \in DOMAIN h.calls : h.calls[c].in = f}, <)

CallTasks(h, c) ==
    LET of == Interface(h, h.calls[c].callee)
    IN Tasks("call", c, of, [i \in DOMAIN of |-> h.calls[c].sim[of[i]]])

FunctionTasks(h, f) ==
    LET own     == Interface(h, f)
        objects == FieldsOf(h, f, Reach(h, h.roots[f] \cup h.result[f] \cup h.locals[f]))
        calls   == CallsIn(h, f)
    IN    Tasks("own", f, own, own)
       \o Tasks("object", f, objects, objects)
       \o FlattenSeq([i \in DOMAIN calls |-> CallTasks(h, calls[i])])

AllTasks(h) == FlattenSeq([i \in DOMAIN h.byAddress |-> FunctionTasks(h, h.byAddress[i])])

\* Sizes and offsets are unsigned numbers, and a simulation maps the fields
\* of the callee to fields of the caller.
Cells(h) == (DOMAIN h.node) \X Nat
FieldTasks(h) == {t \in ToSet(AllTasks(h)) : t.cell \in Cells(h)}
ASSUME HeapsAssumption ==
    \A h \in Heaps :
      /\ \A n \in DOMAIN h.node :
           /\ h.node[n].size \in Nat
           /\ DOMAIN h.node[n].types \subseteq Nat
           /\ \A o \in DOMAIN h.node[n].types : \A t \in h.node[n].types[o] : t.bytes \in Nat
      /\ AllTasks(h) \in Seq(FieldTasks(h))

HeapInit ==
    /\ heap \in Heaps
    /\ ids = [base |-> <<>>, max |-> 0, rev |-> <<>>]
    /\ todo = AllTasks(heap)
    /\ lists     = [f \in ToSet(heap.fns) |-> <<>>]
    /\ equiv     = [f \in ToSet(heap.fns) |-> <<>>]
    /\ atCall    = [c \in DOMAIN heap.calls |-> <<>>]
    /\ callLists = [c \in DOMAIN heap.calls |-> <<>>]
    /\ unchecked = heap.fns
    /\ named = {}

-----------------------------------------------------------------------------
\* getRegion, of a pointer to the cell c; a pointer without one has NoRegion.
GetRegion(c) == IF c = NoCell THEN NoRegion ELSE Region(ids, heap, c)

\* One field of computeReadModNewNodes, of computeEquivClasses, or of
\* computeReadModNewNodesFromCallSite.
NumberField ==
    /\ todo # <<>>
    /\ LET t == Head(todo)
           r == Region(ids, heap, t.cell)
           e == [of |-> t.of, r |-> r,
                 ok |-> Compatible(RegionInfoOf(heap, t.of), r.info)]
       IN /\ ids' = Numbered(ids, heap, t.cell)
          /\ named' = named \cup {r}
          /\ lists'  = IF t.k = "own"    THEN [lists EXCEPT ![t.who] = Append(@, e)] ELSE lists
          /\ equiv'  = IF t.k = "object" THEN [equiv EXCEPT ![t.who] = Append(@, r)] ELSE equiv
          /\ atCall' = IF t.k = "call"   THEN [atCall EXCEPT ![t.who] = Append(@, e)] ELSE atCall
    /\ todo' = Tail(todo)
    /\ UNCHANGED <<heap, callLists, unchecked>>

\* The elements of s at the positions K.
At(s, K) == LET ix == SetToSortSeq(K, <) IN [i \in DOMAIN ix |-> s[ix[i]]]

CallsTo(h, f) == {c \in DOMAIN h.calls : h.calls[c].callee = f}

\* initialize, once all is numbered: a region on which a function and one of
\* its calls disagree is dropped, in the function and at all its calls.
Agreed(f) == {i \in DOMAIN lists[f] : \A c \in CallsTo(heap, f) : atCall[c][i].ok}
CompareCalls ==
    /\ todo = <<>> /\ unchecked # <<>>
    /\ LET f == Head(unchecked)
       IN /\ lists' = [lists EXCEPT ![f] = At(@, Agreed(f))]
          /\ callLists' = [c \in DOMAIN callLists |->
                             IF c \in CallsTo(heap, f) THEN At(atCall[c], Agreed(f))
                             ELSE callLists[c]]
    /\ unchecked' = Tail(unchecked)
    /\ UNCHANGED <<heap, ids, todo, atCall, equiv, named>>

-----------------------------------------------------------------------------
\* The three lists are the parts of one; f is the function they are of.
Regions(es) == [i \in DOMAIN es |-> es[i].r]
IsNew(f, e)      == e.of[1] \in OnlyFromResult(heap, f)
IsModified(f, e) == ~ IsNew(f, e) /\ heap.node[e.of[1]].mod

\* stable_difference: v1 \ v2, compared by number, one for one.
StableDifference(v1, v2) ==
    LET step(a, r) == IF \E i \in DOMAIN a.left : a.left[i] = r.id
                      THEN [a EXCEPT !.left = RemoveFirst(@, r.id)]
                      ELSE [a EXCEPT !.out = Append(@, r)]
    IN FoldLeft(step, [left |-> [i \in DOMAIN v2 |-> v2[i].id], out |-> <<>>], v1).out

\* getModifiedRegions, getNewRegions, getOnlyReadRegions.
MutModifiedOf(f, es) ==
    Regions(SelectSeq(es, LAMBDA e : IsModified(f, e) /\ ~ heap.node[e.of[1]].read))
ModifiedOf(f, es) == Regions(SelectSeq(es, LAMBDA e : IsModified(f, e)))
NewOf(f, es)      == Regions(SelectSeq(es, LAMBDA e : IsNew(f, e)))
OnlyReadOf(f, es) ==
    StableDifference(Regions(SelectSeq(es, LAMBDA e : ~ IsNew(f, e))), ModifiedOf(f, es))

-----------------------------------------------------------------------------
HeapNext == NumberField \/ CompareCalls
HeapSpec == HeapInit /\ [][HeapNext]_heapVars

\* Region::m_id is the "Unique id" of a region: two fields of memory never
\* share one, as every byte of a node has its own, unless a pointer has no
\* node or is past the bytes that sea-dsa knows of its node.
Inside(c) == c # NoCell /\ (c[2] < heap.node[c[1]].size \/ c[2] = 0)
IdsUnique == \A r, s \in named : r.cell # s.cell /\ Inside(r.cell) /\ Inside(s.cell) => r.id # s.id
=============================================================================
