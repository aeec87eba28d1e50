-------------------------------- MODULE Lists ---------------------------------
(***************************************************************************)
(* Lists and pairs as the primitives of src/list.c build and read them, and *)
(* the equivalences of src/primitives.c on them.  The heap has cells        *)
(* (Objects), list nodes that point to a cell and to the next node, list    *)
(* headers and pairs; copies of an Object share what it points to, and      *)
(* append and cdr share nodes.  Collection is in ObgGc: here memory is      *)
(* always found and nothing is freed.                                       *)
(*                                                                          *)
(* values and due are the history of what R7RS says the same calls          *)
(* return, as values that share nothing.                                    *)
(***************************************************************************)
EXTENDS Machine, Integers, Sequences, SequencesExt

CONSTANTS Atom,      \* Objects that are neither lists nor pairs
          ListLiteral, \* sequences of atoms: list literals
          MaxKnown   \* bound: objects the program has

ASSUME ListAssumption ==
  /\ \A a \in Atom : /\ a = [type |-> a.type, val |-> a.val, gc |-> a.gc]
                      /\ a.type \notin {"list", "pair", "null_obj"}
  /\ ListLiteral \subseteq Seq(Atom)

VARIABLES cell, node, list, pair,  \* the heap; an index is an address, 0 is NULL
          known,                   \* the Objects the program has
          verdict,                 \* what the last predicate returned
          values, due              \* history: the values and the verdict of R7RS

heap == <<cell, node, list, pair>>
objectVars == <<heap, known, verdict, values, due>>
listVars == <<objectVars, machineVars>>

FREE_OBJ == 0
GEN_1_OBJ == 1
NULL == 0

Object(type, val, gc) == [type |-> type, val |-> val, gc |-> gc]
null_const == Object("null_obj", 0, FREE_OBJ)
Node(obj, next) == [obj |-> obj, next |-> next]

\* A literal: its nodes in the order of the elements, the cells of generation 1.
Cells(text) == [k \in DOMAIN text |-> [text[k] EXCEPT !.gc = GEN_1_OBJ]]
Chain(first, n, tail) ==
  [k \in 1 .. n |-> Node(first + k - 1, IF k < n THEN first + k ELSE tail)]
FirstOf(text, first) == IF text = <<>> THEN NULL ELSE first

ListInit ==
  \E a, b \in ListLiteral :
    /\ cell = Cells(a) \o Cells(b)
    /\ node = Chain(1, Len(a), NULL) \o Chain(Len(a) + 1, Len(b), NULL)
    /\ list = <<FirstOf(a, 1), FirstOf(b, Len(a) + 1)>>
    /\ pair = <<>>
    /\ known = <<Object("list", 1, FREE_OBJ), Object("list", 2, FREE_OBJ)>>
    /\ values = << <<"list", [k \in DOMAIN a |-> <<a[k].type, a[k].val>>]>>,
                   <<"list", [k \in DOMAIN b |-> <<b[k].type, b[k].val>>]>> >>
    /\ verdict = FALSE /\ due = FALSE
    /\ MachineInit

------------------------------------------------------------------------------
(* Values.                                                                  *)

IsList(v) == v[1] = "list"
Elements(v) == v[2]
Consed(v, w) == IF IsList(w) THEN <<"list", <<v>> \o Elements(w)>> ELSE <<"pair", v, w>>
Car(v) == IF IsList(v) THEN Head(Elements(v)) ELSE v[2]
Cdr(v) == IF IsList(v) THEN <<"list", Tail(Elements(v))>> ELSE v[3]

\* The nodes from n on, one at a time; more than there are would be a cycle.
Onward(nodes, s, n) ==
  LET next == IF s = <<>> THEN n ELSE nodes[Last(s)].next
  IN  IF next = NULL THEN s ELSE Append(s, next)
NodesFrom(nodes, n) ==
  LET walk[m \in 0 .. Len(nodes)] == IF m = 0 THEN <<>> ELSE Onward(nodes, walk[m - 1], n)
  IN  walk[Len(nodes)]
NodesOf(o) == NodesFrom(node, list[o.val])
Empty(o) == list[o.val] = NULL

\* The cells an Object leads to.
Parts(o) ==
  CASE o.type = "list" -> LET s == NodesOf(o) IN [k \in DOMAIN s |-> node[s[k]].obj]
    [] o.type = "pair" -> <<pair[o.val].car, pair[o.val].cdr>>
    [] OTHER -> <<>>

\* The value of an Object that leads to the cells parts, when inside tells
\* theirs.
ValueIn(o, parts, inside) ==
  CASE o.type = "list" -> <<"list", [k \in DOMAIN parts |-> inside[parts[k]]]>>
    [] o.type = "null_obj" -> <<"list", <<>>>>
    [] o.type = "pair" -> Consed(inside[parts[1]], inside[parts[2]])
    [] OTHER -> <<o.type, o.val>>

CellValues == LET inside[c \in DOMAIN cell] == ValueIn(cell[c], Parts(cell[c]), inside) IN inside
ValueOf(o) == ValueIn(o, Parts(o), CellValues)

------------------------------------------------------------------------------
\* How a call can end.  After a stray nothing is promised.
Fails == machine' = "PANIC" /\ UNCHANGED <<heap, known, verdict, values, due, strayed, unsafe>>
Wanders == machine' = "UNDEFINED" /\ Strays(TRUE) /\ Careless(TRUE)
               /\ UNCHANGED <<heap, known, verdict, values, due>>
Gives(o, v, strays) ==
  /\ Len(known) < MaxKnown
  /\ known' = Append(known, o)
  /\ Strays(strays)
  /\ values' = IF strayed' THEN <<>> ELSE Append(values, v)
  /\ UNCHANGED <<verdict, due, machine, unsafe>>
Answers(result, promise, strays) ==
  /\ verdict' = result
  /\ Strays(strays)
  /\ due' = IF strayed' THEN result ELSE promise
  /\ values' = IF strayed' THEN <<>> ELSE values
  /\ UNCHANGED <<heap, known, machine, unsafe>>

\* The Object a pointer leads to: anything, behind a pointer that was never set
\* or into a C frame that is gone.
Contents(c) == IF c = NULL THEN Atom ELSE {cell[c]}

------------------------------------------------------------------------------
_car(i) ==
  /\ Running
  /\ LET o == known[i]
     IN  CASE o.type = "list" ->
                IF Empty(o) THEN Wanders
                ELSE /\ \E c \in Contents(node[list[o.val]].obj) : Gives(c, Car(values[i]), FALSE)
                     /\ UNCHANGED heap
           [] o.type = "pair" -> /\ \E c \in Contents(pair[o.val].car) :
                                      Gives(c, Car(values[i]), FALSE)
                                 /\ UNCHANGED heap
           [] OTHER -> Fails

\* The rest of a list is a new header on the same nodes.
_cdr(i) ==
  /\ Running
  /\ LET o == known[i]
     IN  CASE o.type = "list" ->
                IF Empty(o) THEN Wanders
                ELSE IF node[list[o.val]].next = NULL
                THEN Gives(null_const, Cdr(values[i]), FALSE) /\ UNCHANGED heap
                ELSE /\ list' = Append(list, node[list[o.val]].next)
                     /\ Gives(Object("list", Len(list) + 1, FREE_OBJ), Cdr(values[i]), FALSE)
                     /\ UNCHANGED <<cell, node, pair>>
           [] o.type = "pair" -> /\ \E c \in Contents(pair[o.val].cdr) :
                                      Gives(c, Cdr(values[i]), FALSE)
                                 /\ UNCHANGED heap
           [] OTHER -> Fails

\* OBJ_IS_ON_STACK: an operand whose gc field is not zero is copied to a new
\* cell; of another the pair keeps the address, which is that of a variable of
\* call_prim.
OnStack(o) == o.gc # FREE_OBJ
CopyOf(o) == IF OnStack(o) THEN <<o>> ELSE <<>>
PlaceIn(cells, o) == IF OnStack(o) THEN Len(cells) + 1 ELSE NULL

\* On null_obj: a list of one node whose obj is never set.
_cons(i, j) ==
  /\ Running
  /\ LET a == known[i]
         b == known[j]
         first == cell \o CopyOf(a)
     IN  IF b.type = "null_obj"
         THEN /\ node' = Append(node, Node(NULL, NULL))
              /\ list' = Append(list, Len(node) + 1)
              /\ Gives(Object("list", Len(list) + 1, GEN_1_OBJ), Consed(values[i], values[j]), TRUE)
              /\ UNCHANGED <<cell, pair>>
         ELSE /\ cell' = first \o CopyOf(b)
              /\ pair' = Append(pair, [car |-> PlaceIn(cell, a), cdr |-> PlaceIn(first, b)])
              /\ Gives(Object("pair", Len(pair) + 1, GEN_1_OBJ), Consed(values[i], values[j]),
                         ~OnStack(a) \/ ~OnStack(b))
              /\ UNCHANGED <<node, list>>

_list_ref(i, k) ==
  /\ Running
  /\ LET o == known[i]
     IN  IF o.type # "list" THEN Fails
         ELSE IF k + 1 \notin DOMAIN NodesOf(o) THEN Fails
         ELSE /\ \E c \in Contents(node[NodesOf(o)[k + 1]].obj) :
                   Gives(c, Elements(values[i])[k + 1], FALSE)
              /\ UNCHANGED heap

\* Nodes for the elements of a list, and the last of them linked to tail.
Copies(o, tail) ==
  [k \in DOMAIN NodesOf(o) |->
     Node(node[NodesOf(o)[k]].obj, IF k < Len(NodesOf(o)) THEN Len(node) + k + 1 ELSE tail)]

\* Faulty variant: the last node of the first list is linked to the second, as
\* append! would.
LinkedInPlace(o, tail) ==
  [n \in DOMAIN node |-> IF n = NodesOf(o)[Len(NodesOf(o))] THEN Node(node[n].obj, tail) ELSE node[n]]
    \o Copies(o, tail)
Linked(o, tail) == node \o Copies(o, tail)

\* An empty first list leaves prev NULL.
_list_append(i, j) ==
  /\ Running
  /\ LET a == known[i]
         b == known[j]
     IN  IF a.type # "list" \/ b.type # "list" THEN Fails
         ELSE IF Empty(a) THEN Wanders
         ELSE /\ node' = Linked(a, list[b.val])
              /\ list' = Append(list, Len(node) + 1)
              /\ Gives(Object("list", Len(list) + 1, GEN_1_OBJ),
                         <<"list", Elements(values[i]) \o Elements(values[j])>>, FALSE)
              /\ UNCHANGED <<cell, pair>>

\* pair?, null?, list?.
prim_pair_p(i) ==
  /\ Running
  /\ LET o == known[i]
     IN  Answers(o.type = "pair" \/ (o.type = "list" /\ ~Empty(o)),
                 IF IsList(values[i]) THEN Elements(values[i]) # <<>> ELSE values[i][1] = "pair", FALSE)

prim_null_p(i) ==
  /\ Running
  /\ LET o == known[i]
     IN  Answers(o.type = "null_obj" \/ (o.type = "list" /\ Empty(o)),
                 values[i] = <<"list", <<>>>>, FALSE)

\* A list whose first pair was made by cons, and the empty list of cdr, are none.
prim_list_p(i) ==
  /\ Running
  /\ LET o == known[i]
     IN  Answers(o.type = "list", IsList(values[i]), o.type \in {"pair", "null_obj"})

------------------------------------------------------------------------------
(* Equivalences.  An operand is an Object and the address it is compared    *)
(* at: that of a cell, or of a variable of call_prim.                       *)

At(o, c) == [obj |-> o, c |-> c]
InCell(c) == At(cell[c], c)
Popped(i, c) == At(known[i], -c)

SameHeads(a, b) == a.val = b.val \/ (a.type = "list" /\ Empty(a) /\ Empty(b))

\* eq? is the same but for procedures, which are not here.
_eq(a, b) == a.obj.type = b.obj.type /\ SameHeads(a.obj, b.obj)

\* _eqv: booleans are compared by address, the types it has no case for panic.
_eqv(a, b) ==
  IF a.obj.type # b.obj.type THEN "false" ELSE
  CASE a.obj.type = "boolean" -> IF a.c = b.c THEN "true" ELSE "false"
    [] a.obj.type \in {"imm_int", "symbol", "list", "pair"} ->
         IF SameHeads(a.obj, b.obj) THEN "true" ELSE "false"
    [] OTHER -> "panic"

\* The first of two verdicts that is not "true".
Both(x, y) == IF x = "true" THEN y ELSE x

\* The loop over the elements of the first list, to the first that is not
\* equal; the second list may end before it, or go on.
EqualElements(ms, ns, inside) ==
  LET says(k) == IF k > Len(ns) THEN "undefined" ELSE inside[<<ms[k], ns[k]>>]
      stops == {k \in DOMAIN ms : says(k) # "true"}
  IN  IF stops # {} THEN says(Min(stops))
      ELSE IF ms = <<>> /\ ns # <<>> THEN "false" ELSE "true"

\* _equal, when the operands lead to the cells ms and ns and inside tells its
\* answers for two cells.
EqualIn(a, b, ms, ns, inside) ==
  IF a.obj.type # b.obj.type THEN "false" ELSE
  CASE a.obj.type = "pair" ->
         Both(inside[<<ms[1], ns[1]>>], inside[<<ms[2], ns[2]>>])
    [] a.obj.type = "list" -> EqualElements(ms, ns, inside)
    [] OTHER -> _eqv(a, b)

CellPairs == (DOMAIN cell) \X (DOMAIN cell)
CellsEqual ==
  LET inside[p \in CellPairs] ==
        EqualIn(InCell(p[1]), InCell(p[2]), Parts(cell[p[1]]), Parts(cell[p[2]]), inside)
  IN  inside
_equal(a, b) == EqualIn(a, b, Parts(a.obj), Parts(b.obj), CellsEqual)

\* Where equal? is known to be wrong: booleans at two addresses, '() in its two
\* forms, a list made by cons against another, and a list that is a proper
\* prefix of the second.
IsPrefixValue(v, w) == IsList(v) /\ IsList(w) /\ IsStrictPrefix(Elements(v), Elements(w))
MisjudgedIn(a, b, ms, ns, of, inside) ==
  LET v == ValueIn(a.obj, ms, of)
      w == ValueIn(b.obj, ns, of)
  IN  IF a.obj.type # b.obj.type THEN v = w ELSE
      CASE a.obj.type = "boolean" -> a.obj.val = b.obj.val /\ a.c # b.c
        [] a.obj.type \in {"pair", "list"} ->
             \/ ms # <<>> /\ a.obj.type = "list" /\ IsPrefixValue(v, w)
             \/ \E k \in DOMAIN ms \cap DOMAIN ns : inside[<<ms[k], ns[k]>>]
        [] OTHER -> FALSE

CellsMisjudged ==
  LET inside[p \in CellPairs] ==
        MisjudgedIn(InCell(p[1]), InCell(p[2]), Parts(cell[p[1]]), Parts(cell[p[2]]), CellValues, inside)
  IN  inside
Misjudged(a, b) == MisjudgedIn(a, b, Parts(a.obj), Parts(b.obj), CellValues, CellsMisjudged)

\* eq? and eqv? promise only that what they call the same is equal.
Eq(i, j) ==
  /\ Running
  /\ LET same == _eq(Popped(i, 1), Popped(j, 2))
     IN  Answers(same, same /\ values[i] = values[j], FALSE)

Eqv(i, j) ==
  /\ Running
  /\ LET says == _eqv(Popped(i, 1), Popped(j, 2))
     IN  IF says = "panic" THEN Fails
         ELSE Answers(says = "true", says = "true" /\ values[i] = values[j], FALSE)

\* Once memory nobody set can be met the comparison is not followed.
Equal(i, j) ==
  /\ Running /\ ~strayed
  /\ LET says == _equal(Popped(i, 1), Popped(j, 2))
     IN  CASE says = "panic" -> Fails
           [] says = "undefined" -> Wanders
           [] OTHER -> Answers(says = "true", values[i] = values[j],
                               Misjudged(Popped(i, 1), Popped(j, 2)))

ListNext ==
  \/ \E i \in DOMAIN known : \/ _car(i) \/ _cdr(i)
                             \/ prim_pair_p(i) \/ prim_null_p(i) \/ prim_list_p(i)
                             \/ \E k \in Index : _list_ref(i, k)
  \/ \E i, j \in DOMAIN known : \/ _cons(i, j) \/ _list_append(i, j)
                                \/ Eq(i, j) \/ Eqv(i, j) \/ Equal(i, j)

ListSpec == ListInit /\ [][ListNext]_listVars

------------------------------------------------------------------------------
(* Sharing is invisible: whatever is built from what, every object keeps    *)
(* the value R7RS gives it, nodes shared with younger lists included, and   *)
(* every predicate answers for the values, up to the first call the program *)
(* is known to answer otherwise.                                            *)
SharingInvisible ==
  ~strayed => /\ \A i \in DOMAIN known : ValueOf(known[i]) = values[i]
              /\ verdict = due
===============================================================================
