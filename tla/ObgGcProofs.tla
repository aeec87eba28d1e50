----------------------------- MODULE ObgGcProofs -----------------------------
(***************************************************************************)
(* For any blocks, list nodes and stack size: the collector takes back only *)
(* what the program cannot reach.                                           *)
(*                                                                         *)
(* It frees a block that is neither permanent nor in the active root, so    *)
(* nothing dangles if permanent blocks lead to permanent ones only and a    *)
(* list in the making is on the stack, with its element still there, at     *)
(* every point where an allocation may collect.  The invariant says so of   *)
(* every block, and that a block in a pool is never marked free: therefore  *)
(* an allocation never hands out a block in use.                            *)
(*                                                                         *)
(* The second half shows that the collector implements ValueStack: blocks   *)
(* have ranks that fall along every reference, so what is seen of a value   *)
(* is well defined, depends on the blocks it leads to alone, and nothing    *)
(* that is seen leads to a list in the making.                              *)
(***************************************************************************)
EXTENDS ObgGcValues, WellFoundedInduction, TLAPS

------------------------------------------------------------------------------
(* The sweep of a pool.                                                      *)

(* The order of the naturals is well founded.                               *)
LEMMA NatOrder == IsWellFoundedOn({ss \in Nat \X Nat : ss[1] < ss[2]}, Nat)
BY NatLessThanWellFounded DEF OpToRel

(* A set of naturals that is not empty has a least element.                 *)
LEMMA Least ==
  ASSUME NEW S \in SUBSET Nat, S # {}
  PROVE  \E m \in S : \A n \in S : m <= n
<1>1. PICK x \in S : \A y \in S : ~(<<y, x>> \in {ss \in Nat \X Nat : ss[1] < ss[2]})
  BY NatOrder, WFMin
<1>2. ASSUME NEW y \in S, ~(x <= y) PROVE FALSE
  <2>1. y \in Nat /\ x \in Nat /\ y < x
    BY <1>2
  <2>2. <<y, x>> \in Nat \X Nat /\ <<y, x>>[1] < <<y, x>>[2]
    BY <2>1
  <2>3. <<y, x>> \in {ss \in Nat \X Nat : ss[1] < ss[2]}
    BY <2>2
  <2> QED BY <2>3, <1>1
<1> QED BY <1>2

(* Induction, for a set.                                                    *)
LEMMA Induction ==
  ASSUME NEW S, 0 \in S, \A n \in Nat : n \in S => n + 1 \in S
  PROVE  \A n \in Nat : n \in S
<1> DEFINE Bad == {n \in Nat : n \notin S}
<1> SUFFICES ASSUME Bad # {} PROVE FALSE
  OBVIOUS
<1>1. PICK m \in Bad : \A n \in Bad : m <= n
  BY Least
<1>2. m \in Nat /\ m # 0 /\ m - 1 \in Nat
  BY <1>1
<1>3. m - 1 \in S
  BY <1>1, <1>2
<1> QED BY <1>1, <1>2, <1>3

\* The recursion of Kept, and its solutions up to m.
KeptStep(s, dead, g, n) ==
  IF n = 0 THEN <<>> ELSE IF s[n] \in dead THEN g[n - 1] ELSE Append(g[n - 1], s[n])
KeptTo(s, dead, m, g) == g = [n \in 0 .. m |-> KeptStep(s, dead, g, n)]

(* The recursion over a pool has a solution, however long the pool is.      *)
LEMMA KeptExists ==
  ASSUME NEW s, NEW dead
  PROVE  \A m \in Nat : \E g : KeptTo(s, dead, m, g)
<1> DEFINE Good(m) == \E g : KeptTo(s, dead, m, g)
           S == {m \in Nat : Good(m)}
<1>1. 0 \in S
  <2> DEFINE g == [n \in 0 .. 0 |-> <<>>]
  <2>1. KeptTo(s, dead, 0, g)
    BY DEF KeptTo, KeptStep
  <2> QED BY <2>1
<1>2. ASSUME NEW m \in Nat, m \in S PROVE m + 1 \in S
  <2>1. PICK g : KeptTo(s, dead, m, g)
    BY <1>2
  <2> DEFINE f == [n \in 0 .. m + 1 |-> IF n = m + 1 THEN KeptStep(s, dead, g, n) ELSE g[n]]
  <2>2. \A n \in 0 .. m : g[n] = KeptStep(s, dead, g, n)
    BY <2>1 DEF KeptTo
  <2>3. ASSUME NEW n \in 0 .. m + 1 PROVE f[n] = KeptStep(s, dead, f, n)
    <3>1. f[n] = KeptStep(s, dead, g, n)
      BY <2>2
    <3>2. n # 0 => f[n - 1] = g[n - 1]
      OBVIOUS
    <3> HIDE DEF f
    <3> QED BY <3>1, <3>2 DEF KeptStep
  <2>4. KeptTo(s, dead, m + 1, f)
    <3>1. f = [n \in 0 .. m + 1 |-> f[n]]
      OBVIOUS
    <3> HIDE DEF f
    <3> QED BY <2>3, <3>1 DEF KeptTo
  <2> QED BY <2>4
<1> HIDE DEF Good
<1>3. \A m \in Nat : m \in S
  <2> HIDE DEF S
  <2> QED BY <1>1, <1>2, Induction
<1>4. \A m \in Nat : Good(m)
  BY <1>3
<1> QED BY <1>4 DEF Good

(* What the sweep leaves of a pool is the last value of that recursion.     *)
LEMMA KeptIs ==
  ASSUME NEW k, NEW dead, Len(pool[k]) \in Nat
  PROVE  \E g : /\ \A n \in 0 .. Len(pool[k]) : g[n] = KeptStep(pool[k], dead, g, n)
               /\ Kept(k, dead) = g[Len(pool[k])]
<1>1. PICK h : KeptTo(pool[k], dead, Len(pool[k]), h)
  BY KeptExists
<1> DEFINE c == CHOOSE g : g = [n \in 0 .. Len(pool[k]) |->
                  IF n = 0 THEN <<>> ELSE IF pool[k][n] \in dead THEN g[n - 1] ELSE Append(g[n - 1], pool[k][n])]
<1>2. KeptTo(pool[k], dead, Len(pool[k]), c)
  BY <1>1 DEF KeptTo, KeptStep
<1>3. Kept(k, dead) = c[Len(pool[k])]
  BY DEF Kept
<1> HIDE DEF c
<1>4. \A n \in 0 .. Len(pool[k]) : c[n] = KeptStep(pool[k], dead, c, n)
  BY <1>2 DEF KeptTo
<1> QED BY <1>3, <1>4

\* What is left of the first n blocks of a pool.
FirstKept(s, dead, n, q) ==
  /\ q \in Seq(Addr)
  /\ \A x \in ToSet(q) : x \notin dead /\ \E i \in 1 .. n : s[i] = x
  /\ \A i \in 1 .. n : s[i] \in dead \/ s[i] \in ToSet(q)
  /\ IsInjective(s) => IsInjective(q)

(* One more block of the pool.                                              *)
LEMMA FirstKeptStep ==
  ASSUME NEW s \in Seq(Addr), NEW dead, NEW n \in Nat, n + 1 <= Len(s), NEW q, FirstKept(s, dead, n, q)
  PROVE  FirstKept(s, dead, n + 1, IF s[n + 1] \in dead THEN q ELSE Append(q, s[n + 1]))
<1>1. s[n + 1] \in Addr /\ DOMAIN s = 1 .. Len(s) /\ Len(s) \in Nat
  OBVIOUS
<1>2. CASE s[n + 1] \in dead
  <2>1. \A i \in 1 .. n + 1 : i \in 1 .. n \/ i = n + 1
    OBVIOUS
  <2> QED BY <1>2, <2>1 DEF FirstKept
<1>3. CASE s[n + 1] \notin dead
  <2> DEFINE r == Append(q, s[n + 1])
  <2>0. q \in Seq(Addr)
    BY DEF FirstKept
  <2>1. r \in Seq(Addr) /\ DOMAIN q = 1 .. Len(q) /\ DOMAIN r = 1 .. Len(q) + 1 /\ Len(q) \in Nat
    BY <1>1, <2>0
  <2>2. (\A i \in 1 .. Len(q) : r[i] = q[i]) /\ r[Len(q) + 1] = s[n + 1]
    BY <1>1, <2>0
  <2> HIDE DEF r
  <2>3. ToSet(r) = ToSet(q) \cup {s[n + 1]}
    BY <2>1, <2>2 DEF ToSet
  <2>4. \A i \in 1 .. n + 1 : i \in 1 .. n \/ i = n + 1
    OBVIOUS
  <2>5. \A x \in ToSet(r) : x \notin dead /\ \E i \in 1 .. n + 1 : s[i] = x
    BY <1>3, <2>3 DEF FirstKept
  <2>6. \A i \in 1 .. n + 1 : s[i] \in dead \/ s[i] \in ToSet(r)
    BY <2>3, <2>4 DEF FirstKept
  <2>7. ASSUME IsInjective(s) PROVE IsInjective(r)
    <3>1. IsInjective(q)
      BY <2>7 DEF FirstKept
    <3>2. \A i \in 1 .. Len(q) : r[i] # s[n + 1]
      <4> SUFFICES ASSUME NEW i \in 1 .. Len(q), r[i] = s[n + 1] PROVE FALSE
        OBVIOUS
      <4>1. q[i] \in ToSet(q) /\ q[i] = s[n + 1]
        BY <2>1, <2>2 DEF ToSet
      <4>2. PICK m \in 1 .. n : s[m] = s[n + 1]
        BY <4>1 DEF FirstKept
      <4>3. m \in DOMAIN s /\ n + 1 \in DOMAIN s /\ m # n + 1
        BY <1>1
      <4> QED BY <4>2, <4>3, <2>7, Zenon DEF IsInjective
    <3> QED BY <2>1, <2>2, <3>1, <3>2 DEF IsInjective
  <2> QED BY <1>3, <2>1, <2>5, <2>6, <2>7 DEF FirstKept, r
<1> QED BY <1>2, <1>3

(* The sweep of a pool removes the dead blocks and nothing else, and does   *)
(* not book a block twice (release_all_free_objects).                       *)
LEMMA KeptFacts ==
  ASSUME NEW k, NEW dead, pool[k] \in Seq(Addr)
  PROVE  /\ Kept(k, dead) \in Seq(Addr)
         /\ ToSet(Kept(k, dead)) = ToSet(pool[k]) \ dead
         /\ IsInjective(pool[k]) => IsInjective(Kept(k, dead))
<1> DEFINE s == pool[k]
<1>1. s \in Seq(Addr) /\ Len(s) \in Nat /\ DOMAIN s = 1 .. Len(s)
  OBVIOUS
<1>2. PICK g : /\ \A n \in 0 .. Len(s) : g[n] = KeptStep(s, dead, g, n)
               /\ Kept(k, dead) = g[Len(s)]
  BY <1>1, KeptIs
<1> HIDE DEF s
<1> DEFINE S == {n \in Nat : n <= Len(s) => FirstKept(s, dead, n, g[n])}
<1>3. 0 \in S
  <2>1. g[0] = <<>>
    BY <1>1, <1>2 DEF KeptStep
  <2>2. FirstKept(s, dead, 0, <<>>)
    BY DEF FirstKept, ToSet, IsInjective
  <2> QED BY <2>1, <2>2
<1>4. ASSUME NEW n \in Nat, n \in S PROVE n + 1 \in S
  <2>1. SUFFICES ASSUME n + 1 <= Len(s) PROVE FirstKept(s, dead, n + 1, g[n + 1])
    OBVIOUS
  <2>2. FirstKept(s, dead, n, g[n])
    BY <1>1, <1>4, <2>1
  <2>3. g[n + 1] = IF s[n + 1] \in dead THEN g[n] ELSE Append(g[n], s[n + 1])
    BY <1>1, <1>2, <2>1 DEF KeptStep
  <2> QED BY <1>1, <2>1, <2>2, <2>3, FirstKeptStep
<1>5. Len(s) \in S
  <2> HIDE DEF S
  <2> QED BY <1>1, <1>3, <1>4, Induction
<1>6. FirstKept(s, dead, Len(s), Kept(k, dead))
  BY <1>1, <1>2, <1>5
<1> QED BY <1>1, <1>6 DEF FirstKept, ToSet, s

------------------------------------------------------------------------------
(* The inductive invariant.                                                 *)

Block == [kind : {"none", "obj", "list"}, gc : FREE_OBJ .. PERMANENT_OBJ,
          val : Values \cup {NULL}, items : Seq(Addr \cup {BEEF})]

Permanent(b) == b.gc = PERMANENT_OBJ

\* A reference finds a list; a lasting one finds a permanent list.
Placed(h, v) == v \in Values /\ v.type # "pair" /\ (IsRef(v) => h[v.at].kind = "list")
Lasting(h, v) == IsRef(v) => Permanent(h[v.at])

\* A block has a generation, leads to blocks in memory, and a permanent block
\* leads to permanent ones.
SoundObject(h, b) == Placed(h, b.val) /\ (Permanent(b) => Lasting(h, b.val))
SoundItem(h, b, x) == x = BEEF \/ (h[x].kind = "obj" /\ (Permanent(b) => Permanent(h[x])))

Sound(h, b) ==
  /\ b.kind # "none" => b.gc # FREE_OBJ
  /\ b.kind = "obj" => SoundObject(h, b)
  /\ b.kind = "list" => \A i \in DOMAIN b.items : SoundItem(h, b, b.items[i])

BookedIn(h, p) ==
  /\ \A k \in Kinds : \A i \in DOMAIN p[k] : h[p[k][i]].kind = k
  /\ \A k \in Kinds : IsInjective(p[k])
  /\ \A a \in Addr : h[a].kind # "none" => \E k \in Kinds : a \in ToSet(p[k])

\* Memory and the pools; BookedIn is BookedOnce of any memory.
MemoryInv(h, p) ==
  /\ h \in [Addr -> Block]
  /\ p \in [Kinds -> Seq(Addr)]
  /\ \A a \in Addr : Sound(h, h[a])
  /\ BookedIn(h, p)

\* The stack and the globals: the globals are permanent, and so is the stack
\* while they are made.
DataInv(h, s, g, ph) ==
  /\ s \in Seq(Values) /\ g \in Seq(Values)
  /\ \A i \in DOMAIN s : Placed(h, s[i]) /\ (ph = "globals" => Lasting(h, s[i]))
  /\ \A i \in DOMAIN g : Placed(h, g[i]) /\ Lasting(h, g[i])
  /\ ph = "globals" => g = <<>>

\* The list in the making is on top of its n elements, and less than n of them
\* are done.
Building(pr) == pr.op \in {"node", "elem"}

BuildInv(h, s, pr, ph) ==
  /\ pr \in [op : {"idle", "inner", "node", "elem"}, n : Nat]
  /\ pr.op = "inner" => pr.n <= Len(s)
  /\ Building(pr) => /\ pr.n < Len(s)
                     /\ IsRef(Last(s))
                     /\ Permanent(h[Last(s).at]) <=> ph = "globals"
  /\ pr.op = "node" => Len(h[Last(s).at].items) < pr.n
  /\ pr.op = "elem" => Len(h[Last(s).at].items) \in 1 .. pr.n

\* The one node without an object is the first node of the list in the making.
HalfInv(h, s, pr) ==
  \A a \in Addr : \A i \in DOMAIN h[a].items :
    h[a].items[i] = BEEF <=> pr.op = "elem" /\ a = Last(s).at /\ i = 1

StopInv ==
  phase = "stop" => /\ stack = <<>> /\ globals = <<>> /\ prim = Idle
                    /\ \A a \in Addr : heap[a].kind = "none"

Inv ==
  /\ MemoryInv(heap, pool)
  /\ DataInv(heap, stack, globals, phase)
  /\ BuildInv(heap, stack, prim, phase)
  /\ prim.op = "idle" => prim = Idle
  /\ HalfInv(heap, stack, prim)
  /\ StopInv
  /\ phase \in {"globals", "run", "stop"}
  /\ panic \in {"none", "doomed"}

------------------------------------------------------------------------------
(* Values and blocks.                                                       *)

(* A reference is an address, another value an immediate.                   *)
LEMMA ValueFacts ==
  ASSUME NEW v \in Values
  PROVE  /\ IsRef(v) => v.at \in Addr /\ v.type \in {"list", "pair"}
         /\ ~IsRef(v) => v.type = "imm" /\ v.at \in Imm
BY DEF Values, Ref, IsRef

(* The two kinds of values the operations make.                             *)
LEMMA ValueIsIn ==
  /\ \A i \in Imm : Value("imm", i) \in Values /\ ~IsRef(Value("imm", i)) /\ Value("imm", i).type = "imm"
  /\ \A a \in Addr : Value("list", a) \in Values /\ IsRef(Value("list", a))
                     /\ Value("list", a).type = "list" /\ Value("list", a).at = a
BY DEF Values, Ref, IsRef, Value

(* Neither marker is an address.                                            *)
LEMMA NotAddresses == BEEF \notin Addr /\ NULL \notin Addr
BY ObgGcAssumption

(* The fields of a block.                                                   *)
LEMMA BlockFields ==
  ASSUME NEW b \in Block
  PROVE  /\ b.kind \in {"none", "obj", "list"} /\ b.gc \in 0 .. 3
         /\ b.val \in Values \cup {NULL} /\ b.items \in Seq(Addr \cup {BEEF})
BY DEF Block, FREE_OBJ, PERMANENT_OBJ

(* The blocks that allocation and release make.                             *)
LEMMA NewBlocks ==
  /\ Unused \in Block /\ Unused.kind = "none" /\ Unused.items = <<>>
  /\ \A v \in Values, g \in 1 .. 3 :
       /\ NewObject(v, g) \in Block /\ NewObject(v, g).kind = "obj"
       /\ NewObject(v, g).gc = g /\ NewObject(v, g).val = v /\ NewObject(v, g).items = <<>>
  /\ \A g \in 1 .. 3 :
       /\ NewInner("list", g) \in Block /\ NewInner("list", g).kind = "list"
       /\ NewInner("list", g).gc = g /\ NewInner("list", g).items = <<>>
<1>1. <<>> \in Seq(Addr \cup {BEEF})
  OBVIOUS
<1> QED BY <1>1 DEF Block, Unused, NewObject, NewInner, FREE_OBJ, PERMANENT_OBJ

(* A block that ages stays what it is; none becomes free or permanent.      *)
LEMMA AgedFields ==
  ASSUME NEW b \in Block
  PROVE  /\ Aged(b) \in Block /\ Aged(b).kind = b.kind /\ Aged(b).val = b.val
         /\ Aged(b).items = b.items /\ (Permanent(Aged(b)) <=> Permanent(b))
         /\ Aged(b).gc = FREE_OBJ => b.gc = FREE_OBJ
BY DEF Block, Aged, Permanent, FREE_OBJ, GEN_1_OBJ, GEN_2_OBJ, PERMANENT_OBJ

(* A list with other items is a list.                                       *)
LEMMA ItemsFields ==
  ASSUME NEW b \in Block, NEW q \in Seq(Addr \cup {BEEF})
  PROVE  LET c == [b EXCEPT !.items = q]
         IN  c \in Block /\ c.kind = b.kind /\ c.val = b.val /\ c.gc = b.gc /\ c.items = q
BY DEF Block

(* What a literal allocates is permanent exactly while the globals are      *)
(* made.                                                                    *)
LEMMA GenFacts ==
  /\ Gen \in 1 .. 3 /\ (Gen = PERMANENT_OBJ <=> phase = "globals")
  /\ GEN_1_OBJ \in 1 .. 3 /\ GEN_1_OBJ # PERMANENT_OBJ
BY DEF Gen, GEN_1_OBJ, PERMANENT_OBJ

(* What a reference finds stays in place when the block does.               *)
Survives(h, g, a) == g[a].kind = h[a].kind /\ (Permanent(g[a]) <=> Permanent(h[a]))

(* A value stays placed, and lasting, when what it refers to survives.      *)
LEMMA PlacedStays ==
  ASSUME NEW h, NEW g, NEW v, Placed(h, v), IsRef(v) => Survives(h, g, v.at)
  PROVE  Placed(g, v) /\ (Lasting(h, v) => Lasting(g, v))
BY DEF Placed, Lasting, Survives

(* A block stays sound when all it leads to survives.                       *)
LEMMA SoundStays ==
  ASSUME NEW h, NEW g, NEW b, NEW c, Sound(h, b),
         c.kind = b.kind, c.val = b.val, c.items = b.items, Permanent(c) <=> Permanent(b),
         c.gc = FREE_OBJ => b.gc = FREE_OBJ,
         \A x \in Children(b) : Survives(h, g, x)
  PROVE  Sound(g, c)
<1>1. CASE b.kind = "obj"
  <2>1. SoundObject(h, b)
    BY <1>1 DEF Sound
  <2>2. IsRef(b.val) => Survives(h, g, b.val.at)
    BY <1>1 DEF Children
  <2>3. SoundObject(g, c)
    BY <2>1, <2>2, PlacedStays DEF SoundObject
  <2> QED BY <1>1, <2>3 DEF Sound
<1>2. CASE b.kind = "list"
  <2>1. ASSUME NEW i \in DOMAIN c.items PROVE SoundItem(g, c, c.items[i])
    <3>1. SoundItem(h, b, b.items[i])
      BY <1>2, <2>1 DEF Sound
    <3>2. b.items[i] # BEEF => b.items[i] \in Children(b)
      BY <1>2, <2>1 DEF Children, ToSet
    <3>3. b.items[i] # BEEF => Survives(h, g, b.items[i])
      BY <3>2
    <3> QED BY <3>1, <3>3 DEF SoundItem, Survives
  <2> QED BY <1>2, <2>1 DEF Sound
<1>3. CASE b.kind \notin {"obj", "list"}
  BY <1>3 DEF Sound
<1> QED BY <1>1, <1>2, <1>3

(* What a sound block leads to is in memory.                                *)
LEMMA ChildrenFacts ==
  ASSUME NEW h \in [Addr -> Block], NEW b \in Block, Sound(h, b)
  PROVE  /\ Children(b) \subseteq Addr
         /\ \A x \in Children(b) : h[x].kind # "none" /\ (Permanent(b) => Permanent(h[x]))
<1>1. CASE b.kind = "obj"
  <2>1. Placed(h, b.val) /\ (Permanent(b) => Lasting(h, b.val))
    BY <1>1 DEF Sound, SoundObject
  <2>2. Children(b) = IF IsRef(b.val) THEN {b.val.at} ELSE {}
    BY <1>1 DEF Children
  <2> QED BY <2>1, <2>2, ValueFacts DEF Placed, Lasting
<1>2. CASE b.kind = "list"
  <2>1. Children(b) = ToSet(b.items) \ {BEEF}
    BY <1>2 DEF Children
  <2>2. ASSUME NEW x \in Children(b)
        PROVE  x \in Addr /\ h[x].kind = "obj" /\ (Permanent(b) => Permanent(h[x]))
    <3>1. PICK i \in DOMAIN b.items : b.items[i] = x
      BY <2>1 DEF ToSet
    <3>2. SoundItem(h, b, x) /\ x # BEEF
      BY <1>2, <2>1, <3>1 DEF Sound
    <3>3. x \in Addr
      <4>1. b.items \in Seq(Addr \cup {BEEF})
        BY BlockFields
      <4> QED BY <3>1, <3>2, <4>1
    <3> QED BY <3>2, <3>3 DEF SoundItem
  <2> QED BY <2>2
<1>3. CASE b.kind = "none"
  BY <1>3 DEF Children
<1> QED BY <1>1, <1>2, <1>3, BlockFields

(* The parts of the invariant of memory.                                    *)
LEMMA MemoryFacts ==
  ASSUME NEW h, NEW p, MemoryInv(h, p)
  PROVE  /\ h \in [Addr -> Block] /\ p \in [Kinds -> Seq(Addr)]
         /\ \A a \in Addr : Sound(h, h[a]) /\ h[a] \in Block
         /\ \A k \in Kinds : p[k] \in Seq(Addr)
         /\ BookedIn(h, p)
BY DEF MemoryInv

(* No pool holds a free block, so a block in use is never handed out again. *)
LEMMA FreshBlocks ==
  ASSUME MemoryInv(heap, pool), NEW k \in Kinds, NEW a \in Blocks(k)
  PROVE  /\ a \in Addr /\ heap[a].kind = "none"
         /\ \A m \in Kinds : a \notin ToSet(pool[m])
<1>1. \A i \in DOMAIN pool[k] : heap[pool[k][i]].gc # FREE_OBJ
  <2> SUFFICES ASSUME NEW i \in DOMAIN pool[k] PROVE heap[pool[k][i]].gc # FREE_OBJ
    OBVIOUS
  <2>1. pool[k][i] \in Addr /\ heap[pool[k][i]].kind = k /\ k # "none"
    BY MemoryFacts DEF BookedIn, Kinds
  <2> QED BY <2>1, MemoryFacts DEF Sound
<1>2. a \in Addr /\ heap[a].kind = "none"
  BY <1>1 DEF Blocks
<1>3. \A m \in Kinds : \A i \in DOMAIN pool[m] : heap[pool[m][i]].kind # "none"
  BY MemoryFacts DEF BookedIn, Kinds
<1> QED BY <1>2, <1>3 DEF ToSet

(* A booking puts one more block into a pool.                               *)
LEMMA Prepend ==
  ASSUME NEW s \in Seq(Addr), NEW a \in Addr
  PROVE  LET q == <<a>> \o s
         IN  /\ q \in Seq(Addr)
             /\ ToSet(q) = ToSet(s) \cup {a}
             /\ a \notin ToSet(s) /\ IsInjective(s) => IsInjective(q)
<1> DEFINE q == <<a>> \o s
<1>1. q \in Seq(Addr) /\ DOMAIN s = 1 .. Len(s) /\ DOMAIN q = 1 .. Len(s) + 1 /\ Len(s) \in Nat
  OBVIOUS
<1>2. q[1] = a /\ \A i \in 1 .. Len(s) : q[i + 1] = s[i]
  OBVIOUS
<1>3. \A j \in 1 .. Len(s) + 1 : j = 1 \/ (j - 1 \in 1 .. Len(s) /\ q[j] = s[j - 1])
  BY <1>1
<1> HIDE DEF q
<1>4. ToSet(q) = ToSet(s) \cup {a}
  <2>1. ASSUME NEW x \in ToSet(q) PROVE x \in ToSet(s) \cup {a}
    <3>1. PICK j \in 1 .. Len(s) + 1 : q[j] = x
      BY <1>1, <2>1 DEF ToSet
    <3>2. CASE j = 1
      BY <1>2, <3>1, <3>2
    <3>3. CASE j - 1 \in 1 .. Len(s) /\ q[j] = s[j - 1]
      BY <1>1, <3>1, <3>3 DEF ToSet
    <3> QED BY <1>3, <3>2, <3>3
  <2>2. ASSUME NEW x \in ToSet(s) \cup {a} PROVE x \in ToSet(q)
    <3>1. CASE x = a
      BY <1>1, <1>2, <3>1 DEF ToSet
    <3>2. CASE x # a
      <4>1. PICK i \in 1 .. Len(s) : s[i] = x
        BY <1>1, <2>2, <3>2 DEF ToSet
      <4>2. i + 1 \in DOMAIN q /\ q[i + 1] = x
        BY <1>1, <1>2, <4>1
      <4> QED BY <4>2 DEF ToSet
    <3> QED BY <3>1, <3>2
  <2> QED BY <2>1, <2>2
<1>5. ASSUME a \notin ToSet(s), IsInjective(s) PROVE IsInjective(q)
  <2>1. \A i \in 1 .. Len(s) : s[i] # a
    BY <1>1, <1>5 DEF ToSet
  <2>2. \A i, j \in 1 .. Len(s) : s[i] = s[j] => i = j
    BY <1>1, <1>5 DEF IsInjective
  <2> SUFFICES ASSUME NEW i \in 1 .. Len(s) + 1, NEW j \in 1 .. Len(s) + 1, q[i] = q[j] PROVE i = j
    BY <1>1 DEF IsInjective
  <2> QED BY <1>1, <1>2, <1>3, <2>1, <2>2
<1> QED BY <1>1, <1>4, <1>5 DEF q

(* A block is taken into use and booked.                                    *)
Allocates(h, p, k, a, b, g, q) ==
  g = [h EXCEPT ![a] = b] /\ q = [p EXCEPT ![k] = <<a>> \o @]

(* Memory stays sound, and nothing in use changes.                          *)
LEMMA AllocKeeps ==
  ASSUME NEW h, NEW p, MemoryInv(h, p), NEW k \in Kinds,
         NEW a \in Addr, h[a].kind = "none", \A m \in Kinds : a \notin ToSet(p[m]),
         NEW b \in Block, b.kind = k, Sound(h, b),
         NEW g, NEW q, Allocates(h, p, k, a, b, g, q)
  PROVE  /\ MemoryInv(g, q)
         /\ \A x \in Addr : x # a => g[x] = h[x]
         /\ \A x \in Addr : h[x].kind # "none" => g[x] = h[x] /\ Survives(h, g, x)
         /\ g[a] = b
<1>0. g = [h EXCEPT ![a] = b] /\ q = [p EXCEPT ![k] = <<a>> \o @]
  BY DEF Allocates
<1>1. g \in [Addr -> Block] /\ g[a] = b /\ \A x \in Addr : x # a => g[x] = h[x]
  BY <1>0, MemoryFacts
<1>2. q \in [Kinds -> Seq(Addr)]
  BY <1>0, MemoryFacts, Prepend
<1>3. q[k] = <<a>> \o p[k] /\ \A m \in Kinds : m # k => q[m] = p[m]
  BY <1>0, MemoryFacts
<1>4. ASSUME NEW x \in Addr PROVE Sound(g, g[x])
  <2>1. ASSUME NEW c \in Block, Sound(h, c) PROVE Sound(g, c)
    <3>1. \A y \in Children(c) : y \in Addr /\ y # a
      BY <2>1, ChildrenFacts, MemoryFacts
    <3>2. \A y \in Children(c) : Survives(h, g, y)
      BY <1>1, <3>1 DEF Survives
    <3> QED BY <2>1, <3>2, SoundStays
  <2> QED BY <1>1, <2>1, MemoryFacts
<1>5. ToSet(q[k]) = ToSet(p[k]) \cup {a} /\ IsInjective(q[k])
  BY <1>3, Prepend, MemoryFacts DEF BookedIn
<1>6. \A m \in Kinds : \A i \in DOMAIN q[m] : g[q[m][i]].kind = m
  <2> SUFFICES ASSUME NEW m \in Kinds, NEW i \in DOMAIN q[m] PROVE g[q[m][i]].kind = m
    OBVIOUS
  <2>1. CASE q[m][i] = a
    <3>1. q[m][i] \in ToSet(q[m])
      BY DEF ToSet
    <3>2. m = k
      BY <1>3, <2>1, <3>1
    <3> QED BY <1>1, <2>1, <3>2
  <2>2. CASE q[m][i] # a
    <3>1. q[m][i] \in ToSet(p[m])
      <4>1. q[m][i] \in ToSet(q[m])
        BY DEF ToSet
      <4> QED BY <1>3, <1>5, <2>2, <4>1
    <3>2. PICK j \in DOMAIN p[m] : p[m][j] = q[m][i]
      BY <3>1 DEF ToSet
    <3>3. h[p[m][j]].kind = m /\ p[m][j] \in Addr
      BY MemoryFacts DEF BookedIn
    <3> QED BY <1>1, <2>2, <3>2, <3>3
  <2> QED BY <2>1, <2>2
<1>7. \A m \in Kinds : IsInjective(q[m])
  BY <1>3, <1>5, MemoryFacts DEF BookedIn
<1>8. ASSUME NEW x \in Addr, g[x].kind # "none" PROVE \E m \in Kinds : x \in ToSet(q[m])
  <2>1. CASE x = a
    BY <1>5, <2>1
  <2>2. CASE x # a
    <3>1. PICK m \in Kinds : x \in ToSet(p[m])
      BY <1>1, <1>8, <2>2, MemoryFacts DEF BookedIn
    <3> QED BY <1>3, <1>5, <3>1
  <2> QED BY <2>1, <2>2
<1>9. BookedIn(g, q)
  BY <1>6, <1>7, <1>8 DEF BookedIn
<1>10. MemoryInv(g, q)
  BY <1>1, <1>2, <1>4, <1>9 DEF MemoryInv
<1> QED BY <1>1, <1>10 DEF Survives

(* The items of a list are replaced.                                        *)
ChangesItems(h, l, q, g) == g = [h EXCEPT ![l] = [@ EXCEPT !.items = q]]

(* Memory stays sound if the new items are, and nothing but the items       *)
(* changes.                                                                 *)
LEMMA ListKeeps ==
  ASSUME NEW h, NEW p, MemoryInv(h, p),
         NEW l \in Addr, h[l].kind = "list",
         NEW q \in Seq(Addr \cup {BEEF}),
         \A i \in DOMAIN q : SoundItem(h, h[l], q[i]),
         NEW g, ChangesItems(h, l, q, g)
  PROVE  /\ MemoryInv(g, p)
         /\ \A x \in Addr : Survives(h, g, x) /\ (x # l => g[x] = h[x])
         /\ g[l].items = q
<1> DEFINE c == [h[l] EXCEPT !.items = q]
<1>0. g = [h EXCEPT ![l] = c]
  BY DEF ChangesItems
<1>1. c \in Block /\ c.kind = "list" /\ c.gc = h[l].gc /\ c.items = q
  BY ItemsFields, MemoryFacts
<1>2. g \in [Addr -> Block] /\ g[l] = c /\ \A x \in Addr : x # l => g[x] = h[x]
  BY <1>0, <1>1, MemoryFacts
<1> HIDE DEF c
<1>3. \A x \in Addr : Survives(h, g, x)
  BY <1>1, <1>2 DEF Survives, Permanent
<1>4. ASSUME NEW x \in Addr PROVE Sound(g, g[x])
  <2>1. CASE x # l
    <3>1. \A y \in Children(h[x]) : y \in Addr
      BY ChildrenFacts, MemoryFacts
    <3>2. \A y \in Children(h[x]) : Survives(h, g, y)
      BY <1>3, <3>1
    <3>3. Sound(g, h[x])
      BY <3>2, SoundStays, MemoryFacts
    <3> QED BY <1>2, <2>1, <3>3
  <2>2. CASE x = l
    <3>1. ASSUME NEW i \in DOMAIN q PROVE SoundItem(g, c, q[i])
      <4>1. SoundItem(h, h[l], q[i])
        OBVIOUS
      <4>2. q[i] = BEEF \/ Survives(h, g, q[i])
        BY <1>3
      <4> QED BY <1>1, <4>1, <4>2 DEF SoundItem, Survives, Permanent
    <3>2. c.gc # FREE_OBJ
      <4>1. Sound(h, h[l])
        BY MemoryFacts
      <4> QED BY <1>1, <4>1 DEF Sound
    <3>3. Sound(g, c)
      BY <1>1, <3>1, <3>2 DEF Sound
    <3> QED BY <1>2, <2>2, <3>3
  <2> QED BY <2>1, <2>2
<1>5. BookedIn(g, p)
  <2>1. \A x \in Addr : g[x].kind = h[x].kind
    BY <1>3 DEF Survives
  <2>2. \A k \in Kinds : \A i \in DOMAIN p[k] : p[k][i] \in Addr
    BY MemoryFacts
  <2>3. BookedIn(h, p)
    BY MemoryFacts
  <2>4. \A k \in Kinds : \A i \in DOMAIN p[k] : g[p[k][i]].kind = k
    BY <2>1, <2>2, <2>3 DEF BookedIn
  <2> QED BY <2>1, <2>3, <2>4 DEF BookedIn
<1>6. MemoryInv(g, p)
  BY <1>2, <1>4, <1>5, MemoryFacts DEF MemoryInv
<1> QED BY <1>1, <1>2, <1>3, <1>6

(* The active root holds what it starts from.                               *)
LEMMA ReachableHolds ==
  ASSUME NEW S \in SUBSET Addr
  PROVE  S \subseteq Reachable(S)
BY DEF Reachable, Closed

(* It holds whatever its blocks lead to.                                    *)
LEMMA ReachableClosed ==
  ASSUME NEW S, NEW a \in Reachable(S), NEW b \in Children(heap[a]), b \in Addr
  PROVE  b \in Reachable(S)
BY DEF Reachable, Closed

(* It is within every closed set that holds what it starts from.            *)
LEMMA ReachableLeast ==
  ASSUME NEW S, NEW T \in SUBSET Addr, S \subseteq T,
         \A x \in T : Children(heap[x]) \subseteq T
  PROVE  Reachable(S) \subseteq T
BY DEF Reachable, Closed

(* Where no Object leads to parts, free_object goes nowhere.                *)
LEMMA NoParts ==
  ASSUME NEW S \in SUBSET Addr, \A a \in S : Parts(a) = {}
  PROVE  Closed(S, Parts) \subseteq S
BY DEF Closed

(* What placed values refer to are lists.                                   *)
LEMMA RefFacts ==
  ASSUME NEW h, NEW s \in Seq(Values), \A i \in DOMAIN s : Placed(h, s[i])
  PROVE  /\ Refs(s) \subseteq Addr
         /\ \A a \in Refs(s) : h[a].kind = "list" /\ \E i \in DOMAIN s : IsRef(s[i]) /\ s[i].at = a
<1> SUFFICES ASSUME NEW a \in Refs(s)
             PROVE  a \in Addr /\ h[a].kind = "list" /\ \E i \in DOMAIN s : IsRef(s[i]) /\ s[i].at = a
  OBVIOUS
<1>1. PICK i \in DOMAIN s : IsRef(s[i]) /\ s[i].at = a
  BY DEF Refs
<1>2. Placed(h, s[i])
  BY <1>1
<1> QED BY <1>1, <1>2, ValueFacts DEF Placed

(* The booked blocks are the blocks in memory.                              *)
LEMMA BookedIsAddr ==
  ASSUME MemoryInv(heap, pool)
  PROVE  /\ Booked \subseteq Addr
         /\ \A a \in Addr : heap[a].kind # "none" <=> a \in Booked
         /\ \A k \in Kinds : ToSet(pool[k]) \subseteq Booked
<1>1. \A k \in Kinds : \A i \in DOMAIN pool[k] : pool[k][i] \in Addr /\ heap[pool[k][i]].kind = k /\ k # "none"
  BY MemoryFacts DEF BookedIn, Kinds
<1>2. \A k \in Kinds : \A a \in ToSet(pool[k]) : a \in Addr /\ heap[a].kind # "none"
  BY <1>1 DEF ToSet
<1>3. \A a \in Addr : heap[a].kind # "none" => \E k \in Kinds : a \in ToSet(pool[k])
  BY MemoryFacts DEF BookedIn
<1> QED BY <1>2, <1>3 DEF Booked

(* There are no pairs, so no free_object goes beyond the Object it is given. *)
LEMMA CondemnedIsDying ==
  ASSUME MemoryInv(heap, pool), NEW root
  PROVE  Condemned(root) \cap Addr = Dying(root)
<1>1. Dying(root) \subseteq Addr
  BY BookedIsAddr DEF Dying
<1> DEFINE objs == {a \in Dying(root) : heap[a].kind = "obj"}
           pairs == {a \in Dying(root) : heap[a].kind = "pair"}
<1>2. pairs = {}
  BY <1>1, MemoryFacts, BlockFields
<1>3. UNION {ToSet(heap[a].items) : a \in pairs} = {}
  BY <1>2
<1>4. \A a \in objs : Parts(a) = {}
  <2> SUFFICES ASSUME NEW a \in objs PROVE heap[a].val.type # "pair"
    BY DEF Parts
  <2>1. Sound(heap, heap[a]) /\ heap[a].kind = "obj"
    BY <1>1, MemoryFacts
  <2> QED BY <2>1 DEF Sound, SoundObject, Placed
<1>5. Closed(objs, Parts) \subseteq objs
  <2>1. objs \in SUBSET Addr
    BY <1>1
  <2> HIDE DEF objs
  <2> QED BY <1>4, <2>1, NoParts
<1>6. FreedWith(objs) \subseteq Dying(root)
  BY <1>5 DEF FreedWith
<1>7. Condemned(root) = Dying(root) \cup FreedWith(objs \cup UNION {ToSet(heap[a].items) : a \in pairs})
  BY DEF Condemned
<1>8. objs \cup UNION {ToSet(heap[a].items) : a \in pairs} = objs
  BY <1>3
<1> HIDE DEF objs, pairs
<1> QED BY <1>1, <1>6, <1>7, <1>8

(* What a collection spares: the permanent blocks and the active root.      *)
Live == {a \in Addr : heap[a].kind # "none" /\ (Permanent(heap[a]) \/ a \in ActiveRoot)}

(* What is spared leads to what is spared, and is all a collection leaves.  *)
LEMMA LiveIsClosed ==
  ASSUME MemoryInv(heap, pool)
  PROVE  /\ \A a \in Live : Children(heap[a]) \subseteq Live
         /\ \A a \in Condemned(ActiveRoot) : a \notin Live
         /\ \A a \in Addr : heap[a].kind # "none" /\ a \notin Condemned(ActiveRoot) => a \in Live
<1>1. ASSUME NEW a \in Live, NEW x \in Children(heap[a]) PROVE x \in Live
  <2>1. x \in Addr /\ heap[x].kind # "none" /\ (Permanent(heap[a]) => Permanent(heap[x]))
    BY <1>1, ChildrenFacts, MemoryFacts DEF Live
  <2>2. a \in ActiveRoot => x \in ActiveRoot
    BY <1>1, <2>1, ReachableClosed DEF ActiveRoot
  <2> QED BY <1>1, <2>1, <2>2 DEF Live
<1>2. Condemned(ActiveRoot) \cap Addr = Dying(ActiveRoot)
  BY CondemnedIsDying
<1>3. \A a \in Addr : heap[a].kind # "none" => heap[a].gc # FREE_OBJ /\ a \in Booked
  BY MemoryFacts, BookedIsAddr DEF Sound
<1> QED BY <1>1, <1>2, <1>3 DEF Live, Dying, Permanent

(* The sweep keeps memory sound when what it leaves alone leads to nothing  *)
(* that it frees.                                                           *)
LEMMA SweepKeeps ==
  ASSUME MemoryInv(heap, pool), NEW dead, Sweep(dead),
         \A a \in Addr : heap[a].kind # "none" /\ a \notin dead => \A x \in Children(heap[a]) : x \notin dead
  PROVE  /\ MemoryInv(heap', pool')
         /\ \A a \in Addr : a \in dead => heap'[a] = Unused
         /\ \A a \in Addr : a \notin dead => /\ heap'[a] \in {heap[a], Aged(heap[a])}
                                             /\ Survives(heap, heap', a)
                                             /\ heap'[a].items = heap[a].items
<1> DEFINE g == heap'
           q == pool'
<1>1. \A a \in Addr : /\ a \in dead => g[a] = Unused
                      /\ a \notin dead => g[a] = heap[a] \/ g[a] = Aged(heap[a])
  BY DEF Sweep
<1>2. g = [a \in Addr |-> g[a]]
  BY DEF Sweep
<1>3. \A k \in Kinds : q[k] = Kept(k, dead)
  BY DEF Sweep
<1>4. q = [k \in Kinds |-> q[k]]
  BY DEF Sweep
<1> HIDE DEF g, q
<1>5. ASSUME NEW a \in Addr, a \notin dead
      PROVE  /\ g[a] \in Block /\ g[a].kind = heap[a].kind /\ g[a].val = heap[a].val
             /\ g[a].items = heap[a].items /\ (Permanent(g[a]) <=> Permanent(heap[a]))
             /\ g[a].gc = FREE_OBJ => heap[a].gc = FREE_OBJ
  BY <1>1, <1>5, AgedFields, MemoryFacts
<1>6. \A a \in Addr : a \notin dead => Survives(heap, g, a)
  BY <1>5 DEF Survives
<1>7. g \in [Addr -> Block]
  BY <1>1, <1>2, <1>5, NewBlocks
<1>8. ASSUME NEW a \in Addr PROVE Sound(g, g[a])
  <2>1. CASE g[a].kind = "none"
    BY <2>1 DEF Sound
  <2>2. CASE g[a].kind # "none"
    <3>1. a \notin dead
      BY <1>1, <2>2, NewBlocks
    <3>2. heap[a].kind # "none"
      BY <1>5, <2>2, <3>1
    <3>3. Sound(heap, heap[a]) /\ heap[a] \in Block
      BY MemoryFacts
    <3>4. \A x \in Children(heap[a]) : x \in Addr
      BY <3>3, ChildrenFacts, MemoryFacts
    <3>5. \A x \in Children(heap[a]) : Survives(heap, g, x)
      BY <1>6, <3>1, <3>2, <3>4
    <3> QED BY <1>5, <3>1, <3>3, <3>5, SoundStays
  <2> QED BY <2>1, <2>2
<1>9. \A k \in Kinds : q[k] \in Seq(Addr) /\ ToSet(q[k]) = ToSet(pool[k]) \ dead /\ IsInjective(q[k])
  BY <1>3, KeptFacts, MemoryFacts DEF BookedIn
<1>10. q \in [Kinds -> Seq(Addr)]
  BY <1>4, <1>9
<1>11. BookedIn(g, q)
  <2>1. ASSUME NEW k \in Kinds, NEW i \in DOMAIN q[k] PROVE g[q[k][i]].kind = k
    <3>1. q[k][i] \in ToSet(pool[k]) /\ q[k][i] \notin dead
      BY <1>9 DEF ToSet
    <3>2. PICK j \in DOMAIN pool[k] : pool[k][j] = q[k][i]
      BY <3>1 DEF ToSet
    <3>3. pool[k][j] \in Addr /\ heap[pool[k][j]].kind = k
      BY MemoryFacts DEF BookedIn
    <3> QED BY <1>5, <3>1, <3>2, <3>3
  <2>2. ASSUME NEW a \in Addr, g[a].kind # "none" PROVE \E k \in Kinds : a \in ToSet(q[k])
    <3>1. a \notin dead
      BY <1>1, <2>2, NewBlocks
    <3>2. PICK k \in Kinds : a \in ToSet(pool[k])
      BY <1>5, <2>2, <3>1, MemoryFacts DEF BookedIn
    <3> QED BY <1>9, <3>1, <3>2
  <2> QED BY <1>9, <2>1, <2>2 DEF BookedIn
<1>12. MemoryInv(g, q)
  BY <1>7, <1>8, <1>10, <1>11 DEF MemoryInv
<1> QED BY <1>1, <1>5, <1>6, <1>12 DEF g, q

(* No list is in the making.                                                *)
LEMMA IdleFacts ==
  /\ Idle.op = "idle" /\ Idle.n = 0
  /\ \A h, s, ph : BuildInv(h, s, Idle, ph)
BY DEF Idle, BuildInv, Building

NoHalf(h) == \A a \in Addr : \A i \in DOMAIN h[a].items : h[a].items[i] # BEEF

(* Unless an Object is awaited, every node of every list has its Object.    *)
LEMMA NoHalfFacts ==
  ASSUME NEW h, NEW s, NEW pr, pr.op # "elem"
  PROVE  HalfInv(h, s, pr) <=> NoHalf(h)
BY DEF HalfInv, NoHalf

(* What the invariant says of the stack and of the globals.                 *)
LEMMA DataFacts ==
  ASSUME NEW h, NEW s, NEW g, NEW ph, DataInv(h, s, g, ph)
  PROVE  /\ s \in Seq(Values) /\ g \in Seq(Values)
         /\ \A i \in DOMAIN s : s[i] \in Values /\ Placed(h, s[i]) /\ (ph = "globals" => Lasting(h, s[i]))
         /\ \A i \in DOMAIN g : Placed(h, g[i]) /\ Lasting(h, g[i])
BY DEF DataInv, Placed

(* Stack and globals stay sound when what they refer to survives.           *)
LEMMA DataStays ==
  ASSUME NEW h, NEW m, NEW s, NEW g, NEW ph, DataInv(h, s, g, ph),
         \A a \in Refs(s) \cup Refs(g) : Survives(h, m, a)
  PROVE  DataInv(m, s, g, ph)
<1>1. \A i \in DOMAIN s : IsRef(s[i]) => Survives(h, m, s[i].at)
  BY DEF Refs
<1>2. \A i \in DOMAIN g : IsRef(g[i]) => Survives(h, m, g[i].at)
  BY DEF Refs
<1>3. \A i \in DOMAIN s : Placed(m, s[i]) /\ (Lasting(h, s[i]) => Lasting(m, s[i]))
  BY <1>1, PlacedStays DEF DataInv
<1>4. \A i \in DOMAIN g : Placed(m, g[i]) /\ (Lasting(h, g[i]) => Lasting(m, g[i]))
  BY <1>2, PlacedStays DEF DataInv
<1> QED BY <1>3, <1>4 DEF DataInv

(* A placed value is pushed.                                                *)
LEMMA DataPush ==
  ASSUME NEW h, NEW s, NEW g, NEW ph, DataInv(h, s, g, ph), NEW v,
         Placed(h, v), ph = "globals" => Lasting(h, v)
  PROVE  DataInv(h, Append(s, v), g, ph)
<1> DEFINE t == Append(s, v)
<1>1. v \in Values
  BY DEF Placed
<1>2. t \in Seq(Values) /\ \A i \in DOMAIN t : t[i] = v \/ (i \in DOMAIN s /\ t[i] = s[i])
  BY <1>1 DEF DataInv
<1> HIDE DEF t
<1>3. DataInv(h, t, g, ph)
  BY <1>2 DEF DataInv
<1> QED BY <1>3 DEF t

(* The first objects of the stack.                                          *)
LEMMA FirstFacts ==
  ASSUME NEW s \in Seq(Values), NEW m \in 0 .. Len(s)
  PROVE  /\ SubSeq(s, 1, m) \in Seq(Values) /\ Len(SubSeq(s, 1, m)) = m
         /\ \A i \in DOMAIN SubSeq(s, 1, m) : i \in DOMAIN s /\ SubSeq(s, 1, m)[i] = s[i]
<1>1. Len(s) \in Nat /\ DOMAIN s = 1 .. Len(s) /\ m \in Nat
  OBVIOUS
<1>2. SubSeq(s, 1, m) \in Seq(Values) /\ Len(SubSeq(s, 1, m)) = m
  BY <1>1
<1>3. \A i \in 1 .. m : SubSeq(s, 1, m)[i] = s[i]
  BY <1>1
<1>4. DOMAIN SubSeq(s, 1, m) = 1 .. m
  BY <1>1, <1>2
<1> QED BY <1>1, <1>2, <1>3, <1>4

(* Objects are dropped.                                                     *)
LEMMA DataDrop ==
  ASSUME NEW h, NEW s, NEW g, NEW ph, DataInv(h, s, g, ph), NEW m \in 0 .. Len(s)
  PROVE  DataInv(h, SubSeq(s, 1, m), g, ph) /\ Len(SubSeq(s, 1, m)) = m
<1> DEFINE t == SubSeq(s, 1, m)
<1>1. t \in Seq(Values) /\ Len(t) = m /\ \A i \in DOMAIN t : i \in DOMAIN s /\ t[i] = s[i]
  <2>1. s \in Seq(Values)
    BY DataFacts
  <2>2. /\ SubSeq(s, 1, m) \in Seq(Values) /\ Len(SubSeq(s, 1, m)) = m
        /\ \A i \in DOMAIN SubSeq(s, 1, m) : i \in DOMAIN s /\ SubSeq(s, 1, m)[i] = s[i]
    BY <2>1, FirstFacts
  <2> QED BY <2>2
<1> HIDE DEF t
<1>2. DataInv(h, t, g, ph)
  BY <1>1 DEF DataInv
<1> QED BY <1>1, <1>2 DEF t

(* The operations that leave memory and the list literal alone.             *)
LEMMA StackStep ==
  ASSUME Inv, Ready, UNCHANGED <<heap, pool, prim, globals, phase, panic>>,
         DataInv(heap, stack', globals, phase)
  PROVE  Inv'
<1>1. prim = Idle /\ phase # "stop" /\ prim.op # "elem"
  BY IdleFacts DEF Ready
<1>2. HalfInv(heap, stack', prim)
  BY <1>1, NoHalfFacts DEF Inv
<1>3. BuildInv(heap, stack', prim, phase)
  BY <1>1, IdleFacts
<1> QED BY <1>1, <1>2, <1>3 DEF Inv, StopInv

(* A push keeps the invariant.                                              *)
LEMMA PushKeeps ==
  ASSUME Inv, NEW v, Push(v), Placed(heap, v), phase = "globals" => Lasting(heap, v)
  PROVE  Inv'
<1>1. DataInv(heap, Append(stack, v), globals, phase)
  BY DataPush DEF Inv
<1> QED BY <1>1, StackStep DEF Push

(* So does the push of a constant,                                          *)
LEMMA PushConstKeeps ==
  ASSUME Inv, NEW i \in Imm, PushConst(i)
  PROVE  Inv'
<1>1. Placed(heap, Value("imm", i)) /\ Lasting(heap, Value("imm", i))
  BY ValueIsIn DEF Placed, Lasting
<1> QED BY <1>1, PushKeeps DEF PushConst

(* of a local,                                                              *)
LEMMA LocalRefKeeps ==
  ASSUME Inv, NEW i \in 1 .. MaxStack, LocalRef(i)
  PROVE  Inv'
<1>1. i \in DOMAIN stack
  BY DataFacts DEF Inv, LocalRef
<1>2. Placed(heap, stack[i]) /\ (phase = "globals" => Lasting(heap, stack[i]))
  BY <1>1, DataFacts DEF Inv
<1> QED BY <1>2, PushKeeps DEF LocalRef

(* of a global.                                                             *)
LEMMA GlobalRefKeeps ==
  ASSUME Inv, NEW i \in 1 .. MaxStack, GlobalRef(i)
  PROVE  Inv'
<1>1. i \in DOMAIN globals
  BY DataFacts DEF Inv, GlobalRef
<1>2. Placed(heap, globals[i]) /\ Lasting(heap, globals[i])
  BY <1>1, DataFacts DEF Inv
<1> QED BY <1>2, PushKeeps DEF GlobalRef

(* The top of a stack that is not empty.                                    *)
LEMMA TopIsThere ==
  ASSUME NEW S, NEW s \in Seq(S), s # <<>>
  PROVE  Len(s) \in DOMAIN s /\ Len(s) \in Nat \ {0}
OBVIOUS

(* So does pop.                                                             *)
LEMMA DropKeeps == Inv /\ Drop => Inv'
<1> SUFFICES ASSUME Inv, Drop PROVE Inv'
  OBVIOUS
<1>1. stack \in Seq(Values)
  BY DataFacts DEF Inv
<1>2. Len(stack) - 1 \in 0 .. Len(stack)
  BY <1>1, TopIsThere DEF Drop
<1>3. DataInv(heap, SubSeq(stack, 1, Len(stack) - 1), globals, phase)
  BY <1>2, DataDrop DEF Inv
<1> QED BY <1>3, StackStep DEF Drop

(* What a complete list holds is in memory, and as lasting as the list.     *)
LEMMA ItemFacts ==
  ASSUME MemoryInv(heap, pool), NEW l \in Addr, heap[l].kind = "list",
         NEW i \in DOMAIN heap[l].items, heap[l].items[i] # BEEF
  PROVE  LET v == heap[heap[l].items[i]].val
         IN  Placed(heap, v) /\ (Permanent(heap[l]) => Lasting(heap, v))
<1> DEFINE x == heap[l].items[i]
<1>1. Sound(heap, heap[l]) /\ heap[l].items \in Seq(Addr \cup {BEEF})
  BY MemoryFacts, BlockFields
<1>2. SoundItem(heap, heap[l], x)
  BY <1>1 DEF Sound
<1>3. x \in Addr
  BY <1>1
<1> HIDE DEF x
<1>4. heap[x].kind = "obj" /\ (Permanent(heap[l]) => Permanent(heap[x]))
  <2>1. x # BEEF
    BY <1>3, NotAddresses
  <2> QED BY <1>2, <2>1 DEF SoundItem
<1>5. SoundObject(heap, heap[x])
  BY <1>3, <1>4, MemoryFacts DEF Sound
<1>6. Placed(heap, heap[x].val) /\ (Permanent(heap[l]) => Lasting(heap, heap[x].val))
  BY <1>4, <1>5 DEF SoundObject
<1> QED BY <1>6 DEF x

(* So does car: the element was as lasting as its list.                     *)
LEMMA CarKeeps == Inv /\ Car => Inv'
<1> SUFFICES ASSUME Inv, Car PROVE Inv'
  OBVIOUS
<1> DEFINE n == Len(stack)
           v == stack[n]
           u == heap[heap[v.at].items[1]].val
<1>1. stack \in Seq(Values) /\ n \in DOMAIN stack
  BY DataFacts, TopIsThere DEF Inv, Car
<1>2. v \in Values /\ Placed(heap, v) /\ (phase = "globals" => Lasting(heap, v))
  BY <1>1, DataFacts DEF Inv
<1>3. v.type = "list" /\ heap[v.at].items # <<>> /\ IsRef(v)
  BY DEF Car, IsRef
<1>4. v.at \in Addr /\ heap[v.at].kind = "list" /\ (phase = "globals" => Permanent(heap[v.at]))
  BY <1>2, <1>3, ValueFacts DEF Placed, Lasting
<1>5. 1 \in DOMAIN heap[v.at].items
  <2>1. heap[v.at].items \in Seq(Addr \cup {BEEF})
    BY <1>4, MemoryFacts, BlockFields DEF Inv
  <2> QED BY <1>3, <2>1
<1>6. heap[v.at].items[1] # BEEF
  <2>1. prim.op # "elem"
    BY IdleFacts DEF Car, Ready
  <2>2. NoHalf(heap)
    BY <2>1, NoHalfFacts DEF Inv
  <2> QED BY <1>4, <1>5, <2>2 DEF NoHalf
<1>7. MemoryInv(heap, pool)
  BY DEF Inv
<1>8. Placed(heap, u) /\ (phase = "globals" => Lasting(heap, u))
  BY <1>4, <1>5, <1>6, <1>7, ItemFacts
<1>9. stack' = [stack EXCEPT ![n] = u]
  BY DEF Car
<1>10. Ready /\ UNCHANGED <<heap, pool, prim, globals, phase, panic>>
  BY DEF Car
<1>11. u \in Values
  BY <1>8 DEF Placed
<1> HIDE DEF u, v, n
<1>12. stack' \in Seq(Values) /\ DOMAIN stack' = DOMAIN stack
       /\ \A i \in DOMAIN stack : stack'[i] = IF i = n THEN u ELSE stack[i]
  BY <1>1, <1>9, <1>11
<1>13. DataInv(heap, stack', globals, phase)
  BY <1>8, <1>12 DEF Inv, DataInv
<1> QED BY <1>10, <1>13, StackStep

(* A list literal begins.                                                   *)
LEMMA ListLiteralKeeps ==
  ASSUME Inv, NEW n \in 0 .. MaxStack, ListLiteral(n)
  PROVE  Inv'
<1>1. prim' = [op |-> "inner", n |-> n] /\ n \in Nat /\ n <= Len(stack)
  BY DEF ListLiteral
<1>2. prim' \in [op : {"idle", "inner", "node", "elem"}, n : Nat] /\ prim'.op = "inner" /\ prim'.n = n
  BY <1>1
<1>3. UNCHANGED <<heap, pool, stack, globals, phase, panic>> /\ prim.op # "elem" /\ phase # "stop"
  BY IdleFacts DEF ListLiteral, Ready
<1>4. HalfInv(heap, stack, prim')
  BY <1>2, <1>3, NoHalfFacts DEF Inv
<1>5. BuildInv(heap, stack, prim', phase)
  BY <1>1, <1>2 DEF BuildInv, Building
<1> QED BY <1>2, <1>3, <1>4, <1>5 DEF Inv, StopInv

(* The globals are complete: all of the stack is permanent by now.          *)
LEMMA EndGlobalsKeeps == Inv /\ EndGlobals => Inv'
<1> SUFFICES ASSUME Inv, EndGlobals PROVE Inv'
  OBVIOUS
<1>1. /\ globals' = stack /\ stack' = <<>> /\ phase' = "run" /\ phase = "globals" /\ prim = Idle
      /\ UNCHANGED <<heap, pool, prim, panic>>
  BY DEF EndGlobals, Ready
<1>2. DataInv(heap, <<>>, stack, "run")
  <2>1. <<>> \in Seq(Values) /\ DOMAIN <<>> = {}
    OBVIOUS
  <2> QED BY <1>1, <2>1, DataFacts DEF DataInv, Inv
<1>3. HalfInv(heap, <<>>, prim)
  BY <1>1, NoHalfFacts, IdleFacts DEF Inv
<1> QED BY <1>1, <1>2, <1>3, IdleFacts DEF Inv, StopInv

------------------------------------------------------------------------------
(* A collection.                                                            *)

(* The roots are among what a collection spares: in the globals phase all   *)
(* is permanent, and later the stack is the active root.                    *)
LEMMA RootsLive ==
  ASSUME Inv, phase # "stop"
  PROVE  Refs(stack) \cup Refs(globals) \subseteq Live
<1>1. DataInv(heap, stack, globals, phase)
  BY DEF Inv
<1>2. \A i \in DOMAIN stack : Placed(heap, stack[i])
  BY <1>1, DataFacts
<1>3. \A i \in DOMAIN globals : Placed(heap, globals[i])
  BY <1>1, DataFacts
<1>4. ASSUME NEW a \in Refs(stack) PROVE a \in Live
  <2>1. a \in Addr /\ heap[a].kind = "list"
    BY <1>1, <1>2, <1>4, RefFacts, DataFacts
  <2>2. CASE phase = "globals"
    <3>1. PICK i \in DOMAIN stack : IsRef(stack[i]) /\ stack[i].at = a
      BY <1>4 DEF Refs
    <3>2. Lasting(heap, stack[i])
      BY <1>1, <2>2, DataFacts
    <3> QED BY <2>1, <3>1, <3>2 DEF Live, Lasting
  <2>3. CASE phase = "run"
    <3>1. Refs(stack) \subseteq Addr
      BY <1>1, <1>2, RefFacts, DataFacts
    <3>2. a \in Reachable(Refs(stack))
      BY <1>4, <3>1, ReachableHolds
    <3> QED BY <2>1, <2>3, <3>2 DEF Live, ActiveRoot
  <2> QED BY <2>2, <2>3 DEF Inv
<1>5. ASSUME NEW a \in Refs(globals) PROVE a \in Live
  <2>1. a \in Addr /\ heap[a].kind = "list"
    BY <1>1, <1>3, <1>5, RefFacts, DataFacts
  <2>2. PICK i \in DOMAIN globals : IsRef(globals[i]) /\ globals[i].at = a
    BY <1>5 DEF Refs
  <2>3. Lasting(heap, globals[i])
    BY <1>1, DataFacts
  <2> QED BY <2>1, <2>2, <2>3 DEF Live, Lasting
<1> QED BY <1>4, <1>5

(* Hence all that the program can reach is spared.                          *)
LEMMA ReachableLive ==
  ASSUME Inv, phase # "stop"
  PROVE  Reachable(Refs(stack) \cup Refs(globals)) \subseteq Live
<1>1. MemoryInv(heap, pool)
  BY DEF Inv
<1>2. \A a \in Live : Children(heap[a]) \subseteq Live
  BY <1>1, LiveIsClosed
<1>3. Live \in SUBSET Addr
  BY DEF Live
<1> QED BY <1>2, <1>3, RootsLive, ReachableLeast

(* What a collection does to memory.                                        *)
LEMMA GcSpares ==
  ASSUME Inv, Gc
  PROVE  /\ MemoryInv(heap', pool')
         /\ \A a \in Addr : \/ heap'[a] = Unused
                            \/ /\ heap'[a] \in {heap[a], Aged(heap[a])}
                               /\ Survives(heap, heap', a)
                               /\ heap'[a].items = heap[a].items
         /\ \A a \in Live : /\ heap'[a] \in {heap[a], Aged(heap[a])}
                            /\ Survives(heap, heap', a)
                            /\ heap'[a].items = heap[a].items
<1>1. MemoryInv(heap, pool)
  BY DEF Inv
<1>2. Sweep(Condemned(ActiveRoot))
  BY DEF Gc
<1>3. ASSUME NEW a \in Addr, heap[a].kind # "none", a \notin Condemned(ActiveRoot)
      PROVE  \A x \in Children(heap[a]) : x \notin Condemned(ActiveRoot)
  BY <1>1, <1>3, LiveIsClosed
<1>4. \A a \in Live : a \in Addr /\ a \notin Condemned(ActiveRoot)
  BY <1>1, LiveIsClosed DEF Live
<1> QED BY <1>1, <1>2, <1>3, <1>4, SweepKeeps

(* An allocation is pending: the machine has not stopped.                   *)
LEMMA PhaseOfPending ==
  ASSUME Inv, prim.op # "idle"
  PROVE  phase # "stop" /\ phase \in {"globals", "run"} /\ (phase # "globals" <=> phase = "run")
BY IdleFacts DEF Inv, StopInv

(* The list in the making is on top of the stack.                           *)
LEMMA ListOnTop ==
  ASSUME Inv, Building(prim)
  PROVE  /\ stack \in Seq(Values) /\ Len(stack) \in DOMAIN stack /\ Last(stack) = stack[Len(stack)]
         /\ Last(stack).at = TheList /\ TheList \in Refs(stack)
         /\ TheList \in Addr /\ heap[TheList].kind = "list" /\ heap[TheList] \in Block
         /\ Permanent(heap[TheList]) <=> phase = "globals"
         /\ prim.n \in Nat /\ prim.n < Len(stack) /\ IsRef(Last(stack))
<1>1. prim.n \in Nat /\ prim.n < Len(stack) /\ IsRef(Last(stack)) /\ (Permanent(heap[Last(stack).at]) <=> phase = "globals")
  BY DEF Inv, BuildInv
<1>2. stack \in Seq(Values) /\ Len(stack) \in DOMAIN stack
  <2>1. stack \in Seq(Values)
    BY DataFacts DEF Inv
  <2> QED BY <1>1, <2>1
<1>3. Last(stack) = stack[Len(stack)] /\ Last(stack).at = TheList
  BY DEF Last, TheList
<1>4. Placed(heap, Last(stack)) /\ Last(stack) \in Values
  BY <1>2, <1>3, DataFacts DEF Inv
<1>5. TheList \in Addr /\ heap[TheList].kind = "list"
  BY <1>1, <1>3, <1>4, ValueFacts DEF Placed
<1>6. TheList \in Refs(stack)
  BY <1>1, <1>2, <1>3 DEF Refs
<1> QED BY <1>1, <1>2, <1>3, <1>5, <1>6, MemoryFacts DEF Inv

(* A collection keeps the invariant, at whatever point of a literal it      *)
(* comes.                                                                   *)
LEMMA GcKeeps == Inv /\ Gc => Inv'
<1> SUFFICES ASSUME Inv, Gc PROVE Inv'
  OBVIOUS
<1>1. prim.op # "idle" /\ UNCHANGED <<stack, prim, globals, phase, panic>>
  BY DEF Gc, Pending
<1>2. phase # "stop"
  BY <1>1, PhaseOfPending
<1>3. MemoryInv(heap', pool')
  BY GcSpares
<1>4. \A a \in Refs(stack) \cup Refs(globals) : a \in Live /\ Survives(heap, heap', a) /\ heap'[a].items = heap[a].items
  BY <1>2, RootsLive, GcSpares
<1>5. DataInv(heap', stack, globals, phase)
  BY <1>4, DataStays DEF Inv
<1>6. BuildInv(heap', stack, prim, phase)
  <2>1. CASE Building(prim)
    <3>1. Last(stack).at \in Refs(stack)
      BY <2>1, ListOnTop
    <3>2. heap'[Last(stack).at].items = heap[Last(stack).at].items
          /\ (Permanent(heap'[Last(stack).at]) <=> Permanent(heap[Last(stack).at]))
      BY <1>4, <3>1 DEF Survives
    <3>3. BuildInv(heap, stack, prim, phase)
      BY DEF Inv
    <3> QED BY <3>2, <3>3 DEF BuildInv
  <2>2. CASE ~Building(prim)
    BY <2>2 DEF BuildInv, Building, Inv
  <2> QED BY <2>1, <2>2
<1>7. HalfInv(heap', stack, prim)
  <2> SUFFICES ASSUME NEW a \in Addr, NEW i \in DOMAIN heap'[a].items
               PROVE  heap'[a].items[i] = BEEF <=> prim.op = "elem" /\ a = Last(stack).at /\ i = 1
    BY DEF HalfInv
  <2>1. CASE heap'[a].items = heap[a].items
    BY <2>1 DEF Inv, HalfInv
  <2>2. CASE heap'[a] = Unused
    <3>1. DOMAIN heap'[a].items = {}
      <4>1. heap'[a].items = <<>>
        BY <2>2, NewBlocks
      <4> QED BY <4>1
    <3> QED BY <3>1
  <2> QED BY <2>1, <2>2, GcSpares
<1> QED BY <1>1, <1>2, <1>3, <1>5, <1>6, <1>7 DEF Inv, StopInv

------------------------------------------------------------------------------
(* HALT.                                                                    *)

(* So does HALT, which frees every booked block.                            *)
LEMMA HaltKeeps == Inv /\ Halt => Inv'
<1> SUFFICES ASSUME Inv, Halt PROVE Inv'
  OBVIOUS
<1>1. /\ prim = Idle /\ prim' = Idle /\ panic' = panic /\ phase' = "stop" /\ stack' = <<>> /\ globals' = <<>>
      /\ Sweep(Booked)
  BY DEF Halt, Ready, HaltSweep
<1>2. MemoryInv(heap, pool)
  BY DEF Inv
<1>3. \A a \in Addr : heap[a].kind # "none" <=> a \in Booked
  BY <1>2, BookedIsAddr
<1>4. /\ MemoryInv(heap', pool')
      /\ \A a \in Addr : a \in Booked => heap'[a] = Unused
      /\ \A a \in Addr : a \notin Booked => Survives(heap, heap', a) /\ heap'[a].items = heap[a].items
  BY <1>1, <1>2, <1>3, SweepKeeps
<1>5. \A a \in Addr : heap'[a].kind = "none"
  BY <1>3, <1>4, NewBlocks DEF Survives
<1>6. NoHalf(heap)
  BY <1>1, IdleFacts, NoHalfFacts DEF Inv
<1>7. NoHalf(heap')
  <2> SUFFICES ASSUME NEW a \in Addr PROVE \A i \in DOMAIN heap'[a].items : heap'[a].items[i] # BEEF
    BY DEF NoHalf
  <2>1. CASE a \in Booked
    <3>1. heap'[a].items = <<>>
      BY <1>4, <2>1, NewBlocks
    <3> QED BY <3>1
  <2>2. CASE a \notin Booked
    BY <1>4, <1>6, <2>2 DEF NoHalf
  <2> QED BY <2>1, <2>2
<1>8. HalfInv(heap', <<>>, Idle)
  BY <1>7, NoHalfFacts, IdleFacts
<1>9. DataInv(heap', <<>>, <<>>, "stop")
  <2>1. <<>> \in Seq(Values) /\ DOMAIN <<>> = {}
    OBVIOUS
  <2> QED BY <2>1 DEF DataInv
<1>10. BuildInv(heap', <<>>, Idle, "stop")
  BY IdleFacts
<1> QED BY <1>1, <1>4, <1>5, <1>8, <1>9, <1>10 DEF Inv, StopInv

------------------------------------------------------------------------------
(* The list literal.                                                        *)

(* The last of a stack after a push.                                        *)
LEMMA ConcatLast ==
  ASSUME NEW s \in Seq(Values), NEW v \in Values
  PROVE  /\ Append(s, v) \in Seq(Values) /\ Len(Append(s, v)) = Len(s) + 1
         /\ Last(Append(s, v)) = v /\ Len(s) \in Nat
BY DEF Last

(* What the stack and the globals refer to are lists in memory.             *)
LEMMA RootFacts ==
  ASSUME NEW h, NEW s, NEW g, NEW ph, DataInv(h, s, g, ph)
  PROVE  \A a \in Refs(s) \cup Refs(g) : a \in Addr /\ h[a].kind = "list"
<1>1. s \in Seq(Values) /\ \A i \in DOMAIN s : Placed(h, s[i])
  BY DataFacts
<1>2. g \in Seq(Values) /\ \A i \in DOMAIN g : Placed(h, g[i])
  BY DataFacts
<1>3. \A a \in Refs(s) : a \in Addr /\ h[a].kind = "list"
  BY <1>1, RefFacts
<1>4. \A a \in Refs(g) : a \in Addr /\ h[a].kind = "list"
  BY <1>2, RefFacts
<1> QED BY <1>3, <1>4

(* The inner structure is allocated and pushed.                             *)
LEMMA InnerKeeps ==
  ASSUME Inv, NEW l \in Addr, Inner(l)
  PROVE  Inv'
<1> DEFINE b == NewInner("list", Gen)
           v == Value("list", l)
<1>1. /\ prim.op = "inner" /\ l \in Blocks("list")
      /\ heap' = [heap EXCEPT ![l] = b]
      /\ pool' = [pool EXCEPT !["list"] = <<l>> \o @]
      /\ stack' = Append(stack, v)
      /\ prim' = IF prim.n = 0 THEN Idle ELSE [prim EXCEPT !.op = "node"]
      /\ UNCHANGED <<globals, phase, panic>>
  BY DEF Inner
<1>2. phase # "stop" /\ prim.n \in Nat /\ prim.n <= Len(stack) /\ prim.op # "idle"
      /\ prim \in [op : {"idle", "inner", "node", "elem"}, n : Nat]
  <2>1. phase # "stop"
    BY <1>1, PhaseOfPending
  <2> QED BY <1>1, <2>1 DEF Inv, BuildInv
<1>3. b \in Block /\ b.kind = "list" /\ b.gc = Gen /\ b.items = <<>> /\ Gen \in 1 .. 3
      /\ (Permanent(b) <=> phase = "globals")
  BY NewBlocks, GenFacts DEF Permanent
<1>4. v \in Values /\ IsRef(v) /\ v.type = "list" /\ v.at = l
  BY ValueIsIn
<1>5. MemoryInv(heap, pool) /\ DataInv(heap, stack, globals, phase)
  BY DEF Inv
<1>6. heap[l].kind = "none" /\ \A m \in Kinds : l \notin ToSet(pool[m])
  BY <1>1, <1>5, FreshBlocks DEF Kinds
<1> HIDE DEF b, v
<1>7. Sound(heap, b)
  <2>1. DOMAIN b.items = {} /\ b.gc # FREE_OBJ
    BY <1>3 DEF FREE_OBJ
  <2> QED BY <1>3, <2>1 DEF Sound
<1>8. /\ MemoryInv(heap', pool')
      /\ \A x \in Addr : x # l => heap'[x] = heap[x]
      /\ \A x \in Addr : heap[x].kind # "none" => Survives(heap, heap', x)
      /\ heap'[l] = b
  <2>1. "list" \in Kinds
    BY DEF Kinds
  <2>2. Allocates(heap, pool, "list", l, b, heap', pool')
    BY <1>1 DEF Allocates
  <2> QED BY <2>2, <1>3, <1>5, <1>6, <1>7, <2>1, AllocKeeps
<1>9. DataInv(heap', stack, globals, phase)
  <2>1. \A a \in Refs(stack) \cup Refs(globals) : a \in Addr /\ heap[a].kind = "list"
    BY <1>5, RootFacts
  <2>2. \A a \in Refs(stack) \cup Refs(globals) : Survives(heap, heap', a)
    BY <1>8, <2>1
  <2> QED BY <1>5, <2>2, DataStays
<1>10. DataInv(heap', stack', globals, phase)
  <2>1. Placed(heap', v) /\ (phase = "globals" => Lasting(heap', v))
    BY <1>3, <1>4, <1>8 DEF Placed, Lasting
  <2> QED BY <1>1, <1>9, <2>1, DataPush
<1>11. prim' \in [op : {"idle", "inner", "node", "elem"}, n : Nat] /\ prim'.op \in {"idle", "node"}
       /\ (prim'.op = "idle" => prim' = Idle) /\ (prim'.op = "node" => prim'.n = prim.n /\ prim.n # 0)
  BY <1>1, <1>2, IdleFacts DEF Idle
<1>12. Len(stack') = Len(stack) + 1 /\ Last(stack') = v /\ Len(stack) \in Nat
  BY <1>1, <1>4, <1>5, DataFacts, ConcatLast
<1>13. BuildInv(heap', stack', prim', phase)
  <2>1. Len(heap'[l].items) = 0
    BY <1>3, <1>8
  <2>2. prim'.op = "node" => Len(heap'[Last(stack').at].items) < prim'.n
    BY <1>2, <1>4, <1>11, <1>12, <2>1
  <2>3. prim'.op = "node" => prim'.n < Len(stack') /\ IsRef(Last(stack'))
                             /\ (Permanent(heap'[Last(stack').at]) <=> phase = "globals")
    BY <1>2, <1>3, <1>4, <1>8, <1>11, <1>12
  <2> QED BY <1>11, <2>2, <2>3 DEF BuildInv, Building
<1>14. NoHalf(heap')
  <2>1. NoHalf(heap)
    BY <1>1, NoHalfFacts DEF Inv
  <2>2. \A x \in Addr : x # l => heap'[x] = heap[x]
    BY <1>8
  <2>3. DOMAIN heap'[l].items = {}
    BY <1>3, <1>8
  <2> QED BY <2>1, <2>2, <2>3 DEF NoHalf
<1>15. HalfInv(heap', stack', prim')
  BY <1>11, <1>14, NoHalfFacts
<1> QED BY <1>1, <1>2, <1>8, <1>10, <1>11, <1>13, <1>15 DEF Inv, StopInv

(* The half made node enters the list.                                      *)
LEMMA NodeKeeps == Inv /\ Node => Inv'
<1> SUFFICES ASSUME Inv, Node PROVE Inv'
  OBVIOUS
<1> DEFINE l == TheList
           s == heap[l].items
           q == <<BEEF>> \o s
<1>1. /\ prim.op = "node"
      /\ heap' = [heap EXCEPT ![l] = [@ EXCEPT !.items = q]]
      /\ prim' = [prim EXCEPT !.op = "elem"]
      /\ UNCHANGED <<pool, stack, globals, phase, panic>>
  BY DEF Node
<1>2. /\ stack \in Seq(Values) /\ Last(stack).at = l /\ l \in Addr /\ heap[l].kind = "list"
      /\ heap[l] \in Block
      /\ (Permanent(heap[l]) <=> phase = "globals") /\ prim.n \in Nat /\ prim.n < Len(stack)
      /\ IsRef(Last(stack))
  BY <1>1, ListOnTop DEF Building
<1>3. Len(s) < prim.n /\ phase # "stop" /\ prim \in [op : {"idle", "inner", "node", "elem"}, n : Nat]
  BY <1>1, <1>2, PhaseOfPending DEF Inv, BuildInv
<1>4. MemoryInv(heap, pool) /\ DataInv(heap, stack, globals, phase)
  BY DEF Inv
<1>5. s \in Seq(Addr \cup {BEEF})
  BY <1>2, BlockFields
<1>6. NoHalf(heap)
  BY <1>1, NoHalfFacts DEF Inv
<1>7. \A i \in DOMAIN s : SoundItem(heap, heap[l], s[i]) /\ s[i] # BEEF
  BY <1>2, <1>4, <1>6, MemoryFacts DEF Sound, NoHalf
<1> HIDE DEF l, s
<1>8. q \in Seq(Addr \cup {BEEF}) /\ Len(q) = Len(s) + 1 /\ Len(s) \in Nat /\ q[1] = BEEF
      /\ DOMAIN q = 1 .. Len(s) + 1
  BY <1>5
<1>9. \A i \in DOMAIN q : i = 1 \/ (i - 1 \in DOMAIN s /\ q[i] = s[i - 1])
  BY <1>5
<1> HIDE DEF q
<1>10. \A i \in DOMAIN q : SoundItem(heap, heap[l], q[i]) /\ (q[i] = BEEF <=> i = 1)
  <2> SUFFICES ASSUME NEW i \in DOMAIN q PROVE SoundItem(heap, heap[l], q[i]) /\ (q[i] = BEEF <=> i = 1)
    OBVIOUS
  <2>1. CASE i = 1
    BY <1>8, <2>1 DEF SoundItem
  <2>2. CASE i - 1 \in DOMAIN s /\ q[i] = s[i - 1] /\ i # 1
    BY <1>7, <2>2
  <2> QED BY <1>9, <2>1, <2>2
<1>11. /\ MemoryInv(heap', pool)
       /\ \A x \in Addr : Survives(heap, heap', x) /\ (x # l => heap'[x] = heap[x])
       /\ heap'[l].items = q
  <2>1. ChangesItems(heap, l, q, heap')
    BY <1>1 DEF ChangesItems
  <2> QED BY <1>2, <1>4, <1>8, <1>10, <2>1, ListKeeps
<1>12. DataInv(heap', stack, globals, phase)
  <2>1. \A a \in Refs(stack) \cup Refs(globals) : a \in Addr
    BY <1>4, RootFacts
  <2> QED BY <1>4, <1>11, <2>1, DataStays
<1>13. prim' \in [op : {"idle", "inner", "node", "elem"}, n : Nat] /\ prim'.op = "elem" /\ prim'.n = prim.n
  BY <1>1, <1>3
<1>14. BuildInv(heap', stack, prim', phase)
  <2>1. Len(heap'[Last(stack).at].items) \in 1 .. prim'.n
    BY <1>2, <1>3, <1>8, <1>11, <1>13
  <2>2. Permanent(heap'[Last(stack).at]) <=> phase = "globals"
    BY <1>2, <1>11 DEF Survives
  <2> QED BY <1>2, <1>13, <2>1, <2>2 DEF BuildInv, Building
<1>15. HalfInv(heap', stack, prim')
  <2> SUFFICES ASSUME NEW a \in Addr, NEW i \in DOMAIN heap'[a].items
               PROVE  heap'[a].items[i] = BEEF <=> a = l /\ i = 1
    BY <1>2, <1>13 DEF HalfInv
  <2>1. CASE a = l
    BY <1>10, <1>11, <2>1
  <2>2. CASE a # l
    BY <1>6, <1>11, <2>2 DEF NoHalf
  <2> QED BY <2>1, <2>2
<1> QED BY <1>1, <1>3, <1>11, <1>12, <1>13, <1>14, <1>15 DEF Inv, StopInv

(* What Element assigns.                                                    *)
LEMMA ElementFields ==
  ASSUME NEW h, NEW o, Element(h, o)
  PROVE  /\ heap' = [h EXCEPT ![o] = NewObject(stack[Len(stack) - Done], ElemGen),
                              ![TheList].items[1] = o]
         /\ Done = prim.n => prim' = Idle /\ stack' = Taken
         /\ Done # prim.n => prim' = [prim EXCEPT !.op = "node"] /\ stack' = stack
         /\ globals' = globals /\ phase' = phase
BY DEF Element

(* The Object is stored, and the list changed after that.                   *)
LEMMA TwoBlocks ==
  ASSUME NEW h \in [Addr -> Block], NEW o \in Addr, NEW l \in Addr, o # l, NEW b,
         NEW g, g = [h EXCEPT ![o] = b, ![l].items[1] = o],
         NEW m, m = [h EXCEPT ![o] = b]
  PROVE  ChangesItems(m, l, [h[l].items EXCEPT ![1] = o], g)
<1>1. g = [m EXCEPT ![l] = [m[l] EXCEPT !.items = [m[l].items EXCEPT ![1] = o]]]
  OBVIOUS
<1>2. m[l] = h[l]
  OBVIOUS
<1> QED BY <1>1, <1>2 DEF ChangesItems

(* The sequence that Taken leaves.                                          *)
LEMMA TakenIs ==
  ASSUME NEW s \in Seq(Values), NEW v \in Values
  PROVE  s \o <<v>> = Append(s, v)
OBVIOUS

(* The element: its Object is booked, and the half made node gets it.       *)
LEMMA ElementKeeps ==
  ASSUME Inv, prim.op = "elem",
         NEW h, NEW p, MemoryInv(h, p), HalfInv(h, stack, prim),
         \A x \in Addr : heap[x].kind # "none" => h[x] = heap[x],
         NEW o \in Addr, h[o].kind = "none", \A k \in Kinds : o \notin ToSet(p[k]),
         Element(h, o), pool' = [p EXCEPT !["obj"] = <<o>> \o @], panic' = panic
  PROVE  Inv'
<1> DEFINE l == TheList
           s == heap[l].items
           v == stack[Len(stack) - Done]
           b == NewObject(v, ElemGen)
           m == [h EXCEPT ![o] = b]
           q == [s EXCEPT ![1] = o]
<1>1. /\ stack \in Seq(Values) /\ Len(stack) \in DOMAIN stack /\ Last(stack) = stack[Len(stack)]
      /\ Last(stack).at = l /\ l \in Addr /\ heap[l].kind = "list" /\ heap[l] \in Block
      /\ (Permanent(heap[l]) <=> phase = "globals") /\ prim.n \in Nat /\ prim.n < Len(stack)
      /\ IsRef(Last(stack))
  BY ListOnTop DEF Building
<1>2. Done = Len(s) /\ Done \in 1 .. prim.n
  <2>1. Len(heap[Last(stack).at].items) \in 1 .. prim.n
    BY DEF Inv, BuildInv
  <2> QED BY <1>1, <2>1 DEF Done
<1>3. phase # "stop" /\ prim \in [op : {"idle", "inner", "node", "elem"}, n : Nat]
  <2>1. phase # "stop"
    BY PhaseOfPending
  <2> QED BY <2>1 DEF Inv, BuildInv
<1>4. DataInv(h, stack, globals, phase)
  <2>1. DataInv(heap, stack, globals, phase)
    BY DEF Inv
  <2>2. \A a \in Refs(stack) \cup Refs(globals) : Survives(heap, h, a)
    BY <2>1, RootFacts DEF Survives
  <2> QED BY <2>1, <2>2, DataStays
<1>5. v \in Values /\ Placed(h, v) /\ (phase = "globals" => Lasting(h, v))
  <2>1. Len(stack) - Done \in DOMAIN stack
    BY <1>1, <1>2
  <2> QED BY <1>4, <2>1, DataFacts
<1>6. b \in Block /\ b.kind = "obj" /\ b.val = v /\ b.items = <<>> /\ b.gc \in 1 .. 3
      /\ (Permanent(b) <=> phase = "globals")
  BY <1>5, NewBlocks, GenFacts DEF Permanent, ElemGen
<1>7. h[l] = heap[l] /\ o # l
  BY <1>1
<1>8. /\ heap' = [h EXCEPT ![o] = b, ![l].items[1] = o]
      /\ Done = prim.n => prim' = Idle /\ stack' = Taken
      /\ Done # prim.n => prim' = [prim EXCEPT !.op = "node"] /\ stack' = stack
      /\ globals' = globals /\ phase' = phase
  BY ElementFields
<1>9. s \in Seq(Addr \cup {BEEF})
  BY <1>1, BlockFields
<1> HIDE DEF b, v, l
<1>10. ChangesItems(m, l, q, heap')
  <2>1. q = [h[l].items EXCEPT ![1] = o]
    BY <1>7
  <2> HIDE DEF q
  <2> QED BY <1>1, <1>7, <1>8, <2>1, TwoBlocks, MemoryFacts
<1>11. Allocates(h, p, "obj", o, b, m, pool')
  BY DEF Allocates
<1> HIDE DEF m, s
<1>12. Sound(h, b)
  <2>1. b.gc # FREE_OBJ
    BY <1>6 DEF FREE_OBJ
  <2>2. SoundObject(h, b)
    BY <1>5, <1>6 DEF SoundObject
  <2> QED BY <1>6, <2>1, <2>2 DEF Sound
<1>13. /\ MemoryInv(m, pool')
       /\ \A x \in Addr : x # o => m[x] = h[x]
       /\ \A x \in Addr : h[x].kind # "none" => Survives(h, m, x)
       /\ m[o] = b
  <2>1. "obj" \in Kinds
    BY DEF Kinds
  <2> QED BY <1>6, <1>11, <1>12, <2>1, AllocKeeps
<1>14. m[l] = heap[l] /\ m[l].items = s
  BY <1>1, <1>7, <1>13 DEF s
<1>15. /\ q \in Seq(Addr \cup {BEEF}) /\ Len(q) = Len(s) /\ DOMAIN q = DOMAIN s /\ q[1] = o
       /\ \A i \in DOMAIN q : i # 1 => q[i] = s[i]
  BY <1>2, <1>9
<1> HIDE DEF q
<1>16. \A i \in DOMAIN q : SoundItem(m, m[l], q[i])
  <2> SUFFICES ASSUME NEW i \in DOMAIN q PROVE SoundItem(m, m[l], q[i])
    OBVIOUS
  <2>1. CASE i = 1
    BY <1>1, <1>6, <1>13, <1>14, <1>15, <2>1 DEF SoundItem
  <2>2. CASE i # 1
    <3>1. Sound(m, m[l]) /\ m[l].kind = "list"
      BY <1>1, <1>13, <1>14, MemoryFacts
    <3>2. SoundItem(m, m[l], s[i])
      BY <1>14, <1>15, <3>1 DEF Sound
    <3> QED BY <1>15, <2>2, <3>2
  <2> QED BY <2>1, <2>2
<1>17. /\ MemoryInv(heap', pool')
       /\ \A x \in Addr : Survives(m, heap', x) /\ (x # l => heap'[x] = m[x])
       /\ heap'[l].items = q
  <2>1. m[l].kind = "list" /\ l \in Addr
    BY <1>1, <1>14
  <2>2. q \in Seq(Addr \cup {BEEF})
    BY <1>15
  <2>3. MemoryInv(m, pool')
    BY <1>13
  <2> QED BY <1>10, <1>16, <2>1, <2>2, <2>3, ListKeeps
<1>18. DataInv(heap', stack, globals, phase)
  <2>1. \A a \in Refs(stack) \cup Refs(globals) : a \in Addr /\ h[a].kind = "list"
    BY <1>4, RootFacts
  <2>2. \A a \in Refs(stack) \cup Refs(globals) : Survives(h, m, a) /\ Survives(m, heap', a)
    BY <1>13, <1>17, <2>1
  <2>3. DataInv(m, stack, globals, phase)
    BY <1>4, <2>2, DataStays
  <2> QED BY <2>2, <2>3, DataStays
<1>19. NoHalf(heap')
  <2>1. \A a \in Addr : \A i \in DOMAIN h[a].items : h[a].items[i] = BEEF <=> a = l /\ i = 1
    BY <1>1 DEF HalfInv
  <2> SUFFICES ASSUME NEW a \in Addr, NEW i \in DOMAIN heap'[a].items
               PROVE  heap'[a].items[i] # BEEF
    BY DEF NoHalf
  <2>2. CASE a = l
    <3>1. i \in DOMAIN q /\ heap'[a].items[i] = q[i]
      BY <1>17, <2>2
    <3>2. i = 1 => q[i] # BEEF
      BY <1>15, NotAddresses
    <3>3. i # 1 => q[i] # BEEF
      BY <1>1, <1>7, <1>14, <1>15, <2>1, <3>1 DEF s
    <3> QED BY <3>1, <3>2, <3>3
  <2>3. CASE a = o /\ a # l
    <3>1. DOMAIN heap'[a].items = {}
      BY <1>6, <1>13, <1>17, <2>3
    <3> QED BY <3>1
  <2>4. CASE a # o /\ a # l
    <3>1. heap'[a] = h[a]
      BY <1>13, <1>17, <2>4
    <3> QED BY <2>1, <2>4, <3>1
  <2> QED BY <2>2, <2>3, <2>4
<1>20. CASE Done = prim.n
  <2>1. prim' = Idle /\ stack' = Taken
    BY <1>8, <1>20
  <2>2. Len(stack) - 1 - prim.n \in 0 .. Len(stack)
    BY <1>1
  <2> DEFINE t == SubSeq(stack, 1, Len(stack) - 1 - prim.n)
  <2>3. DataInv(heap', t, globals, phase)
    BY <1>18, <2>2, DataDrop
  <2>4. Taken = t \o <<Last(stack)>>
    BY <1>1 DEF Taken
  <2> HIDE DEF t
  <2>5. Last(stack) \in Values /\ Placed(heap', Last(stack)) /\ (phase = "globals" => Lasting(heap', Last(stack)))
    BY <1>1, <1>18, DataFacts
  <2>6. t \in Seq(Values)
    BY <2>3, DataFacts
  <2>7. stack' = Append(t, Last(stack))
    BY <2>1, <2>4, <2>5, <2>6, TakenIs
  <2>8. DataInv(heap', stack', globals, phase)
    BY <2>3, <2>5, <2>7, DataPush
  <2>9. BuildInv(heap', stack', prim', phase) /\ HalfInv(heap', stack', prim')
    BY <1>19, <2>1, IdleFacts, NoHalfFacts
  <2> QED BY <1>3, <1>8, <1>17, <2>1, <2>8, <2>9 DEF Inv, StopInv
<1>21. CASE Done # prim.n
  <2>1. prim' = [prim EXCEPT !.op = "node"] /\ stack' = stack
    BY <1>8, <1>21
  <2>2. prim' \in [op : {"idle", "inner", "node", "elem"}, n : Nat] /\ prim'.op = "node" /\ prim'.n = prim.n
    BY <1>3, <2>1
  <2>3. Permanent(heap'[l]) <=> phase = "globals"
    BY <1>1, <1>14, <1>17 DEF Survives
  <2>4. Len(heap'[l].items) < prim'.n
    BY <1>1, <1>2, <1>15, <1>17, <1>21, <2>2
  <2>5. BuildInv(heap', stack', prim', phase)
    BY <1>1, <2>1, <2>2, <2>3, <2>4 DEF BuildInv, Building
  <2>6. HalfInv(heap', stack', prim')
    BY <1>19, <2>2, NoHalfFacts
  <2> QED BY <1>3, <1>8, <1>17, <1>18, <2>1, <2>2, <2>5, <2>6 DEF Inv, StopInv
<1> QED BY <1>20, <1>21

(* An element of a simple type,                                             *)
LEMMA SimpleElementKeeps ==
  ASSUME Inv, NEW o \in Addr, SimpleElement(o)
  PROVE  Inv'
<1>1. MemoryInv(heap, pool) /\ HalfInv(heap, stack, prim)
  BY DEF Inv
<1>2. o \in Blocks("obj") /\ "obj" \in Kinds
  BY DEF SimpleElement, Kinds
<1>3. heap[o].kind = "none" /\ \A k \in Kinds : o \notin ToSet(pool[k])
  BY <1>1, <1>2, FreshBlocks
<1>4. BookObject(o) = <<o>> \o pool["obj"]
  BY <1>2, <1>3 DEF BookObject, FromPool
<1>5. pool' = [pool EXCEPT !["obj"] = <<o>> \o @] /\ prim.op = "elem" /\ Element(heap, o) /\ panic' = panic
  BY <1>4 DEF SimpleElement
<1> QED BY <1>1, <1>3, <1>5, ElementKeeps

(* and one of a composite type, with an inner structure nothing refers to.  *)
LEMMA CompositeElementKeeps ==
  ASSUME Inv, NEW o \in Addr, NEW i \in Addr, CompositeElement(o, i)
  PROVE  Inv'
<1>1. CASE Available > 1
  <2> DEFINE b == NewInner("list", GEN_1_OBJ)
             h == [heap EXCEPT ![i] = b]
             p == [pool EXCEPT !["list"] = <<i>> \o @]
  <2>1. /\ prim.op = "elem" /\ o \in Blocks("obj") /\ i \in Blocks("list") /\ o # i
        /\ Element(h, o) /\ panic' = panic
        /\ pool' = [pool EXCEPT !["obj"] = BookObject(o), !["list"] = <<i>> \o @]
    BY <1>1 DEF CompositeElement
  <2>2. MemoryInv(heap, pool) /\ HalfInv(heap, stack, prim)
    BY DEF Inv
  <2>3. heap[o].kind = "none" /\ \A k \in Kinds : o \notin ToSet(pool[k])
    BY <2>1, <2>2, FreshBlocks DEF Kinds
  <2>4. heap[i].kind = "none" /\ \A k \in Kinds : i \notin ToSet(pool[k])
    BY <2>1, <2>2, FreshBlocks DEF Kinds
  <2>5. b \in Block /\ b.kind = "list" /\ b.gc = GEN_1_OBJ /\ b.items = <<>>
    BY NewBlocks, GenFacts
  <2>6. Allocates(heap, pool, "list", i, b, h, p)
    BY DEF Allocates
  <2>7. "obj" \in Kinds /\ "list" \in Kinds /\ pool \in [Kinds -> Seq(Addr)]
    BY <2>2, MemoryFacts DEF Kinds
  <2>8. p["obj"] = pool["obj"] /\ p["list"] = <<i>> \o pool["list"] /\ \A k \in Kinds : k # "list" => p[k] = pool[k]
    BY <2>7
  <2>9. pool' = [p EXCEPT !["obj"] = <<o>> \o @]
    <3>1. BookObject(o) = <<o>> \o pool["obj"]
      BY <2>3, <2>7 DEF BookObject, FromPool
    <3> QED BY <2>1, <2>7, <3>1
  <2> HIDE DEF b, h, p
  <2>10. Sound(heap, b)
    <3>1. DOMAIN b.items = {} /\ b.gc # FREE_OBJ
      BY <2>5 DEF FREE_OBJ, GEN_1_OBJ
    <3> QED BY <2>5, <3>1 DEF Sound
  <2>11. /\ MemoryInv(h, p) /\ h[i] = b
         /\ \A x \in Addr : x # i => h[x] = heap[x]
    BY <2>2, <2>4, <2>5, <2>6, <2>7, <2>10, AllocKeeps
  <2>12. \A k \in Kinds : o \notin ToSet(p[k])
    <3>1. ToSet(p["list"]) = ToSet(pool["list"]) \cup {i}
      BY <2>7, <2>8, Prepend
    <3> QED BY <2>1, <2>3, <2>8, <3>1, <2>7
  <2>13. HalfInv(h, stack, prim)
    <3> SUFFICES ASSUME NEW a \in Addr, NEW j \in DOMAIN h[a].items
                 PROVE  h[a].items[j] = BEEF <=> prim.op = "elem" /\ a = Last(stack).at /\ j = 1
      BY DEF HalfInv
    <3>1. CASE a = i
      <4>1. DOMAIN h[a].items = {}
        BY <2>5, <2>11, <3>1
      <4> QED BY <4>1
    <3>2. CASE a # i
      BY <2>2, <2>11, <3>2 DEF HalfInv
    <3> QED BY <3>1, <3>2
  <2>14. h[o].kind = "none" /\ \A x \in Addr : heap[x].kind # "none" => h[x] = heap[x]
    BY <2>1, <2>3, <2>4, <2>11
  <2> QED BY <2>1, <2>9, <2>11, <2>12, <2>13, <2>14, ElementKeeps
<1>2. CASE ~(Available > 1)
  <2>1. panic' = "doomed" /\ UNCHANGED <<heap, pool, stack, prim, globals, phase>>
    BY <1>2 DEF CompositeElement
  <2> QED BY <2>1 DEF Inv, StopInv
<1> QED BY <1>1, <1>2

------------------------------------------------------------------------------
(* The theorems.                                                            *)

(* The machine starts in the invariant.                                     *)
LEMMA InitInv == Init => Inv
<1> SUFFICES ASSUME Init PROVE Inv
  OBVIOUS
<1>1. /\ heap = [a \in Addr |-> Unused] /\ pool = [k \in Kinds |-> <<>>] /\ stack = <<>>
      /\ prim = Idle /\ globals = <<>> /\ phase = "globals" /\ panic = "none"
  BY DEF Init
<1>2. <<>> \in Seq(Values) /\ <<>> \in Seq(Addr) /\ DOMAIN <<>> = {}
  OBVIOUS
<1>3. \A a \in Addr : heap[a] = Unused
  BY <1>1
<1>4. MemoryInv(heap, pool)
  <2>1. heap \in [Addr -> Block] /\ pool \in [Kinds -> Seq(Addr)]
    BY <1>1, <1>2, NewBlocks
  <2>2. \A a \in Addr : Sound(heap, heap[a])
    BY <1>3, NewBlocks DEF Sound
  <2>3. \A k \in Kinds : pool[k] = <<>>
    BY <1>1
  <2>4. BookedIn(heap, pool)
    BY <1>2, <1>3, <2>3, NewBlocks DEF BookedIn, IsInjective
  <2> QED BY <2>1, <2>2, <2>4 DEF MemoryInv
<1>5. DataInv(heap, stack, globals, phase)
  BY <1>1, <1>2 DEF DataInv
<1>6. NoHalf(heap)
  BY <1>2, <1>3, NewBlocks DEF NoHalf
<1> QED BY <1>1, <1>4, <1>5, <1>6, IdleFacts, NoHalfFacts DEF Inv, StopInv

(* Every step keeps it.                                                     *)
LEMMA NextInv == Inv /\ [Next]_vars => Inv'
<1> SUFFICES ASSUME Inv, [Next]_vars PROVE Inv'
  OBVIOUS
<1>1. ASSUME NEW i \in Imm, PushConst(i) PROVE Inv'
  BY <1>1, PushConstKeeps
<1>2. ASSUME NEW i \in 1 .. MaxStack, LocalRef(i) \/ GlobalRef(i) PROVE Inv'
  BY <1>2, LocalRefKeeps, GlobalRefKeeps
<1>3. ASSUME NEW n \in 0 .. MaxStack, ListLiteral(n) PROVE Inv'
  BY <1>3, ListLiteralKeeps
<1>4. ASSUME NEW a \in Addr, Inner(a) \/ SimpleElement(a) PROVE Inv'
  BY <1>4, InnerKeeps, SimpleElementKeeps
<1>5. ASSUME NEW a \in Addr, NEW b \in Addr, CompositeElement(a, b) PROVE Inv'
  BY <1>5, CompositeElementKeeps
<1>6. CASE Node
  BY <1>6, NodeKeeps
<1>7. CASE Drop
  BY <1>7, DropKeeps
<1>8. CASE Car
  BY <1>8, CarKeeps
<1>9. CASE Gc
  BY <1>9, GcKeeps
<1>10. CASE EndGlobals
  BY <1>10, EndGlobalsKeeps
<1>11. CASE Halt
  BY <1>11, HaltKeeps
<1>12. CASE UNCHANGED vars
  BY <1>12 DEF vars, Inv, StopInv
<1> QED BY <1>1, <1>2, <1>3, <1>4, <1>5, <1>6, <1>7, <1>8, <1>9, <1>10, <1>11, <1>12 DEF Next

(* The inductive invariant holds of every behaviour.                        *)
THEOREM CollectorInvariant == Spec => []Inv
BY InitInv, NextInv, PTL DEF Spec

(* It implies the types,                                                    *)
LEMMA InvTyped == Inv => TypeOK
<1> SUFFICES ASSUME Inv PROVE TypeOK
  OBVIOUS
<1>1. ASSUME NEW a \in Addr
      PROVE  /\ heap[a].kind \in Kinds \cup {"none"}
             /\ heap[a].gc \in FREE_OBJ .. PERMANENT_OBJ
             /\ heap[a].kind = "obj" => heap[a].val \in Values
             /\ ToSet(heap[a].items) \subseteq Addr \cup {BEEF}
  <2>1. heap[a] \in Block /\ Sound(heap, heap[a])
    BY MemoryFacts DEF Inv
  <2>2. heap[a].items \in Seq(Addr \cup {BEEF})
    BY <2>1, BlockFields
  <2>3. ToSet(heap[a].items) \subseteq Addr \cup {BEEF}
    BY <2>2 DEF ToSet
  <2>4. heap[a].kind = "obj" => heap[a].val \in Values
    BY <2>1 DEF Sound, SoundObject, Placed
  <2> QED BY <2>1, <2>3, <2>4, BlockFields DEF Kinds, FREE_OBJ, PERMANENT_OBJ
<1>2. \A k \in Kinds : ToSet(pool[k]) \subseteq Addr
  BY MemoryFacts DEF Inv, ToSet
<1>3. ToSet(stack) \cup ToSet(globals) \subseteq Values
  <2>1. stack \in Seq(Values) /\ globals \in Seq(Values)
    BY DataFacts DEF Inv
  <2> QED BY <2>1 DEF ToSet
<1>4. prim.op \in {"idle", "inner", "node", "elem"}
  BY DEF Inv, BuildInv
<1> QED BY <1>1, <1>2, <1>3, <1>4 DEF TypeOK, Inv

(* For any number of blocks, list nodes and stack objects, the state keeps  *)
(* its types.                                                               *)
THEOREM CollectorTyped == Spec => []TypeOK
BY CollectorInvariant, InvTyped, PTL

(* the books,                                                               *)
LEMMA InvBooked == Inv => BookedOnce
<1> SUFFICES ASSUME Inv PROVE BookedOnce
  OBVIOUS
<1>1. MemoryInv(heap, pool)
  BY DEF Inv
<1> QED BY <1>1, MemoryFacts, BookedIsAddr DEF BookedIn, BookedOnce

(* Every Object and inner structure in memory is booked exactly once, in    *)
(* the pool of its kind, and nothing else is booked: none is freed twice    *)
(* and none is forgotten (gc_obj_book, gc_inner_obj_book,                   *)
(* release_all_free_objects). The nodes of a list are no such blocks.       *)
THEOREM CollectorBooksOnce == Spec => []BookedOnce
BY CollectorInvariant, InvBooked, PTL

(* the permanence of list constants,                                        *)
LEMMA InvListConstants == Inv => ListConstantsPermanent
<1> SUFFICES ASSUME Inv, phase = "run"
             PROVE  \A a \in Reachable(Refs(globals)) : heap[a].gc = PERMANENT_OBJ
  BY DEF ListConstantsPermanent
<1> DEFINE T == {a \in Addr : heap[a].kind # "none" /\ Permanent(heap[a])}
<1>1. MemoryInv(heap, pool) /\ DataInv(heap, stack, globals, phase)
  BY DEF Inv
<1>2. Refs(globals) \subseteq T
  <2> SUFFICES ASSUME NEW a \in Refs(globals) PROVE a \in T
    OBVIOUS
  <2>1. a \in Addr /\ heap[a].kind = "list"
    BY <1>1, RootFacts
  <2>2. PICK i \in DOMAIN globals : IsRef(globals[i]) /\ globals[i].at = a
    BY DEF Refs
  <2>3. Lasting(heap, globals[i])
    BY <1>1, DataFacts
  <2> QED BY <2>1, <2>2, <2>3 DEF Lasting
<1>3. \A x \in T : Children(heap[x]) \subseteq T
  BY <1>1, ChildrenFacts, MemoryFacts
<1>4. T \in SUBSET Addr
  OBVIOUS
<1> HIDE DEF T
<1>5. Reachable(Refs(globals)) \subseteq T
  BY <1>2, <1>3, <1>4, ReachableLeast
<1> QED BY <1>5 DEF T, Permanent

(* A global that holds a list constant leads to permanent blocks only, so   *)
(* it does not matter that globals are no root of the collector             *)
(* (generate_object in VM_INIT_GLOBALS, vm.c 652-667). Pair and vector      *)
(* constants, whose parts are never permanent, are no values of ObgGc.      *)
THEOREM CollectorListConstants == Spec => []ListConstantsPermanent
BY CollectorInvariant, InvListConstants, PTL

(* the empty memory of a stopped machine,                                   *)
LEMMA InvNothingBooked == Inv => NothingBooked
<1> SUFFICES ASSUME Inv, phase = "stop"
             PROVE  Booked = {} /\ \A a \in Addr : heap[a].kind = "none"
  BY DEF NothingBooked
<1>1. \A a \in Addr : heap[a].kind = "none"
  BY DEF Inv, StopInv
<1>2. MemoryInv(heap, pool)
  BY DEF Inv
<1> QED BY <1>1, <1>2, BookedIsAddr

(* HALT leaves no Object and no inner structure behind and nothing booked   *)
(* (gc_clean_cache). It says nothing of the memory of list nodes, which     *)
(* NEW_LIST_NODE takes and no function gives back.                          *)
THEOREM CollectorNothingBooked == Spec => []NothingBooked
BY CollectorInvariant, InvNothingBooked, PTL

(* and that all the program can reach is in memory.                         *)
LEMMA InvNothingDangling == Inv => NothingDangling
<1> SUFFICES ASSUME Inv, NEW a \in Reachable(Refs(stack) \cup Refs(globals))
             PROVE  heap[a].kind # "none"
  BY DEF NothingDangling
<1>1. CASE phase # "stop"
  BY <1>1, ReachableLive DEF Live
<1>2. CASE phase = "stop"
  <2>1. stack = <<>> /\ globals = <<>>
    BY <1>2 DEF Inv, StopInv
  <2>2. Refs(stack) = {} /\ Refs(globals) = {}
    BY <2>1 DEF Refs
  <2>3. Reachable({}) \subseteq {}
    <3>1. {} \in SUBSET Addr /\ {} \subseteq {} /\ \A x \in {} : Children(heap[x]) \subseteq {}
      OBVIOUS
    <3> QED BY <3>1, ReachableLeast
  <2>4. Refs(stack) \cup Refs(globals) = {}
    BY <2>2
  <2>5. a \in Reachable({})
    BY <2>4
  <2> QED BY <2>3, <2>5
<1> QED BY <1>1, <1>2

(* No reference the program can follow, through any number of lists, leads  *)
(* to memory that was given back (build_active_root, collect).              *)
THEOREM CollectorNothingDangling == Spec => []NothingDangling
BY CollectorInvariant, InvNothingDangling, PTL

(* A collection leaves what the program can reach as it is.                 *)
LEMMA GcKeepsReachable ==
  Inv /\ Gc => \A a \in Reachable(Refs(stack) \cup Refs(globals)) : heap'[a] \in {heap[a], Aged(heap[a])}
<1> SUFFICES ASSUME Inv, Gc, NEW a \in Reachable(Refs(stack) \cup Refs(globals))
             PROVE  heap'[a] \in {heap[a], Aged(heap[a])}
  OBVIOUS
<1>1. phase # "stop"
  BY PhaseOfPending DEF Gc, Pending
<1>2. a \in Live
  BY <1>1, ReachableLive
<1> QED BY <1>2, GcSpares

(* A collection changes nothing the program can reach but its age, even if  *)
(* it comes in the middle of a list literal (collect, collect_inner).       *)
THEOREM CollectorKeeps == Spec => CollectionKeeps
<1>1. Inv /\ [Next]_vars
      => [Gc => \A a \in Reachable(Refs(stack) \cup Refs(globals)) : heap'[a] \in {heap[a], Aged(heap[a])}]_vars
  BY GcKeepsReachable
<1> QED BY <1>1, CollectorInvariant, PTL DEF Spec, CollectionKeeps

------------------------------------------------------------------------------
(* What a program sees.                                                     *)

\* What a block leads to is of lower rank.
Descends(h, rank) == \A a \in Addr : \A c \in Children(h[a]) : rank[c] < rank[a]
Ranked(h) == \E rank \in [Addr -> Nat] : Descends(h, rank)

\* v leads into T at most.
Into(T, v) == IsRef(v) => v.at \in T

\* A set of blocks of memory h that nothing leads out of, the same in memory k.
Same(h, k, a) == k[a].kind = h[a].kind /\ k[a].val = h[a].val /\ k[a].items = h[a].items
SameWithin(h, k, T) ==
  /\ T \subseteq Addr
  /\ \A a \in T : Same(h, k, a) /\ Sound(h, h[a]) /\ h[a] \in Block /\ Children(h[a]) \subseteq T

\* The values that lead into U are seen alike in f and g; what the elements of v
\* hold leads into U.
Agree(U, g, f) == \A w \in Values : Into(U, w) => g[w] = f[w]
HoldsOf(h, v, U) == IsRef(v) => \A c \in Children(h[v.at]) : Children(h[c]) \subseteq U

(* A list looks the same when what its elements hold does.                  *)
LEMMA LookSame ==
  ASSUME NEW h, NEW k, NEW g, NEW f, NEW T, SameWithin(h, k, T), NEW v \in Values, Into(T, v),
         NEW U, HoldsOf(h, v, U), Agree(U, g, f)
  PROVE  Look(h, g, v) = Look(k, f, v)
<1>1. CASE ~IsRef(v)
  BY <1>1 DEF Look
<1>2. CASE IsRef(v) /\ h[v.at].kind # "list"
  <2>1. k[v.at].kind = h[v.at].kind
    BY <1>2 DEF Into, SameWithin, Same
  <2> QED BY <1>2, <2>1 DEF Look
<1>3. CASE IsRef(v) /\ h[v.at].kind = "list"
  <2> DEFINE s == h[v.at].items
  <2>1. /\ k[v.at].kind = "list" /\ k[v.at].items = s
        /\ Children(h[v.at]) \subseteq T /\ Sound(h, h[v.at]) /\ s \in Seq(Addr \cup {BEEF})
    BY <1>3, BlockFields DEF Into, SameWithin, Same
  <2>2. Children(h[v.at]) = ToSet(s) \ {BEEF}
    BY <1>3 DEF Children
  <2>3. ASSUME NEW i \in DOMAIN s
        PROVE  Item(h, g, s[i]) = Item(k, f, s[i])
    <3>1. CASE s[i] = BEEF
      BY <3>1, NotAddresses DEF Item
    <3>2. ASSUME NEW x, x = s[i], x # BEEF PROVE Item(h, g, x) = Item(k, f, x)
      <4>1. x \in T /\ x \in Children(h[v.at])
        BY <2>1, <2>2, <3>2 DEF ToSet
      <4>2. k[x].kind = h[x].kind /\ k[x].val = h[x].val /\ Sound(h, h[x])
        BY <4>1 DEF SameWithin, Same
      <4>3. CASE h[x].kind = "obj"
        <5>1. h[x].val \in Values
          BY <4>2, <4>3 DEF Sound, SoundObject, Placed
        <5>2. Children(h[x]) \subseteq U
          BY <1>3, <4>1 DEF HoldsOf
        <5>3. Into(U, h[x].val)
          BY <4>3, <5>2 DEF Children, Into
        <5>4. g[h[x].val] = f[h[x].val]
          BY <5>1, <5>3 DEF Agree
        <5> QED BY <4>2, <4>3, <5>4 DEF Item
      <4>4. CASE h[x].kind # "obj"
        BY <4>2, <4>4 DEF Item
      <4> QED BY <4>3, <4>4
    <3> QED BY <3>1, <3>2
  <2>4. Look(h, g, v) = [kind |-> "list", imm |-> NULL, items |-> [i \in DOMAIN s |-> Item(h, g, s[i])]]
    BY <1>3 DEF Look
  <2>5. Look(k, f, v) = [kind |-> "list", imm |-> NULL, items |-> [i \in DOMAIN s |-> Item(k, f, s[i])]]
    BY <1>3, <2>1 DEF Look
  <2> HIDE DEF s
  <2> QED BY <2>3, <2>4, <2>5
<1> QED BY <1>1, <1>2, <1>3

\* f tells what is seen of the values that lead into T.
Sees(h, T, f) == \A v \in Values : Into(T, v) => f[v] = Look(h, f, v)

Rank(rank, v) == IF IsRef(v) THEN rank[v.at] + 1 ELSE 0

(* The rank of a value is a number.                                        *)
LEMMA RankFacts ==
  ASSUME NEW rank \in [Addr -> Nat], NEW v \in Values
  PROVE  Rank(rank, v) \in Nat
BY ValueFacts DEF Rank

(* The blocks of lower rank.                                                *)
LEMMA BelowFacts ==
  ASSUME NEW h, NEW rank \in [Addr -> Nat], Descends(h, rank), NEW n \in Nat,
         \A a \in Addr : Children(h[a]) \subseteq Addr,
         NEW a \in Addr, rank[a] <= n
  PROVE  \A c \in Children(h[a]) : c \in Addr /\ rank[c] < n /\ Children(h[c]) \subseteq {b \in Addr : rank[b] < n}
<1> SUFFICES ASSUME NEW c \in Children(h[a])
             PROVE  c \in Addr /\ rank[c] < n /\ Children(h[c]) \subseteq {b \in Addr : rank[b] < n}
  OBVIOUS
<1>1. c \in Addr /\ rank[c] < rank[a] /\ rank[c] \in Nat /\ rank[a] \in Nat
  BY DEF Descends
<1>2. \A b \in Children(h[c]) : b \in Addr /\ rank[b] < rank[c] /\ rank[b] \in Nat
  BY <1>1 DEF Descends
<1> QED BY <1>1, <1>2

(* What is seen does not depend on blocks it does not lead to.              *)
LEMMA SeesSame ==
  ASSUME NEW h, NEW k, NEW T, SameWithin(h, k, T), NEW rank \in [Addr -> Nat], Descends(h, rank),
         NEW f, NEW g, Sees(h, T, f), Sees(k, T, g)
  PROVE  \A v \in Values : Into(T, v) => g[v] = f[v]
<1> DEFINE Good(n) == \A v \in Values : Into(T, v) /\ Rank(rank, v) <= n => g[v] = f[v]
           S == {n \in Nat : Good(n)}
<1>1. 0 \in S
  <2>1. ASSUME NEW v \in Values, Into(T, v), Rank(rank, v) <= 0 PROVE g[v] = f[v]
    <3>1. ~IsRef(v)
      BY <2>1, ValueFacts DEF Rank
    <3>2. f[v] = Look(h, f, v) /\ g[v] = Look(k, g, v)
      BY <2>1 DEF Sees
    <3> QED BY <3>1, <3>2 DEF Look
  <2> QED BY <2>1
<1>2. ASSUME NEW n \in Nat, n \in S PROVE n + 1 \in S
  <2>0. Good(n)
    BY <1>2
  <2> SUFFICES ASSUME NEW v \in Values, Into(T, v), Rank(rank, v) <= n + 1 PROVE g[v] = f[v]
    OBVIOUS
  <2> DEFINE U == {b \in T : rank[b] < n}
  <2>1. \A w \in Values : Into(U, w) => f[w] = g[w]
    <3> SUFFICES ASSUME NEW w \in Values, Into(U, w) PROVE f[w] = g[w]
      OBVIOUS
    <3>1. Into(T, w) /\ Rank(rank, w) <= n
      <4>1. CASE IsRef(w)
        BY <4>1, ValueFacts DEF Into, Rank
      <4>2. CASE ~IsRef(w)
        BY <4>2 DEF Into, Rank
      <4> QED BY <4>1, <4>2
    <3> QED BY <2>0, <3>1
  <2>2. ASSUME IsRef(v), NEW c \in Children(h[v.at]) PROVE Children(h[c]) \subseteq U
    <3>1. v.at \in T /\ T \subseteq Addr /\ rank[v.at] + 1 <= n + 1 /\ c \in T
      BY <2>2 DEF Into, Rank, SameWithin
    <3>2. c \in Addr /\ Children(h[c]) \subseteq T /\ rank[c] < rank[v.at] /\ rank[c] \in Nat /\ rank[v.at] \in Nat
      BY <2>2, <3>1 DEF SameWithin, Descends
    <3>3. ASSUME NEW b \in Children(h[c]) PROVE b \in U
      <4>1. b \in T /\ b \in Addr /\ rank[b] < rank[c] /\ rank[b] \in Nat
        BY <3>1, <3>2, <3>3 DEF Descends
      <4> QED BY <3>1, <3>2, <4>1
    <3> QED BY <3>3
  <2> HIDE DEF U
  <2>3. HoldsOf(h, v, U) /\ Agree(U, f, g)
    BY <2>1, <2>2 DEF HoldsOf, Agree
  <2>4. Look(h, f, v) = Look(k, g, v)
    BY <2>3, LookSame
  <2> QED BY <2>4 DEF Sees
<1>3. \A n \in Nat : n \in S
  <2> HIDE DEF S
  <2> QED BY <1>1, <1>2, Induction
<1> QED BY <1>3, RankFacts

(* Something is seen of memory of any depth.                                *)
LEMMA SightExists ==
  ASSUME NEW h \in [Addr -> Block], \A a \in Addr : Sound(h, h[a]), Ranked(h)
  PROVE  \E f : f = [v \in Values |-> Look(h, f, v)]
<1>1. PICK rank \in [Addr -> Nat] : Descends(h, rank)
  BY DEF Ranked
<1>2. \A a \in Addr : h[a] \in Block /\ Children(h[a]) \subseteq Addr
  BY ChildrenFacts
<1> DEFINE B(n) == {b \in Addr : rank[b] < n}
<1>3. ASSUME NEW n \in Nat PROVE SameWithin(h, h, B(n))
  <2>1. ASSUME NEW a \in B(n) PROVE Children(h[a]) \subseteq B(n)
    <3>1. \A c \in Children(h[a]) : c \in Addr /\ rank[c] < rank[a] /\ rank[c] \in Nat /\ rank[a] \in Nat
      BY <1>1, <1>2, <2>1 DEF Descends
    <3> QED BY <2>1, <3>1
  <2> QED BY <1>2, <2>1 DEF SameWithin, Same
<1> DEFINE Good(n) == \E f : Sees(h, B(n), f)
           S == {n \in Nat : Good(n)}
<1>4. 0 \in S
  <2> DEFINE f == [v \in Values |-> Look(h, <<>>, v)]
  <2>1. ASSUME NEW v \in Values, Into(B(0), v) PROVE f[v] = Look(h, f, v)
    <3>1. ~IsRef(v)
      BY <2>1, ValueFacts DEF Into
    <3> QED BY <3>1 DEF Look
  <2> HIDE DEF f
  <2>2. Good(0)
    BY <2>1 DEF Sees
  <2> QED BY <2>2
<1>5. ASSUME NEW n \in Nat, n \in S PROVE n + 1 \in S
  <2>1. PICK g : Sees(h, B(n), g)
    BY <1>5
  <2> DEFINE f == [v \in Values |-> Look(h, g, v)]
  <2>2. \A w \in Values : Into(B(n), w) => g[w] = f[w]
    BY <2>1 DEF Sees
  <2>3. \A v \in Values : f[v] = Look(h, g, v)
    OBVIOUS
  <2> HIDE DEF f
  <2>4. ASSUME NEW v \in Values, Into(B(n + 1), v) PROVE f[v] = Look(h, f, v)
    <3>1. HoldsOf(h, v, B(n)) /\ Agree(B(n), g, f)
      <4> SUFFICES ASSUME IsRef(v), NEW c \in Children(h[v.at]) PROVE Children(h[c]) \subseteq B(n)
        BY <2>2 DEF HoldsOf, Agree
      <4>1. v.at \in Addr /\ rank[v.at] <= n
        BY <2>4 DEF Into
      <4> QED BY <1>1, <1>2, <4>1, BelowFacts
    <3>2. SameWithin(h, h, B(n + 1))
      BY <1>3
    <3> HIDE DEF B
    <3>3. Look(h, g, v) = Look(h, f, v)
      BY <2>4, <3>1, <3>2, LookSame
    <3> QED BY <2>3, <3>3
  <2>5. Good(n + 1)
    BY <2>4 DEF Sees
  <2> QED BY <2>5
<1>6. \A n \in Nat : n \in S
  <2> HIDE DEF S
  <2> QED BY <1>4, <1>5, Induction
<1> HIDE DEF B
<1>7. \A n \in Nat : \E f : Sees(h, B(n), f)
  BY <1>6
<1> DEFINE F == [n \in Nat |-> CHOOSE f : Sees(h, B(n), f)]
<1>8. \A n \in Nat : Sees(h, B(n), F[n])
  BY <1>7
<1> HIDE DEF F, S, Good
<1> DEFINE e == [v \in Values |-> F[Rank(rank, v)][v]]
<1>9. \A n \in Nat, v \in Values : Into(B(n), v) <=> Rank(rank, v) <= n
  BY ValueFacts DEF Into, B, Rank
<1>10. ASSUME NEW n \in Nat, NEW v \in Values, Into(B(n), v) PROVE e[v] = F[n][v]
  <2> DEFINE m == Rank(rank, v)
  <2>1. m \in Nat /\ m <= n /\ Into(B(m), v)
    BY <1>9, <1>10, RankFacts
  <2>2. Sees(h, B(m), F[m]) /\ SameWithin(h, h, B(m))
    BY <1>3, <1>8, <2>1
  <2>3. Sees(h, B(m), F[n])
    <3>1. \A w \in Values : Into(B(m), w) => Into(B(n), w)
      BY <2>1 DEF Into, B
    <3> QED BY <1>8, <3>1 DEF Sees
  <2> HIDE DEF m
  <2>4. F[n][v] = F[m][v]
    BY <1>1, <2>1, <2>2, <2>3, SeesSame
  <2> QED BY <2>4 DEF m
<1> HIDE DEF e
<1>11. ASSUME NEW v \in Values PROVE F[Rank(rank, v)][v] = Look(h, e, v)
  <2> DEFINE m == Rank(rank, v)
  <2>1. m \in Nat /\ Into(B(m), v)
    BY <1>9, RankFacts
  <2> HIDE DEF m
  <2>2. F[m][v] = Look(h, F[m], v)
    BY <1>8, <2>1 DEF Sees
  <2>3. \A w \in Values : Into(B(m), w) => F[m][w] = e[w]
    BY <1>10, <2>1
  <2>4. HoldsOf(h, v, B(m)) /\ Agree(B(m), F[m], e)
    <3> SUFFICES ASSUME IsRef(v), NEW c \in Children(h[v.at]) PROVE Children(h[c]) \subseteq B(m)
      BY <2>3 DEF HoldsOf, Agree
    <3>1. v.at \in Addr /\ rank[v.at] <= m
      BY <2>1 DEF Into, B
    <3> QED BY <1>1, <1>2, <2>1, <3>1, BelowFacts DEF B
  <2>5. SameWithin(h, h, B(m))
    BY <1>3, <2>1
  <2>6. Look(h, F[m], v) = Look(h, e, v)
    BY <2>1, <2>4, <2>5, LookSame
  <2> QED BY <2>2, <2>6 DEF m
<1>12. e = [v \in Values |-> Look(h, e, v)]
  <2>1. e = [v \in Values |-> F[Rank(rank, v)][v]]
    BY DEF e
  <2> QED BY <1>11, <2>1
<1> QED BY <1>12

(* Sight is that.                                                           *)
LEMMA SightIs ==
  ASSUME NEW h \in [Addr -> Block], \A a \in Addr : Sound(h, h[a]), Ranked(h)
  PROVE  \A v \in Values : Sight(h)[v] = Look(h, Sight(h), v)
<1>1. \E f : f = [v \in Values |-> Look(h, f, v)]
  BY SightExists
<1> DEFINE c == CHOOSE f : f = [v \in Values |-> Look(h, f, v)]
<1>2. c = [v \in Values |-> Look(h, c, v)]
  BY <1>1
<1>3. Sight(h) = c
  BY DEF Sight
<1> HIDE DEF c
<1> QED BY <1>2, <1>3

\* Memory of which something can be seen.
Clear(h) == h \in [Addr -> Block] /\ (\A a \in Addr : Sound(h, h[a])) /\ Ranked(h)

(* What is seen of a value depends on nothing but the blocks it leads to.   *)
LEMMA SightSame ==
  ASSUME NEW h, NEW k, Clear(h), Clear(k), NEW T, SameWithin(h, k, T)
  PROVE  \A v \in Values : Into(T, v) => Sight(k)[v] = Sight(h)[v]
<1>1. PICK rank \in [Addr -> Nat] : Descends(h, rank)
  BY DEF Clear, Ranked
<1>2. Sees(h, T, Sight(h)) /\ Sees(k, T, Sight(k))
  BY SightIs DEF Clear, Sees
<1> QED BY <1>1, <1>2, SeesSame

------------------------------------------------------------------------------
(* The list in the making.                                                  *)

\* Nothing leads to block l but the top of the stack.
Apart(h, s, g, l) ==
  /\ \A a \in Addr : l \notin Children(h[a])
  /\ \A i \in DOMAIN g : Into(Addr \ {l}, g[i])
  /\ \A i \in DOMAIN s : i # Len(s) => Into(Addr \ {l}, s[i])

\* Its elements are copies of the objects below it.
Copied(h, s, l) ==
  LET q == h[l].items
  IN  \A i \in DOMAIN q : q[i] # BEEF => h[q[i]].val = s[Len(s) - Len(q) + i - 1]

Making(h, s, g, pr) ==
  Building(pr) => Apart(h, s, g, s[Len(s)].at) /\ Copied(h, s, s[Len(s)].at)

\* There is no way back to a block, so what is seen of it is well defined; and
\* the program cannot see the list in the making.
SeenInv == Inv /\ Ranked(heap) /\ Making(heap, stack, globals, prim)

(* Ranks survive when no block leads to more.                               *)
LEMMA RankedStays ==
  ASSUME NEW h, NEW k, Ranked(h), \A a \in Addr : Children(k[a]) \subseteq Children(h[a])
  PROVE  Ranked(k)
<1>1. PICK rank \in [Addr -> Nat] : Descends(h, rank)
  BY DEF Ranked
<1>2. Descends(k, rank)
  BY <1>1 DEF Descends
<1> QED BY <1>2 DEF Ranked

(* Blocks with the same contents lead to the same.                          *)
LEMMA SameChildren ==
  ASSUME NEW b, NEW c, c.kind = b.kind, c.val = b.val, c.items = b.items
  PROVE  Children(c) = Children(b)
BY DEF Children

(* A list without nodes leads nowhere,                                      *)
LEMMA NoChildren ==
  ASSUME NEW b, b.kind \notin {"obj", "pair"}, b.items = <<>>
  PROVE  Children(b) = {}
BY DEF Children, ToSet

(* nor does an unused block.                                                *)
LEMMA UnusedLeadsNowhere == Children(Unused) = {}
BY NewBlocks, NoChildren

(* A collection keeps the list in the making.                               *)
LEMMA GcSeen ==
  ASSUME SeenInv, Gc
  PROVE  SeenInv'
<1>0. Inv /\ Ranked(heap) /\ Making(heap, stack, globals, prim)
  BY DEF SeenInv
<1>1. prim.op # "idle" /\ UNCHANGED <<stack, prim, globals, phase, panic>>
  BY DEF Gc, Pending
<1>2. phase # "stop"
  BY <1>0, <1>1, PhaseOfPending
<1>3. \A a \in Addr : Children(heap'[a]) \subseteq Children(heap[a])
  <2> SUFFICES ASSUME NEW a \in Addr PROVE Children(heap'[a]) \subseteq Children(heap[a])
    OBVIOUS
  <2>1. CASE heap'[a] = Unused
    BY <2>1, UnusedLeadsNowhere
  <2>2. CASE heap'[a] \in {heap[a], Aged(heap[a])}
    <3>1. heap[a] \in Block
      BY <1>0, MemoryFacts DEF Inv
    <3> QED BY <2>2, <3>1, AgedFields, SameChildren
  <2> QED BY <1>0, <2>1, <2>2, GcSpares
<1>4. Inv' /\ Ranked(heap')
  BY <1>0, <1>3, GcKeeps, RankedStays
<1>5. ASSUME Building(prim) PROVE Apart(heap', stack, globals, TheList) /\ Copied(heap', stack, TheList)
  <2>1. Apart(heap, stack, globals, TheList) /\ Copied(heap, stack, TheList)
    BY <1>0, <1>5 DEF Making, TheList
  <2>2. Apart(heap', stack, globals, TheList)
    BY <1>3, <2>1 DEF Apart
  <2>3. /\ TheList \in Live /\ TheList \in Addr /\ heap[TheList].kind = "list"
        /\ MemoryInv(heap, pool) /\ heap[TheList] \in Block
    BY <1>0, <1>2, <1>5, ListOnTop, RootsLive DEF Inv
  <2>4. heap'[TheList].items = heap[TheList].items
    BY <1>0, <2>3, GcSpares
  <2>5. ASSUME NEW i \in DOMAIN heap[TheList].items, heap[TheList].items[i] # BEEF
        PROVE  heap'[heap[TheList].items[i]].val = heap[heap[TheList].items[i]].val
    <3> DEFINE x == heap[TheList].items[i]
    <3>1. x \in Children(heap[TheList])
      BY <2>3, <2>5 DEF Children, ToSet
    <3>2. x \in Live
      BY <2>3, <3>1, LiveIsClosed
    <3> HIDE DEF x
    <3>3. heap'[x] \in {heap[x], Aged(heap[x])} /\ heap[x] \in Block
      BY <1>0, <2>3, <3>2, GcSpares, MemoryFacts DEF Live
    <3>4. heap'[x].val = heap[x].val
      BY <3>3, AgedFields
    <3> QED BY <3>4 DEF x
  <2>6. Copied(heap', stack, TheList)
    BY <2>1, <2>4, <2>5 DEF Copied
  <2> QED BY <2>2, <2>6
<1>6. Making(heap', stack, globals, prim)
  BY <1>5 DEF Making, TheList
<1> QED BY <1>1, <1>4, <1>6 DEF SeenInv

(* The steps that leave memory as it is and end with no list in the making. *)
LEMMA IdleSeen ==
  ASSUME SeenInv, Inv', heap' = heap, prim'.op \in {"idle", "inner"}
  PROVE  SeenInv'
BY DEF SeenInv, Making, Building

(* HALT leaves no blocks.                                                   *)
LEMMA HaltSeen ==
  ASSUME SeenInv, Halt
  PROVE  SeenInv'
<1>1. Inv' /\ phase' = "stop" /\ prim' = Idle
  BY HaltKeeps DEF SeenInv, Halt, Ready
<1>2. \A a \in Addr : heap'[a].kind = "none"
  BY <1>1 DEF Inv, StopInv
<1>3. \A a \in Addr : Children(heap'[a]) \subseteq Children(heap[a])
  BY <1>2 DEF Children
<1>4. Ranked(heap')
  BY <1>3, RankedStays DEF SeenInv
<1> QED BY <1>1, <1>4, IdleFacts DEF SeenInv, Making, Building

(* The list is new: nothing leads to it.                                    *)
LEMMA NewIsApart ==
  ASSUME MemoryInv(heap, pool), DataInv(heap, stack, globals, phase), NEW l \in Addr, heap[l].kind = "none"
  PROVE  /\ \A a \in Addr : l \notin Children(heap[a])
         /\ \A i \in DOMAIN globals : Into(Addr \ {l}, globals[i])
         /\ \A i \in DOMAIN stack : Into(Addr \ {l}, stack[i])
<1>1. \A a \in Addr : l \notin Children(heap[a])
  BY ChildrenFacts, MemoryFacts
<1>2. ASSUME NEW v, Placed(heap, v) PROVE Into(Addr \ {l}, v)
  BY <1>2, ValueFacts DEF Placed, Into
<1> QED BY <1>1, <1>2, DataFacts

(* So is the inner structure of a literal.                                  *)
LEMMA InnerSeen ==
  ASSUME SeenInv, NEW l \in Addr, Inner(l)
  PROVE  SeenInv'
<1> DEFINE b == NewInner("list", Gen)
           v == Value("list", l)
<1>0. Inv /\ Ranked(heap) /\ Inv'
  BY InnerKeeps DEF SeenInv
<1>1. /\ l \in Blocks("list") /\ heap' = [heap EXCEPT ![l] = b] /\ stack' = Append(stack, v) /\ globals' = globals
  BY DEF Inner
<1>2. MemoryInv(heap, pool) /\ DataInv(heap, stack, globals, phase) /\ stack \in Seq(Values)
  BY <1>0, DataFacts DEF Inv
<1>3. heap[l].kind = "none" /\ heap \in [Addr -> Block]
  BY <1>1, <1>2, FreshBlocks, MemoryFacts DEF Kinds
<1>4. b.items = <<>> /\ Children(b) = {}
  BY NewBlocks, GenFacts, NoChildren
<1>5. v \in Values /\ v.at = l
  BY ValueIsIn
<1> HIDE DEF b, v
<1>6. heap'[l] = b /\ \A a \in Addr : Children(heap'[a]) \subseteq Children(heap[a])
  BY <1>1, <1>3, <1>4
<1>7. Ranked(heap')
  BY <1>0, <1>6, RankedStays
<1>8. /\ Len(stack') = Len(stack) + 1 /\ stack'[Len(stack')] = v
      /\ \A i \in DOMAIN stack' : i # Len(stack') => i \in DOMAIN stack /\ stack'[i] = stack[i]
  BY <1>1, <1>2, <1>5
<1>9. Apart(heap', stack', globals', l)
  BY <1>1, <1>2, <1>3, <1>6, <1>8, NewIsApart DEF Apart
<1>10. Copied(heap', stack', l)
  <2>1. DOMAIN heap'[l].items = {}
    BY <1>4, <1>6
  <2> QED BY <2>1 DEF Copied
<1>11. Making(heap', stack', globals', prim')
  BY <1>5, <1>8, <1>9, <1>10 DEF Making
<1> QED BY <1>0, <1>7, <1>11 DEF SeenInv

(* A node without an Object leads nowhere; the others keep their objects.   *)
LEMMA NodeSeen ==
  ASSUME SeenInv, Node
  PROVE  SeenInv'
<1> DEFINE l == TheList
           s == heap[l].items
           q == <<BEEF>> \o s
<1>0. Inv /\ Ranked(heap) /\ Making(heap, stack, globals, prim) /\ Inv'
  BY NodeKeeps DEF SeenInv
<1>1. /\ prim.op = "node" /\ heap' = [heap EXCEPT ![l] = [@ EXCEPT !.items = q]]
      /\ UNCHANGED <<stack, globals>> /\ prim' = [prim EXCEPT !.op = "elem"]
  BY DEF Node
<1>2. /\ l \in Addr /\ heap[l].kind = "list" /\ heap[l] \in Block /\ heap \in [Addr -> Block]
      /\ l = stack[Len(stack)].at /\ Len(stack) \in Nat
  BY <1>0, <1>1, ListOnTop, MemoryFacts DEF Building, Inv, TheList
<1>3. s \in Seq(Addr \cup {BEEF})
  BY <1>2, BlockFields
<1>4. Apart(heap, stack, globals, l) /\ Copied(heap, stack, l)
  BY <1>0, <1>1, <1>2 DEF Making, Building
<1> HIDE DEF l
<1>5. NoHalf(heap)
  BY <1>0, <1>1, NoHalfFacts DEF Inv
<1>6. \A i \in DOMAIN s : s[i] # BEEF /\ heap[s[i]].val = stack[Len(stack) - Len(s) + i - 1]
  BY <1>2, <1>4, <1>5 DEF NoHalf, Copied
<1>7. \A i \in DOMAIN s : s[i] # l
  <2>1. Sound(heap, heap[l])
    BY <1>0, <1>2, MemoryFacts DEF Inv
  <2> QED BY <1>2, <1>6, <2>1 DEF Sound, SoundItem
<1> HIDE DEF s
<1>8. /\ q \in Seq(Addr \cup {BEEF}) /\ Len(q) = Len(s) + 1 /\ Len(s) \in Nat /\ q[1] = BEEF
      /\ \A i \in DOMAIN q : i \in Nat /\ (i # 1 => i - 1 \in DOMAIN s /\ q[i] = s[i - 1])
  BY <1>3
<1>9. ToSet(q) \ {BEEF} = ToSet(s) \ {BEEF}
  <2>1. \A i \in DOMAIN s : i + 1 \in DOMAIN q /\ q[i + 1] = s[i]
    BY <1>3
  <2>2. ToSet(s) \subseteq ToSet(q)
    BY <2>1 DEF ToSet
  <2>3. ToSet(q) \subseteq ToSet(s) \cup {BEEF}
    BY <1>8 DEF ToSet
  <2> QED BY <2>2, <2>3
<1> HIDE DEF q
<1>10. /\ heap'[l].items = q /\ heap'[l].kind = "list"
       /\ \A a \in Addr : a # l => heap'[a] = heap[a]
  BY <1>1, <1>2, <1>8, ItemsFields
<1>11. \A a \in Addr : Children(heap'[a]) = Children(heap[a])
  <2>1. Children(heap'[l]) = Children(heap[l])
    BY <1>2, <1>9, <1>10 DEF Children, s
  <2> QED BY <1>10, <2>1
<1>12. Ranked(heap')
  BY <1>0, <1>11, RankedStays
<1>13. Apart(heap', stack, globals, l)
  BY <1>4, <1>11 DEF Apart
<1>14. Copied(heap', stack, l)
  <2> SUFFICES ASSUME NEW i \in DOMAIN q, q[i] # BEEF
               PROVE  heap'[q[i]].val = stack[Len(stack) - Len(q) + i - 1]
    BY <1>10 DEF Copied
  <2>1. i # 1 /\ i \in Nat /\ i - 1 \in DOMAIN s /\ q[i] = s[i - 1]
    BY <1>8
  <2>2. heap[q[i]].val = stack[Len(stack) - Len(s) + (i - 1) - 1] /\ q[i] # l
    BY <1>6, <1>7, <2>1
  <2>3. q[i] \in Addr
    BY <1>8
  <2>4. Len(stack) - Len(s) + (i - 1) - 1 = Len(stack) - Len(q) + i - 1
    BY <1>2, <1>8, <2>1
  <2> QED BY <1>10, <2>2, <2>3, <2>4
<1>15. Making(heap', stack', globals', prim')
  BY <1>1, <1>2, <1>13, <1>14 DEF Making
<1> QED BY <1>0, <1>12, <1>15 DEF SeenInv

\* Memory h is the heap, but for a new list that leads nowhere.
Prepared(h) ==
  /\ h \in [Addr -> Block]
  /\ \A a \in Addr : IF heap[a].kind # "none" THEN h[a] = heap[a] ELSE Children(h[a]) = {}

(* What an element of the literal does to memory.                           *)
LEMMA ElementMemory ==
  ASSUME SeenInv, prim.op = "elem", NEW h, Prepared(h), NEW o \in Addr, h[o].kind = "none", Element(h, o)
  PROVE  LET s == heap[TheList].items
             q == heap'[TheList].items
         IN  /\ TheList \in Addr /\ TheList = stack[Len(stack)].at /\ heap[TheList].kind = "list"
             /\ TheList # o /\ heap[o].kind = "none"
             /\ s \in Seq(Addr \cup {BEEF}) /\ Len(s) \in 1 .. prim.n /\ Done = Len(s)
             /\ prim.n \in Nat /\ prim.n < Len(stack) /\ stack \in Seq(Values)
             /\ heap'[o].kind = "obj" /\ heap'[o].val = stack[Len(stack) - Len(s)] /\ heap'[o].items = <<>>
             /\ heap'[TheList].kind = "list" /\ heap'[TheList].val = heap[TheList].val
             /\ q \in Seq(Addr \cup {BEEF}) /\ DOMAIN q = DOMAIN s /\ Len(q) = Len(s) /\ q[1] = o
             /\ \A i \in DOMAIN q : i # 1 => q[i] = s[i]
             /\ \A a \in Addr : a \notin {o, TheList} => heap'[a] = h[a]
<1> DEFINE l == TheList
           s == heap[l].items
           v == stack[Len(stack) - Done]
           b == NewObject(v, ElemGen)
           m == [h EXCEPT ![o] = b]
           q == [s EXCEPT ![1] = o]
<1>0. Inv
  BY DEF SeenInv
<1>1. /\ stack \in Seq(Values) /\ l = stack[Len(stack)].at /\ l \in Addr /\ heap[l].kind = "list" /\ heap[l] \in Block
      /\ prim.n \in Nat /\ prim.n < Len(stack) /\ Last(stack).at = l
  BY <1>0, ListOnTop DEF Building, TheList
<1>2. Done = Len(s) /\ Done \in 1 .. prim.n
  <2>1. Len(heap[Last(stack).at].items) \in 1 .. prim.n
    BY <1>0 DEF Inv, BuildInv
  <2> QED BY <1>1, <2>1 DEF Done
<1>3. v \in Values
  <2>1. Len(stack) - Done \in DOMAIN stack
    BY <1>1, <1>2
  <2> QED BY <1>1, <2>1
<1>4. b \in Block /\ b.kind = "obj" /\ b.val = v /\ b.items = <<>>
  BY <1>3, NewBlocks, GenFacts DEF ElemGen
<1>5. h[l] = heap[l] /\ o # l /\ heap[o].kind = "none" /\ h \in [Addr -> Block]
  BY <1>1 DEF Prepared
<1>6. heap' = [h EXCEPT ![o] = b, ![l].items[1] = o]
  BY ElementFields
<1>7. s \in Seq(Addr \cup {BEEF})
  BY <1>1, BlockFields
<1> HIDE DEF b, v, l
<1>8. ChangesItems(m, l, q, heap')
  <2>1. q = [h[l].items EXCEPT ![1] = o]
    BY <1>5
  <2> HIDE DEF q
  <2> QED BY <1>1, <1>5, <1>6, <2>1, TwoBlocks
<1> HIDE DEF s
<1>9. /\ q \in Seq(Addr \cup {BEEF}) /\ Len(q) = Len(s) /\ DOMAIN q = DOMAIN s /\ q[1] = o
      /\ \A i \in DOMAIN q : i # 1 => q[i] = s[i]
  BY <1>2, <1>7
<1> HIDE DEF q
<1>10. m \in [Addr -> Block] /\ m[o] = b /\ m[l] = heap[l] /\ \A a \in Addr : a # o => m[a] = h[a]
  BY <1>1, <1>4, <1>5
<1> HIDE DEF m
<1>11. /\ heap'[l].kind = "list" /\ heap'[l].val = heap[l].val /\ heap'[l].items = q
       /\ \A a \in Addr : a # l => heap'[a] = m[a]
  <2>1. heap' = [m EXCEPT ![l] = [m[l] EXCEPT !.items = q]]
    BY <1>8 DEF ChangesItems
  <2> QED BY <1>1, <1>9, <1>10, <2>1, ItemsFields
<1>12. heap'[o].kind = "obj" /\ heap'[o].val = stack[Len(stack) - Len(s)] /\ heap'[o].items = <<>>
  BY <1>2, <1>4, <1>5, <1>10, <1>11 DEF v
<1> QED BY <1>1, <1>2, <1>5, <1>7, <1>9, <1>10, <1>11, <1>12 DEF l, s

(* The element is a new Object, above what it refers to and below its list. *)
LEMMA ElementSeen ==
  ASSUME SeenInv, Inv', prim.op = "elem",
         NEW h, Prepared(h), NEW o \in Addr, h[o].kind = "none", Element(h, o)
  PROVE  /\ Ranked(heap')
         /\ Apart(heap', stack, globals, TheList)
         /\ Copied(heap', stack, TheList)
<1> DEFINE l == TheList
           s == heap[l].items
           q == heap'[l].items
           v == stack[Len(stack) - Len(s)]
<1>1. /\ l \in Addr /\ l = stack[Len(stack)].at /\ heap[l].kind = "list" /\ l # o /\ heap[o].kind = "none"
      /\ s \in Seq(Addr \cup {BEEF}) /\ Len(s) \in 1 .. prim.n
      /\ prim.n \in Nat /\ prim.n < Len(stack) /\ stack \in Seq(Values)
      /\ heap'[o].kind = "obj" /\ heap'[o].val = v
      /\ heap'[l].kind = "list"
      /\ DOMAIN q = DOMAIN s /\ Len(q) = Len(s) /\ q[1] = o
      /\ \A i \in DOMAIN q : i # 1 => q[i] = s[i]
      /\ \A a \in Addr : a \notin {o, l} => heap'[a] = h[a]
  BY ElementMemory
<1>2. Inv /\ Ranked(heap) /\ Apart(heap, stack, globals, l) /\ Copied(heap, stack, l)
  BY <1>1 DEF SeenInv, Making, Building
<1>3. v \in Values /\ Placed(heap, v) /\ Into(Addr \ {l}, v)
  <2>1. Len(stack) - Len(s) \in DOMAIN stack /\ Len(stack) - Len(s) # Len(stack)
    BY <1>1
  <2> QED BY <1>2, <2>1, DataFacts DEF Inv, Apart
<1>4. Children(heap'[o]) = IF IsRef(v) THEN {v.at} ELSE {}
  BY <1>1 DEF Children
<1>5. IsRef(v) => v.at \in Addr /\ v.at # l /\ v.at # o
  BY <1>1, <1>3, ValueFacts DEF Placed, Into
<1> HIDE DEF v
<1>6. \A i \in DOMAIN s : s[i] = BEEF <=> i = 1
  BY <1>1, <1>2 DEF Inv, HalfInv, Last
<1>7. ASSUME NEW i \in DOMAIN s, i # 1
      PROVE  s[i] \in Addr /\ heap[s[i]].kind = "obj" /\ s[i] # l /\ s[i] # o /\ s[i] \in Children(heap[l])
             /\ heap'[s[i]] = heap[s[i]]
  <2>1. s[i] \in Addr /\ s[i] # BEEF
    BY <1>1, <1>6, <1>7
  <2>2. heap[s[i]].kind = "obj"
    <3>1. Sound(heap, heap[l])
      BY <1>1, <1>2, MemoryFacts DEF Inv
    <3> QED BY <1>1, <1>7, <2>1, <3>1 DEF Sound, SoundItem
  <2>3. s[i] \in Children(heap[l])
    BY <1>1, <2>1 DEF Children, ToSet
  <2>4. h[s[i]] = heap[s[i]]
    BY <2>1, <2>2 DEF Prepared
  <2> QED BY <1>1, <2>1, <2>2, <2>3, <2>4
<1>8. Children(heap'[l]) = {q[i] : i \in DOMAIN q} \ {BEEF}
  BY <1>1 DEF Children, ToSet
<1> HIDE DEF l, s, q
<1>9. \A c \in Children(heap'[l]) : c = o \/ (c \in Children(heap[l]) /\ c # o /\ c # l)
  BY <1>1, <1>7, <1>8
<1>10. ASSUME NEW a \in Addr, a # o, a # l
       PROVE  \A c \in Children(heap'[a]) : c \in Children(heap[a]) /\ c # o /\ c # l /\ c \in Addr
  <2>1. CASE heap[a].kind # "none"
    <3>1. heap'[a] = heap[a]
      BY <1>1, <1>10, <2>1 DEF Prepared
    <3>2. \A c \in Children(heap[a]) : c \in Addr /\ heap[c].kind # "none"
      BY <1>2, ChildrenFacts, MemoryFacts DEF Inv
    <3> QED BY <1>1, <1>2, <3>1, <3>2 DEF Apart
  <2>2. CASE heap[a].kind = "none"
    <3>1. heap'[a] = h[a] /\ Children(h[a]) = {}
      BY <1>1, <1>10, <2>2 DEF Prepared
    <3> QED BY <3>1
  <2> QED BY <2>1, <2>2
<1>11. PICK rank \in [Addr -> Nat] : Descends(heap, rank)
  BY <1>2 DEF Ranked
<1> DEFINE r == IF IsRef(v) THEN rank[v.at] + 1 ELSE 0
           up == [a \in Addr |-> IF a = o THEN r ELSE IF a = l THEN r + rank[l] + 1 ELSE rank[a]]
<1>12. r \in Nat /\ (IsRef(v) => rank[v.at] < r /\ rank[v.at] \in Nat)
  BY <1>5
<1> HIDE DEF r
<1>13. /\ up \in [Addr -> Nat] /\ up[o] = r /\ up[l] = r + rank[l] + 1
       /\ \A a \in Addr : a # o /\ a # l => up[a] = rank[a]
  BY <1>1, <1>12
<1> HIDE DEF up
<1>14. ASSUME NEW a \in Addr, NEW c \in Children(heap'[a]) PROVE up[c] < up[a]
  <2>1. CASE a = o
    <3>1. IsRef(v) /\ c = v.at
      BY <1>4, <1>14, <2>1
    <3> QED BY <1>5, <1>12, <1>13, <2>1, <3>1
  <2>2. CASE a = l
    <3>1. rank[l] \in Nat
      BY <1>1
    <3>2. CASE c = o
      BY <1>12, <1>13, <2>2, <3>1, <3>2
    <3>3. CASE c \in Children(heap[l]) /\ c # o /\ c # l
      <4>1. c \in Addr
        BY <1>1, <1>2, <3>3, ChildrenFacts, MemoryFacts DEF Inv
      <4>2. rank[c] < rank[l] /\ rank[c] \in Nat
        BY <1>1, <1>11, <3>3, <4>1 DEF Descends
      <4> QED BY <1>12, <1>13, <2>2, <3>1, <3>3, <4>1, <4>2
    <3> QED BY <1>9, <1>14, <2>2, <3>2, <3>3
  <2>3. CASE a # o /\ a # l
    <3>1. c \in Children(heap[a]) /\ c # o /\ c # l /\ c \in Addr
      BY <1>10, <1>14, <2>3
    <3> QED BY <1>11, <1>13, <2>3, <3>1 DEF Descends
  <2> QED BY <2>1, <2>2, <2>3
<1>15. Ranked(heap')
  BY <1>13, <1>14 DEF Ranked, Descends
<1>16. Apart(heap', stack, globals, l)
  <2>1. ASSUME NEW a \in Addr PROVE l \notin Children(heap'[a])
    <3>1. CASE a = o
      BY <1>4, <1>5, <3>1
    <3>2. CASE a = l
      BY <1>1, <1>9, <3>2
    <3>3. CASE a # o /\ a # l
      BY <1>10, <3>3
    <3> QED BY <3>1, <3>2, <3>3
  <2> QED BY <1>2, <2>1 DEF Apart
<1>17. Copied(heap', stack, l)
  <2>1. ASSUME NEW i \in DOMAIN q PROVE heap'[q[i]].val = stack[Len(stack) - Len(q) + i - 1]
    <3>1. CASE i = 1
      <4>1. Len(stack) - Len(q) + 1 - 1 = Len(stack) - Len(s)
        BY <1>1
      <4> QED BY <1>1, <3>1, <4>1 DEF v
    <3>2. CASE i # 1
      <4>1. i \in DOMAIN s /\ q[i] = s[i] /\ s[i] # BEEF
        BY <1>1, <1>6, <2>1, <3>2
      <4>2. heap[s[i]].val = stack[Len(stack) - Len(s) + i - 1]
        BY <1>2, <4>1 DEF Copied, s
      <4> QED BY <1>1, <1>7, <3>2, <4>1, <4>2
    <3> QED BY <3>1, <3>2
  <2> QED BY <2>1 DEF Copied, q
<1> QED BY <1>15, <1>16, <1>17 DEF l

(* Booking or not, a simple element is an element.                          *)
LEMMA SimpleIsElement ==
  ASSUME SeenInv, NEW o \in Addr, SimpleElement(o)
  PROVE  prim.op = "elem" /\ Prepared(heap) /\ heap[o].kind = "none" /\ Element(heap, o) /\ Inv'
<1>1. MemoryInv(heap, pool) /\ Inv'
  BY SimpleElementKeeps DEF SeenInv, Inv
<1>2. prim.op = "elem" /\ o \in Blocks("obj") /\ "obj" \in Kinds /\ Element(heap, o)
  BY DEF SimpleElement, Kinds
<1>3. heap[o].kind = "none"
  BY <1>1, <1>2, FreshBlocks
<1>4. Prepared(heap)
  <2>1. \A a \in Addr : heap[a].kind = "none" => Children(heap[a]) = {}
    BY DEF Children
  <2> QED BY <1>1, <2>1, MemoryFacts DEF Prepared
<1> QED BY <1>1, <1>2, <1>3, <1>4

(* So is one of a composite type, after its inner structure.                *)
LEMMA CompositeIsElement ==
  ASSUME SeenInv, NEW o \in Addr, NEW i \in Addr, CompositeElement(o, i), Available > 1
  PROVE  LET h == [heap EXCEPT ![i] = NewInner("list", GEN_1_OBJ)]
         IN  prim.op = "elem" /\ Prepared(h) /\ h[o].kind = "none" /\ Element(h, o) /\ Inv'
<1> DEFINE b == NewInner("list", GEN_1_OBJ)
           h == [heap EXCEPT ![i] = b]
<1>1. MemoryInv(heap, pool) /\ heap \in [Addr -> Block] /\ Inv'
  BY CompositeElementKeeps, MemoryFacts DEF SeenInv, Inv
<1>2. prim.op = "elem" /\ o \in Blocks("obj") /\ i \in Blocks("list") /\ o # i /\ Element(h, o)
  BY DEF CompositeElement
<1>3. heap[o].kind = "none" /\ heap[i].kind = "none"
  BY <1>1, <1>2, FreshBlocks DEF Kinds
<1>4. b \in Block /\ Children(b) = {}
  BY NewBlocks, GenFacts, NoChildren
<1> HIDE DEF b
<1>5. h \in [Addr -> Block] /\ h[i] = b /\ \A a \in Addr : a # i => h[a] = heap[a]
  BY <1>1, <1>4
<1> HIDE DEF h
<1>6. Prepared(h)
  <2>1. \A a \in Addr : heap[a].kind = "none" => Children(heap[a]) = {}
    BY DEF Children
  <2> QED BY <1>3, <1>4, <1>5, <2>1 DEF Prepared
<1>7. h[o].kind = "none"
  BY <1>2, <1>3, <1>5
<1> QED BY <1>1, <1>2, <1>6, <1>7 DEF h, b

(* An element keeps the list apart, or ends it.                             *)
LEMMA ElementKeepsSeen ==
  ASSUME SeenInv, Inv', prim.op = "elem",
         NEW h, Prepared(h), NEW o \in Addr, h[o].kind = "none", Element(h, o)
  PROVE  SeenInv'
<1>1. Ranked(heap') /\ Apart(heap', stack, globals, TheList) /\ Copied(heap', stack, TheList)
  BY ElementSeen
<1>2. TheList = stack[Len(stack)].at
  BY DEF TheList
<1>3. Making(heap', stack', globals', prim')
  <2>1. CASE Done = prim.n
    BY <2>1, ElementFields, IdleFacts DEF Making, Building
  <2>2. CASE Done # prim.n
    <3>1. stack' = stack /\ globals' = globals
      BY <2>2, ElementFields
    <3> QED BY <1>1, <1>2, <3>1 DEF Making
  <2> QED BY <2>1, <2>2
<1> QED BY <1>1, <1>3 DEF SeenInv

(* Empty memory has ranks.                                                  *)
LEMMA InitSeen == Init => SeenInv
<1> SUFFICES ASSUME Init PROVE SeenInv
  OBVIOUS
<1>1. Inv /\ heap = [a \in Addr |-> Unused] /\ prim = Idle
  BY InitInv DEF Init
<1>2. [a \in Addr |-> 0] \in [Addr -> Nat] /\ \A a \in Addr : Children(heap[a]) = {}
  BY <1>1, UnusedLeadsNowhere
<1>3. Ranked(heap)
  BY <1>2 DEF Ranked, Descends
<1> QED BY <1>1, <1>3, IdleFacts DEF SeenInv, Making, Building

(* Every step keeps ranks and the list in the making.                       *)
LEMMA NextSeen == SeenInv /\ [Next]_vars => SeenInv'
<1> SUFFICES ASSUME SeenInv, [Next]_vars PROVE SeenInv'
  OBVIOUS
<1>0. Inv'
  BY NextInv DEF SeenInv
<1>1. ASSUME NEW i \in Imm, PushConst(i) PROVE SeenInv'
  BY <1>0, <1>1, IdleSeen, IdleFacts DEF PushConst, Push, Ready
<1>2. ASSUME NEW i \in 1 .. MaxStack, LocalRef(i) \/ GlobalRef(i) PROVE SeenInv'
  BY <1>0, <1>2, IdleSeen, IdleFacts DEF LocalRef, GlobalRef, Push, Ready
<1>3. ASSUME NEW n \in 0 .. MaxStack, ListLiteral(n) PROVE SeenInv'
  BY <1>0, <1>3, IdleSeen DEF ListLiteral
<1>4. ASSUME NEW a \in Addr, Inner(a) \/ SimpleElement(a) PROVE SeenInv'
  BY <1>4, InnerSeen, SimpleIsElement, ElementKeepsSeen
<1>5. ASSUME NEW a \in Addr, NEW b \in Addr, CompositeElement(a, b) PROVE SeenInv'
  <2>1. CASE Available > 1
    BY <1>5, <2>1, CompositeIsElement, ElementKeepsSeen
  <2>2. CASE ~(Available > 1)
    <3>1. UNCHANGED <<heap, stack, globals, prim>>
      BY <1>5, <2>2 DEF CompositeElement
    <3> QED BY <1>0, <3>1 DEF SeenInv
  <2> QED BY <2>1, <2>2
<1>6. CASE Node
  BY <1>6, NodeSeen
<1>7. CASE Drop
  BY <1>0, <1>7, IdleSeen, IdleFacts DEF Drop, Ready
<1>8. CASE Car
  BY <1>0, <1>8, IdleSeen, IdleFacts DEF Car, Ready
<1>9. CASE Gc
  BY <1>9, GcSeen
<1>10. CASE EndGlobals
  BY <1>0, <1>10, IdleSeen, IdleFacts DEF EndGlobals, Ready
<1>11. CASE Halt
  BY <1>11, HaltSeen
<1>12. CASE UNCHANGED vars
  BY <1>0, <1>12 DEF vars, SeenInv
<1> QED BY <1>1, <1>2, <1>3, <1>4, <1>5, <1>6, <1>7, <1>8, <1>9, <1>10, <1>11, <1>12 DEF Next

------------------------------------------------------------------------------
(* What is seen of a sequence of values.                                    *)

SightsOf(h) == {Sight(h)[v] : v \in Values}

(* What is seen of a sequence has its length.                               *)
LEMMA SeeIs ==
  ASSUME NEW h, NEW s \in Seq(Values)
  PROVE  /\ See(h, s) \in Seq(SightsOf(h)) /\ Len(See(h, s)) = Len(s)
         /\ \A i \in 1 .. Len(s) : See(h, s)[i] = Sight(h)[s[i]]
<1>1. DOMAIN s = 1 .. Len(s) /\ Len(s) \in Nat /\ \A i \in 1 .. Len(s) : s[i] \in Values
  OBVIOUS
<1>2. See(h, s) = [i \in 1 .. Len(s) |-> Sight(h)[s[i]]]
  BY <1>1 DEF See
<1>3. \A i \in 1 .. Len(s) : Sight(h)[s[i]] \in SightsOf(h)
  BY <1>1 DEF SightsOf
<1> QED BY <1>1, <1>2, <1>3

(* Sequences that agree are equal.                                          *)
LEMMA SameSequence ==
  ASSUME NEW S, NEW T, NEW s \in Seq(S), NEW t \in Seq(T), Len(s) = Len(t), \A i \in 1 .. Len(s) : s[i] = t[i]
  PROVE  s = t
<1>1. DOMAIN s = 1 .. Len(s) /\ DOMAIN t = 1 .. Len(s)
  OBVIOUS
<1>2. s = [i \in 1 .. Len(s) |-> s[i]] /\ t = [i \in 1 .. Len(s) |-> t[i]]
  BY <1>1
<1> QED BY <1>2

(* A part of a sequence.                                                    *)
LEMMA PartFacts ==
  ASSUME NEW S, NEW s \in Seq(S), NEW m \in 0 .. Len(s), NEW n \in m .. Len(s)
  PROVE  /\ SubSeq(s, m + 1, n) \in Seq(S) /\ Len(SubSeq(s, m + 1, n)) = n - m
         /\ \A i \in 1 .. n - m : SubSeq(s, m + 1, n)[i] = s[m + i]
<1>1. m \in Nat /\ n \in Nat /\ m <= n /\ n <= Len(s) /\ Len(s) \in Nat
  OBVIOUS
<1>2. Len(SubSeq(s, m + 1, n)) = n - m
  BY <1>1
<1>3. \A i \in 1 .. n - m : SubSeq(s, m + 1, n)[i] = s[m + i]
  BY <1>1
<1>4. SubSeq(s, m + 1, n) \in Seq(S)
  BY <1>1
<1> QED BY <1>2, <1>3, <1>4

(* What is seen of a push,                                                  *)
LEMMA SeeAppend ==
  ASSUME NEW h, NEW s \in Seq(Values), NEW v \in Values
  PROVE  See(h, Append(s, v)) = Append(See(h, s), Sight(h)[v])
<1> DEFINE t == Append(s, v)
           e == Append(See(h, s), Sight(h)[v])
<1>1. t \in Seq(Values) /\ Len(t) = Len(s) + 1 /\ Len(s) \in Nat /\ t[Len(t)] = v
      /\ \A i \in 1 .. Len(s) : t[i] = s[i]
  OBVIOUS
<1>2. Sight(h)[v] \in SightsOf(h) /\ See(h, s) \in Seq(SightsOf(h)) /\ Len(See(h, s)) = Len(s)
      /\ \A i \in 1 .. Len(s) : See(h, s)[i] = Sight(h)[s[i]]
  <2>1. Sight(h)[v] \in SightsOf(h)
    BY DEF SightsOf
  <2> QED BY <2>1, SeeIs
<1>3. e \in Seq(SightsOf(h)) /\ Len(e) = Len(s) + 1 /\ e[Len(e)] = Sight(h)[v]
      /\ \A i \in 1 .. Len(s) : e[i] = See(h, s)[i]
  BY <1>1, <1>2
<1> HIDE DEF t, e
<1>4. See(h, t) \in Seq(SightsOf(h)) /\ Len(See(h, t)) = Len(t) /\ \A i \in 1 .. Len(t) : See(h, t)[i] = Sight(h)[t[i]]
  BY <1>1, SeeIs
<1>5. \A i \in 1 .. Len(s) + 1 : i \in 1 .. Len(s) \/ i = Len(s) + 1
  BY <1>1
<1>6. See(h, t) = e
  BY <1>1, <1>2, <1>3, <1>4, <1>5, SameSequence
<1> QED BY <1>6 DEF t, e

(* of a part of a sequence,                                                 *)
LEMMA SeePart ==
  ASSUME NEW h, NEW s \in Seq(Values), NEW m \in 0 .. Len(s), NEW n \in m .. Len(s)
  PROVE  See(h, SubSeq(s, m + 1, n)) = SubSeq(See(h, s), m + 1, n)
<1> DEFINE t == SubSeq(s, m + 1, n)
           e == SubSeq(See(h, s), m + 1, n)
<1>1. m \in Nat /\ n \in Nat /\ m <= n /\ n <= Len(s) /\ Len(s) \in Nat
  OBVIOUS
<1>2. t \in Seq(Values) /\ Len(t) = n - m /\ \A i \in 1 .. n - m : t[i] = s[m + i]
  BY <1>1, PartFacts
<1>3. /\ See(h, s) \in Seq(SightsOf(h)) /\ Len(See(h, s)) = Len(s)
      /\ \A i \in 1 .. Len(s) : See(h, s)[i] = Sight(h)[s[i]]
  BY SeeIs
<1>4. e \in Seq(SightsOf(h)) /\ Len(e) = n - m /\ \A i \in 1 .. n - m : e[i] = See(h, s)[m + i]
  BY <1>1, <1>3, PartFacts
<1> HIDE DEF t, e
<1>5. /\ See(h, t) \in Seq(SightsOf(h)) /\ Len(See(h, t)) = n - m
      /\ \A i \in 1 .. n - m : See(h, t)[i] = Sight(h)[t[i]]
  BY <1>2, SeeIs
<1>6. \A i \in 1 .. n - m : m + i \in 1 .. Len(s)
  BY <1>1
<1>7. \A i \in 1 .. n - m : See(h, t)[i] = e[i]
  <2> SUFFICES ASSUME NEW i \in 1 .. n - m PROVE See(h, t)[i] = e[i]
    OBVIOUS
  <2>1. See(h, t)[i] = Sight(h)[s[m + i]]
    BY <1>2, <1>5
  <2>2. e[i] = See(h, s)[m + i] /\ m + i \in 1 .. Len(s)
    BY <1>4, <1>6
  <2>3. See(h, s)[m + i] = Sight(h)[s[m + i]]
    BY <1>3, <2>2
  <2> QED BY <2>1, <2>2, <2>3
<1>8. See(h, t) = e
  BY <1>4, <1>5, <1>7, SameSequence
<1> QED BY <1>8 DEF t, e
(* and of the empty one.                                                    *)
LEMMA SeeEmpty ==
  ASSUME NEW h
  PROVE  See(h, <<>>) = <<>>
<1>1. <<>> \in Seq(Values) /\ Len(<<>>) = 0 /\ <<>> \in Seq({})
  OBVIOUS
<1>2. See(h, <<>>) \in Seq(SightsOf(h)) /\ Len(See(h, <<>>)) = 0
  BY <1>1, SeeIs
<1> QED BY <1>1, <1>2, SameSequence

(* Values that lead into T look the same when T is.                         *)
LEMMA SeeSame ==
  ASSUME NEW h, NEW k, Clear(h), Clear(k), NEW T, SameWithin(h, k, T),
         NEW s \in Seq(Values), \A i \in DOMAIN s : Into(T, s[i])
  PROVE  See(k, s) = See(h, s)
<1>1. \A i \in DOMAIN s : s[i] \in Values /\ Into(T, s[i])
  OBVIOUS
<1>2. \A i \in DOMAIN s : Sight(k)[s[i]] = Sight(h)[s[i]]
  BY <1>1, SightSame
<1> QED BY <1>2 DEF See

------------------------------------------------------------------------------
(* Each step is one of the abstract machine, or nothing to it.              *)

(* What the invariant says of what is visible.                              *)
LEMMA SeenFacts ==
  ASSUME SeenInv
  PROVE  /\ Clear(heap) /\ stack \in Seq(Values) /\ globals \in Seq(Values) /\ Visible \in Seq(Values)
         /\ ~Building(prim) => Visible = stack
         /\ Building(prim) => /\ Len(stack) \in Nat \ {0} /\ Visible = SubSeq(stack, 1, Len(stack) - 1)
                              /\ Len(Visible) = Len(stack) - 1
                              /\ \A i \in 1 .. Len(Visible) : Visible[i] = stack[i]
<1>1. Clear(heap) /\ stack \in Seq(Values) /\ globals \in Seq(Values)
  BY MemoryFacts, DataFacts DEF SeenInv, Inv, Clear
<1>2. CASE ~Building(prim)
  BY <1>1, <1>2 DEF Visible, Building
<1>3. CASE Building(prim)
  <2>1. Len(stack) \in Nat \ {0} /\ Visible = SubSeq(stack, 1, Len(stack) - 1)
    BY <1>1, <1>3, ListOnTop DEF Visible, Building, SeenInv
  <2>2. 0 \in 0 .. Len(stack) /\ Len(stack) - 1 \in 0 .. Len(stack) /\ 0 + 1 = 1 /\ Len(stack) - 1 - 0 = Len(stack) - 1
    BY <2>1
  <2>3. /\ Visible \in Seq(Values) /\ Len(Visible) = Len(stack) - 1
        /\ \A i \in 1 .. Len(stack) - 1 : Visible[i] = stack[0 + i]
    BY <1>1, <2>1, <2>2, PartFacts
  <2> QED BY <1>1, <1>3, <2>1, <2>3
<1> QED BY <1>2, <1>3

(* Memory can be seen after the step, too.                                  *)
LEMMA SeenPrimed ==
  ASSUME SeenInv'
  PROVE  Clear(heap')
BY MemoryFacts DEF SeenInv, Inv, Clear

(* What is on the stack and in the globals looks the same when no block in  *)
(* memory changes but the list in the making.                               *)
LEMMA VisibleSame ==
  ASSUME SeenInv, SeenInv',
         \A a \in Addr : heap[a].kind # "none" /\ (Building(prim) => a # TheList) => Same(heap, heap', a)
  PROVE  See(heap', Visible) = See(heap, Visible) /\ See(heap', globals) = See(heap, globals)
<1> DEFINE T == {a \in Addr : heap[a].kind # "none" /\ (Building(prim) => a # TheList)}
<1>1. /\ Clear(heap) /\ Clear(heap') /\ globals \in Seq(Values) /\ stack \in Seq(Values) /\ Visible \in Seq(Values)
      /\ Inv
  BY SeenFacts, SeenPrimed DEF SeenInv
<1>2. Building(prim) => Apart(heap, stack, globals, TheList)
  BY DEF SeenInv, Making, TheList
<1>3. SameWithin(heap, heap', T)
  <2>1. ASSUME NEW a \in T PROVE Children(heap[a]) \subseteq T
    <3>1. \A c \in Children(heap[a]) : c \in Addr /\ heap[c].kind # "none"
      BY <1>1, ChildrenFacts, MemoryFacts DEF Inv
    <3> QED BY <1>2, <3>1 DEF Apart
  <2>2. \A a \in T : Sound(heap, heap[a]) /\ heap[a] \in Block
    BY <1>1, MemoryFacts DEF Inv
  <2> QED BY <2>1, <2>2 DEF SameWithin
<1>4. ASSUME NEW v, Placed(heap, v), Building(prim) => Into(Addr \ {TheList}, v) PROVE Into(T, v)
  BY <1>4, ValueFacts DEF Into, Placed
<1>5. \A i \in DOMAIN globals : Placed(heap, globals[i])
  BY <1>1, DataFacts DEF Inv
<1>6. \A i \in DOMAIN stack : Placed(heap, stack[i])
  BY <1>1, DataFacts DEF Inv
<1>7. \A i \in DOMAIN globals : Into(T, globals[i])
  BY <1>2, <1>4, <1>5 DEF Apart
<1>8. \A i \in DOMAIN Visible : Into(T, Visible[i])
  <2>1. CASE ~Building(prim)
    BY <1>4, <1>6, <2>1, SeenFacts
  <2>2. CASE Building(prim)
    <3> SUFFICES ASSUME NEW i \in DOMAIN Visible PROVE Into(T, Visible[i])
      OBVIOUS
    <3>1. i \in DOMAIN stack /\ i # Len(stack) /\ Visible[i] = stack[i]
      BY <1>1, <2>2, SeenFacts
    <3> QED BY <1>2, <1>4, <1>6, <2>2, <3>1 DEF Apart
  <2> QED BY <2>1, <2>2
<1> HIDE DEF T
<1> QED BY <1>1, <1>3, <1>7, <1>8, SeeSame

(* Nor does a collection show.                                              *)
LEMMA GcMaps ==
  ASSUME SeenInv, SeenInv', Gc
  PROVE  See(heap', Visible') = See(heap, Visible) /\ See(heap', globals') = See(heap, globals)
<1>1. /\ Clear(heap) /\ Clear(heap') /\ globals \in Seq(Values) /\ stack \in Seq(Values) /\ Visible \in Seq(Values)
      /\ Inv
  BY SeenFacts, SeenPrimed DEF SeenInv
<1>2. prim.op # "idle" /\ UNCHANGED <<stack, prim, globals>>
  BY DEF Gc, Pending
<1>3. Refs(stack) \cup Refs(globals) \subseteq Live
  BY <1>1, <1>2, PhaseOfPending, RootsLive
<1>4. SameWithin(heap, heap', Live)
  <2>1. \A a \in Live : a \in Addr /\ Sound(heap, heap[a]) /\ heap[a] \in Block /\ Children(heap[a]) \subseteq Live
    BY <1>1, LiveIsClosed, MemoryFacts DEF Live, Inv
  <2>2. \A a \in Live : Same(heap, heap', a)
    BY <1>1, <2>1, GcSpares, AgedFields DEF Same
  <2> QED BY <2>1, <2>2 DEF SameWithin
<1>5. \A i \in DOMAIN globals : Into(Live, globals[i])
  BY <1>3 DEF Refs, Into
<1>6. \A i \in DOMAIN stack : Into(Live, stack[i])
  BY <1>3 DEF Refs, Into
<1>7. \A i \in DOMAIN Visible : Into(Live, Visible[i])
  <2>1. CASE ~Building(prim)
    BY <1>6, <2>1, SeenFacts
  <2>2. CASE Building(prim)
    <3> SUFFICES ASSUME NEW i \in DOMAIN Visible PROVE Into(Live, Visible[i])
      OBVIOUS
    <3>1. i \in DOMAIN stack /\ Visible[i] = stack[i]
      BY <1>1, <2>2, SeenFacts
    <3> QED BY <1>6, <3>1
  <2> QED BY <2>1, <2>2
<1>8. See(heap', Visible) = See(heap, Visible) /\ See(heap', globals) = See(heap, globals)
  BY <1>1, <1>4, <1>5, <1>7, SeeSame
<1>9. Visible' = Visible
  BY <1>2 DEF Visible
<1> QED BY <1>2, <1>8, <1>9

\* The Objects of q hold the values of w.
Filled(h, q, w) ==
  /\ q \in Seq(Addr \cup {BEEF}) /\ Len(q) = Len(w)
  /\ \A i \in 1 .. Len(w) : q[i] \in Addr /\ h[q[i]].kind = "obj" /\ h[q[i]].val = w[i]

(* What is read of a list: a tree of what its elements hold.                *)
LEMMA ListLook ==
  ASSUME NEW h, Clear(h), NEW v \in Values, IsRef(v), h[v.at].kind = "list", NEW w \in Seq(Values),
         Filled(h, h[v.at].items, w)
  PROVE  Sight(h)[v] = Data!Tree(See(h, w))
<1> DEFINE q == h[v.at].items
           t == [i \in DOMAIN q |-> Item(h, Sight(h), q[i])]
<1>1. Sight(h)[v] = Look(h, Sight(h), v)
  BY SightIs DEF Clear
<1>2. Look(h, Sight(h), v) = [kind |-> "list", imm |-> NULL, items |-> t]
  BY DEF Look
<1>3. DOMAIN q = 1 .. Len(w) /\ Len(w) \in Nat
  BY DEF Filled
<1>4. \A i \in 1 .. Len(w) : Item(h, Sight(h), q[i]) = Sight(h)[w[i]]
  BY DEF Item, Filled
<1> HIDE DEF q
<1>5. DOMAIN w = 1 .. Len(w)
  OBVIOUS
<1>6. t = See(h, w)
  BY <1>3, <1>4, <1>5 DEF See
<1> HIDE DEF t
<1> QED BY <1>1, <1>2, <1>6 DEF Data!Tree

(* What is read of an immediate.                                            *)
LEMMA ImmediateLook ==
  ASSUME NEW h, Clear(h), NEW i \in Imm
  PROVE  Sight(h)[Value("imm", i)] = Data!Leaf(i)
<1>1. Value("imm", i) \in Values /\ ~IsRef(Value("imm", i)) /\ Value("imm", i).at = i
  BY ValueIsIn DEF Value
<1>2. Sight(h)[Value("imm", i)] = Look(h, Sight(h), Value("imm", i))
  BY <1>1, SightIs DEF Clear
<1> QED BY <1>1, <1>2 DEF Look, Data!Leaf

(* A push.                                                                  *)
LEMMA PushMaps ==
  ASSUME SeenInv, NEW v \in Values, Ready, stack' = Append(stack, v), UNCHANGED <<heap, prim, globals, phase>>
  PROVE  /\ Visible = stack /\ phase # "stop"
         /\ See(heap', Visible') = Append(See(heap, Visible), Sight(heap)[v])
         /\ See(heap', globals') = See(heap, globals)
<1>1. ~Building(prim) /\ phase # "stop" /\ prim = Idle
  BY IdleFacts DEF Ready, Building
<1>2. Visible = stack /\ Visible' = Append(stack, v) /\ stack \in Seq(Values)
  BY <1>1, SeenFacts, IdleFacts DEF Visible
<1> QED BY <1>1, <1>2, SeeAppend

(* The operations on the stack are those of the abstract machine: a         *)
(* constant,                                                                *)
LEMMA ConstMaps ==
  ASSUME SeenInv, NEW i \in Imm, PushConst(i)
  PROVE  Data!Next
<1> DEFINE v == Value("imm", i)
<1>1. Ready /\ stack' = Append(stack, v) /\ UNCHANGED <<heap, prim, globals, phase>>
  BY DEF PushConst, Push
<1>2. v \in Values /\ Sight(heap)[v] = Data!Leaf(i)
  BY ValueIsIn, SeenFacts, ImmediateLook
<1> HIDE DEF v
<1>3. /\ phase # "stop" /\ phase' = phase
      /\ See(heap', Visible') = Append(See(heap, Visible), Data!Leaf(i))
      /\ See(heap', globals') = See(heap, globals)
  BY <1>1, <1>2, PushMaps
<1>4. Data!Push(Data!Leaf(i))
  BY <1>3 DEF Data!Push
<1>5. Data!Const
  BY <1>4 DEF Data!Const
<1> QED BY <1>3, <1>5 DEF Data!Next

(* a local,                                                                 *)
LEMMA CopyMaps ==
  ASSUME SeenInv, NEW i \in 1 .. MaxStack, LocalRef(i)
  PROVE  Data!Next
<1>0. MaxStack \in Nat /\ i \in 1 .. Len(stack) /\ stack \in Seq(Values)
  BY ObgGcAssumption, SeenFacts DEF LocalRef
<1>1. Ready /\ stack' = Append(stack, stack[i]) /\ UNCHANGED <<heap, prim, globals, phase>>
  BY DEF LocalRef, Push
<1>2. stack[i] \in Values
  BY <1>0
<1>3. /\ phase # "stop" /\ phase' = phase /\ Visible = stack
      /\ See(heap', Visible') = Append(See(heap, Visible), Sight(heap)[stack[i]])
      /\ See(heap', globals') = See(heap, globals)
  BY <1>1, <1>2, PushMaps
<1>4. i \in 1 .. Len(See(heap, Visible)) /\ See(heap, Visible)[i] = Sight(heap)[stack[i]]
  BY <1>0, <1>3, SeeIs
<1>5. Data!Push(See(heap, Visible)[i])
  BY <1>3, <1>4 DEF Data!Push
<1>6. Data!Copy
  BY <1>4, <1>5 DEF Data!Copy
<1> QED BY <1>3, <1>6 DEF Data!Next

(* a global,                                                                *)
LEMMA GlobalMaps ==
  ASSUME SeenInv, NEW i \in 1 .. MaxStack, GlobalRef(i)
  PROVE  Data!Next
<1>0. MaxStack \in Nat /\ i \in 1 .. Len(globals) /\ globals \in Seq(Values)
  BY ObgGcAssumption, SeenFacts DEF GlobalRef
<1>1. Ready /\ stack' = Append(stack, globals[i]) /\ UNCHANGED <<heap, prim, globals, phase>>
  BY DEF GlobalRef, Push
<1>2. globals[i] \in Values
  BY <1>0
<1>3. /\ phase # "stop" /\ phase' = phase
      /\ See(heap', Visible') = Append(See(heap, Visible), Sight(heap)[globals[i]])
      /\ See(heap', globals') = See(heap, globals)
  BY <1>1, <1>2, PushMaps
<1>4. i \in 1 .. Len(See(heap, globals)) /\ See(heap, globals)[i] = Sight(heap)[globals[i]]
  BY <1>0, SeeIs
<1>5. Data!Push(See(heap, globals)[i])
  BY <1>3, <1>4 DEF Data!Push
<1>6. Data!Global
  BY <1>4, <1>5 DEF Data!Global
<1> QED BY <1>3, <1>6 DEF Data!Next

(* The steps between literals that make the stack shorter or change its top. *)
LEMMA IdleVisible ==
  ASSUME SeenInv, Ready, prim' = prim
  PROVE  Visible = stack /\ Visible' = stack' /\ phase # "stop"
BY SeenFacts, IdleFacts DEF Ready, Building, Visible

(* a pop,                                                                   *)
LEMMA DropMaps ==
  ASSUME SeenInv, Drop
  PROVE  Data!Next
<1>1. /\ Ready /\ stack # <<>> /\ stack' = SubSeq(stack, 1, Len(stack) - 1)
      /\ UNCHANGED <<heap, prim, globals, phase>>
  BY DEF Drop
<1>2. stack \in Seq(Values) /\ Visible = stack /\ Visible' = stack' /\ phase # "stop"
  BY <1>1, SeenFacts, IdleVisible
<1>3. Len(stack) \in Nat /\ Len(stack) - 1 \in 0 .. Len(stack) /\ 0 \in 0 .. Len(stack) /\ 0 + 1 = 1
  BY <1>1, <1>2
<1>4. Len(See(heap, stack)) = Len(stack)
  BY <1>2, SeeIs
<1>5. See(heap, SubSeq(stack, 1, Len(stack) - 1)) = SubSeq(See(heap, stack), 1, Len(stack) - 1)
  BY <1>2, <1>3, SeePart
<1>6. See(heap, Visible) # <<>>
  BY <1>1, <1>2, <1>3, <1>4
<1>7. Data!Drop
  BY <1>1, <1>2, <1>4, <1>5, <1>6 DEF Data!Drop
<1> QED BY <1>2, <1>7 DEF Data!Next

(* and car, which reads the memory of a list.                               *)
LEMMA CarMaps ==
  ASSUME SeenInv, SeenInv', Car
  PROVE  Data!Next
<1> DEFINE n == Len(stack)
           v == stack[n]
           q == heap[v.at].items
           u == heap[q[1]].val
<1>1. /\ Ready /\ stack # <<>> /\ v.type = "list" /\ q # <<>> /\ stack' = [stack EXCEPT ![n] = u]
      /\ UNCHANGED <<heap, prim, globals, phase>>
  BY DEF Car
<1>2. /\ stack \in Seq(Values) /\ Visible = stack /\ Visible' = stack' /\ phase # "stop" /\ Clear(heap) /\ Inv
      /\ stack' \in Seq(Values)
  BY <1>1, SeenFacts, IdleVisible DEF SeenInv, Inv, DataInv
<1>3. n \in Nat \ {0} /\ n \in DOMAIN stack /\ v \in Values /\ Placed(heap, v) /\ IsRef(v)
  BY <1>1, <1>2, TopIsThere, DataFacts DEF Inv, IsRef
<1>4. v.at \in Addr /\ heap[v.at].kind = "list"
  BY <1>3, ValueFacts DEF Placed
<1>5. q \in Seq(Addr \cup {BEEF}) /\ 1 \in DOMAIN q
  <2>1. q \in Seq(Addr \cup {BEEF})
    BY <1>2, <1>4, MemoryFacts, BlockFields DEF Inv
  <2> QED BY <1>1, <2>1
<1>6. q[1] \in Addr /\ heap[q[1]].kind = "obj"
  <2>1. NoHalf(heap)
    BY <1>1, <1>2, IdleFacts, NoHalfFacts DEF Inv, Ready
  <2>2. Sound(heap, heap[v.at])
    BY <1>2, <1>4, MemoryFacts DEF Inv
  <2>3. q[1] # BEEF
    BY <1>4, <1>5, <2>1 DEF NoHalf
  <2> QED BY <1>4, <1>5, <2>2, <2>3 DEF Sound, SoundItem
<1>7. Sight(heap)[v] = Look(heap, Sight(heap), v)
  BY <1>2, <1>3, SightIs DEF Clear
<1>8. Look(heap, Sight(heap), v).items = [i \in DOMAIN q |-> Item(heap, Sight(heap), q[i])]
  BY <1>3, <1>4 DEF Look
<1>9. Item(heap, Sight(heap), q[1]) = Sight(heap)[u]
  BY <1>6 DEF Item
<1> HIDE DEF u, q
<1>10. Sight(heap)[v].items # <<>> /\ Sight(heap)[v].items[1] = Sight(heap)[u]
  <2>1. Sight(heap)[v].items = [i \in DOMAIN q |-> Item(heap, Sight(heap), q[i])]
    BY <1>7, <1>8
  <2>2. DOMAIN Sight(heap)[v].items = DOMAIN q
    BY <2>1
  <2>3. DOMAIN Sight(heap)[v].items # {}
    BY <1>5, <2>2
  <2>4. DOMAIN <<>> = {}
    OBVIOUS
  <2>5. Sight(heap)[v].items # <<>>
    BY <2>3, <2>4
  <2> QED BY <1>5, <1>9, <2>1, <2>5
<1> HIDE DEF v, n
<1>11. /\ See(heap, stack) \in Seq(SightsOf(heap)) /\ Len(See(heap, stack)) = n
       /\ \A i \in 1 .. n : See(heap, stack)[i] = Sight(heap)[stack[i]]
  BY <1>2, SeeIs DEF n
<1>12. /\ DOMAIN stack' = DOMAIN stack /\ DOMAIN stack = 1 .. n
       /\ \A i \in 1 .. n : stack'[i] = IF i = n THEN u ELSE stack[i]
  BY <1>1, <1>2, <1>3 DEF n
<1>13. See(heap, stack') = [See(heap, stack) EXCEPT ![n] = Sight(heap)[u]]
  <2>1. See(heap, stack) = [i \in 1 .. n |-> Sight(heap)[stack[i]]]
    BY <1>12 DEF See
  <2>2. See(heap, stack') = [i \in 1 .. n |-> Sight(heap)[stack'[i]]]
    BY <1>12 DEF See
  <2>3. [See(heap, stack) EXCEPT ![n] = Sight(heap)[u]]
        = [i \in 1 .. n |-> IF i = n THEN Sight(heap)[u] ELSE Sight(heap)[stack[i]]]
    BY <2>1
  <2>4. \A i \in 1 .. n : Sight(heap)[stack'[i]] = IF i = n THEN Sight(heap)[u] ELSE Sight(heap)[stack[i]]
    BY <1>12
  <2> QED BY <2>2, <2>3, <2>4
<1>14. See(heap, stack)[n] = Sight(heap)[v]
  BY <1>3, <1>11 DEF v
<1>15. See(heap, stack) # <<>>
  BY <1>3, <1>11
<1>16. Data!Car
  BY <1>1, <1>2, <1>10, <1>11, <1>13, <1>14, <1>15 DEF Data!Car
<1> QED BY <1>2, <1>16 DEF Data!Next

(* All of a sequence and nothing of it.                                     *)
LEMMA WholeAndTail ==
  ASSUME NEW S, NEW s \in Seq(S), NEW t
  PROVE  /\ SubSeq(s, 1, Len(s) - 0) = s /\ SubSeq(s, Len(s) - 0 + 1, Len(s)) = <<>>
         /\ Append(s, t) = s \o <<t>> /\ 0 \in 0 .. Len(s)
<1>1. Len(s) \in Nat /\ Len(s) - 0 = Len(s) /\ 0 + 1 = 1
  OBVIOUS
<1>2. SubSeq(s, 1, Len(s)) = s
  <2>1. SubSeq(s, 1, Len(s)) \in Seq(S) /\ Len(SubSeq(s, 1, Len(s))) = Len(s)
        /\ \A i \in 1 .. Len(s) : SubSeq(s, 1, Len(s))[i] = s[i]
    BY <1>1
  <2> QED BY <2>1, SameSequence
<1>3. SubSeq(s, Len(s) + 1, Len(s)) = <<>>
  BY <1>1
<1>4. Append(s, t) = s \o <<t>>
  OBVIOUS
<1> QED BY <1>1, <1>2, <1>3, <1>4

(* The globals are what was seen of the stack,                              *)
LEMMA EndGlobalsMaps ==
  ASSUME SeenInv, EndGlobals
  PROVE  Data!Next
<1>1. /\ Ready /\ phase = "globals" /\ globals' = stack /\ stack' = <<>> /\ phase' = "run"
      /\ UNCHANGED <<heap, prim>>
  BY DEF EndGlobals
<1>2. Visible = stack /\ Visible' = stack'
  BY <1>1, IdleVisible
<1>3. Data!EndGlobals
  BY <1>1, <1>2, SeeEmpty DEF Data!EndGlobals
<1> QED BY <1>3 DEF Data!Next

(* and HALT leaves nothing to see.                                          *)
LEMMA HaltMaps ==
  ASSUME SeenInv, Halt
  PROVE  Data!Next
<1>1. /\ Ready /\ phase = "run" /\ globals' = <<>> /\ stack' = <<>> /\ phase' = "stop" /\ prim' = prim
  BY DEF Halt
<1>2. Visible' = stack'
  BY <1>1, IdleVisible
<1>3. Data!Halt
  BY <1>1, <1>2, SeeEmpty DEF Data!Halt
<1> QED BY <1>3 DEF Data!Next

\* Nothing happens to the abstract machine.
Unseen == See(heap', Visible') = See(heap, Visible) /\ See(heap', globals') = See(heap, globals) /\ phase' = phase

(* A literal begins unseen.                                                 *)
LEMMA ListLiteralMaps ==
  ASSUME SeenInv, NEW n \in 0 .. MaxStack, ListLiteral(n)
  PROVE  Unseen
<1>1. Ready /\ prim'.op = "inner" /\ UNCHANGED <<heap, stack, globals, phase>>
  BY DEF ListLiteral
<1>2. Visible' = Visible
  BY <1>1, IdleFacts DEF Visible, Ready
<1> QED BY <1>1, <1>2 DEF Unseen

(* The list in the making changes unseen.                                   *)
LEMMA NodeMaps ==
  ASSUME SeenInv, SeenInv', Node
  PROVE  Unseen
<1>1. /\ prim.op = "node" /\ heap' = [heap EXCEPT ![TheList].items = <<BEEF>> \o @]
      /\ UNCHANGED <<stack, globals, phase>> /\ prim' = [prim EXCEPT !.op = "elem"]
  BY DEF Node
<1>2. heap \in [Addr -> Block]
  BY MemoryFacts DEF SeenInv, Inv
<1>3. \A a \in Addr : a # TheList => heap'[a] = heap[a]
  BY <1>1, <1>2
<1>4. See(heap', Visible) = See(heap, Visible) /\ See(heap', globals) = See(heap, globals)
  BY <1>1, <1>3, VisibleSame DEF Same, Building
<1>5. prim'.op = "elem"
  BY <1>1 DEF SeenInv, Inv, BuildInv
<1>6. Visible' = Visible
  BY <1>1, <1>5 DEF Visible
<1> QED BY <1>1, <1>4, <1>6 DEF Unseen

(* A list of no elements is complete at once, another is not yet seen.      *)
LEMMA InnerMaps ==
  ASSUME SeenInv, SeenInv', NEW l \in Addr, Inner(l)
  PROVE  Unseen \/ Data!Next
<1> DEFINE b == NewInner("list", Gen)
           v == Value("list", l)
<1>1. /\ prim.op = "inner" /\ l \in Blocks("list") /\ heap' = [heap EXCEPT ![l] = b] /\ stack' = Append(stack, v)
      /\ UNCHANGED <<globals, phase>> /\ prim' = IF prim.n = 0 THEN Idle ELSE [prim EXCEPT !.op = "node"]
  BY DEF Inner
<1>2. /\ MemoryInv(heap, pool) /\ prim \in [op : {"idle", "inner", "node", "elem"}, n : Nat]
      /\ Clear(heap') /\ stack \in Seq(Values) /\ Visible = stack /\ Inv
  BY <1>1, SeenFacts, SeenPrimed DEF SeenInv, Inv, BuildInv, Building
<1>3. heap[l].kind = "none" /\ heap \in [Addr -> Block]
  BY <1>1, <1>2, FreshBlocks, MemoryFacts DEF Kinds
<1>4. b.kind = "list" /\ b.items = <<>>
  BY NewBlocks, GenFacts
<1>5. v \in Values /\ v.at = l /\ IsRef(v)
  BY ValueIsIn
<1> HIDE DEF b, v
<1>6. See(heap', stack) = See(heap, stack) /\ See(heap', globals) = See(heap, globals)
  <2>1. \A a \in Addr : heap[a].kind # "none" => Same(heap, heap', a)
    BY <1>1, <1>3 DEF Same
  <2> QED BY <1>2, <2>1, VisibleSame
<1>7. CASE prim.n = 0
  <2>1. Visible' = stack'
    BY <1>1, <1>7, IdleFacts DEF Visible
  <2>2. Sight(heap')[v] = Data!Tree(<<>>)
    <3>1. heap'[v.at].kind = "list" /\ heap'[v.at].items = <<>>
      BY <1>1, <1>3, <1>4, <1>5
    <3>2. <<>> \in Seq(Values) /\ Filled(heap', <<>>, <<>>)
      BY DEF Filled
    <3>3. v \in Values /\ IsRef(v) /\ Filled(heap', heap'[v.at].items, <<>>) /\ Clear(heap')
      BY <1>2, <1>5, <3>1, <3>2
    <3>4. Sight(heap')[v] = Data!Tree(See(heap', <<>>))
      BY <3>1, <3>2, <3>3, ListLook
    <3> QED BY <3>4, SeeEmpty
  <2>3. See(heap', Visible') = Append(See(heap, Visible), Data!Tree(<<>>))
    <3>1. See(heap', Append(stack, v)) = Append(See(heap', stack), Sight(heap')[v])
      BY <1>2, <1>5, SeeAppend
    <3> QED BY <1>1, <1>2, <1>6, <2>1, <2>2, <3>1
  <2> DEFINE s == See(heap, Visible)
             t == Data!Tree(<<>>)
  <2>4. s \in Seq(SightsOf(heap))
    BY <1>2, SeeIs
  <2> HIDE DEF s, t
  <2>5. SubSeq(s, 1, Len(s) - 0) = s /\ SubSeq(s, Len(s) - 0 + 1, Len(s)) = <<>> /\ Append(s, t) = s \o <<t>>
        /\ 0 \in 0 .. Len(s)
    BY <2>4, WholeAndTail
  <2>6. Data!MakeList
    BY <1>1, <1>6, <2>3, <2>5 DEF Data!MakeList, s, t
  <2>7. phase # "stop"
    BY <1>1, <1>2, PhaseOfPending
  <2> QED BY <2>6, <2>7 DEF Data!Next
<1>8. CASE prim.n # 0
  <2>1. prim'.op = "node"
    BY <1>1, <1>2, <1>8
  <2>2. Len(stack') = Len(stack) + 1 /\ Len(stack) \in Nat /\ stack' \in Seq(Values)
        /\ \A i \in 1 .. Len(stack) : stack'[i] = stack[i]
    BY <1>1, <1>2, <1>5
  <2>3. Visible' = SubSeq(stack', 1, Len(stack))
    BY <2>1, <2>2 DEF Visible
  <2>4. SubSeq(stack', 1, Len(stack)) = stack
    <3>1. 0 \in 0 .. Len(stack') /\ Len(stack) \in 0 .. Len(stack') /\ 0 + 1 = 1 /\ Len(stack) - 0 = Len(stack)
      BY <2>2
    <3>2. /\ SubSeq(stack', 1, Len(stack)) \in Seq(Values) /\ Len(SubSeq(stack', 1, Len(stack))) = Len(stack)
          /\ \A i \in 1 .. Len(stack) : SubSeq(stack', 1, Len(stack))[i] = stack'[0 + i]
      BY <2>2, <3>1, PartFacts
    <3> QED BY <1>2, <2>2, <3>2, SameSequence
  <2> QED BY <1>1, <1>2, <1>6, <2>3, <2>4 DEF Unseen
<1> QED BY <1>7, <1>8

(* The last element makes the list of the objects that lie below it.        *)
LEMMA ElementMaps ==
  ASSUME SeenInv, SeenInv', prim.op = "elem",
         NEW h, Prepared(h), NEW o \in Addr, h[o].kind = "none", Element(h, o)
  PROVE  Unseen \/ Data!Next
<1> DEFINE l == TheList
           s == heap[l].items
           q == heap'[l].items
           n == Len(s)
           m == Len(Visible) - n
           w == SubSeq(Visible, m + 1, Len(Visible))
           v == stack[Len(stack)]
<1>1. /\ l \in Addr /\ l = v.at /\ heap[l].kind = "list" /\ l # o /\ heap[o].kind = "none"
      /\ n \in 1 .. prim.n /\ Done = n
      /\ prim.n \in Nat /\ prim.n < Len(stack) /\ stack \in Seq(Values)
      /\ heap'[l].kind = "list"
      /\ q \in Seq(Addr \cup {BEEF}) /\ Len(q) = n
      /\ \A a \in Addr : a \notin {o, l} => heap'[a] = h[a]
  BY ElementMemory
<1>2. /\ Visible \in Seq(Values) /\ Len(stack) \in Nat \ {0} /\ Visible = SubSeq(stack, 1, Len(stack) - 1)
      /\ Len(Visible) = Len(stack) - 1 /\ \A i \in 1 .. Len(Visible) : Visible[i] = stack[i]
      /\ Clear(heap') /\ Inv /\ Inv'
  BY SeenFacts, SeenPrimed DEF Building, SeenInv
<1>3. n \in Nat /\ n <= Len(Visible) /\ m \in 0 .. Len(Visible) /\ m \in Nat /\ Len(Visible) \in Nat
  <2>1. n \in Nat /\ n < Len(stack)
    BY <1>1
  <2> HIDE DEF n
  <2> QED BY <1>2, <2>1
<1>4. See(heap', Visible) = See(heap, Visible) /\ See(heap', globals) = See(heap, globals)
  <2>1. \A a \in Addr : heap[a].kind # "none" /\ a # l => Same(heap, heap', a)
    BY <1>1 DEF Same, Prepared
  <2> QED BY <2>1, VisibleSame DEF Building
<1>5. /\ Done = prim.n => prim' = Idle /\ stack' = Taken
      /\ Done # prim.n => prim' = [prim EXCEPT !.op = "node"] /\ stack' = stack
      /\ globals' = globals /\ phase' = phase
  BY ElementFields
<1>6. phase # "stop" /\ prim \in [op : {"idle", "inner", "node", "elem"}, n : Nat]
  BY <1>2, PhaseOfPending DEF Inv, BuildInv
<1>7. CASE Done # prim.n
  <2>1. prim'.op = "node"
    BY <1>5, <1>6, <1>7
  <2>2. Visible' = Visible
    BY <1>5, <1>7, <2>1 DEF Visible
  <2> QED BY <1>4, <1>5, <2>2 DEF Unseen
<1>8. CASE Done = prim.n
  <2>1. Visible' = Taken /\ prim' = Idle
    BY <1>5, <1>8, IdleFacts DEF Visible
  <2>2. /\ w \in Seq(Values) /\ Len(w) = n /\ \A i \in 1 .. n : w[i] = stack[m + i]
    <3>1. Len(Visible) \in m .. Len(Visible) /\ Len(Visible) - m = n
      BY <1>3
    <3>2. /\ w \in Seq(Values) /\ Len(w) = Len(Visible) - m
          /\ \A i \in 1 .. Len(Visible) - m : w[i] = Visible[m + i]
      <4>1. Visible \in Seq(Values) /\ m \in 0 .. Len(Visible)
        BY <1>2, <1>3
      <4> HIDE DEF m
      <4> QED BY <3>1, <4>1, PartFacts
    <3>3. \A i \in 1 .. n : m + i \in 1 .. Len(Visible)
      BY <1>3
    <3> HIDE DEF w, m, n
    <3> QED BY <1>2, <3>1, <3>2, <3>3
  <2>3. v \in Values /\ IsRef(v)
    <3>1. Len(stack) \in DOMAIN stack
      BY <1>1, <1>2
    <3>2. IsRef(v)
      BY <1>2, ListOnTop DEF Building
    <3> QED BY <1>1, <3>1, <3>2
  <2>4. Filled(heap', q, w)
    <3>1. Copied(heap', stack, l)
      BY <1>2, ElementSeen
    <3>2. ASSUME NEW i \in 1 .. Len(w)
          PROVE  q[i] \in Addr /\ heap'[q[i]].kind = "obj" /\ heap'[q[i]].val = w[i]
      <4>1. i \in DOMAIN q /\ i \in 1 .. n
        BY <1>1, <2>2, <3>2
      <4>2. q[i] # BEEF
        <5>1. NoHalf(heap')
          BY <1>2, <2>1, IdleFacts, NoHalfFacts DEF Inv
        <5> QED BY <1>1, <4>1, <5>1 DEF NoHalf
      <4>3. q[i] \in Addr
        BY <1>1, <4>1, <4>2
      <4>4. heap'[q[i]].kind = "obj"
        <5>1. Sound(heap', heap'[l])
          BY <1>1, <1>2 DEF Inv, MemoryInv
        <5> QED BY <1>1, <4>1, <4>2, <5>1 DEF Sound, SoundItem
      <4>5. heap'[q[i]].val = stack[Len(stack) - Len(q) + i - 1]
        BY <3>1, <4>1, <4>2 DEF Copied
      <4>6. Len(stack) - Len(q) + i - 1 = m + i
        <5>1. Len(q) = n /\ n \in Nat /\ i \in Nat
          BY <1>1, <1>3, <4>1
        <5> HIDE DEF n, q
        <5> QED BY <1>2, <5>1
      <4> QED BY <2>2, <4>1, <4>3, <4>4, <4>5, <4>6
    <3> HIDE DEF w
    <3> QED BY <1>1, <2>2, <3>2 DEF Filled
  <2>5. See(heap', w) = SubSeq(See(heap, Visible), m + 1, Len(Visible))
    <3>1. Len(Visible) \in m .. Len(Visible)
      BY <1>3
    <3> HIDE DEF m
    <3>2. See(heap', w) = SubSeq(See(heap', Visible), m + 1, Len(Visible))
      BY <1>2, <1>3, <3>1, SeePart
    <3> QED BY <1>4, <3>2
  <2>6. See(heap', SubSeq(Visible, 1, m)) = SubSeq(See(heap, Visible), 1, m)
    <3>1. 0 \in 0 .. Len(Visible) /\ m \in 0 .. Len(Visible) /\ 0 + 1 = 1
      BY <1>3
    <3> HIDE DEF m
    <3>2. See(heap', SubSeq(Visible, 0 + 1, m)) = SubSeq(See(heap', Visible), 0 + 1, m)
      BY <1>2, <3>1, SeePart
    <3> QED BY <1>4, <3>1, <3>2
  <2>7. Taken = Append(SubSeq(Visible, 1, m), v) /\ SubSeq(Visible, 1, m) \in Seq(Values)
    <3>1. Len(stack) - 1 - prim.n = m /\ m \in 0 .. Len(stack) /\ m \in 0 .. Len(Visible)
      BY <1>1, <1>2, <1>3, <1>8
    <3> HIDE DEF m
    <3>2. SubSeq(stack, 1, m) \in Seq(Values) /\ Len(SubSeq(stack, 1, m)) = m /\ DOMAIN SubSeq(stack, 1, m) = 1 .. m
          /\ \A i \in DOMAIN SubSeq(stack, 1, m) : SubSeq(stack, 1, m)[i] = stack[i]
      BY <1>1, <3>1, FirstFacts
    <3>3. SubSeq(Visible, 1, m) \in Seq(Values) /\ Len(SubSeq(Visible, 1, m)) = m /\ DOMAIN SubSeq(Visible, 1, m) = 1 .. m
          /\ \A i \in DOMAIN SubSeq(Visible, 1, m) : SubSeq(Visible, 1, m)[i] = Visible[i]
      BY <1>2, <3>1, FirstFacts
    <3>4. \A i \in 1 .. m : i \in 1 .. Len(Visible)
      BY <1>3, <3>1
    <3>5. SubSeq(stack, 1, m) = SubSeq(Visible, 1, m)
      BY <1>2, <3>2, <3>3, <3>4, SameSequence
    <3>6. Taken = SubSeq(stack, 1, m) \o << v >>
      BY <3>1 DEF Taken
    <3> HIDE DEF v
    <3> QED BY <2>3, <3>3, <3>5, <3>6, TakenIs
  <2>8. Sight(heap')[v] = Data!Tree(See(heap', w))
    <3>1. heap'[v.at].kind = "list" /\ Filled(heap', heap'[v.at].items, w)
      BY <1>1, <2>4
    <3> HIDE DEF v, w
    <3> QED BY <1>2, <2>2, <2>3, <3>1, ListLook
  <2> DEFINE S == See(heap, Visible)
             t == Data!Tree(SubSeq(S, m + 1, Len(S)))
  <2>9. Len(S) = Len(Visible) /\ S \in Seq(SightsOf(heap))
    BY <1>2, SeeIs
  <2>10. See(heap', Visible') = Append(SubSeq(S, 1, m), t)
    <3>1. See(heap', Append(SubSeq(Visible, 1, m), v)) = Append(See(heap', SubSeq(Visible, 1, m)), Sight(heap')[v])
      BY <2>3, <2>7, SeeAppend
    <3>2. Sight(heap')[v] = t
      BY <2>5, <2>8, <2>9
    <3> HIDE DEF t, v, m, w
    <3> QED BY <2>1, <2>6, <2>7, <3>1, <3>2
  <2>11. Append(SubSeq(S, 1, m), t) = SubSeq(S, 1, m) \o << t >>
    <3>1. SubSeq(S, 1, m) \in Seq(SightsOf(heap))
      BY <1>3, <2>9
    <3> HIDE DEF S, t, m
    <3> QED BY <3>1
  <2>12. n \in 0 .. Len(S) /\ m = Len(S) - n
    BY <1>3, <2>9
  <2> HIDE DEF n, m, w, v
  <2>13. Data!MakeList
    BY <1>4, <1>5, <2>10, <2>11, <2>12 DEF Data!MakeList
  <2> QED BY <1>6, <2>13 DEF Data!Next
<1> QED BY <1>7, <1>8

(* Every step is one of the abstract machine, or unseen.                    *)
LEMMA NextMaps == SeenInv /\ SeenInv' /\ [Next]_vars => [Data!Next]_(Data!vars)
<1> SUFFICES ASSUME SeenInv, SeenInv', [Next]_vars PROVE Unseen \/ Data!Next
  BY DEF Unseen, Data!vars
<1>1. ASSUME NEW i \in Imm, PushConst(i) PROVE Data!Next
  BY <1>1, ConstMaps
<1>2. ASSUME NEW i \in 1 .. MaxStack, LocalRef(i) \/ GlobalRef(i) PROVE Data!Next
  BY <1>2, CopyMaps, GlobalMaps
<1>3. ASSUME NEW n \in 0 .. MaxStack, ListLiteral(n) PROVE Unseen
  BY <1>3, ListLiteralMaps
<1>4. ASSUME NEW a \in Addr, Inner(a) \/ SimpleElement(a) PROVE Unseen \/ Data!Next
  BY <1>4, InnerMaps, SimpleIsElement, ElementMaps
<1>5. ASSUME NEW a \in Addr, NEW b \in Addr, CompositeElement(a, b) PROVE Unseen \/ Data!Next
  <2>1. CASE Available > 1
    BY <1>5, <2>1, CompositeIsElement, ElementMaps
  <2>2. CASE ~(Available > 1)
    <3>1. UNCHANGED <<heap, stack, globals, prim, phase>>
      BY <1>5, <2>2 DEF CompositeElement
    <3> QED BY <3>1 DEF Unseen, Visible
  <2> QED BY <2>1, <2>2
<1>6. CASE Node
  BY <1>6, NodeMaps
<1>7. CASE Drop
  BY <1>7, DropMaps
<1>8. CASE Car
  BY <1>8, CarMaps
<1>9. CASE Gc
  BY <1>9, GcMaps DEF Gc, Unseen
<1>10. CASE EndGlobals
  BY <1>10, EndGlobalsMaps
<1>11. CASE Halt
  BY <1>11, HaltMaps
<1>12. CASE UNCHANGED vars
  BY <1>12 DEF vars, Unseen, Visible
<1> QED BY <1>1, <1>2, <1>3, <1>4, <1>5, <1>6, <1>7, <1>8, <1>9, <1>10, <1>11, <1>12 DEF Next

(* Both start empty.                                                        *)
LEMMA InitMaps == Init => Data!Init
<1> SUFFICES ASSUME Init PROVE Data!Init
  OBVIOUS
<1>1. stack = <<>> /\ globals = <<>> /\ phase = "globals" /\ Visible = <<>>
  BY IdleFacts DEF Init, Visible
<1> QED BY <1>1, SeeEmpty DEF Data!Init

(* For any memory, number of list nodes and stack: allocation and           *)
(* collection implement the machine without memory.  What a program sees is *)
(* what it would see if nothing were ever allocated, moved into the pools   *)
(* or freed, collections in the middle of a literal included                *)
(* (generate_object, collect, release_all_free_objects).                    *)
THEOREM CollectorTransparent == Spec => Transparent
<1>1. Spec => []SeenInv
  BY InitSeen, NextSeen, PTL DEF Spec
<1> QED BY <1>1, InitMaps, NextMaps, PTL DEF Spec, Transparent, Data!Spec
==============================================================================
