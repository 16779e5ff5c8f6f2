------------------------- MODULE ThumbnailHeapProofs -------------------------
(***************************************************************************)
(* Machine-checked proofs about ThumbnailHeap, for any number of requests  *)
(* and any integer priorities.                                             *)
(***************************************************************************)
EXTENDS ThumbnailHeap, FiniteSetTheorems, FunctionTheorems, WellFoundedInduction, TLAPS

--------------------------------------------------------------------------------
(* The inductive invariant.                                                *)

Places == 0 .. heap_len - 1

(* Where the loops stand.                                                  *)
Standing ==
  /\ loop = "idle" => i = 0
  /\ loop = "up" => i < heap_len
  /\ loop = "down" => i < heap_len \/ i = 0

(* No two items are equal: each push takes a generation of its own.        *)
Distinct ==
  /\ heap_len <= generation
  /\ \A j \in Places : heap[j].generation <= generation
  /\ \A j, k \in Places : j # k => heap[j].generation # heap[k].generation

Inv == HeapSound /\ Standing /\ Distinct

--------------------------------------------------------------------------------
(* The tree.                                                               *)

(* A place but the root has one parent before it, whose left or right      *)
(* child it is.                                                            *)
LEMMA ParentFacts ==
  ASSUME NEW j \in Nat \ {0}
  PROVE  /\ Parent(j) \in Nat /\ Parent(j) < j
         /\ \A k \in Nat : Parent(j) = k <=> j = Left(k) \/ j = Right(k)
BY DEF Parent, Left, Right

(* Ranking is an order on items of different generations.                  *)
LEMMA HigherOrder ==
  ASSUME NEW a \in Item, NEW b \in Item, NEW c \in Item
  PROVE  /\ Higher(a, b) => ~Higher(b, a)
         /\ ~Higher(a, b) /\ ~Higher(b, c) => ~Higher(a, c)
         /\ a.generation # b.generation => Higher(a, b) \/ Higher(b, a)
         /\ ~Higher(a, a)
<1>1. \A x \in Item : x.priority \in Int /\ x.generation \in Int
  <2>1. \A x \in Item : x.priority \in Priorities /\ x.generation \in 1 .. MaxGeneration
    BY DEF Item
  <2>2. Priorities \subseteq Int /\ 1 .. MaxGeneration \subseteq Int
    BY HeapAssumption
  <2>3. QED
    BY <2>1, <2>2
<1>2. /\ a.priority \in Int /\ b.priority \in Int /\ c.priority \in Int
      /\ a.generation \in Int /\ b.generation \in Int /\ c.generation \in Int
  BY <1>1
<1>3. QED
  BY <1>2 DEF Higher

(* A set of places that is not empty has a first one.                      *)
LEMMA FirstPlace ==
  ASSUME NEW T, T \subseteq Nat, T # {}
  PROVE  \E x \in T : \A y \in T : x <= y
<1>1. PICK x \in T : \A y \in T : ~(<<y, x>> \in OpToRel(<, Nat))
  BY NatLessThanWellFounded, WFMin, Zenon
<1>2. ASSUME NEW y \in T
      PROVE  x <= y
  <2>1. x \in Nat /\ y \in Nat
    OBVIOUS
  <2>2. y < x => <<y, x>> \in OpToRel(<, Nat)
    BY <2>1 DEF OpToRel
  <2>3. ~(y < x)
    BY <1>1, <2>2, Zenon
  <2>4. QED
    BY <2>1, <2>3
<1>3. QED
  BY <1>2

(* When no item ranks above its parent, none ranks above the root: the     *)
(* first that did would have a parent that does.                           *)
LEMMA RootFirst ==
  ASSUME TypeOK, \A j \in 1 .. heap_len - 1 : ~Higher(heap[j], heap[Parent(j)]),
         NEW k \in Places
  PROVE  ~Higher(heap[k], heap[0])
<1> DEFINE T == {j \in Places : Higher(heap[j], heap[0])}
<1>1. heap_len \in Nat /\ \A j \in Places : heap[j] \in Item
  BY DEF TypeOK, Places
<1>2. SUFFICES ASSUME T # {}
               PROVE  FALSE
  OBVIOUS
<1>3. T \subseteq Nat
  BY <1>1 DEF Places
<1>4. PICK x \in T : \A y \in T : x <= y
  BY <1>2, <1>3, FirstPlace
<1>5. x \in Places /\ Higher(heap[x], heap[0]) /\ heap[x] \in Item
  BY <1>1
<1>6. 0 \in Places /\ heap[0] \in Item
  BY <1>1, <1>5 DEF Places
<1>7. x # 0
  BY <1>5, <1>6, HigherOrder
<1>8. x \in 1 .. heap_len - 1 /\ x \in Nat \ {0}
  BY <1>1, <1>5, <1>7 DEF Places
<1>9. Parent(x) \in Nat /\ Parent(x) < x
  BY <1>8, ParentFacts
<1>10. Parent(x) \in Places /\ heap[Parent(x)] \in Item
  BY <1>1, <1>8, <1>9 DEF Places
<1>11. ~Higher(heap[Parent(x)], heap[0])
  <2>1. Parent(x) \notin T
    BY <1>4, <1>8, <1>9
  <2>2. QED
    BY <1>10, <2>1
<1>12. ~Higher(heap[x], heap[Parent(x)])
  BY <1>8
<1>13. QED
  BY <1>5, <1>6, <1>10, <1>11, <1>12, HigherOrder

--------------------------------------------------------------------------------
(* The array.                                                              *)

(* What a swap exchanges.                                                  *)
LEMMA Swapped ==
  ASSUME TypeOK, NEW j \in Places, NEW k \in Places
  PROVE  /\ Swap(heap, j, k) \in [Places -> Item]
         /\ Swap(heap, j, k)[j] = heap[k]
         /\ Swap(heap, j, k)[k] = heap[j]
         /\ \A m \in Places \ {j, k} : Swap(heap, j, k)[m] = heap[m]
         /\ {Swap(heap, j, k)[m] : m \in Places} = {heap[m] : m \in Places}
BY DEF TypeOK, Places, Swap

(* There are as many different items as places.                            *)
LEMMA ItemsCounted ==
  ASSUME NEW n \in Nat, NEW h \in [0 .. n - 1 -> Item],
         \A j, k \in 0 .. n - 1 : j # k => h[j].generation # h[k].generation
  PROVE  Cardinality({h[j] : j \in 0 .. n - 1}) = n
<1> DEFINE S == 0 .. n - 1
           T == {h[j] : j \in S}
<1>1. IsFiniteSet(S) /\ Cardinality(S) = n
  BY FS_Interval
<1>2. h \in [S -> T]
  OBVIOUS
<1>3. \A j, k \in S : h[j] = h[k] => j = k
  OBVIOUS
<1>4. \A t \in T : \E j \in S : h[j] = t
  OBVIOUS
<1>5. ExistsBijection(S, T)
  BY <1>2, <1>3, <1>4, Fun_IsBij DEF ExistsBijection
<1>6. QED
  BY <1>1, <1>5, FS_Bijection

--------------------------------------------------------------------------------
(* The steps.                                                              *)

(* What the invariant says, spelled out.                                   *)
LEMMA Spelled ==
  ASSUME Inv
  PROVE  /\ heap_len \in Nat /\ i \in Nat /\ generation \in 0 .. MaxGeneration
         /\ heap \in [Places -> Item] /\ \A j \in Places : heap[j] \in Item
         /\ \A j \in 1 .. heap_len - 1 : j \in Nat \ {0} /\ j \in Places /\ Parent(j) \in Places
         /\ contents = {heap[j] : j \in Places}
<1>1. TypeOK /\ heap_len \in Nat
  BY DEF Inv, HeapSound, TypeOK
<1>2. \A j \in 1 .. heap_len - 1 : j \in Nat \ {0} /\ j \in Places /\ Parent(j) \in Places
  <2>1. ASSUME NEW j \in 1 .. heap_len - 1
        PROVE  Parent(j) \in Nat /\ Parent(j) < j
    BY <1>1, ParentFacts
  <2>2. QED
    BY <1>1, <2>1 DEF Places
<1>3. QED
  BY <1>1, <1>2 DEF Inv, HeapSound, TypeOK, SameItems, Places

(* The items are counted again after every step that keeps them different. *)
LEMMA SameItemsNext ==
  ASSUME TypeOK', Distinct', contents' = {heap'[j] : j \in Places'}
  PROVE  SameItems'
<1>1. heap_len' \in Nat /\ heap' \in [0 .. heap_len' - 1 -> Item]
  BY DEF TypeOK
<1>2. \A j, k \in 0 .. heap_len' - 1 : j # k => heap'[j].generation # heap'[k].generation
  BY DEF Distinct, Places
<1>3. Cardinality({heap'[j] : j \in 0 .. heap_len' - 1}) = heap_len'
  BY <1>1, <1>2, ItemsCounted
<1>4. QED
  BY <1>3 DEF SameItems, Places

(* heap_push: the new item may rank above its parent.                      *)
LEMMA PushStep ==
  ASSUME Inv, NEW p \in Priorities, Push(p)
  PROVE  Inv'
<1> DEFINE item == [priority |-> p, generation |-> generation + 1]
<1>0. /\ loop = "idle" /\ i = 0 /\ generation < MaxGeneration /\ heap_len <= generation
      /\ heap' = [j \in 0 .. heap_len |-> IF j = heap_len THEN item ELSE heap[j]]
      /\ contents' = contents \cup {item}
      /\ heap_len' = heap_len + 1 /\ generation' = generation + 1 /\ i' = heap_len
      /\ loop' = "up" /\ out' = out
  BY DEF Push, Inv, Standing, Distinct
<1>1. /\ heap_len \in Nat /\ generation \in 0 .. MaxGeneration /\ MaxGeneration \in Nat
      /\ heap \in [Places -> Item] /\ \A j \in Places : heap[j] \in Item
      /\ contents = {heap[j] : j \in Places}
  BY Spelled, HeapAssumption
<1>2. item \in Item /\ item.generation = generation + 1
  <2>1. generation + 1 \in 1 .. MaxGeneration
    BY <1>0, <1>1
  <2>2. QED
    BY <2>1 DEF Item
<1> HIDE DEF item
<1>3. /\ Places = 0 .. heap_len - 1 /\ Places' = 0 .. heap_len
      /\ Places' = Places \cup {heap_len} /\ heap_len \notin Places
  BY <1>0, <1>1 DEF Places
<1>4. heap'[heap_len] = item /\ \A j \in Places : heap'[j] = heap[j]
  BY <1>0, <1>1, <1>3
<1>5. heap' \in [Places' -> Item]
  BY <1>0, <1>1, <1>2, <1>3
<1>6. heap_len' \in 0 .. MaxGeneration /\ generation' \in 0 .. MaxGeneration /\ i' \in Nat
  BY <1>0, <1>1
<1>7. TypeOK'
  <2>1. contents' \subseteq Item
    BY <1>0, <1>2 DEF Inv, HeapSound, TypeOK
  <2>2. QED
    BY <1>0, <1>5, <1>6, <2>1 DEF Inv, HeapSound, TypeOK, Places
<1>8. Distinct'
  <2>1. \A j \in Places : heap[j].generation \in Int /\ heap[j].generation <= generation
    <3>1. \A j \in Places : heap[j].generation \in 1 .. MaxGeneration
      BY <1>1 DEF Item
    <3>2. QED
      BY <3>1 DEF Inv, Distinct
  <2>2. heap_len' <= generation'
    BY <1>0, <1>1
  <2>3. \A j \in Places' : heap'[j].generation <= generation'
    BY <1>0, <1>1, <1>2, <1>3, <1>4, <2>1
  <2>4. \A j \in Places : heap'[j].generation # heap'[heap_len].generation
    BY <1>1, <1>2, <1>4, <2>1
  <2>5. \A j, k \in Places : j # k => heap'[j].generation # heap'[k].generation
    BY <1>4 DEF Inv, Distinct
  <2>6. QED
    BY <1>3, <2>2, <2>3, <2>4, <2>5 DEF Distinct
<1>9. SameItems'
  <2>1. contents' = {heap'[j] : j \in Places'}
    BY <1>0, <1>1, <1>3, <1>4
  <2>2. QED
    BY <1>7, <1>8, <2>1, SameItemsNext
<1>10. OneDefect' /\ HeapOrder'
  <2>1. ASSUME NEW j \in 1 .. heap_len' - 1
        PROVE  /\ j # heap_len => ~Higher(heap'[j], heap'[Parent(j)])
               /\ Parent(j) # heap_len
    <3>1. j \in Nat \ {0} /\ j <= heap_len
      BY <1>0, <1>1, <2>1
    <3>2. Parent(j) \in Nat /\ Parent(j) < heap_len
      BY <1>1, <3>1, ParentFacts
    <3>3. CASE j # heap_len
      <4>1. j \in 1 .. heap_len - 1 /\ j \in Places /\ Parent(j) \in Places
        BY <1>1, <3>1, <3>2, <3>3 DEF Places
      <4>2. ~Higher(heap[j], heap[Parent(j)])
        BY <1>0, <4>1 DEF Inv, HeapSound, HeapOrder
      <4>3. QED
        BY <1>1, <1>4, <3>2, <4>1, <4>2
    <3>4. QED
      BY <1>1, <3>2, <3>3
  <2>2. QED
    BY <1>0, <2>1 DEF OneDefect, HeapOrder
<1>11. Standing'
  BY <1>0, <1>1 DEF Standing
<1>12. QED
  BY <1>7, <1>8, <1>9, <1>10, <1>11 DEF Inv, HeapSound

(* A swap keeps the items and their places' types.                         *)
LEMMA SwapStep ==
  ASSUME Inv, NEW m \in Places, i \in Places, heap' = Swap(heap, i, m), i' = m,
         UNCHANGED <<loop, heap_len, out, generation, contents>>
  PROVE  TypeOK' /\ Distinct' /\ SameItems' /\ Places' = Places
<1>1. /\ heap_len \in Nat /\ heap \in [Places -> Item]
      /\ contents = {heap[j] : j \in Places} /\ Places' = Places
  BY Spelled DEF Places
<1>2. /\ heap' \in [Places -> Item]
      /\ heap'[i] = heap[m] /\ heap'[m] = heap[i]
      /\ \A j \in Places \ {i, m} : heap'[j] = heap[j]
      /\ {heap'[j] : j \in Places} = {heap[j] : j \in Places}
  <2>1. TypeOK
    BY DEF Inv, HeapSound
  <2> DEFINE g == Swap(heap, i, m)
  <2>2. /\ g \in [Places -> Item] /\ g[i] = heap[m] /\ g[m] = heap[i]
        /\ \A j \in Places \ {i, m} : g[j] = heap[j]
        /\ {g[j] : j \in Places} = {heap[j] : j \in Places}
    BY <2>1, Swapped
  <2>3. heap' = g
    OBVIOUS
  <2> HIDE DEF g
  <2>4. QED
    BY <2>2, <2>3
<1>3. m \in Nat
  BY <1>1 DEF Places
<1>4. TypeOK'
  BY <1>1, <1>2, <1>3 DEF Inv, HeapSound, TypeOK, Places
<1>5. Distinct'
  <2>1. heap_len' <= generation'
    BY DEF Inv, Distinct
  <2>2. \A j \in Places : heap'[j].generation <= generation'
    BY <1>2 DEF Inv, Distinct
  <2>3. \A j, k \in Places : j # k => heap'[j].generation # heap'[k].generation
    BY <1>2 DEF Inv, Distinct
  <2>4. QED
    BY <1>1, <2>1, <2>2, <2>3 DEF Distinct
<1>6. SameItems'
  BY <1>1, <1>2, <1>4, <1>5, SameItemsNext
<1>7. QED
  BY <1>1, <1>4, <1>5, <1>6

(* A turn of the loop of heap_push: the item that rises ranks above its    *)
(* parent and with it above its sibling, and its children rank below its   *)
(* old parent.                                                             *)
LEMMA SiftUpStep ==
  ASSUME Inv, SiftUp
  PROVE  Inv'
<1>1. /\ heap_len \in Nat /\ i \in Nat /\ loop = "up" /\ i < heap_len
      /\ \A j \in Places : heap[j] \in Item
      /\ \A j \in 1 .. heap_len - 1 : j \in Nat \ {0} /\ j \in Places /\ Parent(j) \in Places
      /\ \A j \in 1 .. heap_len - 1 : j # i => ~Higher(heap[j], heap[Parent(j)])
      /\ UNCHANGED <<heap_len, out, generation, contents>>
  BY Spelled DEF SiftUp, Inv, Standing, HeapSound, OneDefect
<1>2. CASE i > 0 /\ Higher(heap[i], heap[Parent(i)])
  <2>0. PICK x \in Nat, u \in Nat : x = i /\ u = Parent(i) /\ x # 0
    BY <1>1, <1>2, ParentFacts
  <2>1. /\ u < x /\ x \in Places /\ u \in Places /\ x \in 1 .. heap_len - 1
        /\ Higher(heap[x], heap[u]) /\ u = Parent(x)
    BY <1>1, <1>2, <2>0, ParentFacts DEF Places
  <2>2. heap' = Swap(heap, i, u) /\ i' = u /\ loop' = loop
    BY <1>2, <2>0 DEF SiftUp
  <2>3. TypeOK' /\ Distinct' /\ SameItems' /\ Places' = Places
    BY <1>1, <2>0, <2>1, <2>2, SwapStep
  <2>4. heap'[x] = heap[u] /\ heap'[u] = heap[x]
        /\ \A j \in Places \ {x, u} : heap'[j] = heap[j]
    BY <2>0, <2>1, <2>2, Swapped DEF Inv, HeapSound
  <2>5. ASSUME NEW j \in 1 .. heap_len - 1, j # u
        PROVE  ~Higher(heap'[j], heap'[Parent(j)])
    <3>0. /\ j \in Nat \ {0} /\ j \in Places /\ Parent(j) \in Places /\ Parent(j) < j
          /\ heap[j] \in Item /\ heap[Parent(j)] \in Item
          /\ heap[x] \in Item /\ heap[u] \in Item
      BY <1>1, <2>1, ParentFacts
    <3>1. CASE j = x
      BY <2>1, <2>4, <3>0, <3>1, HigherOrder
    <3>2. CASE j # x /\ Parent(j) = x
      <4>1. ~Higher(heap[j], heap[u])
        BY <1>2, <2>0, <3>2 DEF Inv, HeapSound, OneDefect
      <4>2. QED
        BY <2>4, <2>5, <3>0, <3>2, <4>1
    <3>3. CASE j # x /\ Parent(j) = u
      <4>1. ~Higher(heap[j], heap[u])
        BY <1>1, <2>0, <3>3
      <4>2. ~Higher(heap[j], heap[x])
        BY <2>1, <3>0, <4>1, HigherOrder
      <4>3. QED
        BY <2>4, <2>5, <3>0, <3>3, <4>2
    <3>4. CASE j # x /\ Parent(j) # x /\ Parent(j) # u
      BY <1>1, <2>0, <2>4, <2>5, <3>0, <3>4
    <3>5. QED
      BY <3>1, <3>2, <3>3, <3>4
  <2>6. ASSUME u > 0, NEW j \in 1 .. heap_len - 1, Parent(j) = u
        PROVE  ~Higher(heap'[j], heap'[Parent(u)])
    <3>1. /\ u \in 1 .. heap_len - 1 /\ u # x /\ Parent(u) \in Places /\ Parent(u) < u
          /\ j \in Places /\ j # u
      BY <1>1, <2>1, <2>6, ParentFacts DEF Places
    <3>2. heap'[Parent(u)] = heap[Parent(u)]
      BY <1>1, <2>1, <2>4, <3>1 DEF Places
    <3>3. ~Higher(heap[u], heap[Parent(u)])
      BY <1>1, <2>0, <3>1
    <3>4. CASE j = x
      BY <2>4, <3>2, <3>3, <3>4
    <3>5. CASE j # x
      <4>1. ~Higher(heap[j], heap[u])
        BY <1>1, <2>0, <2>6, <3>5
      <4>2. ~Higher(heap[j], heap[Parent(u)])
        BY <1>1, <2>1, <3>1, <3>3, <4>1, HigherOrder
      <4>3. QED
        BY <2>4, <3>1, <3>2, <3>5, <4>2
    <3>6. QED
      BY <3>4, <3>5
  <2>7. OneDefect' /\ HeapOrder'
    BY <1>1, <2>2, <2>5, <2>6 DEF OneDefect, HeapOrder
  <2>8. Standing'
    BY <1>1, <2>1, <2>2 DEF Standing, Places
  <2>9. QED
    BY <2>3, <2>7, <2>8 DEF Inv, HeapSound
<1>3. CASE ~(i > 0 /\ Higher(heap[i], heap[Parent(i)]))
  <2>1. loop' = "idle" /\ i' = 0 /\ heap' = heap
    BY <1>3 DEF SiftUp
  <2>2. \A j \in 1 .. heap_len - 1 : ~Higher(heap[j], heap[Parent(j)])
    BY <1>1, <1>3
  <2>3. OneDefect' /\ HeapOrder'
    BY <1>1, <2>1, <2>2 DEF OneDefect, HeapOrder
  <2>4. TypeOK' /\ Distinct' /\ SameItems' /\ Standing'
    BY <1>1, <2>1 DEF Inv, HeapSound, TypeOK, Distinct, SameItems, Standing, Places
  <2>5. QED
    BY <2>3, <2>4 DEF Inv, HeapSound
<1>4. QED
  BY <1>2, <1>3

(* heap_pop: the last item is put at the root.                             *)
LEMMA PopStep ==
  ASSUME Inv, Pop
  PROVE  Inv'
<1>0. /\ loop = "idle" /\ heap_len > 0
      /\ out' = heap[0] /\ contents' = contents \ {heap[0]}
      /\ heap_len' = heap_len - 1 /\ i' = 0 /\ loop' = "down" /\ generation' = generation
      /\ heap' = [j \in 0 .. heap_len - 2 |-> IF j = 0 THEN heap[heap_len - 1] ELSE heap[j]]
  BY DEF Pop
<1>1. /\ heap_len \in Nat \ {0} /\ generation \in 0 .. MaxGeneration
      /\ heap \in [Places -> Item] /\ \A j \in Places : heap[j] \in Item
      /\ contents = {heap[j] : j \in Places}
      /\ heap_len <= generation
  BY <1>0, Spelled DEF Inv, Distinct
<1>2. Places = 0 .. heap_len - 1 /\ Places' = 0 .. heap_len - 2
  BY <1>0, <1>1 DEF Places
<1>3. \A j \in Places' : heap'[j] = IF j = 0 THEN heap[heap_len - 1] ELSE heap[j]
  BY <1>0, <1>2
<1>4. heap' \in [Places' -> Item]
  <2>1. \A j \in Places' : j \in Places /\ heap_len - 1 \in Places
    BY <1>1, <1>2
  <2>2. QED
    BY <1>0, <1>1, <1>2, <2>1
<1>5. TypeOK'
  <2>1. heap_len' \in 0 .. MaxGeneration
    BY <1>0, <1>1, HeapAssumption
  <2>2. 0 \in Places
    BY <1>1, <1>2
  <2>3. heap[0] \in Item /\ contents' \subseteq Item
    BY <1>0, <1>1, <2>2 DEF Inv, HeapSound, TypeOK
  <2>4. QED
    BY <1>0, <1>1, <1>4, <2>1, <2>3 DEF TypeOK, Places
<1>6. Distinct'
  <2>1. heap_len' <= generation'
    BY <1>0, <1>1
  <2>2. \A j \in Places' : j \in Places /\ heap_len - 1 \in Places /\ j # heap_len - 1
    BY <1>1, <1>2
  <2>3. \A j \in Places' : heap'[j].generation <= generation'
    BY <1>0, <1>3, <2>2 DEF Inv, Distinct
  <2>4. \A j, k \in Places' : j # k => heap'[j].generation # heap'[k].generation
    BY <1>3, <2>2 DEF Inv, Distinct
  <2>5. QED
    BY <2>1, <2>3, <2>4 DEF Distinct
<1>7. SameItems'
  <2>1. ASSUME NEW x \in contents'
        PROVE  \E j \in Places' : heap'[j] = x
    <3>1. PICK j \in Places : heap[j] = x /\ j # 0
      BY <1>0, <1>1
    <3>2. CASE j = heap_len - 1
      <4>1. 0 \in Places' /\ heap'[0] = x
        BY <1>1, <1>2, <1>3, <3>1, <3>2
      <4>2. QED
        BY <4>1
    <3>3. CASE j # heap_len - 1
      <4>1. j \in Places' /\ heap'[j] = x
        BY <1>1, <1>2, <1>3, <3>1, <3>3
      <4>2. QED
        BY <4>1
    <3>4. QED
      BY <3>2, <3>3
  <2>2. ASSUME NEW j \in Places'
        PROVE  heap'[j] \in contents'
    <3>1. PICK k \in Places : heap'[j] = heap[k] /\ k # 0
      <4>1. CASE j = 0
        <5>1. heap_len - 1 \in Places /\ heap_len - 1 # 0
          BY <1>1, <1>2, <4>1
        <5>2. QED
          BY <1>3, <4>1, <5>1
      <4>2. CASE j # 0
        <5>1. j \in Places
          BY <1>1, <1>2
        <5>2. QED
          BY <1>3, <4>2, <5>1
      <4>3. QED
        BY <4>1, <4>2
    <3>2. 0 \in Places
      BY <1>1, <1>2
    <3>3. heap[k] # heap[0]
      BY <3>1, <3>2 DEF Inv, Distinct
    <3>4. heap[k] \in contents'
      BY <1>0, <1>1, <3>3
    <3>5. QED
      BY <3>1, <3>4
  <2>3. contents' = {heap'[j] : j \in Places'}
    BY <2>1, <2>2
  <2>4. QED
    BY <1>5, <1>6, <2>3, SameItemsNext
<1>8. OneDefect' /\ HeapOrder'
  <2>1. ASSUME NEW j \in 1 .. heap_len' - 1, Parent(j) # 0
        PROVE  ~Higher(heap'[j], heap'[Parent(j)])
    <3>1. j \in Nat \ {0} /\ j < heap_len - 1 /\ j \in 1 .. heap_len - 1
      BY <1>0, <1>1
    <3>2. Parent(j) \in Nat /\ Parent(j) < j
      BY <3>1, ParentFacts
    <3>3. heap'[j] = heap[j] /\ heap'[Parent(j)] = heap[Parent(j)]
      BY <1>1, <1>2, <1>3, <2>1, <3>1, <3>2
    <3>4. ~Higher(heap[j], heap[Parent(j)])
      BY <1>0, <3>1 DEF Inv, HeapSound, HeapOrder
    <3>5. QED
      BY <3>3, <3>4
  <2>2. QED
    BY <1>0, <2>1 DEF OneDefect, HeapOrder
<1>9. Standing'
  BY <1>0 DEF Standing
<1>10. QED
  BY <1>5, <1>6, <1>7, <1>8, <1>9 DEF Inv, HeapSound

(* What the sift-down loop swaps with: nothing when no child ranks above   *)
(* the item, else a child above which no child ranks.                      *)
LEMMA BestChild ==
  ASSUME Inv, i \in Places
  PROVE  /\ Best(i) = i =>
              \A c \in 1 .. heap_len - 1 : Parent(c) = i => ~Higher(heap[c], heap[i])
         /\ Best(i) # i =>
              /\ Best(i) \in 1 .. heap_len - 1 /\ Parent(Best(i)) = i
              /\ Higher(heap[Best(i)], heap[i])
              /\ \A c \in 1 .. heap_len - 1 : Parent(c) = i => ~Higher(heap[c], heap[Best(i)])
<1> DEFINE l == Left(i)
           r == Right(i)
<1>1. /\ heap_len \in Nat /\ i \in Nat /\ i < heap_len /\ heap[i] \in Item
      /\ \A j \in Places : heap[j] \in Item
      /\ \A j \in 1 .. heap_len - 1 : j \in Nat \ {0} /\ j \in Places
  BY Spelled DEF Places
<1>2. /\ l \in Nat \ {0} /\ r \in Nat \ {0} /\ r = l + 1 /\ l # i /\ r # i
      /\ l < heap_len => l \in 1 .. heap_len - 1 /\ Parent(l) = i /\ heap[l] \in Item
      /\ r < heap_len => /\ r \in 1 .. heap_len - 1 /\ Parent(r) = i /\ heap[r] \in Item
                         /\ l < heap_len
  <2>1. l \in Nat \ {0} /\ r \in Nat \ {0} /\ r = l + 1 /\ l # i /\ r # i
    BY <1>1 DEF Left, Right
  <2>2. Parent(l) = i /\ Parent(r) = i
    BY <1>1, <2>1, ParentFacts
  <2>3. QED
    BY <1>1, <2>1, <2>2
<1>3. \A c \in 1 .. heap_len - 1 : Parent(c) = i => c = l \/ c = r
  BY <1>1, ParentFacts
<1>4. Best(i) = LET b == IF l < heap_len /\ Higher(heap[l], heap[i]) THEN l ELSE i
                IN  IF r < heap_len /\ Higher(heap[r], heap[b]) THEN r ELSE b
  BY DEF Best
<1> HIDE DEF l, r
<1>5. CASE l < heap_len /\ Higher(heap[l], heap[i])
  <2>1. Best(i) = IF r < heap_len /\ Higher(heap[r], heap[l]) THEN r ELSE l
    BY <1>4, <1>5
  <2>2. CASE r < heap_len /\ Higher(heap[r], heap[l])
    <3>1. Higher(heap[r], heap[i])
      BY <1>1, <1>2, <1>5, <2>2, HigherOrder
    <3>2. ~Higher(heap[l], heap[r]) /\ ~Higher(heap[r], heap[r])
      BY <1>2, <2>2, HigherOrder
    <3>3. QED
      BY <1>2, <1>3, <2>1, <2>2, <3>1, <3>2
  <2>3. CASE ~(r < heap_len /\ Higher(heap[r], heap[l]))
    <3>1. ~Higher(heap[l], heap[l])
      BY <1>2, <1>5, HigherOrder
    <3>2. \A c \in 1 .. heap_len - 1 : Parent(c) = i => ~Higher(heap[c], heap[l])
      BY <1>1, <1>3, <2>3, <3>1
    <3>3. QED
      BY <1>2, <1>5, <2>1, <2>3, <3>2
  <2>4. QED
    BY <2>2, <2>3
<1>6. CASE ~(l < heap_len /\ Higher(heap[l], heap[i]))
  <2>1. Best(i) = IF r < heap_len /\ Higher(heap[r], heap[i]) THEN r ELSE i
    BY <1>4, <1>6
  <2>2. CASE r < heap_len /\ Higher(heap[r], heap[i])
    <3>1. ~Higher(heap[i], heap[r]) /\ ~Higher(heap[r], heap[r])
      BY <1>1, <1>2, <2>2, HigherOrder
    <3>2. ~Higher(heap[l], heap[r])
      BY <1>1, <1>2, <1>6, <2>2, <3>1, HigherOrder
    <3>3. QED
      BY <1>2, <1>3, <2>1, <2>2, <3>1, <3>2
  <2>3. CASE ~(r < heap_len /\ Higher(heap[r], heap[i]))
    BY <1>1, <1>3, <1>6, <2>1, <2>3
  <2>4. QED
    BY <2>2, <2>3
<1>7. QED
  BY <1>5, <1>6

(* A turn of the loop of heap_pop: the child that rises ranks below the    *)
(* parent of the item that sinks and not below its sibling.                *)
LEMMA SiftDownStep ==
  ASSUME Inv, SiftDown
  PROVE  Inv'
<1>1. /\ heap_len \in Nat /\ i \in Nat /\ loop = "down" /\ (i < heap_len \/ i = 0)
      /\ \A j \in Places : heap[j] \in Item
      /\ \A j \in 1 .. heap_len - 1 : j \in Nat \ {0} /\ j \in Places /\ Parent(j) \in Places
      /\ \A j \in 1 .. heap_len - 1 : Parent(j) # i => ~Higher(heap[j], heap[Parent(j)])
      /\ UNCHANGED <<heap_len, out, generation, contents>>
  BY Spelled DEF SiftDown, Inv, Standing, HeapSound, OneDefect
<1>2. Best(i) # i => i \in Places
  <2>1. CASE heap_len = 0
    <3>1. i = 0 /\ ~(Left(i) < heap_len) /\ ~(Right(i) < heap_len)
      BY <1>1, <2>1 DEF Left, Right
    <3>2. QED
      BY <3>1 DEF Best
  <2>2. CASE heap_len # 0
    BY <1>1, <2>2 DEF Places
  <2>3. QED
    BY <2>1, <2>2
<1>3. CASE Best(i) # i
  <2>0. PICK x \in Nat, b \in Nat : x = i /\ b = Best(i)
    BY <1>1, <1>2, <1>3, BestChild
  <2>1. /\ x \in Places /\ b \in 1 .. heap_len - 1 /\ b \in Places /\ Parent(b) = x
        /\ Higher(heap[b], heap[x])
        /\ \A c \in 1 .. heap_len - 1 : Parent(c) = x => ~Higher(heap[c], heap[b])
    BY <1>1, <1>2, <1>3, <2>0, BestChild
  <2>a. x < b
    BY <1>1, <2>1, ParentFacts
  <2>2. heap' = Swap(heap, i, b) /\ i' = b /\ loop' = loop
    BY <1>3, <2>0 DEF SiftDown
  <2>3. TypeOK' /\ Distinct' /\ SameItems' /\ Places' = Places
    BY <1>1, <2>0, <2>1, <2>2, SwapStep
  <2>4. heap'[x] = heap[b] /\ heap'[b] = heap[x]
        /\ \A j \in Places \ {x, b} : heap'[j] = heap[j]
    BY <2>0, <2>1, <2>2, Swapped DEF Inv, HeapSound
  <2>5. ASSUME NEW j \in 1 .. heap_len - 1, Parent(j) # b
        PROVE  ~Higher(heap'[j], heap'[Parent(j)])
    <3>0. /\ j \in Nat \ {0} /\ j \in Places /\ Parent(j) \in Places /\ Parent(j) < j
          /\ heap[j] \in Item /\ heap[Parent(j)] \in Item
          /\ heap[x] \in Item /\ heap[b] \in Item
      BY <1>1, <2>1, ParentFacts
    <3>1. CASE j = b
      BY <2>1, <2>4, <3>0, <3>1, HigherOrder
    <3>2. CASE j # b /\ Parent(j) = x
      <4>1. j # x
        BY <3>0, <3>2
      <4>2. ~Higher(heap[j], heap[b])
        BY <2>1, <3>2
      <4>3. QED
        BY <2>4, <3>0, <3>2, <4>1, <4>2
    <3>3. CASE j = x
      <4>1. x > 0 /\ ~Higher(heap[b], heap[Parent(x)])
        BY <2>0, <2>1, <3>0, <3>3 DEF Inv, HeapSound, OneDefect
      <4>2. Parent(x) \in Places \ {x, b}
        BY <2>5, <3>0, <3>3
      <4>3. QED
        BY <2>4, <3>3, <4>1, <4>2
    <3>4. CASE j # b /\ j # x /\ Parent(j) # x
      BY <1>1, <2>0, <2>4, <2>5, <3>0, <3>4
    <3>5. QED
      BY <3>1, <3>2, <3>3, <3>4
  <2>6. ASSUME NEW j \in 1 .. heap_len - 1, Parent(j) = b
        PROVE  ~Higher(heap'[j], heap'[Parent(b)])
    <3>1. j \in Places /\ j # b /\ j # x
      BY <1>1, <2>1, <2>a, <2>6, ParentFacts
    <3>2. ~Higher(heap[j], heap[b])
      BY <1>1, <2>0, <2>a, <2>6
    <3>3. QED
      BY <2>1, <2>4, <3>1, <3>2
  <2>7. OneDefect' /\ HeapOrder'
    BY <1>1, <2>2, <2>5, <2>6 DEF OneDefect, HeapOrder
  <2>8. Standing'
    BY <1>1, <2>1, <2>2 DEF Standing, Places
  <2>9. QED
    BY <2>3, <2>7, <2>8 DEF Inv, HeapSound
<1>4. CASE Best(i) = i
  <2>1. loop' = "idle" /\ i' = 0 /\ heap' = heap
    BY <1>4 DEF SiftDown
  <2>2. \A j \in 1 .. heap_len - 1 : ~Higher(heap[j], heap[Parent(j)])
    <3>1. CASE i \in Places
      BY <1>1, <1>4, <3>1, BestChild
    <3>2. CASE i \notin Places
      BY <1>1, <3>2 DEF Places
    <3>3. QED
      BY <3>1, <3>2
  <2>3. OneDefect' /\ HeapOrder'
    BY <1>1, <2>1, <2>2 DEF OneDefect, HeapOrder
  <2>4. TypeOK' /\ Distinct' /\ SameItems' /\ Standing'
    BY <1>1, <2>1 DEF Inv, HeapSound, TypeOK, Distinct, SameItems, Standing, Places
  <2>5. QED
    BY <2>3, <2>4 DEF Inv, HeapSound
<1>5. QED
  BY <1>3, <1>4

(* cancel_pending empties the heap.                                        *)
LEMMA ClearStep ==
  ASSUME Inv, Clear
  PROVE  Inv'
<1>1. /\ loop = "idle" /\ i = 0 /\ generation \in 0 .. MaxGeneration /\ generation \in Nat
      /\ heap_len' = 0 /\ heap' = [j \in 0 .. -1 |-> NoItem] /\ contents' = {}
      /\ UNCHANGED <<i, loop, out, generation>>
  BY Spelled, HeapAssumption DEF Clear, Inv, Standing
<1>2. 0 .. heap_len' - 1 = {} /\ Places' = {}
  BY <1>1 DEF Places
<1>3. TypeOK'
  <2>1. heap' \in [0 .. heap_len' - 1 -> Item]
    BY <1>1, <1>2
  <2>2. QED
    BY <1>1, <2>1, HeapAssumption DEF Inv, HeapSound, TypeOK
<1>4. Distinct'
  BY <1>1, <1>2 DEF Distinct
<1>5. SameItems'
  BY <1>1, <1>2, <1>3, <1>4, SameItemsNext
<1>6. OneDefect' /\ HeapOrder' /\ Standing'
  BY <1>1, <1>2 DEF OneDefect, HeapOrder, Standing
<1>7. QED
  BY <1>3, <1>4, <1>5, <1>6 DEF Inv, HeapSound

(* Inv is an invariant.                                                    *)
LEMMA InvAlways == Spec => []Inv
<1>1. Init => Inv
  <2> SUFFICES ASSUME Init
               PROVE  Inv
    OBVIOUS
  <2>1. /\ heap_len = 0 /\ i = 0 /\ loop = "idle" /\ out = NoItem /\ generation = 0
        /\ contents = {} /\ heap = [j \in 0 .. -1 |-> NoItem]
    BY DEF Init
  <2>2. 0 .. heap_len - 1 = {} /\ Places = {}
    BY <2>1 DEF Places
  <2>3. TypeOK
    <3>1. heap \in [0 .. heap_len - 1 -> Item]
      BY <2>1, <2>2
    <3>2. QED
      BY <2>1, <3>1, HeapAssumption DEF TypeOK
  <2>4. SameItems
    BY <2>1, <2>2, FS_EmptySet DEF SameItems
  <2>5. HeapOrder /\ OneDefect /\ Standing /\ Distinct
    BY <2>1, <2>2 DEF HeapOrder, OneDefect, Standing, Distinct
  <2>6. QED
    BY <2>3, <2>4, <2>5 DEF Inv, HeapSound
<1>2. Inv /\ [Next]_vars => Inv'
  <2>1. Inv /\ UNCHANGED vars => Inv'
    BY DEF Inv, HeapSound, TypeOK, HeapOrder, OneDefect, SameItems, Standing, Distinct, Places,
           vars
  <2>2. QED
    BY <2>1, PushStep, PopStep, ClearStep, SiftUpStep, SiftDownStep DEF Next
<1>3. QED
  BY <1>1, <1>2, PTL DEF Spec

(* The array is the set of the items pushed and not popped, each once, and *)
(* in heap order but for the one place at which a loop stands.             *)
THEOREM HeapSoundAlways == Spec => []HeapSound
<1>1. Inv => HeapSound
  BY DEF Inv
<1>2. QED
  BY <1>1, InvAlways, PTL

(* heap_pop returns the item that ranks above all the others: the highest  *)
(* priority, and of that priority the oldest request.                      *)
THEOREM PopsFirstAlways == Spec => PopsFirst
<1> DEFINE First == out' \in contents /\ \A item \in contents' : Higher(out', item)
<1>1. ASSUME Inv, Pop
      PROVE  First
  <2>1. /\ out' = heap[0] /\ contents' = contents \ {heap[0]} /\ loop = "idle" /\ heap_len > 0
    BY <1>1 DEF Pop
  <2>2. /\ heap_len \in Nat /\ \A j \in Places : heap[j] \in Item
        /\ contents = {heap[j] : j \in Places} /\ TypeOK
    BY <1>1, Spelled DEF Inv, HeapSound
  <2>3. 0 \in Places
    BY <2>1, <2>2 DEF Places
  <2>4. ASSUME NEW item \in contents'
        PROVE  Higher(heap[0], item)
    <3>1. PICK k \in Places : item = heap[k] /\ k # 0
      BY <2>1, <2>2
    <3>2. ~Higher(heap[k], heap[0])
      BY <1>1, <2>1, <2>2, RootFirst DEF Inv, HeapSound, HeapOrder
    <3>3. heap[k].generation # heap[0].generation
      BY <1>1, <2>3, <3>1 DEF Inv, Distinct
    <3>4. QED
      BY <2>2, <2>3, <3>1, <3>2, <3>3, HigherOrder
  <2>5. QED
    BY <2>1, <2>2, <2>3, <2>4
<1>2. Inv /\ [Next]_vars => [Pop => First]_vars
  BY <1>1
<1>3. QED
  BY <1>2, InvAlways, PTL DEF Spec, PopsFirst
====
