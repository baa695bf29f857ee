--------------------------- MODULE NvsStoreProofs ---------------------------
(***************************************************************************)
(* NvsPartition implements NvsStore: the theorem, for all values of its    *)
(* constants and all well-formed CSV files.  Its argument: a device that   *)
(* goes through the spans of a page meets every item of the page           *)
(* (HeadsOfTiled), so what it sees of the pages is the set of their items  *)
(* (ItemsOfLog); an item belongs to one row (OneOwner); a chunk continues  *)
(* the one before (ChunkAdded), and the chunks that an index counts give   *)
(* back the value (AssembledChunks).  A promised row is written to a page  *)
(* that the device finds (LastOnFlash).  So of the promised rows those are *)
(* readable that have been written (ReadableRows), an invariant.           *)
(***************************************************************************)
EXTENDS NvsPartitionProofs, FiniteSetTheorems, WellFoundedInduction

(* The rows up to r that declare a namespace. *)
Namespaces(rows, r) == {n \in 1..r : rows[n].type = "namespace"}

(* The number of the namespace that row r is in or declares.                *)
NsNumber(rows, r) == Cardinality(Namespaces(rows, r))

(* The rows begin with a namespace; a namespace is declared once, and in a  *)
(* namespace a key is there once.                                           *)
WellFormed(rows) ==
  /\ rows # <<>> => rows[1].type = "namespace"
  /\ \A i, j \in DOMAIN rows :
       i < j /\ rows[i].key = rows[j].key =>
         \/ rows[i].type = "namespace" /\ rows[j].type # "namespace"
         \/ /\ rows[i].type # "namespace"
            /\ \E n \in i + 1..j : rows[n].type = "namespace"

(* What the entries of a page hold, and those of them that describe an item. *)
ClearPage(page) == [i \in DOMAIN page.slots |-> page.slots[i].content]

Described(c) == {i \in 1..Len(c) : c[i].type # "data"}

(* The entries after entry i that its span takes are data, the next is not. *)
SpansTo(c, i, end) ==
  /\ c[i].span > 0
  /\ end <= Len(c) + 1
  /\ end <= Len(c) => c[end].type # "data"
  /\ \A j \in i + 1..end - 1 : c[j].type = "data"

(* A page whose spans lead from one item to the next. *)
Tiled(c) ==
  /\ c \in Seq(Contents)
  /\ Len(c) > 0 => c[1].type # "data"
  /\ \A i \in Described(c) : SpansTo(c, i, i + c[i].span)

(* The items: what describes each, and its data.  Those of the pages that a *)
(* device finds in a partition of end bytes.                                *)
PageLog(c) ==
  {[entry |-> c[i], data |-> SubSeq(c, i + 1, i + c[i].span - 1)] : i \in Described(c)}
Seen(ps, end) == {p \in 1..Len(ps) : OnFlash(ps[p], end)}
Log(ps, end) == UNION {PageLog(ClearPage(ps[p])) : p \in Seen(ps, end)}

(* The entry describes an item of row r: the name of a namespace, a value,  *)
(* a chunk or an index, by its namespace and its key.                       *)
Belongs(rows, r, e) ==
  /\ e.key = rows[r].key
  /\ \/ /\ rows[r].type = "namespace"
        /\ e.type = "primitive" /\ e.ns = 0 /\ e.value = NsNumber(rows, r)
     \/ rows[r].type # "namespace" /\ e.ns = NsNumber(rows, r)

OfRow(rows, L, r) == {x \in L : Belongs(rows, r, x.entry)}

ChunkOf(rows, L, r, c) ==
  {x \in OfRow(rows, L, r) : x.entry.type = "chunk" /\ x.entry.chunk = c}

(* The first n chunks of row r are there, one after another; offs[c] is     *)
(* where chunk c starts.                                                    *)
ChunksAt(rows, L, r, n, offs) ==
  /\ offs[0] = 0
  /\ \A c \in 0..n - 1 :
       /\ offs[c] % EntrySize = 0
       /\ offs[c] <= offs[c + 1]
       /\ ChunkOf(rows, L, r, c) # {}
       /\ \A x \in ChunkOf(rows, L, r, c) : x.data = Pieces(r, offs[c], offs[c + 1] - offs[c])

(* The first n chunks hold the first bytes of the value. *)
Chunked(rows, L, r, n, to) ==
  \E offs \in [0..n -> Nat] : offs[n] = to /\ ChunksAt(rows, L, r, n, offs)

(* All of row r is in the items L. *)
Written(rows, L, r) ==
  LET R == rows[r]
  IN  \E x \in OfRow(rows, L, r) :
        \/ R.type = "namespace"
        \/ R.type = "primitive" /\ x.entry.type = "primitive" /\ x.entry.value = r
        \/ /\ R.type \in {"string", "blob"}
           /\ x.entry.type = R.type
           /\ x.entry.size = R.size
           /\ x.data = Pieces(r, 0, R.size)
        \/ /\ R.type = "blob"
           /\ x.entry.type = "index"
           /\ x.entry.size = R.size
           /\ x.entry.value \in Nat
           /\ Chunked(rows, L, r, x.entry.value, R.size)

InBlob == pc \in {"chunks", "index"}

(* Of the row that is being written there are at most its first chunks.     *)
Begun(e) == e.type = "chunk" /\ pc # "rows" /\ (InBlob => e.chunk < blob.chunks)

(* Every item is of a row that is written or begun. *)
Owned ==
  \A x \in Log(pages, input.size) :
    \E r \in DOMAIN input.rows :
      Belongs(input.rows, r, x.entry) /\ (r < next \/ (r = next /\ Begun(x.entry)))

(* namespace_idx is the number of the last namespace written. *)
Numbered ==
  /\ next - 1 <= Len(input.rows)
  /\ namespace_idx = NsNumber(input.rows, next - 1)

AllWritten == \A r \in Promised : r < next => Written(input.rows, Log(pages, input.size), r)

(* The chunks of the blob that is being written join up. *)
BlobBegun ==
  /\ InBlob =>
       /\ row.type = "blob"
       /\ next \in Promised =>
            Chunked(input.rows, Log(pages, input.size), next, blob.chunks, blob.offset)
  /\ pc = "chunks" => blob.offset % EntrySize = 0
  /\ pc = "index" => blob.offset = row.size

(* What makes readable the promised rows before next, and these only. *)
StoreInv ==
  /\ WellFormed(input.rows)
  /\ Numbered
  /\ \A p \in 1..Len(pages) : Tiled(ClearPage(pages[p]))
  /\ Owned
  /\ AllWritten
  /\ BlobBegun

-----------------------------------------------------------------------------
(* What a recursive function computes is found by the least argument for    *)
(* which it would be another, without a principle of induction.             *)

LEMMA LeastElement ==
  ASSUME NEW S \in SUBSET Nat, S # {}
  PROVE  \E m \in S : \A k \in S : m <= k
<1> DEFINE T == {0..k : k \in S}
<1>1. T \subseteq FiniteSubsetsOf(Nat) /\ T # {}
  <2>1. ASSUME NEW k \in S PROVE 0..k \subseteq Nat /\ IsFiniteSet(0..k)
    BY FS_Interval
  <2> QED
    BY <2>1 DEF FiniteSubsetsOf
<1>2. PICK x \in T : \A y \in T : <<y, x>> \notin StrictSubsetOrdering(Nat)
  <2>1. IsWellFoundedOn(StrictSubsetOrdering(Nat), FiniteSubsetsOf(Nat))
    BY FS_StrictSubsetOrderingWellFounded
  <2> HIDE DEF T
  <2> QED
    BY <1>1, <2>1, WFMin
<1>3. PICK m \in S : x = 0..m
  OBVIOUS
<1>4. ASSUME NEW k \in S, k < m PROVE FALSE
  <2>1. m \in 0..m /\ m \notin 0..k /\ 0..k \subseteq 0..m
    BY <1>4
  <2>2. <<0..k, 0..m>> \in StrictSubsetOrdering(Nat)
    BY <2>1 DEF StrictSubsetOrdering
  <2> QED
    BY <1>2, <1>3, <2>2
<1> QED
  BY <1>4

-----------------------------------------------------------------------------
(* The numbers of namespaces. *)

LEMMA NsNumberType ==
  ASSUME NEW rows, NEW r \in Nat
  PROVE  IsFiniteSet(Namespaces(rows, r)) /\ NsNumber(rows, r) \in Nat
<1>1. IsFiniteSet(1..r)
  BY FS_Interval
<1>2. Namespaces(rows, r) \in SUBSET (1..r)
  BY DEF Namespaces
<1>3. IsFiniteSet(Namespaces(rows, r))
  BY <1>1, <1>2, FS_Subset
<1> QED
  BY <1>3, FS_CardinalityType DEF NsNumber

LEMMA NsNumberZero ==
  ASSUME NEW rows
  PROVE  NsNumber(rows, 0) = 0
<1>1. Namespaces(rows, 0) = {}
  BY DEF Namespaces
<1> QED
  BY <1>1, FS_EmptySet DEF NsNumber

(* A row that declares a namespace has the next number, another row the     *)
(* number of the row before.                                                *)
LEMMA NsNumberNext ==
  ASSUME NEW rows, NEW r \in Nat, r > 0
  PROVE  NsNumber(rows, r) =
           IF rows[r].type = "namespace" THEN NsNumber(rows, r - 1) + 1
           ELSE NsNumber(rows, r - 1)
<1>1. r - 1 \in Nat
  OBVIOUS
<1>2. IsFiniteSet(Namespaces(rows, r - 1))
  BY <1>1, NsNumberType
<1>3. r \notin Namespaces(rows, r - 1)
  BY DEF Namespaces
<1>4. Namespaces(rows, r) = IF rows[r].type = "namespace" THEN Namespaces(rows, r - 1) \cup {r}
                            ELSE Namespaces(rows, r - 1)
  BY DEF Namespaces
<1> QED
  BY <1>2, <1>3, <1>4, FS_AddElement DEF NsNumber

LEMMA NsNumberMonotone ==
  ASSUME NEW rows, NEW q \in Nat, NEW r \in Nat, q <= r
  PROVE  NsNumber(rows, q) <= NsNumber(rows, r)
<1>1. Namespaces(rows, q) \in SUBSET Namespaces(rows, r)
  BY DEF Namespaces
<1> QED
  BY <1>1, NsNumberType, FS_Subset DEF NsNumber

(* Two rows of one number have no namespace declared between them.          *)
LEMMA NsNumberSplits ==
  ASSUME NEW rows, NEW q \in Nat, NEW r \in Nat,
         NEW n \in q + 1..r, rows[n].type = "namespace"
  PROVE  NsNumber(rows, q) < NsNumber(rows, r)
<1>1. /\ n \in Nat /\ n > 0 /\ n - 1 \in Nat /\ q <= n - 1 /\ n <= r
  OBVIOUS
<1>2. NsNumber(rows, n) = NsNumber(rows, n - 1) + 1
  BY <1>1, NsNumberNext
<1>3. NsNumber(rows, q) <= NsNumber(rows, n - 1) /\ NsNumber(rows, n) <= NsNumber(rows, r)
  BY <1>1, NsNumberMonotone
<1>4. NsNumber(rows, q) \in Nat /\ NsNumber(rows, r) \in Nat /\ NsNumber(rows, n - 1) \in Nat
  BY <1>1, NsNumberType
<1> QED
  BY <1>2, <1>3, <1>4

LEMMA NsNumberPositive ==
  ASSUME NEW rows \in Seq(Row), WellFormed(rows), NEW r \in 1..Len(rows)
  PROVE  NsNumber(rows, r) > 0
<1>1. rows[1].type = "namespace" /\ 1 \in 0 + 1..r /\ r \in Nat
  BY DEF WellFormed
<1>2. NsNumber(rows, 0) < NsNumber(rows, r)
  BY <1>1, NsNumberSplits
<1> QED
  BY <1>2, NsNumberZero

(* An entry belongs to one row at most. *)
LEMMA OneOwner ==
  ASSUME NEW rows \in Seq(Row), WellFormed(rows),
         NEW q \in 1..Len(rows), NEW r \in 1..Len(rows), q # r,
         NEW e, Belongs(rows, q, e), Belongs(rows, r, e)
  PROVE  FALSE
<1>1. ASSUME NEW i \in 1..Len(rows), NEW j \in 1..Len(rows), i < j,
             Belongs(rows, i, e), Belongs(rows, j, e)
      PROVE  FALSE
  <2>1. NsNumber(rows, i) > 0 /\ NsNumber(rows, j) > 0
    BY NsNumberPositive
  <2>2. (rows[i].type = "namespace") <=> (rows[j].type = "namespace")
    BY <1>1, <2>1 DEF Belongs
  <2>3. rows[i].key = rows[j].key
    BY <1>1 DEF Belongs
  <2>4. i \in DOMAIN rows /\ j \in DOMAIN rows
    OBVIOUS
  <2>5. PICK n \in i + 1..j : rows[i].type # "namespace" /\ rows[n].type = "namespace"
    BY <1>1, <2>2, <2>3, <2>4 DEF WellFormed
  <2>6. NsNumber(rows, i) < NsNumber(rows, j)
    BY <2>5, NsNumberSplits
  <2>7. NsNumber(rows, i) = NsNumber(rows, j)
    BY <1>1, <2>2, <2>5 DEF Belongs
  <2>8. i \in Nat /\ NsNumber(rows, i) \in Nat
    BY NsNumberType
  <2> QED
    BY <2>6, <2>7, <2>8
<1>2. q < r \/ r < q
  OBVIOUS
<1> QED
  BY <1>1, <1>2

-----------------------------------------------------------------------------
(* What a device makes of a page. *)

LEMMA EntryFields ==
  ASSUME NEW e \in Contents, e.type # "data"
  PROVE  /\ e.type \in {"primitive", "string", "blob", "chunk", "index"}
         /\ e.ns \in Nat /\ e.span \in Nat /\ e.chunk \in Nat /\ e.value \in Nat /\ e.size \in Nat
  BY DEF Contents

LEMMA ContentKinds ==
  ASSUME NEW c \in Seq(Contents), NEW i \in 1..Len(c)
  PROVE  c[i] \in Contents /\ c[i].type # "garbage"
<1>1. c[i] \in Contents
  BY ElementOfSeq
<1> QED
  BY <1>1 DEF Contents

(* In a tiled page the spans lead to every entry that describes an item.    *)
LEMMA HeadsOfTiled ==
  ASSUME NEW c, Tiled(c), Len(c) <= MaxEntries
  PROVE  Heads(c) = Described(c)
<1> DEFINE M == MaxEntries
           Ends(i) == i > Len(c) \/ c[i].type \in {"data", "garbage"}
           Defines(f) ==
             f = [i \in 1..(MaxEntries + 1) |->
                   IF i > Len(c) \/ c[i].type \in {"data", "garbage"} THEN {}
                   ELSE {i} \cup (IF i + c[i].span > MaxEntries THEN {}
                                  ELSE f[i + c[i].span])]
           g == [i \in 1..(MaxEntries + 1) |->
                  IF Ends(i) THEN {} ELSE {j \in Described(c) : i <= j}]
<1>1. M \in Nat /\ M > 1 /\ c \in Seq(Contents) /\ Len(c) \in Nat /\ Len(c) <= M
  BY FormatAssumption DEF Tiled
<1>2. \A i \in 1..Len(c) : c[i] \in Contents /\ c[i].type # "garbage"
  BY <1>1, ContentKinds
<1>3. \A i \in Described(c) : c[i].span \in Nat /\ c[i].span > 0
  BY <1>2, EntryFields DEF Described, Tiled, SpansTo
<1>4. ASSUME NEW i \in 1..(M + 1), ~Ends(i)
      PROVE  {j \in Described(c) : i <= j} =
               {i} \cup (IF i + c[i].span > M THEN {} ELSE g[i + c[i].span])
  <2> DEFINE e == i + c[i].span
  <2>1. /\ i \in Described(c) /\ i \in 1..Len(c)
        /\ e \in Nat /\ e > i /\ e <= Len(c) + 1
        /\ e <= Len(c) => c[e].type # "data"
        /\ \A j \in i + 1..e - 1 : c[j].type = "data"
    BY <1>1, <1>3, <1>4 DEF Described, Tiled, SpansTo
  <2> HIDE DEF e
  <2>2. {j \in Described(c) : i <= j} = {i} \cup {j \in Described(c) : e <= j}
    BY <2>1 DEF Described
  <2>3. CASE e > M
    <3>1. {j \in Described(c) : e <= j} = {}
      BY <1>1, <2>1, <2>3 DEF Described
    <3> QED
      BY <2>2, <2>3, <3>1 DEF e
  <2>4. CASE ~(e > M)
    <3>1. e \in 1..(M + 1)
      BY <1>1, <2>1, <2>4
    <3>2. g[e] = {j \in Described(c) : e <= j}
      <4>1. CASE e > Len(c)
        <5>1. {j \in Described(c) : e <= j} = {}
          BY <1>1, <2>1, <4>1 DEF Described
        <5> QED
          BY <3>1, <4>1, <5>1
      <4>2. CASE ~(e > Len(c))
        <5>1. e \in 1..Len(c)
          BY <1>1, <2>1, <4>2
        <5>2. ~Ends(e)
          BY <1>1, <1>2, <2>1, <4>2, <5>1
        <5> QED
          BY <3>1, <5>2
      <4> QED
        BY <4>1, <4>2
    <3> QED
      BY <2>2, <2>4, <3>2 DEF e
  <2> QED
    BY <2>3, <2>4
<1>5. Defines(g)
  <2> DEFINE Step(i) == IF Ends(i) THEN {}
                        ELSE {i} \cup (IF i + c[i].span > MaxEntries THEN {}
                                       ELSE g[i + c[i].span])
  <2>1. ASSUME NEW i \in 1..(MaxEntries + 1) PROVE g[i] = Step(i)
    BY <1>4
  <2> HIDE DEF Step
  <2>2. g = [i \in 1..(MaxEntries + 1) |-> Step(i)]
    BY <2>1
  <2> QED
    BY <2>2 DEF Step
<1> HIDE DEF g
<1>6. ASSUME NEW f, Defines(f), NEW i \in 1..(M + 1), f[i] # g[i] PROVE FALSE
  <2> DEFINE S == {m \in 0..M : f[M + 1 - m] # g[M + 1 - m]}
  <2>1. PICK m \in S : \A k \in S : m <= k
    <3>1. M + 1 - i \in 0..M /\ M + 1 - (M + 1 - i) = i
      BY <1>1
    <3>2. M + 1 - i \in S
      BY <1>6, <3>1
    <3>3. S \in SUBSET Nat
      BY <1>1
    <3> HIDE DEF S
    <3> QED
      BY <3>2, <3>3, LeastElement
  <2> DEFINE a == M + 1 - m
  <2>2. a \in 1..(M + 1) /\ f[a] # g[a] /\ m \in 0..M
    BY <1>1
  <2>3. ASSUME NEW b \in 1..(M + 1), b > a PROVE f[b] = g[b]
    <3>1. M + 1 - b \in 0..M /\ M + 1 - b < m /\ M + 1 - (M + 1 - b) = b
      BY <1>1, <2>2, <2>3
    <3>2. M + 1 - b \notin S
      <4> HIDE DEF S
      <4> QED
        BY <1>1, <2>1, <2>2, <3>1
    <3>3. M + 1 - b \in 0..M => (M + 1 - b \in S <=> f[M + 1 - (M + 1 - b)] # g[M + 1 - (M + 1 - b)])
      OBVIOUS
    <3> QED
      BY <3>1, <3>2, <3>3, Zenon
  <2> HIDE DEF a
  <2>4. ~Ends(a)
    BY <1>5, <1>6, <2>2
  <2>5. a \in Described(c) /\ a + c[a].span > a /\ a + c[a].span \in Nat
    BY <1>1, <1>3, <2>2, <2>4 DEF Described
  <2>6. ~(a + c[a].span > M) => f[a + c[a].span] = g[a + c[a].span]
    BY <1>1, <2>2, <2>3, <2>5
  <2>7. f[a] = {a} \cup (IF a + c[a].span > MaxEntries THEN {} ELSE f[a + c[a].span])
    BY <1>6, <2>2, <2>4
  <2>8. g[a] = {a} \cup (IF a + c[a].span > MaxEntries THEN {} ELSE g[a + c[a].span])
    BY <1>5, <2>2, <2>4
  <2> QED
    BY <2>2, <2>6, <2>7, <2>8
<1>7. Defines(CHOOSE f : Defines(f))
  BY <1>5
<1>8. Heads(c) = (CHOOSE f : Defines(f))[1]
  BY DEF Heads
<1>9. 1 \in 1..(M + 1)
  BY <1>1
<1> HIDE DEF Defines
<1>10. Heads(c) = g[1]
  BY <1>6, <1>7, <1>8, <1>9
<1>11. g[1] = Described(c)
  <2>1. CASE Len(c) = 0
    BY <1>9, <2>1 DEF g, Described
  <2>2. CASE Len(c) > 0
    <3>1. ~Ends(1)
      BY <1>1, <1>2, <2>2 DEF Tiled
    <3>2. {j \in Described(c) : 1 <= j} = Described(c)
      BY DEF Described
    <3> QED
      BY <1>9, <3>1, <3>2 DEF g
  <2> QED
    BY <1>1, <2>1, <2>2
<1> QED
  BY <1>10, <1>11

(* An entry and its data after the last item of a page. *)
LEMMA AppendItem ==
  ASSUME NEW c, Tiled(c), NEW e \in Contents, NEW d \in Seq(Contents),
         e.type # "data", e.span = Len(d) + 1, \A j \in 1..Len(d) : d[j].type = "data"
  PROVE  /\ Tiled(c \o (<<e>> \o d))
         /\ PageLog(c \o (<<e>> \o d)) = PageLog(c) \cup {[entry |-> e, data |-> d]}
<1> DEFINE s == <<e>> \o d
           t == c \o s
           n == Len(c)
           m == Len(d)
<1>1. /\ c \in Seq(Contents) /\ n \in Nat /\ m \in Nat /\ e.span = m + 1
      /\ Len(c) = n /\ Len(d) = m
  BY DEF Tiled
<1>2. s \in Seq(Contents) /\ Len(s) = m + 1 /\ s[1] = e /\ \A j \in 1..m : s[j + 1] = d[j]
  <2>1. <<e>> \in Seq(Contents) /\ Len(<<e>>) = 1 /\ <<e>>[1] = e
    OBVIOUS
  <2>2. /\ s \in Seq(Contents)
        /\ Len(s) = Len(<<e>>) + m
        /\ \A i \in 1..Len(<<e>>) + m : s[i] = IF i <= Len(<<e>>) THEN <<e>>[i] ELSE d[i - Len(<<e>>)]
    BY <2>1, ConcatProperties
  <2> QED
    BY <1>1, <2>1, <2>2
<1> HIDE DEF s, n, m
<1>3. /\ t \in Seq(Contents)
      /\ Len(t) = n + (m + 1)
      /\ \A i \in 1..n + (m + 1) : t[i] = IF i <= n THEN c[i] ELSE s[i - n]
  <2>1. /\ t \in Seq(Contents)
        /\ Len(t) = Len(c) + Len(s)
        /\ \A i \in 1..Len(c) + Len(s) : t[i] = IF i <= Len(c) THEN c[i] ELSE s[i - Len(c)]
    BY <1>1, <1>2, ConcatProperties, Zenon
  <2> QED
    BY <1>1, <1>2, <2>1
<1> HIDE DEF t
<1>4. /\ \A i \in 1..n : t[i] = c[i]
      /\ t[n + 1] = e
      /\ \A j \in 1..m : t[n + 1 + j] = d[j]
  <2>1. \A i \in 1..n : t[i] = c[i]
    BY <1>1, <1>3
  <2>2. t[n + 1] = e
    BY <1>1, <1>2, <1>3
  <2>3. ASSUME NEW j \in 1..m PROVE t[n + 1 + j] = d[j]
    <3>1. PICK k \in 1..n + (m + 1) : k = n + 1 + j /\ ~(k <= n) /\ k - n = j + 1
      BY <1>1
    <3>2. t[k] = s[k - n]
      BY <1>3, <3>1
    <3> QED
      BY <1>2, <3>1, <3>2
  <2> QED
    BY <2>1, <2>2, <2>3
<1>5. \A j \in n + 2..n + m + 1 : t[j].type = "data"
  <2> SUFFICES ASSUME NEW j \in n + 2..n + m + 1 PROVE t[j].type = "data"
    OBVIOUS
  <2>1. PICK k \in 1..m : n + 1 + k = j
    <3>1. j - (n + 1) \in 1..m /\ n + 1 + (j - (n + 1)) = j
      BY <1>1
    <3> QED
      BY <3>1
  <2>2. t[j] = d[k] /\ d[k].type = "data"
    BY <1>1, <1>4, <2>1
  <2> QED
    BY <2>2
<1>6. Described(t) = Described(c) \cup {n + 1}
  <2>1. ASSUME NEW i \in 1..n + (m + 1)
        PROVE  i \in 1..n \/ i = n + 1 \/ i \in n + 2..n + m + 1
    BY <1>1
  <2> QED
    BY <1>1, <1>3, <1>4, <1>5, <2>1 DEF Described
<1>7. \A i \in Described(c) : /\ i \in 1..n /\ t[i] = c[i]
                              /\ c[i].span \in Nat /\ c[i].span > 0
                              /\ i + c[i].span <= n + 1
  BY <1>1, <1>4, ContentKinds, EntryFields DEF Described, Tiled, SpansTo
<1>8. Tiled(t)
  <2>1. Len(t) > 0 => t[1].type # "data"
    BY <1>1, <1>4 DEF Tiled
  <2>2. ASSUME NEW i \in Described(c) PROVE SpansTo(t, i, i + t[i].span)
    <3> DEFINE end == i + c[i].span
    <3>1. /\ i \in 1..n /\ end \in Nat /\ end > i /\ t[i] = c[i] /\ t[i].span > 0
          /\ end \in 1..n \/ end = n + 1
      BY <1>1, <1>7
    <3>2. /\ end \in 1..n => c[end].type # "data"
          /\ \A j \in i + 1..end - 1 : c[j].type = "data"
      <4>1. SpansTo(c, i, end) /\ Len(c) = n
        BY <1>1 DEF Tiled
      <4>2. end \in 1..n => end <= Len(c)
        BY <1>1
      <4> QED
        BY <4>1, <4>2 DEF SpansTo
    <3>3. i + t[i].span = end
      BY <3>1
    <3> HIDE DEF end
    <3>4. ASSUME NEW j \in i + 1..end - 1 PROVE j \in 1..n
      BY <1>1, <3>1
    <3>5. ASSUME NEW j \in i + 1..end - 1 PROVE t[j].type = "data"
      <4>1. j \in 1..n
        BY <3>4
      <4>2. t[j] = c[j] /\ c[j].type = "data"
        BY <1>4, <3>2, <4>1
      <4> QED
        BY <4>2
    <3>6. t[end].type # "data" /\ end <= Len(t) + 1
      <4>1. t[end].type # "data"
        BY <1>4, <3>1, <3>2
      <4> QED
        BY <1>1, <1>3, <3>1, <4>1
    <3> QED
      BY <3>1, <3>3, <3>5, <3>6 DEF SpansTo
  <2>3. SpansTo(t, n + 1, n + 1 + t[n + 1].span)
    <3>1. t[n + 1].span = m + 1 /\ n + 1 + (m + 1) = Len(t) + 1 /\ Len(t) \in Nat
      BY <1>1, <1>3, <1>4
    <3>2. n + 1 + (m + 1) - 1 = n + m + 1 /\ n + 1 + 1 = n + 2
      BY <1>1
    <3> QED
      BY <1>1, <1>5, <3>1, <3>2 DEF SpansTo
  <2> QED
    BY <1>3, <1>6, <2>1, <2>2, <2>3 DEF Tiled
<1> DEFINE Item(x, i) == [entry |-> x[i], data |-> SubSeq(x, i + 1, i + x[i].span - 1)]
<1>9. ASSUME NEW i \in Described(c) PROVE Item(t, i) = Item(c, i)
  <2> DEFINE a == i + 1
             b == i + c[i].span - 1
  <2>1. a \in Int /\ b \in Int /\ a > 0 /\ b <= n
    BY <1>1, <1>7
  <2>2. \A j \in a..b : j \in 1..n
    BY <1>1, <2>1
  <2>3. \A j \in a..b : c[j] \in Contents /\ t[j] = c[j]
    BY <1>1, <1>4, <2>2, ElementOfSeq
  <2> HIDE DEF a, b
  <2>4. SubSeq(t, a, b) = SubSeq(c, a, b)
    <3>1. /\ SubSeq(c, a, b) \in Seq(Contents) /\ SubSeq(t, a, b) \in Seq(Contents)
          /\ Len(SubSeq(c, a, b)) = IF a <= b THEN b - a + 1 ELSE 0
          /\ Len(SubSeq(t, a, b)) = IF a <= b THEN b - a + 1 ELSE 0
          /\ \A j \in 1..b - a + 1 : SubSeq(c, a, b)[j] = c[a + j - 1]
          /\ \A j \in 1..b - a + 1 : SubSeq(t, a, b)[j] = t[a + j - 1]
      BY <2>1, <2>3, SubSeqProperties
    <3>2. \A j \in 1..Len(SubSeq(t, a, b)) : j \in 1..b - a + 1 /\ a + j - 1 \in a..b
      BY <2>1, <3>1
    <3> QED
      BY <2>3, <3>1, <3>2, SeqEqual
  <2> QED
    BY <1>7, <2>4 DEF a, b
<1>10. Item(t, n + 1) = [entry |-> e, data |-> d]
  <2>1. t[n + 1].span = m + 1 /\ n + 1 + t[n + 1].span - 1 = n + m + 1 /\ n + 1 + 1 = n + 2
    BY <1>1, <1>4
  <2> DEFINE a == n + 2
             b == n + m + 1
  <2>2. /\ a \in Int /\ b \in Int /\ b - a + 1 = m
        /\ \A j \in a..b : j \in 1..Len(t)
        /\ \A j \in 1..m : a + j - 1 = n + 1 + j
    BY <1>1, <1>3
  <2>2a. \A j \in a..b : t[j] \in Contents
    BY <1>3, <2>2, ElementOfSeq
  <2> HIDE DEF a, b
  <2>3. /\ SubSeq(t, a, b) \in Seq(Contents)
        /\ Len(SubSeq(t, a, b)) = m
        /\ \A j \in 1..m : SubSeq(t, a, b)[j] = t[n + 1 + j]
    <3>1. /\ SubSeq(t, a, b) \in Seq(Contents)
          /\ Len(SubSeq(t, a, b)) = IF a <= b THEN b - a + 1 ELSE 0
          /\ \A j \in 1..b - a + 1 : SubSeq(t, a, b)[j] = t[a + j - 1]
      BY <2>2, <2>2a, SubSeqProperties
    <3>2. (a <= b) <=> (m > 0)
      BY <1>1, <2>2
    <3>3. Len(SubSeq(t, a, b)) = m
      BY <1>1, <2>2, <3>1, <3>2
    <3> QED
      BY <2>2, <3>1, <3>3, Zenon
  <2>4. SubSeq(t, a, b) = d
    <3> DEFINE u == SubSeq(t, a, b)
    <3>1. u \in Seq(Contents) /\ Len(u) = Len(d)
      BY <1>1, <2>3
    <3>2. ASSUME NEW j \in 1..Len(u) PROVE u[j] = d[j]
      <4>1. j \in 1..m
        BY <1>1, <3>1, <3>2
      <4> QED
        BY <1>4, <2>3, <4>1
    <3> HIDE DEF u
    <3>3. u = d
      BY <3>1, <3>2, SeqEqual
    <3> QED
      BY <3>3 DEF u
  <2> QED
    BY <1>4, <2>1, <2>4 DEF a, b
<1>11. PageLog(t) = {Item(t, i) : i \in Described(t)} /\ PageLog(c) = {Item(c, i) : i \in Described(c)}
  BY DEF PageLog
<1> HIDE DEF Item
<1>12. PageLog(t) = PageLog(c) \cup {[entry |-> e, data |-> d]}
  BY <1>6, <1>9, <1>10, <1>11
<1> QED
  BY <1>8, <1>12 DEF s, t

-----------------------------------------------------------------------------
(* The log of the pages. *)

LEMMA ClearPageType ==
  ASSUME NEW page \in Page
  PROVE  /\ ClearPage(page) \in Seq(Contents)
         /\ Len(ClearPage(page)) = Len(page.slots)
         /\ \A i \in 1..Len(page.slots) : ClearPage(page)[i] = page.slots[i].content
<1>1. page.slots \in Seq(Slot) /\ Len(page.slots) \in Nat
      /\ DOMAIN page.slots = 1..Len(page.slots)
  BY DEF Page
<1>2. \A i \in 1..Len(page.slots) : page.slots[i].content \in Contents
  <2> SUFFICES ASSUME NEW i \in 1..Len(page.slots) PROVE page.slots[i].content \in Contents
    OBVIOUS
  <2>1. page.slots[i] \in Slot
    BY <1>1, ElementOfSeq
  <2> QED
    BY <2>1 DEF Slot
<1>3. ClearPage(page) = [i \in 1..Len(page.slots) |-> page.slots[i].content]
  BY <1>1 DEF ClearPage
<1> QED
  BY <1>1, <1>2, <1>3

(* A page without entries has no items. *)
LEMMA BlankPage ==
  ASSUME NEW page, page.slots = <<>>
  PROVE  Tiled(ClearPage(page)) /\ PageLog(ClearPage(page)) = {}
<1>1. ClearPage(page) = <<>>
  BY DEF ClearPage
<1>2. <<>> \in Seq(Contents) /\ Len(<<>>) = 0
  OBVIOUS
<1>3. Described(<<>>) = {}
  BY <1>2 DEF Described
<1>4. PageLog(<<>>) = {}
  BY <1>3 DEF PageLog
<1> QED
  BY <1>1, <1>2, <1>3, <1>4 DEF Tiled

LEMMA LogOfNewPage ==
  ASSUME NEW key \in EncryptionKeys, NEW ps, Writable(key, ps), NEW end,
         NEW state \in {"active", "reserved"},
         \A p \in 1..Len(ps) : Tiled(ClearPage(ps[p]))
  PROVE  LET rs == WithPage(ps, state)
         IN  /\ \A p \in 1..Len(rs) : Tiled(ClearPage(rs[p]))
             /\ Log(rs, end) = Log(ps, end)
<1> DEFINE rs == WithPage(ps, state)
<1>1. /\ Len(rs) = Len(ps) + 1 /\ Len(ps) \in Nat
      /\ \A p \in 1..Len(ps) : rs[p].slots = ps[p].slots /\ rs[p].address = ps[p].address
      /\ rs[Len(rs)].slots = <<>>
  BY WithPageProperties DEF Writable
<1> HIDE DEF rs
<1>2. \A p \in 1..Len(ps) : ClearPage(rs[p]) = ClearPage(ps[p])
  BY <1>1 DEF ClearPage
<1>3. Tiled(ClearPage(rs[Len(rs)])) /\ PageLog(ClearPage(rs[Len(rs)])) = {}
  BY <1>1, BlankPage
<1>4. 1..Len(rs) = 1..Len(ps) \cup {Len(rs)}
  BY <1>1
<1>5. \A p \in 1..Len(rs) : Tiled(ClearPage(rs[p]))
  BY <1>2, <1>3, <1>4
<1>6. \A p \in 1..Len(ps) : OnFlash(rs[p], end) <=> OnFlash(ps[p], end)
  BY <1>1 DEF OnFlash
<1>7. Log(rs, end) = Log(ps, end)
  BY <1>2, <1>3, <1>4, <1>6 DEF Log, Seen
<1> QED
  BY <1>5, <1>7 DEF rs

(* An item written to the current page is added to the log, if a device     *)
(* finds the page.                                                          *)
Shown(ps, end, x) == IF OnFlash(ps[Len(ps)], end) THEN {x} ELSE {}

LEMMA LogOfItem ==
  ASSUME encr_key \in EncryptionKeys, NEW ps, Writable(encr_key, ps),
         NEW bytes \in Nat,
         \A p \in 1..Len(ps) : Tiled(ClearPage(ps[p])),
         NEW e \in Contents, NEW d \in Seq(Contents), e.type # "data",
         e.span = Len(d) + 1, \A j \in 1..Len(d) : d[j].type = "data",
         Used(ps) + Len(d) + 1 <= MaxEntries,
         NEW written, written = Put(ps, <<e>> \o d, bytes)
  PROVE  /\ \A p \in 1..Len(written) : Tiled(ClearPage(written[p]))
         /\ \A end : Log(written, end) =
                       Log(ps, end) \cup Shown(ps, end, [entry |-> e, data |-> d])
         /\ Writable(encr_key, written)
<1> DEFINE s == <<e>> \o d
           rs == Put(ps, s, bytes)
           n == Len(ps)
           c == ClearPage(ps[n])
<1>1. s \in Seq(Contents) /\ Len(s) = Len(d) + 1 /\ Len(d) \in Nat
  <2>1. <<e>> \in Seq(Contents) /\ Len(<<e>>) = 1
    OBVIOUS
  <2>2. s \in Seq(Contents) /\ Len(s) = Len(<<e>>) + Len(d)
    BY <2>1, ConcatProperties
  <2> QED
    BY <2>1, <2>2
<1>2. ps \in Seq(Page) /\ n \in Nat /\ n > 0 /\ ps[n] \in Page
  BY ElementOfSeq DEF Writable
<1>3. /\ c \in Seq(Contents) /\ Len(c) = Used(ps) /\ Used(ps) \in Nat
      /\ \A i \in 1..Len(c) : c[i] = ps[n].slots[i].content
  <2>1. /\ ClearPage(ps[n]) \in Seq(Contents)
        /\ Len(ClearPage(ps[n])) = Len(ps[n].slots)
        /\ \A i \in 1..Len(ps[n].slots) : ClearPage(ps[n])[i] = ps[n].slots[i].content
    BY <1>2, ClearPageType
  <2>2. Used(ps) = Len(ps[n].slots)
    BY DEF Used
  <2> QED
    BY <2>1, <2>2
<1>0. written = rs
  OBVIOUS
<1> HIDE DEF s
<1>4. Used(ps) + Len(s) <= MaxEntries
  <2>1. Used(ps) \in Nat /\ Len(d) \in Nat /\ MaxEntries \in Nat /\ Len(s) = Len(d) + 1
    BY <1>1, <1>3, FormatAssumption
  <2> QED
    BY <2>1
<1>5. /\ Writable(encr_key, rs)
      /\ Len(rs) = n
      /\ Used(rs) = Used(ps) + Len(s)
      /\ \A p \in 1..n - 1 : rs[p] = ps[p]
      /\ \A p \in 1..n : rs[p].address = ps[p].address
      /\ \A i \in 1..Used(ps) + Len(s) :
           rs[n].slots[i].content =
             IF i <= Used(ps) THEN ps[n].slots[i].content ELSE s[i - Used(ps)]
  <2>1. s \in Seq(Contents) /\ Used(ps) + Len(s) <= MaxEntries
    BY <1>1, <1>4
  <2> QED
    BY <2>1, PutProperties
<1> HIDE DEF rs
<1>6. ClearPage(rs[n]) = c \o s
  <2>1. rs[n] \in Page /\ Len(rs[n].slots) = Used(ps) + Len(s)
    BY <1>2, <1>5, ElementOfSeq DEF Writable, Used
  <2>2. /\ ClearPage(rs[n]) \in Seq(Contents)
        /\ Len(ClearPage(rs[n])) = Used(ps) + Len(s)
        /\ \A i \in 1..Used(ps) + Len(s) : ClearPage(rs[n])[i] = rs[n].slots[i].content
    BY <2>1, ClearPageType
  <2> HIDE DEF c, n
  <2>3. /\ c \o s \in Seq(Contents)
        /\ Len(c \o s) = Len(c) + Len(s)
        /\ \A i \in 1..Len(c) + Len(s) : (c \o s)[i] = IF i <= Len(c) THEN c[i] ELSE s[i - Len(c)]
    BY <1>1, <1>3, ConcatProperties
  <2> DEFINE l == ClearPage(rs[n])
             r == c \o s
  <2>4. l \in Seq(Contents) /\ r \in Seq(Contents) /\ Len(l) = Len(r)
    BY <1>3, <2>2, <2>3
  <2>5. ASSUME NEW i \in 1..Len(l) PROVE l[i] = r[i]
    <3>1. i \in 1..Used(ps) + Len(s)
      BY <2>2
    <3>2. i <= Used(ps) => i \in 1..Len(c)
      BY <1>3, <3>1
    <3> QED
      BY <1>3, <1>5, <2>2, <2>3, <3>1, <3>2
  <2> HIDE DEF l, r
  <2>6. l = r
    BY <2>4, <2>5, SeqEqual
  <2> QED
    BY <2>6 DEF l, r
<1>7. /\ Tiled(ClearPage(rs[n]))
      /\ PageLog(ClearPage(rs[n])) = PageLog(c) \cup {[entry |-> e, data |-> d]}
  <2>1. Tiled(c)
    BY <1>2
  <2> HIDE DEF c
  <2> QED
    BY <1>6, <2>1, AppendItem DEF s
<1>8. \A p \in 1..n : p = n \/ p \in 1..n - 1
  BY <1>2
<1>9. \A p \in 1..Len(rs) : Tiled(ClearPage(rs[p]))
  BY <1>5, <1>7, <1>8
<1>10. ASSUME NEW end
       PROVE  Log(rs, end) = Log(ps, end) \cup Shown(ps, end, [entry |-> e, data |-> d])
  <2>0. \A p \in 1..n : OnFlash(rs[p], end) <=> OnFlash(ps[p], end)
    BY <1>5 DEF OnFlash
  <2> DEFINE x == [entry |-> e, data |-> d]
             P(q) == PageLog(ClearPage(q))
  <2>1. Seen(rs, end) = Seen(ps, end) /\ (n \in Seen(ps, end) <=> OnFlash(ps[n], end))
    BY <1>2, <1>5, <2>0 DEF Seen
  <2>2. /\ \A p \in 1..n - 1 : P(rs[p]) = P(ps[p])
        /\ P(rs[n]) = P(ps[n]) \cup {x}
        /\ Seen(ps, end) \subseteq 1..n
    BY <1>5, <1>7 DEF Seen
  <2>3. Log(rs, end) = UNION {P(rs[p]) : p \in Seen(ps, end)}
        /\ Log(ps, end) = UNION {P(ps[p]) : p \in Seen(ps, end)}
    BY <2>1 DEF Log
  <2>4. Shown(ps, end, x) = IF n \in Seen(ps, end) THEN {x} ELSE {}
    BY <2>1 DEF Shown
  <2> HIDE DEF x, P, n
  <2>5. UNION {P(rs[p]) : p \in Seen(ps, end)}
          = (UNION {P(ps[p]) : p \in Seen(ps, end)})
              \cup (IF n \in Seen(ps, end) THEN {x} ELSE {})
    <3> DEFINE T == Seen(ps, end)
               A(p) == P(rs[p])
               B(p) == P(ps[p])
    <3>1. \A p \in T : p = n \/ A(p) = B(p)
      BY <1>8, <2>2
    <3>2. A(n) = B(n) \cup {x}
      BY <2>2
    <3> HIDE DEF T, A, B
    <3>3. CASE n \in T
      BY <3>1, <3>2, <3>3 DEF A, B, T
    <3>4. CASE n \notin T
      <4>1. {A(p) : p \in T} = {B(p) : p \in T}
        BY <3>1, <3>4
      <4> QED
        BY <3>4, <4>1 DEF A, B, T
    <3> QED
      BY <3>3, <3>4
  <2> QED
    BY <2>3, <2>4, <2>5 DEF x
<1> QED
  BY <1>0, <1>5, <1>9, <1>10, Zenon

-----------------------------------------------------------------------------
(* What a device finds is what is in the log. *)

Clear(ps, end) == [p \in DOMAIN ps |-> IF OnFlash(ps[p], end) THEN ClearPage(ps[p]) ELSE <<>>]

Legible(ps) ==
  /\ ps \in Seq(Page)
  /\ Fitting(ps)
  /\ \A p \in 1..Len(ps) : Tiled(ClearPage(ps[p]))

Matching(L, ns, key, types) ==
  {x \in L : x.entry.type \in types /\ x.entry.ns = ns /\ x.entry.key = key}

ItemAt(C, h) == [entry |-> C[h[1]][h[2]], data |-> DataOf(C, h)]

LEMMA ItemsOfLog ==
  ASSUME NEW ps, Legible(ps), NEW end, NEW ns, NEW key, NEW types
  PROVE  {ItemAt(Clear(ps, end), h) : h \in Items(Clear(ps, end), ns, key, types)}
           = Matching(Log(ps, end), ns, key, types)
<1> DEFINE C == Clear(ps, end)
<1>1. /\ DOMAIN C = 1..Len(ps)
      /\ \A p \in 1..Len(ps) : C[p] = IF OnFlash(ps[p], end) THEN ClearPage(ps[p]) ELSE <<>>
  BY DEF Clear, Legible
<1>2. ASSUME NEW p \in 1..Len(ps)
      PROVE  Heads(C[p]) = IF OnFlash(ps[p], end) THEN Described(ClearPage(ps[p])) ELSE {}
  <2>1. ps[p] \in Page /\ Len(ps[p].slots) <= MaxEntries
    BY ElementOfSeq DEF Legible, Fitting
  <2>2. Tiled(ClearPage(ps[p])) /\ Len(ClearPage(ps[p])) <= MaxEntries
    BY <2>1, ClearPageType DEF Legible
  <2>3. Tiled(<<>>) /\ Len(<<>>) <= MaxEntries /\ Described(<<>>) = {}
    BY FormatAssumption DEF Tiled, Described
  <2>4. Heads(<<>>) = {}
    BY <2>3, HeadsOfTiled
  <2>5. Heads(ClearPage(ps[p])) = Described(ClearPage(ps[p]))
    BY <2>2, HeadsOfTiled
  <2> QED
    BY <1>1, <2>4, <2>5
<1> DEFINE All == UNION {{p} \X Heads(C[p]) : p \in DOMAIN C}
           At(p, i) == [entry |-> C[p][i], data |-> SubSeq(C[p], i + 1, i + C[p][i].span - 1)]
<1>3. \A h \in All : h[1] \in 1..Len(ps) /\ h[2] \in Heads(C[h[1]]) /\ ItemAt(C, h) = At(h[1], h[2])
  BY <1>1 DEF ItemAt, DataOf
<1>4. \A p \in 1..Len(ps) : \A i \in Heads(C[p]) : <<p, i>> \in All /\ ItemAt(C, <<p, i>>) = At(p, i)
  BY <1>1 DEF ItemAt, DataOf
<1>5. Log(ps, end) = UNION {{At(p, i) : i \in Heads(C[p])} : p \in 1..Len(ps)}
  <2> DEFINE S(p) == {At(p, i) : i \in Heads(C[p])}
             P(p) == PageLog(ClearPage(ps[p]))
  <2>1. ASSUME NEW p \in 1..Len(ps) PROVE S(p) = IF OnFlash(ps[p], end) THEN P(p) ELSE {}
    <3>1. CASE OnFlash(ps[p], end)
      BY <1>1, <1>2, <3>1 DEF PageLog
    <3>2. CASE ~OnFlash(ps[p], end)
      BY <1>2, <3>2
    <3> QED
      BY <3>1, <3>2
  <2> HIDE DEF S, P
  <2>2. UNION {P(p) : p \in Seen(ps, end)} = UNION {S(p) : p \in 1..Len(ps)}
    BY <2>1 DEF Seen
  <2> QED
    BY <2>2 DEF Log, S, P
<1>6. Items(C, ns, key, types) =
        {h \in All : LET e == C[h[1]][h[2]] IN e.type \in types /\ e.ns = ns /\ e.key = key}
  BY DEF Items
<1>7. \A h \in All : ItemAt(C, h).entry = C[h[1]][h[2]]
  BY DEF ItemAt
<1> HIDE DEF All
<1>8. ASSUME NEW h \in Items(C, ns, key, types)
      PROVE  ItemAt(C, h) \in Matching(Log(ps, end), ns, key, types)
  <2>1. h \in All /\ LET e == C[h[1]][h[2]] IN e.type \in types /\ e.ns = ns /\ e.key = key
    BY <1>6
  <2>2. ItemAt(C, h) \in Log(ps, end)
    <3> HIDE DEF At
    <3> QED
      BY <1>3, <1>5, <2>1
  <2> QED
    BY <1>7, <2>1, <2>2 DEF Matching
<1>9. ASSUME NEW x \in Matching(Log(ps, end), ns, key, types)
      PROVE  \E h \in Items(C, ns, key, types) : x = ItemAt(C, h)
  <2>1. x \in Log(ps, end) /\ x.entry.type \in types /\ x.entry.ns = ns /\ x.entry.key = key
    BY DEF Matching
  <2>2. PICK p \in 1..Len(ps) : \E i \in Heads(C[p]) : x = At(p, i)
    <3> HIDE DEF At
    <3> QED
      BY <1>5, <2>1
  <2>3. PICK i \in Heads(C[p]) : x = At(p, i)
    BY <2>2
  <2>4. <<p, i>> \in All /\ x = ItemAt(C, <<p, i>>)
    BY <1>4, <2>3
  <2>5. x.entry = C[<<p, i>>[1]][<<p, i>>[2]]
    BY <1>7, <2>4
  <2>6. <<p, i>> \in Items(C, ns, key, types)
    BY <1>6, <2>1, <2>4, <2>5
  <2> QED
    BY <2>4, <2>6
<1> QED
  BY <1>8, <1>9 DEF Matching

-----------------------------------------------------------------------------
(* A value in pieces. *)

(* n bytes that begin at a whole entry continue the a bytes before them.    *)
LEMMA PiecesContinue ==
  ASSUME NEW r \in Nat, NEW a \in Nat, NEW n \in Nat, a % EntrySize = 0
  PROVE  Pieces(r, 0, a) \o Pieces(r, a, n) = Pieces(r, 0, a + n)
<1> DEFINE k == Entries(a)
           m == Entries(n)
           l == Pieces(r, 0, a) \o Pieces(r, a, n)
           g == Pieces(r, 0, a + n)
<1>1. k \in Nat /\ a = 32 * k
  <2>1. PICK q \in Nat : a = q * 32
    BY Multiples DEF EntrySize
  <2>2. k \in Nat /\ a <= k * 32 /\ k * 32 < a + 32
    BY EntriesBounds
  <2> HIDE DEF k
  <2> QED
    BY <2>1, <2>2
<1>2. m \in Nat /\ n <= m * 32 /\ m * 32 < n + 32
  BY EntriesBounds
<1>3. Entries(a + n) = k + m
  <2>1. Entries(a + n) \in Nat /\ a + n <= Entries(a + n) * 32 /\ Entries(a + n) * 32 < a + n + 32
    BY EntriesBounds
  <2> HIDE DEF k, m
  <2> QED
    BY <1>1, <1>2, <2>1
<1>4. /\ Pieces(r, 0, a) \in Seq(Contents) /\ Len(Pieces(r, 0, a)) = k
      /\ Pieces(r, a, n) \in Seq(Contents) /\ Len(Pieces(r, a, n)) = m
      /\ g \in Seq(Contents) /\ Len(g) = k + m
  <2>1. a + n \in Nat /\ 0 \in Nat
    OBVIOUS
  <2>2. /\ Pieces(r, 0, a) \in Seq(Contents) /\ Len(Pieces(r, 0, a)) = Entries(a)
        /\ Pieces(r, a, n) \in Seq(Contents) /\ Len(Pieces(r, a, n)) = Entries(n)
        /\ g \in Seq(Contents) /\ Len(g) = Entries(a + n)
    BY <2>1, PiecesType, Zenon
  <2> QED
    BY <1>3, <2>2, Zenon
<1>5. /\ l \in Seq(Contents)
      /\ Len(l) = k + m
      /\ \A i \in 1..k + m : l[i] = IF i <= k THEN Pieces(r, 0, a)[i] ELSE Pieces(r, a, n)[i - k]
  <2>1. /\ l \in Seq(Contents)
        /\ Len(l) = Len(Pieces(r, 0, a)) + Len(Pieces(r, a, n))
        /\ \A i \in 1..Len(Pieces(r, 0, a)) + Len(Pieces(r, a, n)) :
              l[i] = IF i <= Len(Pieces(r, 0, a)) THEN Pieces(r, 0, a)[i]
                     ELSE Pieces(r, a, n)[i - Len(Pieces(r, 0, a))]
    BY <1>4, ConcatProperties, Zenon
  <2> HIDE DEF k, m, l
  <2> QED
    BY <1>4, <2>1, Zenon
<1> DEFINE Piece(from, to) == [type |-> "data", row |-> r, from |-> from, to |-> to]
<1>6. \A i \in 1..k : Pieces(r, 0, a)[i] = Piece((i - 1) * 32, i * 32)
  BY <1>1 DEF Pieces, EntrySize
<1>7. \A i \in 1..m : Pieces(r, a, n)[i] =
                      Piece(a + (i - 1) * 32, IF i = m THEN a + n ELSE a + i * 32)
  BY <1>1 DEF Pieces, EntrySize
<1>8. \A i \in 1..k + m : g[i] = Piece((i - 1) * 32, IF i = k + m THEN a + n ELSE i * 32)
  BY <1>1, <1>3 DEF Pieces, EntrySize
<1> HIDE DEF k, m, l, g, Piece
<1>9. ASSUME NEW i \in 1..k + m PROVE l[i] = g[i]
  <2>1. CASE i <= k
    <3>1. i \in 1..k /\ (i = k + m => a + n = i * 32)
      BY <1>1, <1>2, <2>1
    <3> QED
      BY <1>5, <1>6, <1>8, <2>1, <3>1
  <2>2. CASE ~(i <= k)
    <3>1. PICK j \in 1..m : j = i - k
      BY <1>1, <1>2, <2>2
    <3>2. /\ a + (j - 1) * 32 = (i - 1) * 32
          /\ a + j * 32 = i * 32
          /\ (j = m) <=> (i = k + m)
      BY <1>1, <1>2, <3>1
    <3>3. l[i] = Pieces(r, a, n)[j]
      BY <1>5, <2>2, <3>1
    <3> QED
      BY <1>7, <1>8, <3>2, <3>3
  <2> QED
    BY <2>1, <2>2
<1>10. l = g
  BY <1>4, <1>5, <1>9, SeqEqual
<1> QED
  BY <1>10 DEF l, g

LEMMA NoPieces ==
  ASSUME NEW r
  PROVE  Pieces(r, 0, 0) = <<>>
<1>1. Entries(0) = 0
  BY DEF Entries, EntrySize
<1>2. 1..0 = {}
  OBVIOUS
<1> QED
  BY <1>1, <1>2 DEF Pieces

(* The chunks of a row, put together, are its value up to where they end.   *)
LEMMA AssembledChunks ==
  ASSUME NEW ps, Legible(ps), NEW end, NEW rows, NEW r \in Nat, rows[r].type # "namespace",
         NEW n \in Nat, NEW offs \in [0..n -> Nat], ChunksAt(rows, Log(ps, end), r, n, offs)
  PROVE  Assembled(Clear(ps, end), NsNumber(rows, r), rows[r].key, n) = Pieces(r, 0, offs[n])
<1> DEFINE C == Clear(ps, end)
           ns == NsNumber(rows, r)
           key == rows[r].key
           Chunk(c) == {h \in Items(C, ns, key, {"chunk"}) : C[h[1]][h[2]].chunk = c}
           Defines(f) ==
             f = [k \in 0..n |->
                   IF k = 0 THEN <<>>
                   ELSE IF Chunk(k - 1) = {} THEN <<Garbage>>
                   ELSE f[k - 1] \o DataOf(C, CHOOSE h \in Chunk(k - 1) : TRUE)]
           g == [k \in 0..n |-> Pieces(r, 0, offs[k])]
<1>1. ASSUME NEW c \in 0..n - 1
      PROVE  /\ Chunk(c) # {}
             /\ \A h \in Chunk(c) : DataOf(C, h) = Pieces(r, offs[c], offs[c + 1] - offs[c])
  <2>1. {ItemAt(C, h) : h \in Items(C, ns, key, {"chunk"})} = Matching(Log(ps, end), ns, key, {"chunk"})
    BY ItemsOfLog
  <2>2. \A x \in Log(ps, end) : x \in ChunkOf(rows, Log(ps, end), r, c)
                           <=> x \in Matching(Log(ps, end), ns, key, {"chunk"}) /\ x.entry.chunk = c
    BY DEF ChunkOf, OfRow, Belongs, Matching
  <2>3. \A h : ItemAt(C, h).entry = C[h[1]][h[2]] /\ ItemAt(C, h).data = DataOf(C, h)
    BY DEF ItemAt
  <2>4. /\ ChunkOf(rows, Log(ps, end), r, c) # {}
        /\ \A x \in ChunkOf(rows, Log(ps, end), r, c) : x.data = Pieces(r, offs[c], offs[c + 1] - offs[c])
    BY DEF ChunksAt
  <2>5. /\ ChunkOf(rows, Log(ps, end), r, c) \subseteq Log(ps, end)
        /\ Matching(Log(ps, end), ns, key, {"chunk"}) \subseteq Log(ps, end)
    BY DEF ChunkOf, OfRow, Matching
  <2> HIDE DEF C, ns, key
  <2>6. Chunk(c) # {}
    <3>1. PICK x \in ChunkOf(rows, Log(ps, end), r, c) : TRUE
      BY <2>4
    <3>2. x \in Matching(Log(ps, end), ns, key, {"chunk"}) /\ x.entry.chunk = c
      BY <2>2, <2>5, <3>1
    <3>3. PICK h \in Items(C, ns, key, {"chunk"}) : x = ItemAt(C, h)
      BY <2>1, <3>2
    <3> QED
      BY <2>3, <3>2, <3>3
  <2>7. ASSUME NEW h \in Chunk(c) PROVE DataOf(C, h) = Pieces(r, offs[c], offs[c + 1] - offs[c])
    <3>1. ItemAt(C, h) \in Matching(Log(ps, end), ns, key, {"chunk"}) /\ ItemAt(C, h).entry.chunk = c
      BY <2>1, <2>3
    <3>2. ItemAt(C, h) \in ChunkOf(rows, Log(ps, end), r, c)
      BY <2>2, <2>5, <3>1
    <3> QED
      BY <2>3, <2>4, <3>2
  <2> QED
    BY <2>6, <2>7
<1>2. Assembled(C, ns, key, n) = (CHOOSE f : Defines(f))[n]
  BY DEF Assembled
<1> HIDE DEF Chunk, C, ns, key
<1>3. ASSUME NEW k \in 0..n, k # 0
      PROVE  /\ k - 1 \in 0..n - 1
             /\ Chunk(k - 1) # {}
             /\ DataOf(C, CHOOSE h \in Chunk(k - 1) : TRUE)
                  = Pieces(r, offs[k - 1], offs[k] - offs[k - 1])
             /\ Pieces(r, 0, offs[k - 1]) \o Pieces(r, offs[k - 1], offs[k] - offs[k - 1])
                  = Pieces(r, 0, offs[k])
  <2>1. k - 1 \in 0..n - 1 /\ k - 1 \in 0..n /\ (k - 1) + 1 = k
    BY <1>3
  <2>2. Chunk(k - 1) # {}
        /\ \A h \in Chunk(k - 1) : DataOf(C, h) = Pieces(r, offs[k - 1], offs[k] - offs[k - 1])
    BY <1>1, <2>1
  <2>3. offs[k - 1] \in Nat /\ offs[k] \in Nat /\ offs[k - 1] % EntrySize = 0 /\ offs[k - 1] <= offs[k]
    BY <2>1 DEF ChunksAt
  <2>4. PICK a \in Nat, b \in Nat : a = offs[k - 1] /\ b = offs[k] - offs[k - 1] /\ a + b = offs[k]
    BY <2>3
  <2>5. Pieces(r, 0, a) \o Pieces(r, a, b) = Pieces(r, 0, a + b)
    BY <2>3, <2>4, PiecesContinue
  <2> QED
    BY <2>1, <2>2, <2>4, <2>5
<1>4. Defines(g)
  <2> DEFINE Step(k) == IF k = 0 THEN <<>>
                        ELSE IF Chunk(k - 1) = {} THEN <<Garbage>>
                        ELSE g[k - 1] \o DataOf(C, CHOOSE h \in Chunk(k - 1) : TRUE)
  <2>1. ASSUME NEW k \in 0..n PROVE g[k] = Step(k)
    <3>1. CASE k = 0
      BY <3>1, NoPieces DEF ChunksAt
    <3>2. CASE k # 0
      <4>1. k - 1 \in 0..n
        BY <3>2
      <4>2. g[k - 1] = Pieces(r, 0, offs[k - 1]) /\ g[k] = Pieces(r, 0, offs[k])
        BY <4>1
      <4> HIDE DEF g
      <4> QED
        BY <1>3, <3>2, <4>2
    <3> QED
      BY <3>1, <3>2
  <2> HIDE DEF Step
  <2>2. g = [k \in 0..n |-> Step(k)]
    BY <2>1
  <2> QED
    BY <2>2 DEF Step
<1>5. g[n] = Pieces(r, 0, offs[n])
  OBVIOUS
<1> HIDE DEF g
<1>6. ASSUME NEW f, Defines(f), NEW i \in 0..n, f[i] # g[i] PROVE FALSE
  <2> DEFINE S == {k \in 0..n : f[k] # g[k]}
  <2>1. PICK m \in S : \A k \in S : m <= k
    <3>1. i \in S /\ S \in SUBSET Nat
      BY <1>6
    <3> HIDE DEF S
    <3> QED
      BY <3>1, LeastElement
  <2>2. m \in 0..n /\ f[m] # g[m]
    OBVIOUS
  <2>3. m # 0
    BY <1>4, <1>6, <2>2
  <2>4. m - 1 \in 0..n /\ m - 1 < m
    BY <2>2, <2>3
  <2>5. f[m - 1] = g[m - 1]
    <3>1. m - 1 \notin S
      <4> HIDE DEF S
      <4> QED
        BY <2>1, <2>2, <2>4
    <3> QED
      BY <2>4, <3>1
  <2> HIDE DEF S
  <2>6. Chunk(m - 1) # {}
    BY <1>3, <2>2, <2>3
  <2>7. /\ f[m] = f[m - 1] \o DataOf(C, CHOOSE h \in Chunk(m - 1) : TRUE)
        /\ g[m] = g[m - 1] \o DataOf(C, CHOOSE h \in Chunk(m - 1) : TRUE)
    BY <1>4, <1>6, <2>2, <2>3, <2>6
  <2> QED
    BY <2>2, <2>5, <2>7
<1>7. Defines(CHOOSE f : Defines(f))
  BY <1>4
<1> HIDE DEF Defines
<1>8. (CHOOSE f : Defines(f))[n] = g[n]
  <2>1. n \in 0..n
    OBVIOUS
  <2> QED
    BY <1>6, <1>7, <2>1
<1> QED
  BY <1>2, <1>5, <1>8 DEF C, ns, key

-----------------------------------------------------------------------------
(* Which rows a device finds. *)

OwnedBy(rows, L) == \A x \in L : \E r \in DOMAIN rows : Belongs(rows, r, x.entry)

(* A namespace is found under its number, once its row has an entry.        *)
LEMMA NamespaceFound ==
  ASSUME NEW ps, Legible(ps), NEW end, NEW rows \in Seq(Row), WellFormed(rows),
         OwnedBy(rows, Log(ps, end)),
         NEW n \in 1..Len(rows), rows[n].type = "namespace"
  PROVE  NamespaceOf(Clear(ps, end), rows[n].key) =
           IF OfRow(rows, Log(ps, end), n) = {} THEN 0 ELSE NsNumber(rows, n)
<1> DEFINE C == Clear(ps, end)
           key == rows[n].key
           I == Items(C, 0, key, {"primitive"})
           M == Matching(Log(ps, end), 0, key, {"primitive"})
           found == {C[h[1]][h[2]].value : h \in I}
<1>1. {ItemAt(C, h) : h \in I} = M
  BY ItemsOfLog
<1>2. \A h \in I : ItemAt(C, h).entry.value = C[h[1]][h[2]].value
  BY DEF ItemAt
<1>3. ASSUME NEW x \in M PROVE x \in OfRow(rows, Log(ps, end), n) /\ x.entry.value = NsNumber(rows, n)
  <2>1. x \in Log(ps, end) /\ x.entry.ns = 0 /\ x.entry.key = key
    BY DEF Matching
  <2>2. PICK r \in 1..Len(rows) : Belongs(rows, r, x.entry)
    BY <2>1 DEF OwnedBy
  <2>3. NsNumber(rows, r) > 0
    BY NsNumberPositive
  <2>4. rows[r].type = "namespace" /\ rows[r].key = key /\ x.entry.value = NsNumber(rows, r)
    BY <2>1, <2>2, <2>3 DEF Belongs
  <2>5. r = n
    <3>1. r \in DOMAIN rows /\ n \in DOMAIN rows /\ (r < n \/ n < r \/ r = n)
      OBVIOUS
    <3> QED
      BY <2>4, <3>1 DEF WellFormed
  <2> QED
    BY <2>1, <2>2, <2>4, <2>5 DEF OfRow
<1>4. OfRow(rows, Log(ps, end), n) \subseteq M
  BY DEF OfRow, Belongs, Matching
<1> HIDE DEF C, key, I, M
<1>5. found = {x.entry.value : x \in M}
  BY <1>1, <1>2
<1>6. CASE OfRow(rows, Log(ps, end), n) = {}
  <2>1. found = {}
    BY <1>3, <1>5, <1>6
  <2> HIDE DEF found
  <2> QED
    BY <1>6, <2>1 DEF NamespaceOf, found, I, C, key
<1>7. CASE OfRow(rows, Log(ps, end), n) # {}
  <2>1. found = {NsNumber(rows, n)}
    BY <1>3, <1>4, <1>5, <1>7
  <2>2. NsNumber(rows, n) \in Nat
    BY NsNumberType
  <2> HIDE DEF found
  <2>3. (CHOOSE v \in found : \A w \in found : v <= w) = NsNumber(rows, n)
    BY <2>1, <2>2
  <2>4. NamespaceOf(C, key) = IF found = {} THEN 0 ELSE CHOOSE v \in found : \A w \in found : v <= w
    BY DEF NamespaceOf, found, I
  <2> QED
    BY <1>7, <2>1, <2>3, <2>4 DEF C, key
<1> QED
  BY <1>6, <1>7

(* The namespace that a row is in has the row's number.                     *)
LEMMA NamespaceOfRow ==
  ASSUME input.rows \in Seq(Row), WellFormed(input.rows), NEW r \in 1..Len(input.rows)
  PROVE  \E n \in 1..r : /\ input.rows[n].type = "namespace"
                         /\ NameOf(r) = input.rows[n].key
                         /\ NsNumber(input.rows, n) = NsNumber(input.rows, r)
<1> DEFINE rows == input.rows
           before == {n \in 1..r : rows[n].type = "namespace"}
           back == {r - n : n \in before}
<1>1. 1 \in before
  BY DEF WellFormed
<1>2. PICK m \in back : \A k \in back : m <= k
  <2>1. back \in SUBSET Nat /\ back # {}
    BY <1>1
  <2> HIDE DEF back
  <2> QED
    BY <2>1, LeastElement
<1>3. PICK l \in before : m = r - l
  OBVIOUS
<1>4. \A n \in before : n <= l
  <2> SUFFICES ASSUME NEW n \in before PROVE n <= l
    OBVIOUS
  <2>1. r - n \in back
    OBVIOUS
  <2> HIDE DEF back
  <2>2. m <= r - n
    BY <1>2, <2>1
  <2> QED
    BY <1>3, <2>2
<1> HIDE DEF before
<1>5. PICK n \in before : n = (CHOOSE i \in before : \A k \in before : k <= i) /\ \A k \in before : k <= n
  BY <1>3, <1>4
<1>6. NameOf(r) = rows[n].key
  BY <1>5 DEF NameOf, before
<1>7. n \in 1..r /\ rows[n].type = "namespace"
  BY DEF before
<1>8. Namespaces(rows, n) = Namespaces(rows, r)
  <2>1. Namespaces(rows, r) = before
    BY DEF Namespaces, before
  <2>2. Namespaces(rows, n) = {k \in before : k <= n}
    BY <1>7 DEF Namespaces, before
  <2>3. {k \in before : k <= n} = before
    BY <1>5
  <2> QED
    BY <2>1, <2>2, <2>3
<1> QED
  BY <1>6, <1>7, <1>8 DEF NsNumber

(* A value is found if it is written, and only if an entry that is no chunk *)
(* is.                                                                      *)
LEMMA ValueFound ==
  ASSUME NEW ps, Legible(ps), NEW end, NEW rows \in Seq(Row), NEW r \in 1..Len(rows),
         rows[r].type # "namespace", NEW name,
         NamespaceOf(Clear(ps, end), name) = NsNumber(rows, r), NsNumber(rows, r) # 0
  PROVE  LET found == Readable(Clear(ps, end), name, rows[r].key, rows[r].type, r, rows[r].size)
         IN  /\ Written(rows, Log(ps, end), r) => found
             /\ found => \E x \in OfRow(rows, Log(ps, end), r) : x.entry.type # "chunk"
<1> DEFINE C == Clear(ps, end)
           R == rows[r]
           ns == NsNumber(rows, r)
           L == Log(ps, end)
<1>1. \A types : {ItemAt(C, h) : h \in Items(C, ns, R.key, types)} = Matching(L, ns, R.key, types)
  BY ItemsOfLog
<1>2. \A h : ItemAt(C, h).entry = C[h[1]][h[2]] /\ ItemAt(C, h).data = DataOf(C, h)
  BY DEF ItemAt
<1>3. \A types : Matching(L, ns, R.key, types) = {x \in OfRow(rows, L, r) : x.entry.type \in types}
  BY DEF Matching, OfRow, Belongs
<1> HIDE DEF C, L, ns
<1>4. ASSUME NEW x \in OfRow(rows, L, r), NEW types, x.entry.type \in types
      PROVE  \E h \in Items(C, ns, R.key, types) : C[h[1]][h[2]] = x.entry /\ DataOf(C, h) = x.data
  <2>1. x \in Matching(L, ns, R.key, types)
    BY <1>3, <1>4
  <2>2. PICK h \in Items(C, ns, R.key, types) : x = ItemAt(C, h)
    BY <1>1, <2>1
  <2> QED
    BY <1>2, <2>2
<1>5. ASSUME NEW types, NEW h \in Items(C, ns, R.key, types)
      PROVE  \E x \in OfRow(rows, L, r) : x.entry.type \in types
  <2>1. ItemAt(C, h) \in Matching(L, ns, R.key, types)
    BY <1>1
  <2> QED
    BY <1>3, <2>1
<1>6. R.type \in {"primitive", "string", "blob"}
  <2>1. R \in Row
    BY ElementOfSeq
  <2> QED
    BY <2>1 DEF Row
<1> DEFINE found == Readable(C, name, R.key, R.type, r, R.size)
<1>7. found <=>
        \/ /\ R.type = "primitive"
           /\ \E h \in Items(C, ns, R.key, {"primitive"}) : C[h[1]][h[2]].value = r
        \/ /\ R.type \in {"string", "blob"}
           /\ \E h \in Items(C, ns, R.key, {R.type}) :
                /\ C[h[1]][h[2]].size = R.size
                /\ DataOf(C, h) = Pieces(r, 0, R.size)
        \/ /\ R.type = "blob"
           /\ \E h \in Items(C, ns, R.key, {"index"}) :
                /\ C[h[1]][h[2]].size = R.size
                /\ Assembled(C, ns, R.key, C[h[1]][h[2]].value) = Pieces(r, 0, R.size)
  BY DEF Readable, C, ns
<1>8. ASSUME Written(rows, L, r) PROVE found
  <2>1. PICK x \in OfRow(rows, L, r) :
          \/ R.type = "primitive" /\ x.entry.type = "primitive" /\ x.entry.value = r
          \/ /\ R.type \in {"string", "blob"}
             /\ x.entry.type = R.type
             /\ x.entry.size = R.size
             /\ x.data = Pieces(r, 0, R.size)
          \/ /\ R.type = "blob"
             /\ x.entry.type = "index"
             /\ x.entry.size = R.size
             /\ x.entry.value \in Nat
             /\ Chunked(rows, L, r, x.entry.value, R.size)
    BY <1>8 DEF Written
  <2>2. CASE R.type = "primitive" /\ x.entry.type = "primitive" /\ x.entry.value = r
    <3>1. \E h \in Items(C, ns, R.key, {"primitive"}) : C[h[1]][h[2]] = x.entry
      BY <1>4, <2>2
    <3> QED
      BY <1>7, <2>2, <3>1
  <2>3. CASE /\ R.type \in {"string", "blob"}
             /\ x.entry.type = R.type
             /\ x.entry.size = R.size
             /\ x.data = Pieces(r, 0, R.size)
    <3>1. \E h \in Items(C, ns, R.key, {R.type}) : C[h[1]][h[2]] = x.entry /\ DataOf(C, h) = x.data
      BY <1>4, <2>3
    <3> QED
      BY <1>7, <2>3, <3>1
  <2>4. CASE /\ R.type = "blob"
             /\ x.entry.type = "index"
             /\ x.entry.size = R.size
             /\ x.entry.value \in Nat
             /\ Chunked(rows, L, r, x.entry.value, R.size)
    <3> DEFINE n == x.entry.value
    <3>1. PICK offs \in [0..n -> Nat] : offs[n] = R.size /\ ChunksAt(rows, L, r, n, offs)
      BY <2>4 DEF Chunked
    <3>2. Assembled(C, ns, R.key, n) = Pieces(r, 0, offs[n])
      <4>1. n \in Nat /\ r \in Nat
        BY <2>4
      <4> HIDE DEF n
      <4> QED
        BY <3>1, <4>1, AssembledChunks DEF C, ns, L
    <3>3. \E h \in Items(C, ns, R.key, {"index"}) : C[h[1]][h[2]] = x.entry
      BY <1>4, <2>4
    <3> QED
      BY <1>7, <2>4, <3>1, <3>2, <3>3
  <2> QED
    BY <2>1, <2>2, <2>3, <2>4
<1>9. ASSUME found PROVE \E x \in OfRow(rows, L, r) : x.entry.type # "chunk"
  <2>1. PICK t \in {"primitive", "string", "blob", "index"} :
          \E h \in Items(C, ns, R.key, {t}) : TRUE
    BY <1>7, <1>9
  <2>2. \E x \in OfRow(rows, L, r) : x.entry.type \in {t}
    BY <1>5, <2>1
  <2> QED
    BY <2>2
<1> QED
  BY <1>8, <1>9 DEF C, L

LEMMA StateTypes ==
  ASSUME IInv, StoreInv
  PROVE  /\ input.rows \in Seq(Row) /\ WellFormed(input.rows)
         /\ next \in Nat /\ next >= 1 /\ next - 1 \in 0..Len(input.rows)
         /\ Legible(pages)
         /\ OwnedBy(input.rows, Log(pages, input.size))
<1>1. input.rows \in Seq(Row) /\ next \in Nat /\ next >= 1 /\ pages \in Seq(Page)
  BY DEF IInv, TypeOK, BlobInv, Input
<1>2. Legible(pages)
  BY <1>1 DEF IInv, EntriesInv, StoreInv, Legible
<1>3. OwnedBy(input.rows, Log(pages, input.size))
  BY DEF StoreInv, Owned, OwnedBy
<1> QED
  BY <1>1, <1>2, <1>3 DEF StoreInv, Numbered

LEMMA PromisedRow ==
  ASSUME input.rows \in Seq(Row), NEW r \in Promised
  PROVE  /\ r \in 1..Len(input.rows) /\ r \in Nat
         /\ input.rows[r].wide = 0
         /\ \A n \in 1..r : input.rows[n].wide = 0 => n \in Promised
<1>1. r \in 1..Len(input.rows) /\ r \in Nat /\ DOMAIN input.rows = 1..Len(input.rows)
  BY DEF Promised
<1>2. ASSUME NEW n \in 1..r, input.rows[n].wide = 0 PROVE n \in Promised
  <2>1. n \in DOMAIN input.rows /\ \A q \in 1..n : q \in 1..r
    BY <1>1
  <2> QED
    BY <1>2, <2>1 DEF Promised
<1> QED
  BY <1>1, <1>2 DEF Promised

(* While a promised row is written, the pages are where they belong. *)
LEMMA PromisedTidy ==
  ASSUME IInv, Running, next \in Promised
  PROVE  Tidy
<1>1. CASE input.command = "encrypt"
  <2>1. Started
    BY DEF Running, Started
  <2> QED
    BY <1>1, <2>1 DEF IInv, KeyInv, Tidy
<1>2. CASE input.command # "encrypt"
  <2>1. \A q \in 1..next : input.rows[q].wide = 0
    BY <1>2 DEF Promised
  <2>2. next \in Nat /\ \A r \in DOMAIN input.rows : r \in Nat /\ r >= 1
    BY DEF IInv, TypeOK, Input
  <2> QED
    BY <2>1, <2>2 DEF Tidy
<1> QED
  BY <1>1, <1>2

LEMMA WholePages ==
  ASSUME NEW k \in Nat, NEW b \in Nat, b > 0
  PROVE  (k * b) % b = 0
<1> DEFINE a == k * b
           q == a \div b
           m == a % b
<1>1. a \in Nat
  OBVIOUS
<1> HIDE DEF a
<1>2. q \in Nat /\ m \in 0..b - 1 /\ a = b * q + m
  BY <1>1
<1> HIDE DEF q, m
<1>3. q <= k
  <2>1. q > k => q * b >= (k + 1) * b
    BY <1>2
  <2>2. (k + 1) * b = k * b + b
    BY OneMore
  <2> QED
    BY <1>2, <2>1, <2>2 DEF a
<1>4. PICK t \in Nat : k = q + t
  <2>1. k - q \in Nat /\ k = q + (k - q)
    BY <1>2, <1>3
  <2> QED
    BY <2>1
<1>5. m = t * b
  <2>1. (q + t) * b = b * q + t * b
    BY <1>2
  <2>2. t * b \in Nat /\ b * q \in Nat
    BY <1>2
  <2> QED
    BY <1>2, <1>4, <2>1, <2>2 DEF a
<1>6. t = 0
  <2>1. t > 0 => t * b >= b
    OBVIOUS
  <2> QED
    BY <1>2, <1>5, <2>1
<1> QED
  BY <1>5, <1>6 DEF a, m

(* The current page is one that a device finds, if it is where it belongs.  *)
LEMMA LastOnFlash ==
  ASSUME input.size \in Nat, NEW ps \in Seq(Page), Len(ps) > 0, Exact(ps),
         NEW rest \in Nat, (Len(ps) + 1) * PageSize + rest = input.size
  PROVE  OnFlash(ps[Len(ps)], input.size)
<1> DEFINE n == Len(ps)
           a == (n - 1) * PageSize
<1>1. n \in Nat /\ n - 1 \in Nat /\ PageSize \in Nat /\ PageSize > 0
  BY PageSizeType
<1>2. ps[n].address = a
  BY <1>1 DEF Exact
<1>3. a % PageSize = 0
  BY <1>1, WholePages
<1>4. (n + 1) * PageSize = a + PageSize + PageSize
  <2>1. ((n - 1) + 1) * PageSize = a + PageSize /\ (n + 1) * PageSize = n * PageSize + PageSize
    BY <1>1, OneMore
  <2>2. (n - 1) + 1 = n
    BY <1>1
  <2> QED
    BY <2>1, <2>2
<1>5. a \in Nat
  BY <1>1
<1>6. (n + 1) * PageSize + rest = input.size
  OBVIOUS
<1> HIDE DEF a, n
<1>7. a + PageSize <= input.size
  BY <1>1, <1>4, <1>5, <1>6
<1> QED
  BY <1>2, <1>3, <1>7 DEF OnFlash, n

(* Of the promised rows, a device finds those written. *)
LEMMA ReadableRows ==
  ASSUME IInv, StoreInv
  PROVE  {r \in Promised : IsReadable(r)} = {r \in Promised : r < next}
<1> DEFINE rows == input.rows
           L == Log(pages, input.size)
           C == Clear(pages, input.size)
<1>1. /\ rows \in Seq(Row) /\ WellFormed(rows) /\ DOMAIN rows = 1..Len(rows)
      /\ next \in Nat /\ next >= 1 /\ next - 1 \in 0..Len(rows)
      /\ Legible(pages) /\ OwnedBy(rows, L)
  BY StateTypes
<1>2. InFlash = C
  BY DEF InFlash, InClear, Clear, ClearPage
<1>3. ASSUME NEW r \in 1..Len(rows), rows[r].type = "namespace"
      PROVE  IsReadable(r) <=> OfRow(rows, L, r) # {}
  <2>1. NamespaceOf(C, rows[r].key) = IF OfRow(rows, L, r) = {} THEN 0 ELSE NsNumber(rows, r)
    BY <1>1, <1>3, NamespaceFound
  <2>2. NsNumber(rows, r) > 0 /\ NsNumber(rows, r) \in Nat
    BY <1>1, NsNumberPositive, NsNumberType
  <2> QED
    BY <1>2, <1>3, <2>1, <2>2 DEF IsReadable
<1>4. ASSUME NEW r \in Promised, rows[r].type # "namespace"
      PROVE  \E n \in Promised :
               /\ n <= r
               /\ IsReadable(r) => \E x \in OfRow(rows, L, r) : x.entry.type # "chunk"
               /\ Written(rows, L, n) /\ Written(rows, L, r) => IsReadable(r)
  <2>0. r \in 1..Len(rows) /\ rows[r].wide = 0
    BY <1>1, PromisedRow
  <2>1. PICK n \in 1..r : /\ rows[n].type = "namespace"
                          /\ NameOf(r) = rows[n].key
                          /\ NsNumber(rows, n) = NsNumber(rows, r)
    BY <1>1, <2>0, NamespaceOfRow
  <2>2. n \in 1..Len(rows) /\ n <= r /\ n \in Promised
    <3>1. n \in 1..Len(rows) /\ n <= r
      BY <2>0
    <3>2. rows[n].wide = 0
      <4>1. rows[n] \in Row
        BY <1>1, <3>1, ElementOfSeq
      <4> QED
        BY <2>1, <4>1 DEF Row
    <3> QED
      BY <1>1, <3>1, <3>2, PromisedRow
  <2>3. NamespaceOf(C, NameOf(r)) = IF OfRow(rows, L, n) = {} THEN 0 ELSE NsNumber(rows, r)
    BY <1>1, <2>1, <2>2, NamespaceFound
  <2>4. NsNumber(rows, r) # 0
    BY <1>1, <2>0, NsNumberPositive, NsNumberType
  <2>5. IsReadable(r) <=> Readable(C, NameOf(r), rows[r].key, rows[r].type, r, rows[r].size)
    <3>1. rows[r] \in Row
      BY <1>1, <2>0, ElementOfSeq
    <3>2. BytePos(rows[r], rows[r].size) = rows[r].size
      BY <2>0, <3>1 DEF BytePos, Row
    <3> QED
      BY <1>2, <1>4, <3>2 DEF IsReadable
  <2>6. Readable(C, NameOf(r), rows[r].key, rows[r].type, r, rows[r].size)
          => NamespaceOf(C, NameOf(r)) # 0
    BY DEF Readable
  <2>7. ASSUME NamespaceOf(C, NameOf(r)) = NsNumber(rows, r)
        PROVE  LET found == Readable(C, NameOf(r), rows[r].key, rows[r].type, r, rows[r].size)
               IN  /\ Written(rows, L, r) => found
                   /\ found => \E x \in OfRow(rows, L, r) : x.entry.type # "chunk"
    BY <1>1, <1>4, <2>0, <2>4, <2>7, ValueFound
  <2>8. Written(rows, L, n) => OfRow(rows, L, n) # {}
    BY DEF Written
  <2> HIDE DEF rows, L, C
  <2> QED
    BY <2>2, <2>3, <2>5, <2>6, <2>7, <2>8
<1>5. ASSUME NEW r \in Promised, r < next PROVE IsReadable(r)
  <2>1. r \in 1..Len(rows) /\ r \in Nat
    BY <1>1, PromisedRow
  <2>2. ASSUME NEW n \in Promised, n <= r PROVE Written(rows, L, n)
    <3>1. n \in Nat
      BY <1>1, PromisedRow
    <3>2. n < next
      BY <1>1, <1>5, <2>1, <2>2, <3>1
    <3> QED
      BY <3>2 DEF StoreInv, AllWritten
  <2>3. CASE rows[r].type = "namespace"
    <3>1. Written(rows, L, r)
      BY <2>1, <2>2
    <3>2. OfRow(rows, L, r) # {}
      BY <3>1 DEF Written
    <3> QED
      BY <1>3, <2>1, <2>3, <3>2
  <2>4. CASE rows[r].type # "namespace"
    <3>1. PICK n \in Promised :
            n <= r /\ (Written(rows, L, n) /\ Written(rows, L, r) => IsReadable(r))
      BY <1>4, <2>4
    <3> QED
      BY <2>1, <2>2, <3>1
  <2> QED
    BY <2>3, <2>4
<1>6. ASSUME NEW r \in Promised, IsReadable(r), ~(r < next) PROVE FALSE
  <2>0. r \in 1..Len(rows)
    BY <1>1, PromisedRow
  <2>1. PICK x \in OfRow(rows, L, r) : x.entry.type # "chunk"
    <3>1. CASE rows[r].type = "namespace"
      <4>1. PICK x \in OfRow(rows, L, r) : TRUE
        BY <1>3, <1>6, <2>0, <3>1
      <4> QED
        BY <3>1, <4>1 DEF OfRow, Belongs
    <3>2. CASE rows[r].type # "namespace"
      BY <1>4, <1>6, <3>2
    <3> QED
      BY <3>1, <3>2
  <2>2. x \in L /\ Belongs(rows, r, x.entry)
    BY DEF OfRow
  <2>3. PICK q \in 1..Len(rows) : Belongs(rows, q, x.entry) /\ q < next
    BY <1>1, <2>1, <2>2 DEF StoreInv, Owned, Begun
  <2>4. q # r
    BY <1>6, <2>3
  <2> QED
    BY <1>1, <2>0, <2>2, <2>3, <2>4, OneOwner
<1> QED
  BY <1>5, <1>6

-----------------------------------------------------------------------------
(* What an item more in the log changes. *)

LEMMA ChunkedKept ==
  ASSUME NEW rows, NEW L, NEW M, NEW r,
         \A c : ChunkOf(rows, M, r, c) = ChunkOf(rows, L, r, c),
         NEW n, NEW to, Chunked(rows, L, r, n, to)
  PROVE  Chunked(rows, M, r, n, to)
<1>1. PICK offs \in [0..n -> Nat] : offs[n] = to /\ ChunksAt(rows, L, r, n, offs)
  BY DEF Chunked
<1>2. ChunksAt(rows, M, r, n, offs)
  BY <1>1 DEF ChunksAt
<1> QED
  BY <1>1, <1>2 DEF Chunked

(* A written row stays written when an item of another row is added.        *)
LEMMA WrittenKept ==
  ASSUME NEW rows \in Seq(Row), WellFormed(rows), NEW L, NEW x,
         NEW q \in 1..Len(rows), NEW r \in 1..Len(rows), q # r,
         Belongs(rows, q, x.entry), Written(rows, L, r)
  PROVE  Written(rows, L \cup {x}, r)
<1>1. OfRow(rows, L \cup {x}, r) = OfRow(rows, L, r)
  BY OneOwner DEF OfRow
<1>2. \A c : ChunkOf(rows, L \cup {x}, r, c) = ChunkOf(rows, L, r, c)
  BY <1>1 DEF ChunkOf
<1>3. \A n, to : Chunked(rows, L, r, n, to) => Chunked(rows, L \cup {x}, r, n, to)
  BY <1>2, ChunkedKept
<1> QED
  BY <1>1, <1>3 DEF Written

(* The next chunk continues the chunks that are there. *)
LEMMA ChunkAdded ==
  ASSUME NEW rows, NEW L, NEW x, NEW r,
         NEW n \in Nat, NEW to \in Nat, NEW m \in Nat, to % EntrySize = 0,
         Chunked(rows, L, r, n, to),
         \A y \in OfRow(rows, L, r) : y.entry.chunk < n,
         Belongs(rows, r, x.entry), x.entry.type = "chunk", x.entry.chunk = n,
         x.data = Pieces(r, to, m)
  PROVE  Chunked(rows, L \cup {x}, r, n + 1, to + m)
<1> DEFINE M == L \cup {x}
<1>1. PICK offs \in [0..n -> Nat] : offs[n] = to /\ ChunksAt(rows, L, r, n, offs)
  BY DEF Chunked
<1> DEFINE news == [k \in 0..n + 1 |-> IF k = n + 1 THEN to + m ELSE offs[k]]
<1>2. /\ news \in [0..n + 1 -> Nat]
      /\ \A k \in 0..n : news[k] = offs[k]
      /\ news[n + 1] = to + m
  BY <1>1
<1> HIDE DEF news
<1>3. OfRow(rows, M, r) = OfRow(rows, L, r) \cup {x}
  BY DEF OfRow
<1> HIDE DEF M
<1>4. ASSUME NEW c \in 0..n - 1 PROVE ChunkOf(rows, M, r, c) = ChunkOf(rows, L, r, c)
  <2>1. c # n
    OBVIOUS
  <2> QED
    BY <1>3, <2>1 DEF ChunkOf
<1>5. ChunkOf(rows, M, r, n) = {x}
  <2>1. \A y \in OfRow(rows, L, r) : y.entry.chunk # n
    OBVIOUS
  <2> QED
    BY <1>3, <2>1 DEF ChunkOf
<1>6. ASSUME NEW c \in 0..(n + 1) - 1
      PROVE  /\ news[c] % EntrySize = 0
             /\ news[c] <= news[c + 1]
             /\ ChunkOf(rows, M, r, c) # {}
             /\ \A y \in ChunkOf(rows, M, r, c) : y.data = Pieces(r, news[c], news[c + 1] - news[c])
  <2>1. CASE c = n
    <3>1. news[c] = to /\ news[c + 1] = to + m /\ (to + m) - to = m /\ to <= to + m
      BY <1>1, <1>2, <2>1
    <3> QED
      BY <1>5, <2>1, <3>1
  <2>2. CASE c # n
    <3>1. c \in 0..n - 1 /\ c \in 0..n /\ c + 1 \in 0..n
      BY <2>2
    <3>2. news[c] = offs[c] /\ news[c + 1] = offs[c + 1]
      BY <1>2, <3>1
    <3> QED
      BY <1>1, <1>4, <3>1, <3>2 DEF ChunksAt
  <2> QED
    BY <2>1, <2>2
<1>7. news[0] = 0
  BY <1>1, <1>2 DEF ChunksAt
<1> QED
  BY <1>2, <1>6, <1>7 DEF Chunked, ChunksAt, M

(* No chunk yet. *)
LEMMA NoChunkYet ==
  ASSUME NEW rows, NEW L, NEW r
  PROVE  Chunked(rows, L, r, 0, 0)
<1> DEFINE offs == [k \in 0..0 |-> 0]
<1>1. offs \in [0..0 -> Nat] /\ offs[0] = 0
  OBVIOUS
<1>2. \A c \in 0..0 - 1 : FALSE
  OBVIOUS
<1> HIDE DEF offs
<1>3. ChunksAt(rows, L, r, 0, offs)
  BY <1>1, <1>2 DEF ChunksAt
<1> QED
  BY <1>1, <1>3 DEF Chunked

-----------------------------------------------------------------------------
(* The invariant, step by step. *)

LEMMA EmptyLog ==
  ASSUME NEW ps, ps = <<>>
  PROVE  Log(ps, input.size) = {} /\ \A p \in 1..Len(ps) : Tiled(ClearPage(ps[p]))
<1>1. Len(ps) = 0
  OBVIOUS
<1> QED
  BY <1>1 DEF Log, Seen

LEMMA InitStore ==
  ASSUME Init, WellFormed(input.rows)
  PROVE  StoreInv
<1>1. pages = <<>> /\ next = 1 /\ namespace_idx = 0 /\ pc = "start" /\ input \in Input
  BY InputsAssumption DEF Init
<1>2. input.rows \in Seq(Row)
  BY <1>1 DEF Input
<1>3. Log(pages, input.size) = {} /\ \A p \in 1..Len(pages) : Tiled(ClearPage(pages[p]))
  BY <1>1, EmptyLog
<1>4. Numbered
  BY <1>1, <1>2, NsNumberZero DEF Numbered
<1>5. Owned /\ AllWritten
  <2>1. ASSUME NEW r \in Promised PROVE ~(r < next)
    BY <1>1, <1>2, PromisedRow
  <2> QED
    BY <1>3, <2>1 DEF Owned, AllWritten
<1>6. BlobBegun
  BY <1>1 DEF BlobBegun, InBlob
<1> QED
  BY <1>3, <1>4, <1>5, <1>6 DEF StoreInv

(* A step that writes no item and no row. *)
LEMMA SameLog ==
  ASSUME StoreInv, UNCHANGED <<input, next, namespace_idx>>,
         Log(pages', input.size) = Log(pages, input.size),
         \A p \in 1..Len(pages') : Tiled(ClearPage(pages'[p])),
         \A x \in Log(pages, input.size) : Begun(x.entry) => Begun(x.entry)',
         BlobBegun'
  PROVE  StoreInv'
<1>1. Numbered' /\ WellFormed(input.rows)'
  BY DEF StoreInv, Numbered
<1>2. Owned'
  <2> SUFFICES ASSUME NEW x \in Log(pages, input.size)
               PROVE  \E r \in DOMAIN input.rows :
                        /\ Belongs(input.rows, r, x.entry)
                        /\ r < next \/ (r = next /\ Begun(x.entry)')
    BY DEF Owned
  <2> QED
    BY DEF StoreInv, Owned
<1>3. AllWritten'
  BY DEF StoreInv, AllWritten, Promised
<1> QED
  BY <1>1, <1>2, <1>3 DEF StoreInv

LEMMA QuietStep ==
  ASSUME StoreInv, UNCHANGED <<input, next, namespace_idx, pages, blob>>,
         pc' = pc \/ pc' \in {"start", "open", "done", "failed"}
  PROVE  StoreInv'
<1>1. Log(pages', input.size) = Log(pages, input.size) /\ \A p \in 1..Len(pages') : Tiled(ClearPage(pages'[p]))
  BY DEF StoreInv
<1>2. \A x \in Log(pages, input.size) : Begun(x.entry) => Begun(x.entry)'
  BY DEF Begun, InBlob
<1>3. BlobBegun'
  BY DEF StoreInv, BlobBegun, InBlob, row, Promised
<1> QED
  BY <1>1, <1>2, <1>3, SameLog

LEMMA QuietSteps ==
  ASSUME StoreInv,
         RefuseArguments \/ GenerateKey \/ UseKey \/ NoHmacKey \/ Refuse \/ NoValue
           \/ NoSpace \/ NoPage \/ NoChunk \/ NoIndex \/ UNCHANGED vars
  PROVE  StoreInv'
<1>1. /\ UNCHANGED <<input, next, namespace_idx, pages, blob>>
      /\ pc' = pc \/ pc' \in {"start", "open", "done", "failed"}
  BY DEF RefuseArguments, GenerateKey, UseKey, NoHmacKey, Refuse, NoValue, NoSpace, NoPage,
         NoChunk, NoIndex, Abort, vars
<1> QED
  BY <1>1, QuietStep

LEMMA OpenStore ==
  ASSUME IInv, StoreInv, Open
  PROVE  StoreInv'
<1> DEFINE page == NewPage(0, "active", 0)
<1>1. pages = <<>> /\ pages' = <<page>> /\ pc' = "rows"
      /\ UNCHANGED <<input, next, namespace_idx>>
  BY DEF Open, IInv, PagesInv
<1>2. page.slots = <<>>
  BY DEF NewPage
<1>3. Tiled(ClearPage(page)) /\ PageLog(ClearPage(page)) = {}
  BY <1>2, BlankPage
<1> HIDE DEF page
<1>4. Len(pages') = 1 /\ pages'[1] = page
  BY <1>1
<1>5. \A p \in 1..Len(pages') : Tiled(ClearPage(pages'[p])) /\ PageLog(ClearPage(pages'[p])) = {}
  BY <1>3, <1>4
<1>6. Log(pages', input.size) = {} /\ Log(pages, input.size) = {}
  BY <1>1, <1>5, EmptyLog DEF Log, Seen
<1>7. BlobBegun'
  BY <1>1 DEF BlobBegun, InBlob
<1> QED
  BY <1>1, <1>5, <1>6, <1>7, SameLog

LEMMA PageSteps ==
  ASSUME IInv, StoreInv, FillPage \/ Close
  PROVE  StoreInv'
<1>1. /\ pc = "rows" /\ pc' \in {"rows", "done"}
      /\ pages' = WithPage(pages, "active") \/ pages' = WithPage(pages, "reserved")
      /\ UNCHANGED <<input, next, namespace_idx>>
  BY DEF FillPage, Close
<1>2. Writable(encr_key, pages) /\ encr_key \in EncryptionKeys
  BY <1>1 DEF IInv, PagesInv, Running, TypeOK
<1>3. Log(pages', input.size) = Log(pages, input.size) /\ \A p \in 1..Len(pages') : Tiled(ClearPage(pages'[p]))
  BY <1>1, <1>2, LogOfNewPage DEF StoreInv
<1>4. \A x \in Log(pages, input.size) : ~Begun(x.entry)
  BY <1>1 DEF Begun
<1>5. BlobBegun'
  BY <1>1 DEF BlobBegun, InBlob
<1> QED
  BY <1>1, <1>3, <1>4, <1>5, SameLog

(* The page for a row: the log is the same. *)
LEMMA PageForLog ==
  ASSUME IInv, StoreInv, Running, NEW r, NEW ps, PageFor(r, ps)
  PROVE  Log(ps, input.size) = Log(pages, input.size) /\ \A p \in 1..Len(ps) : Tiled(ClearPage(ps[p]))
<1>1. Writable(encr_key, pages) /\ encr_key \in EncryptionKeys
  BY DEF IInv, PagesInv, TypeOK
<1>2. ps = pages \/ ps = WithPage(pages, "active")
  BY DEF PageFor
<1> QED
  BY <1>1, <1>2, LogOfNewPage DEF StoreInv

LEMMA BeginBlobStore ==
  ASSUME IInv, StoreInv, BeginBlob
  PROVE  StoreInv'
<1>1. /\ AtRow /\ pc = "rows" /\ pc' = "chunks" /\ ~Whole(row) /\ blob' = NoBlob
      /\ PageFor(row, pages')
      /\ UNCHANGED <<input, next, namespace_idx>>
  BY DEF BeginBlob, AtRow
<1>2. Log(pages', input.size) = Log(pages, input.size) /\ \A p \in 1..Len(pages') : Tiled(ClearPage(pages'[p]))
  BY <1>1, PageForLog DEF Running
<1>3. \A x \in Log(pages, input.size) : ~Begun(x.entry)
  BY <1>1 DEF Begun
<1>4. row' = row /\ row.type = "blob"
  BY <1>1 DEF row, Whole
<1>5. BlobBegun'
  <2>1. Chunked(input.rows, Log(pages, input.size), next, 0, 0)
    BY NoChunkYet
  <2>2. 0 % EntrySize = 0
    BY DEF EntrySize
  <2> QED
    BY <1>1, <1>2, <1>4, <2>1, <2>2 DEF BlobBegun, NoBlob
<1> QED
  BY <1>1, <1>2, <1>3, <1>5, SameLog

(* A written row stays written when an item of another row is added, or     *)
(* none that a device finds.                                                *)
LEMMA AllWrittenKept ==
  ASSUME IInv, StoreInv, next \in 1..Len(input.rows),
         NEW x, Belongs(input.rows, next, x.entry),
         NEW X, X = {} \/ X = {x}, NEW r \in Promised, r < next
  PROVE  Written(input.rows, Log(pages, input.size) \cup X, r)
<1> DEFINE rows == input.rows
           L == Log(pages, input.size)
<1>1. rows \in Seq(Row) /\ WellFormed(rows) /\ next \in Nat
  BY StateTypes
<1>2. r \in 1..Len(rows) /\ r # next
  BY <1>1, PromisedRow
<1>3. Written(rows, L, r)
  BY DEF StoreInv, AllWritten
<1> HIDE DEF rows, L
<1>4. CASE X = {}
  <2>1. L \cup X = L
    BY <1>4
  <2> QED
    BY <1>3, <2>1 DEF rows, L
<1>5. CASE X = {x}
  <2>1. Belongs(rows, next, x.entry) /\ next \in 1..Len(rows)
    BY DEF rows
  <2>2. Written(rows, L \cup {x}, r)
    BY <1>1, <1>2, <1>3, <2>1, WrittenKept
  <2> QED
    BY <1>5, <2>2 DEF rows, L
<1> QED
  BY <1>4, <1>5

(* The entry that completes a row. *)
LEMMA RowDone ==
  ASSUME IInv, StoreInv, next <= Len(input.rows),
         NEW x, NEW X, X = {} \/ X = {x},
         Log(pages', input.size) = Log(pages, input.size) \cup X,
         \A p \in 1..Len(pages') : Tiled(ClearPage(pages'[p])),
         Belongs(input.rows, next, x.entry),
         next \in Promised => Written(input.rows, Log(pages, input.size) \cup X, next),
         input' = input, next' = next + 1, namespace_idx' = NsNumber(input.rows, next),
         pc' = "rows"
  PROVE  StoreInv'
<1> DEFINE rows == input.rows
           L == Log(pages, input.size)
<1>1. /\ rows \in Seq(Row) /\ WellFormed(rows) /\ DOMAIN rows = 1..Len(rows)
      /\ next \in Nat /\ next \in 1..Len(rows) /\ next' - 1 = next
  BY StateTypes
<1>2. Numbered' /\ WellFormed(rows)'
  BY <1>1 DEF Numbered
<1>3. Owned'
  <2>1. ASSUME NEW y \in L
        PROVE  \E r \in DOMAIN rows : Belongs(rows, r, y.entry) /\ r < next'
    BY <1>1 DEF StoreInv, Owned
  <2>2. next \in DOMAIN rows /\ next < next'
    BY <1>1
  <2>3. \A y \in L \cup X : \E r \in DOMAIN rows : Belongs(rows, r, y.entry) /\ r < next'
    BY <2>1, <2>2
  <2> QED
    BY <2>3 DEF Owned
<1>4. AllWritten'
  <2>1. ASSUME NEW r \in Promised, r < next' PROVE Written(rows, L \cup X, r)
    <3>1. r \in Nat
      BY <1>1, PromisedRow
    <3>2. r < next \/ r = next
      BY <1>1, <2>1, <3>1
    <3>3. CASE r < next
      BY <1>1, <3>3, AllWrittenKept
    <3>4. CASE r = next
      BY <3>4
    <3> QED
      BY <3>2, <3>3, <3>4
  <2>2. Promised' = Promised
    BY DEF Promised
  <2> QED
    BY <2>1, <2>2 DEF AllWritten
<1>5. BlobBegun'
  BY DEF BlobBegun, InBlob
<1> QED
  BY <1>2, <1>3, <1>4, <1>5 DEF StoreInv

(* The entry and the data of a row that is not written in chunks. *)
LEMMA ItemOfRow ==
  ASSUME IInv, AtRow, Whole(row), NEW ps, Writable(encr_key, ps), ~PageFull(ps, row)
  PROVE  \E e \in Contents, d \in Seq(Contents) :
           /\ EntriesOf(row) = <<e>> \o d
           /\ e.type # "data" /\ e.span = Len(d) + 1
           /\ \A j \in 1..Len(d) : d[j].type = "data"
           /\ Used(ps) + Len(d) + 1 <= MaxEntries
           /\ e.key = row.key
           /\ \/ row.type = "namespace" /\ e.type = "primitive" /\ e.ns = 0 /\ e.value = NamespaceIdx
              \/ /\ row.type = "primitive" /\ e.type = "primitive" /\ e.ns = namespace_idx
                 /\ e.value = next
              \/ /\ row.type \in {"string", "blob"} /\ e.type = row.type /\ e.ns = namespace_idx
                 /\ e.size = row.size /\ (row.wide = 0 => d = Pieces(next, 0, row.size))
<1>1. /\ row \in Row /\ row.size \in Nat /\ row.key \in Keys /\ row.wide \in Nat
      /\ row.type \in {"namespace", "primitive", "string", "blob"}
  BY RowType DEF AtRow, Row
<1>2. /\ next \in Nat /\ namespace_idx \in Nat /\ NamespaceIdx \in Nat
      /\ ChunkAny \in Nat /\ MaxEntries \in Nat
  BY FormatAssumption DEF IInv, TypeOK, NamespaceIdx, ChunkAny
<1>3. Used(ps) \in Nat
  <2>1. ps[Len(ps)] \in Page
    BY ElementOfSeq DEF Writable
  <2> QED
    BY <2>1 DEF Page, Used
<1>4. CASE row.type \in {"namespace", "primitive"}
  <2> DEFINE e == IF row.type = "namespace"
                  THEN Entry("primitive", 0, row.key, 1, ChunkAny, NamespaceIdx, 0)
                  ELSE Entry("primitive", namespace_idx, row.key, 1, ChunkAny, next, 0)
  <2>1. EntriesOf(row) = <<e>>
    BY <1>4 DEF EntriesOf
  <2>2. e \in Contents
    BY <1>1, <1>2, EntryType
  <2>3. /\ e.type = "primitive" /\ e.span = 1 /\ e.key = row.key
        /\ row.type = "namespace" => e.ns = 0 /\ e.value = NamespaceIdx
        /\ row.type = "primitive" => e.ns = namespace_idx /\ e.value = next
    BY DEF Entry
  <2> HIDE DEF e
  <2>4. <<e>> = <<e>> \o <<>> /\ <<>> \in Seq(Contents) /\ Len(<<>>) = 0
    BY <2>2
  <2>5. Used(ps) + 1 <= MaxEntries
    BY <1>2, <1>3 DEF PageFull
  <2>6. \A j \in 1..Len(<<>>) : <<>>[j].type = "data"
    BY <2>4
  <2>7. e.span = Len(<<>>) + 1 /\ Used(ps) + Len(<<>>) + 1 <= MaxEntries
    BY <1>3, <2>3, <2>4, <2>5
  <2> WITNESS e \in Contents, <<>> \in Seq(Contents)
  <2> QED
    BY <1>4, <2>1, <2>3, <2>4, <2>6, <2>7
<1>5. CASE row.type \in {"string", "blob"}
  <2> DEFINE e == Entry(row.type, namespace_idx, row.key, Entries(row.size) + 1,
                        ChunkAny, 0, row.size)
             d == Stored(0, row.size)
  <2>1. EntriesOf(row) = <<e>> \o d
    BY <1>5 DEF EntriesOf
  <2>2. Entries(row.size) \in Nat
    BY <1>1, EntriesBounds
  <2>3. e \in Contents
    BY <1>1, <1>2, <1>5, <2>2, EntryType
  <2>4. /\ e.type = row.type /\ e.ns = namespace_idx /\ e.key = row.key
        /\ e.span = Entries(row.size) + 1 /\ e.size = row.size
    BY DEF Entry
  <2>5. /\ d \in Seq(Contents) /\ Len(d) = Entries(row.size)
        /\ \A j \in 1..Entries(row.size) : d[j].type = "data"
        /\ row.wide = 0 => d = Pieces(next, 0, row.size)
    <3>1. 0 \in Nat
      OBVIOUS
    <3> QED
      BY <1>1, <1>2, <3>1, StoredProperties, Zenon
  <2>6. \A j \in 1..Len(d) : d[j].type = "data"
    BY <2>5, Zenon
  <2>7. Used(ps) + Entries(row.size) + 1 <= MaxEntries
    BY <1>2, <1>3, <1>5, <2>2 DEF PageFull
  <2> HIDE DEF e, d
  <2>5a. d \in Seq(Contents)
    BY <2>5
  <2> WITNESS e \in Contents, d \in Seq(Contents)
  <2>8. Used(ps) + Len(d) + 1 <= MaxEntries /\ e.span = Len(d) + 1 /\ e.type # "data"
    BY <1>5, <2>4, <2>5, <2>7
  <2> QED
    BY <1>5, <2>1, <2>4, <2>5, <2>6, <2>8
<1> QED
  BY <1>1, <1>4, <1>5

LEMMA WriteRowStore ==
  ASSUME IInv, StoreInv, WriteRow
  PROVE  StoreInv'
<1> DEFINE rows == input.rows
           L == Log(pages, input.size)
<1>1. PICK ps : PageFor(row, ps) /\ pages' = Put(ps, EntriesOf(row), BytesOf(row))
  BY DEF WriteRow
<1>2. /\ AtRow /\ Running /\ Whole(row) /\ next <= Len(rows)
      /\ next' = next + 1 /\ namespace_idx' = NamespaceIdx
      /\ UNCHANGED <<input, pc>> /\ pc = "rows"
  BY DEF WriteRow, AtRow, Running
<1>3. /\ Writable(encr_key, ps) /\ ~PageFull(ps, row) /\ BytesOf(row) \in Nat
      /\ next \in Promised => OnFlash(ps[Len(ps)], input.size)
  <2>1. /\ Writable(encr_key, ps) /\ ~PageFull(ps, row)
        /\ size' \in Nat /\ (Len(ps) + 1) * PageSize + size' = input.size
        /\ Tidy => Exact(ps)
    BY <1>1, <1>2, PageForProperties
  <2>2. BytesOf(row) \in Nat
    BY <1>2, <2>1, EntriesOfProperties
  <2>3. ASSUME next \in Promised PROVE OnFlash(ps[Len(ps)], input.size)
    <3>1. Exact(ps)
      BY <1>2, <2>1, <2>3, PromisedTidy
    <3>2. input.size \in Nat /\ ps \in Seq(Page) /\ Len(ps) > 0
      BY <2>1 DEF IInv, TypeOK, Input, Writable
    <3> QED
      BY <2>1, <3>1, <3>2, LastOnFlash
  <2> QED
    BY <2>1, <2>2, <2>3
<1>4. Log(ps, input.size) = L /\ \A p \in 1..Len(ps) : Tiled(ClearPage(ps[p]))
  BY <1>1, <1>2, PageForLog
<1>5. PICK e \in Contents, d \in Seq(Contents) :
        /\ EntriesOf(row) = <<e>> \o d
        /\ e.type # "data" /\ e.span = Len(d) + 1
        /\ \A j \in 1..Len(d) : d[j].type = "data"
        /\ Used(ps) + Len(d) + 1 <= MaxEntries
        /\ e.key = row.key
        /\ \/ row.type = "namespace" /\ e.type = "primitive" /\ e.ns = 0 /\ e.value = NamespaceIdx
           \/ /\ row.type = "primitive" /\ e.type = "primitive" /\ e.ns = namespace_idx
              /\ e.value = next
           \/ /\ row.type \in {"string", "blob"} /\ e.type = row.type /\ e.ns = namespace_idx
              /\ e.size = row.size /\ (row.wide = 0 => d = Pieces(next, 0, row.size))
  BY <1>2, <1>3, ItemOfRow
<1> DEFINE x == [entry |-> e, data |-> d]
           X == Shown(ps, input.size, x)
<1>6. /\ \A p \in 1..Len(pages') : Tiled(ClearPage(pages'[p]))
      /\ Log(pages', input.size) = L \cup X
  <2>1. encr_key \in EncryptionKeys
    BY DEF IInv, TypeOK
  <2>2. /\ Writable(encr_key, ps) /\ BytesOf(row) \in Nat
        /\ \A p \in 1..Len(ps) : Tiled(ClearPage(ps[p]))
        /\ e.type # "data" /\ e.span = Len(d) + 1
        /\ \A j \in 1..Len(d) : d[j].type = "data"
        /\ Used(ps) + Len(d) + 1 <= MaxEntries
        /\ pages' = Put(ps, <<e>> \o d, BytesOf(row))
    BY <1>1, <1>3, <1>4, <1>5
  <2>3. /\ \A p \in 1..Len(pages') : Tiled(ClearPage(pages'[p]))
        /\ Log(pages', input.size) = Log(ps, input.size) \cup X
    BY <2>1, <2>2, LogOfItem
  <2> QED
    BY <1>4, <2>3
<1>7. x.entry = e /\ x.data = d /\ (X = {} \/ X = {x}) /\ (next \in Promised => X = {x})
  BY <1>3 DEF Shown
<1> HIDE DEF x, X
<1>8. /\ rows \in Seq(Row) /\ WellFormed(rows) /\ next \in 1..Len(rows) /\ next \in Nat
      /\ row = rows[next]
  BY <1>2, StateTypes DEF row
<1>9. NamespaceIdx = NsNumber(rows, next)
  <2>1. namespace_idx = NsNumber(rows, next - 1)
    BY DEF StoreInv, Numbered
  <2> QED
    BY <1>8, <2>1, NsNumberNext DEF NamespaceIdx
<1>10. row.type # "namespace" => namespace_idx = NsNumber(rows, next)
  BY <1>9 DEF NamespaceIdx
<1>11. Belongs(rows, next, x.entry)
  <2> HIDE DEF rows
  <2> QED
    BY <1>5, <1>7, <1>8, <1>9, <1>10 DEF Belongs
<1>12. ASSUME next \in Promised PROVE Written(rows, L \cup X, next)
  <2>1. x \in OfRow(rows, L \cup X, next)
    BY <1>7, <1>11, <1>12 DEF OfRow
  <2>2. row.wide = 0
    BY <1>8, <1>12, PromisedRow
  <2> HIDE DEF rows, L
  <2>3. \/ row.type = "namespace"
        \/ row.type = "primitive" /\ x.entry.type = "primitive" /\ x.entry.value = next
        \/ /\ row.type \in {"string", "blob"} /\ x.entry.type = row.type
           /\ x.entry.size = row.size /\ x.data = Pieces(next, 0, row.size)
    BY <1>5, <1>7, <2>2
  <2> QED
    BY <1>8, <2>1, <2>3 DEF Written
<1> QED
  BY <1>2, <1>6, <1>7, <1>9, <1>11, <1>12, RowDone

(* The row that is written in chunks. *)
LEMMA BlobRow ==
  ASSUME IInv, StoreInv, InBlob
  PROVE  /\ next \in Nat /\ next \in 1..Len(input.rows) /\ row = input.rows[next]
         /\ row \in Row /\ row.type = "blob" /\ row.size \in Nat /\ row.key \in Keys
         /\ row.wide \in Nat /\ (next \in Promised => row.wide = 0)
         /\ namespace_idx \in Nat /\ namespace_idx = NsNumber(input.rows, next)
         /\ blob.chunks \in Nat /\ blob.offset \in Nat
         /\ Writable(encr_key, pages) /\ encr_key \in EncryptionKeys
         /\ Used(pages) \in Nat /\ Used(pages) < MaxEntries
         /\ next \in Promised =>
              /\ Chunked(input.rows, Log(pages, input.size), next, blob.chunks, blob.offset)
              /\ OnFlash(pages[Len(pages)], input.size)
         /\ \A y \in OfRow(input.rows, Log(pages, input.size), next) :
              y.entry.type = "chunk" /\ y.entry.chunk < blob.chunks
<1> DEFINE rows == input.rows
<1>1. /\ rows \in Seq(Row) /\ WellFormed(rows) /\ next \in Nat /\ next >= 1
      /\ next <= Len(rows) /\ next \in 1..Len(rows) /\ row = rows[next]
  BY StateTypes DEF IInv, BlobInv, InBlob, row
<1>2. /\ row \in Row /\ row.size \in Nat /\ row.key \in Keys /\ row.wide \in Nat
      /\ next \in Promised => row.wide = 0
  BY <1>1, RowType, PromisedRow
<1>3. /\ row.type = "blob"
      /\ next \in Promised => Chunked(rows, Log(pages, input.size), next, blob.chunks, blob.offset)
  BY DEF StoreInv, BlobBegun
<1>4. namespace_idx = NsNumber(rows, next)
  <2>1. namespace_idx = NsNumber(rows, next - 1) /\ next > 0
    BY <1>1 DEF StoreInv, Numbered
  <2>2. rows[next].type # "namespace"
    BY <1>1, <1>3
  <2> HIDE DEF rows
  <2> QED
    BY <1>1, <2>1, <2>2, NsNumberNext
<1>5. /\ namespace_idx \in Nat /\ blob.chunks \in Nat /\ blob.offset \in Nat
      /\ Writable(encr_key, pages) /\ encr_key \in EncryptionKeys /\ Used(pages) < MaxEntries
  BY DEF IInv, TypeOK, PagesInv, BlobInv, Running, InBlob
<1>6. Used(pages) \in Nat
  <2>1. pages[Len(pages)] \in Page
    BY <1>5, ElementOfSeq DEF Writable
  <2> QED
    BY <2>1 DEF Page, Used
<1>7. ASSUME NEW y \in OfRow(rows, Log(pages, input.size), next)
      PROVE  y.entry.type = "chunk" /\ y.entry.chunk < blob.chunks
  <2>1. y \in Log(pages, input.size) /\ Belongs(rows, next, y.entry)
    BY DEF OfRow
  <2>2. PICK q \in 1..Len(rows) :
          Belongs(rows, q, y.entry) /\ (q < next \/ (q = next /\ Begun(y.entry)))
    BY <1>1, <2>1 DEF StoreInv, Owned
  <2>3. q = next
    BY <1>1, <2>1, <2>2, OneOwner
  <2> QED
    BY <1>1, <2>2, <2>3 DEF Begun
<1>8. ASSUME next \in Promised PROVE OnFlash(pages[Len(pages)], input.size)
  <2>1. Running
    BY DEF InBlob, Running
  <2>2. Exact(pages)
    BY <1>8, <2>1, PromisedTidy DEF IInv, ExactInv
  <2>3. /\ input.size \in Nat /\ size \in Nat /\ pages \in Seq(Page) /\ Len(pages) > 0
        /\ (Len(pages) + 1) * PageSize + size = input.size
    BY <2>1 DEF IInv, TypeOK, Input, PagesInv, Writable
  <2> QED
    BY <2>2, <2>3, LastOnFlash
<1> QED
  BY <1>1, <1>2, <1>3, <1>4, <1>5, <1>6, <1>7, <1>8

LEMMA WriteChunkStore ==
  ASSUME IInv, StoreInv, WriteChunk
  PROVE  StoreInv'
<1> DEFINE rows == input.rows
           L == Log(pages, input.size)
           n == ChunkSize
           e == Entry("chunk", namespace_idx, row.key, Entries(n) + 1, blob.chunks, 0, n)
           d == Stored(blob.offset, n)
           x == [entry |-> e, data |-> d]
           X == Shown(pages, input.size, x)
           ps == Put(pages, ChunkEntries, ChunkBytes)
           BegunNext(y) == y.type = "chunk" /\ pc' # "rows" /\ (InBlob' => y.chunk < blob'.chunks)
<1>1. /\ pc = "chunks" /\ InBlob
      /\ blob' = [offset |-> blob.offset + n, chunks |-> blob.chunks + 1]
      /\ pc' = IF blob.offset + n < row.size THEN "chunks" ELSE "index"
      /\ pages' = ps \/ pages' = WithPage(ps, "active")
      /\ UNCHANGED <<input, next, namespace_idx>>
  BY DEF WriteChunk, InBlob
<1>2. /\ next \in Nat /\ next \in 1..Len(rows) /\ row = rows[next]
      /\ row \in Row /\ row.type = "blob" /\ row.size \in Nat /\ row.key \in Keys
      /\ row.wide \in Nat /\ (next \in Promised => row.wide = 0)
      /\ namespace_idx \in Nat /\ namespace_idx = NsNumber(rows, next)
      /\ blob.chunks \in Nat /\ blob.offset \in Nat
      /\ Writable(encr_key, pages) /\ encr_key \in EncryptionKeys
      /\ Used(pages) \in Nat /\ Used(pages) < MaxEntries
      /\ next \in Promised => /\ Chunked(rows, L, next, blob.chunks, blob.offset)
                              /\ OnFlash(pages[Len(pages)], input.size)
      /\ \A y \in OfRow(rows, L, next) : y.entry.type = "chunk" /\ y.entry.chunk < blob.chunks
  BY <1>1, BlobRow
<1>3. /\ n \in Nat /\ Used(pages) + Len(ChunkEntries) <= MaxEntries /\ ChunkBytes \in Nat
      /\ blob.offset + n <= row.size
  BY <1>1, ChunkProperties
<1>4. row' = row /\ row.type = "blob" /\ rows \in Seq(Row) /\ WellFormed(rows)
  BY <1>1, <1>2, StateTypes DEF row
<1>5. blob.offset % EntrySize = 0
  BY <1>1 DEF StoreInv, BlobBegun
<1>6. blob.offset + n < row.size => (blob.offset + n) % EntrySize = 0
  <2>1. PICK q \in Nat : blob.offset = q * 32
    <3>1. blob.offset \in Nat /\ 32 \in Nat /\ 32 > 0 /\ blob.offset % 32 = 0
      BY <1>2, <1>5 DEF EntrySize
    <3> QED
      BY <3>1, Multiples, Zenon
  <2>2. PICK t \in Nat : t = MaxEntries - Used(pages) - 1
    BY <1>2, FormatAssumption
  <2>3. Tailroom = t * 32
    BY <2>2 DEF Tailroom, EntrySize
  <2>4. blob.offset + n < row.size => n = Tailroom
    BY <1>2, <2>2, <2>3 DEF ChunkSize
  <2> HIDE DEF n
  <2>5. blob.offset + n < row.size => blob.offset + n = (q + t) * 32
    BY <2>1, <2>3, <2>4
  <2>6. ((q + t) * 32) % 32 = 0
    OBVIOUS
  <2> QED
    BY <2>5, <2>6 DEF EntrySize
<1> HIDE DEF n
<1>7. Entries(n) \in Nat
  BY <1>3, EntriesBounds
<1>8. /\ e \in Contents /\ e.type = "chunk" /\ e.ns = namespace_idx /\ e.key = row.key
      /\ e.span = Entries(n) + 1 /\ e.chunk = blob.chunks
  <2>1. Entries(n) + 1 \in Nat /\ 0 \in Nat /\ "chunk" \in {"primitive", "string", "blob", "chunk", "index"}
    BY <1>7
  <2>2. e \in Contents
    BY <1>2, <1>3, <2>1, EntryType, Zenon
  <2> QED
    BY <2>2 DEF Entry
<1>9. /\ d \in Seq(Contents) /\ Len(d) = Entries(n)
      /\ \A j \in 1..Entries(n) : d[j].type = "data"
      /\ row.wide = 0 => d = Pieces(next, blob.offset, n)
  <2>1. next \in Nat /\ row.wide \in Nat /\ blob.offset \in Nat /\ n \in Nat
    BY <1>2, <1>3
  <2> QED
    BY <2>1, StoredProperties, Zenon
<1>10. \A j \in 1..Len(d) : d[j].type = "data"
  BY <1>9, Zenon
<1>11. ChunkEntries = <<e>> \o d
  BY DEF ChunkEntries, n
<1> HIDE DEF e
<1>12. Len(ChunkEntries) = Len(d) + 1
  <2>1. e \in Contents /\ d \in Seq(Contents)
    BY <1>8, <1>9
  <2> HIDE DEF d
  <2>2. Len(<<e>> \o d) = Len(d) + 1
    BY <2>1, EntryWithData, Zenon
  <2> QED
    BY <1>11, <2>2, Zenon
<1> HIDE DEF d
<1>13. /\ \A p \in 1..Len(ps) : Tiled(ClearPage(ps[p]))
       /\ Log(ps, input.size) = L \cup X
       /\ Writable(encr_key, ps)
  <2>1. Used(pages) + Len(d) + 1 <= MaxEntries
    BY <1>2, <1>3, <1>7, <1>9, <1>12
  <2>2. /\ e.type # "data" /\ e.span = Len(d) + 1
        /\ \A p \in 1..Len(pages) : Tiled(ClearPage(pages[p]))
    BY <1>8, <1>9 DEF StoreInv
  <2>3. /\ e \in Contents /\ d \in Seq(Contents) /\ ChunkBytes \in Nat
        /\ Writable(encr_key, pages) /\ encr_key \in EncryptionKeys
    BY <1>2, <1>3, <1>8, <1>9
  <2>4. ps = Put(pages, <<e>> \o d, ChunkBytes)
    BY <1>11
  <2> HIDE DEF ps
  <2> QED
    BY <1>10, <2>1, <2>2, <2>3, <2>4, LogOfItem
<1>14. x.entry = e /\ x.data = d /\ (X = {} \/ X = {x}) /\ (next \in Promised => X = {x})
  BY <1>2 DEF Shown
<1> HIDE DEF x, X, ps
<1>15. /\ \A p \in 1..Len(pages') : Tiled(ClearPage(pages'[p]))
       /\ Log(pages', input.size) = L \cup X
  BY <1>1, <1>2, <1>13, LogOfNewPage
<1>16. Belongs(rows, next, x.entry)
  <2> HIDE DEF rows
  <2> QED
    BY <1>2, <1>8, <1>14 DEF Belongs
<1>17. ASSUME next \in Promised
       PROVE  Chunked(rows, L \cup X, next, blob.chunks + 1, blob.offset + n)
  <2>1. \A y \in OfRow(rows, L, next) : y.entry.chunk < blob.chunks
    BY <1>2
  <2>2. x.entry.type = "chunk" /\ x.entry.chunk = blob.chunks /\ x.data = Pieces(next, blob.offset, n)
    BY <1>2, <1>8, <1>9, <1>14, <1>17
  <2>3. Chunked(rows, L, next, blob.chunks, blob.offset)
    BY <1>2, <1>17
  <2> HIDE DEF rows, L
  <2>4. Chunked(rows, L \cup {x}, next, blob.chunks + 1, blob.offset + n)
    BY <1>2, <1>3, <1>5, <1>16, <2>1, <2>2, <2>3, ChunkAdded
  <2> QED
    BY <1>14, <1>17, <2>4
<1>18. blob'.offset = blob.offset + n /\ blob'.chunks = blob.chunks + 1 /\ pc' # "rows"
  BY <1>1
<1>19. Numbered' /\ WellFormed(rows)'
  BY <1>1, <1>4 DEF StoreInv, Numbered
<1>20. Owned'
  <2>1. ASSUME NEW y \in L
        PROVE  \E r \in DOMAIN rows :
                 Belongs(rows, r, y.entry) /\ (r < next \/ (r = next /\ BegunNext(y.entry)))
    <3>1. PICK r \in DOMAIN rows :
            Belongs(rows, r, y.entry) /\ (r < next \/ (r = next /\ Begun(y.entry)))
      BY DEF StoreInv, Owned
    <3>2. CASE r < next
      BY <3>1, <3>2
    <3>3. CASE r = next
      <4>1. y \in OfRow(rows, L, next)
        BY <3>1, <3>3 DEF OfRow
      <4>2. y.entry.type = "chunk" /\ y.entry.chunk < blob.chunks
        BY <1>2, <4>1
      <4>3. y.entry.chunk < blob.chunks + 1
        <5>1. y.entry.chunk \in Nat
          <6>1. PICK p \in 1..Len(pages) : y \in PageLog(ClearPage(pages[p]))
            BY DEF Log, Seen
          <6>2. PICK i \in Described(ClearPage(pages[p])) : y.entry = ClearPage(pages[p])[i]
            BY <6>1 DEF PageLog
          <6>3. y.entry \in Contents /\ y.entry.type # "data"
            BY <6>2, ContentKinds DEF Described, StoreInv, Tiled
          <6> QED
            BY <6>3, EntryFields
        <5> QED
          BY <1>2, <4>2, <5>1
      <4>4. BegunNext(y.entry)
        BY <1>18, <4>2, <4>3
      <4> QED
        BY <3>1, <3>3, <4>4
    <3> QED
      BY <3>1, <3>2, <3>3
  <2>2. BegunNext(x.entry)
    BY <1>2, <1>8, <1>14, <1>18
  <2>3. next \in DOMAIN rows
    BY <1>2, <1>4
  <2>4. \A y \in L \cup X : \E r \in DOMAIN rows :
          Belongs(rows, r, y.entry) /\ (r < next \/ (r = next /\ BegunNext(y.entry)))
    BY <1>14, <1>16, <2>1, <2>2, <2>3
  <2> QED
    BY <1>1, <1>15, <2>4 DEF Owned, Begun
<1>21. Promised' = Promised
  BY <1>1 DEF Promised
<1>22. AllWritten'
  <2>1. ASSUME NEW r \in Promised, r < next PROVE Written(rows, L \cup X, r)
    BY <1>2, <1>14, <1>16, <2>1, AllWrittenKept
  <2> QED
    BY <1>1, <1>15, <1>21, <2>1 DEF AllWritten
<1>23. BlobBegun'
  <2>1. next' \in Promised' => Chunked(rows', Log(pages', input'.size), next', blob'.chunks, blob'.offset)
    BY <1>1, <1>15, <1>17, <1>18, <1>21
  <2>2. /\ pc' = "chunks" => blob'.offset % EntrySize = 0
        /\ pc' = "index" => blob'.offset = row.size
    BY <1>1, <1>2, <1>3, <1>6, <1>18
  <2> QED
    BY <1>4, <2>1, <2>2 DEF BlobBegun
<1> QED
  BY <1>1, <1>15, <1>19, <1>20, <1>22, <1>23 DEF StoreInv

LEMMA WriteIndexStore ==
  ASSUME IInv, StoreInv, WriteIndex
  PROVE  StoreInv'
<1> DEFINE rows == input.rows
           L == Log(pages, input.size)
           e == Entry("index", namespace_idx, row.key, 1, ChunkAny, blob.chunks, row.size)
           x == [entry |-> e, data |-> <<>>]
           X == Shown(pages, input.size, x)
<1>1. /\ pc = "index" /\ InBlob
      /\ pages' = Put(pages, <<e>>, 0)
      /\ next' = next + 1 /\ pc' = "rows" /\ UNCHANGED <<input, namespace_idx>>
  BY DEF WriteIndex, InBlob
<1>2. /\ next \in Nat /\ next \in 1..Len(rows) /\ row = rows[next]
      /\ row \in Row /\ row.type = "blob" /\ row.size \in Nat /\ row.key \in Keys
      /\ namespace_idx \in Nat /\ namespace_idx = NsNumber(rows, next)
      /\ blob.chunks \in Nat /\ blob.offset \in Nat
      /\ Writable(encr_key, pages) /\ encr_key \in EncryptionKeys
      /\ Used(pages) \in Nat /\ Used(pages) < MaxEntries
      /\ next \in Promised => /\ Chunked(rows, L, next, blob.chunks, blob.offset)
                              /\ OnFlash(pages[Len(pages)], input.size)
  BY <1>1, BlobRow
<1>3. blob.offset = row.size
  BY <1>1 DEF StoreInv, BlobBegun
<1>4. /\ e \in Contents /\ e.type = "index" /\ e.ns = namespace_idx /\ e.key = row.key
      /\ e.span = 1 /\ e.value = blob.chunks /\ e.size = row.size
  <2>1. /\ 1 \in Nat /\ ChunkAny \in Nat
        /\ "index" \in {"primitive", "string", "blob", "chunk", "index"}
    BY FormatAssumption DEF ChunkAny
  <2>2. e \in Contents
    BY <1>2, <2>1, EntryType, Zenon
  <2> QED
    BY <2>2 DEF Entry
<1> HIDE DEF e
<1>5. /\ <<e>> = <<e>> \o <<>> /\ <<>> \in Seq(Contents) /\ Len(<<>>) = 0
      /\ \A j \in 1..Len(<<>>) : <<>>[j].type = "data"
  BY <1>4
<1>6. /\ \A p \in 1..Len(pages') : Tiled(ClearPage(pages'[p]))
      /\ Log(pages', input.size) = L \cup X
  <2>1. Used(pages) + Len(<<>>) + 1 <= MaxEntries
    BY <1>2, <1>5, FormatAssumption
  <2>2. /\ e.type # "data" /\ e.span = Len(<<>>) + 1
        /\ \A p \in 1..Len(pages) : Tiled(ClearPage(pages[p]))
    BY <1>4, <1>5 DEF StoreInv
  <2>3. /\ e \in Contents /\ <<>> \in Seq(Contents) /\ 0 \in Nat
        /\ Writable(encr_key, pages) /\ encr_key \in EncryptionKeys
        /\ e.type # "data"
        /\ \A j \in 1..Len(<<>>) : <<>>[j].type = "data"
    BY <1>2, <1>4, <1>5
  <2>4. pages' = Put(pages, <<e>> \o <<>>, 0)
    BY <1>1, <1>5
  <2> QED
    <3> DEFINE d == <<>>
    <3>1. d \in Seq(Contents) /\ e.span = Len(d) + 1 /\ Used(pages) + Len(d) + 1 <= MaxEntries
          /\ (\A j \in 1..Len(d) : d[j].type = "data") /\ pages' = Put(pages, <<e>> \o d, 0)
          /\ x = [entry |-> e, data |-> d]
      BY <2>1, <2>2, <2>3, <2>4
    <3> HIDE DEF d, x
    <3> QED
      BY <2>2, <2>3, <3>1, LogOfItem
<1>7. x.entry = e /\ (X = {} \/ X = {x}) /\ (next \in Promised => X = {x})
  BY <1>2 DEF Shown
<1> HIDE DEF x, X
<1>8. Belongs(rows, next, x.entry)
  <2> HIDE DEF rows
  <2> QED
    BY <1>2, <1>4, <1>7 DEF Belongs
<1>9. ASSUME next \in Promised PROVE Written(rows, L \cup X, next)
  <2>1. x \in OfRow(rows, L \cup X, next)
    BY <1>7, <1>8, <1>9 DEF OfRow
  <2>2. \A c : ChunkOf(rows, L \cup X, next, c) = ChunkOf(rows, L, next, c)
    BY <1>4, <1>7 DEF ChunkOf, OfRow
  <2>3. Chunked(rows, L \cup X, next, blob.chunks, row.size)
    BY <1>2, <1>3, <1>9, <2>2, ChunkedKept
  <2> HIDE DEF rows, L
  <2> QED
    BY <1>2, <1>4, <1>7, <2>1, <2>3 DEF Written
<1>10. next <= Len(rows)
  BY <1>2
<1> QED
  BY <1>1, <1>2, <1>6, <1>7, <1>8, <1>9, <1>10, RowDone

-----------------------------------------------------------------------------
(* The invariant, and the steps of the abstract store. *)

LEMMA StoreStep ==
  ASSUME IInv, StoreInv, [Next]_vars
  PROVE  StoreInv'
  BY QuietSteps, OpenStore, PageSteps, BeginBlobStore, WriteRowStore, WriteChunkStore,
     WriteIndexStore DEF Next

LEMMA StoreInvariance ==
  ASSUME \A in \in Inputs : WellFormed(in.rows)
  PROVE  Spec => [](IInv /\ StoreInv)
<1>1. Init => StoreInv
  BY InitStore DEF Init
<1>2. IInv /\ StoreInv /\ [Next]_vars => StoreInv'
  BY StoreStep
<1> QED
  BY <1>1, <1>2, Invariance, PTL DEF Spec

(* The abstract store's readable. *)
ReadableNow == {r \in Promised : IsReadable(r)}

LEMMA ReadableBefore ==
  IInv /\ StoreInv => ReadableNow = {r \in Promised : r < next}
  BY ReadableRows DEF ReadableNow

LEMMA StoreBegins ==
  ASSUME Init, WellFormed(input.rows)
  PROVE  Store!Init
<1>1. ReadableNow = {r \in Promised : r < next}
  BY InitInv, InitStore, ReadableBefore
<1>2. next = 1 /\ file = "absent" /\ input \in Input
  BY InputsAssumption DEF Init
<1>3. input.rows \in Seq(Row)
  BY <1>2 DEF Input
<1>4. ASSUME NEW r \in Promised PROVE r \in Nat /\ ~(r < next)
  BY <1>2, <1>3, PromisedRow
<1> QED
  BY <1>1, <1>2, <1>4 DEF Store!Init, ReadableNow

(* A step writes the next row, opens, closes or removes the file, or leaves *)
(* what a device can read of the promised rows as it was.                   *)
LEMMA StoreSteps ==
  ASSUME IInv, StoreInv, [Next]_vars
  PROVE  [Store!Next]_(Store!vars)
<1> DEFINE total == Len(input.rows)
<1>1. IInv' /\ StoreInv'
  <2>1. IInv /\ [Next]_vars => IInv'
    BY RefuseArgumentsInv, KeyStepsInv, OpenInv, AbortStepsInv, WriteRowInv, BeginBlobInv,
       WriteChunkInv, WriteIndexInv, FillPageInv, CloseInv, StutterInv DEF Next
  <2> QED
    BY <2>1, StoreStep
<1>2. ReadableNow = {r \in Promised : r < next}
  BY ReadableBefore
<1>3. input' = input
  BY DEF Next, RefuseArguments, GenerateKey, UseKey, NoHmacKey, Open, Refuse, NoValue,
         NoSpace, NoPage, Abort, WriteRow, BeginBlob, WriteChunk, NoChunk, WriteIndex,
         NoIndex, FillPage, Close, vars
<1>4. Promised' = Promised
  BY <1>3 DEF Promised
<1>5. ReadableNow' = {r \in Promised : r < next'}
  <2>1. (ReadableNow = {r \in Promised : r < next})'
    BY <1>1, ReadableBefore, PTL
  <2> QED
    BY <1>4, <2>1
<1>6. /\ input.rows \in Seq(Row) /\ next \in Nat /\ next >= 1 /\ total \in Nat
      /\ next - 1 \in 0..total
  BY StateTypes
<1>7. \A r \in Promised : r \in 1..total /\ r \in Nat
  BY <1>6, PromisedRow
<1>8. pc \in {"rows", "chunks", "index"} => file = "empty"
  BY DEF IInv, PagesInv, Running
<1>9. Store!vars = <<Promised, ReadableNow, file>> /\ Store!vars' = <<Promised', ReadableNow', file'>>
  BY DEF Store!vars, ReadableNow
<1>10. CASE ReadableNow' = ReadableNow /\ file' = file
  BY <1>4, <1>9, <1>10
<1>11. CASE next' = next /\ file' = file
  BY <1>2, <1>5, <1>10, <1>11
<1>12. CASE Open
  <2>1. \A r \in Promised : ~(r < next)
    <3>1. Log(pages, input.size) = {}
      BY <1>12, EmptyLog DEF Open, IInv, PagesInv
    <3>2. ASSUME NEW r \in Promised, r < next PROVE FALSE
      <4>1. Written(input.rows, Log(pages, input.size), r)
        BY <3>2 DEF StoreInv, AllWritten
      <4> QED
        BY <3>1, <4>1 DEF Written, OfRow
    <3> QED
      BY <3>2
  <2>2. file = "absent" /\ file' = "empty" /\ next' = next
    BY <1>12 DEF Open, IInv, PagesInv
  <2>3. ReadableNow = {} /\ ReadableNow' = ReadableNow
    BY <1>2, <1>5, <2>1, <2>2
  <2> QED
    BY <1>4, <2>2, <2>3 DEF Store!Next, Store!Open, ReadableNow
<1>13. CASE WriteRow \/ WriteIndex
  <2>1. file = "empty" /\ file' = file /\ next' = next + 1
    BY <1>8, <1>13 DEF WriteRow, WriteIndex, AtRow
  <2>2. CASE next \in Promised
    <3>1. ReadableNow' = ReadableNow \cup {next}
      <4>1. \A r \in Promised : r < next' <=> r < next \/ r = next
        BY <1>6, <1>7, <2>1
      <4>2. \A r : r \in ReadableNow' <=> r \in Promised /\ r < next'
        BY <1>5
      <4>3. \A r : r \in ReadableNow <=> r \in Promised /\ r < next
        BY <1>2
      <4> QED
        BY <2>2, <4>1, <4>2, <4>3
    <3>2. Store!Write(next)
      BY <1>2, <1>4, <2>1, <3>1 DEF Store!Write, ReadableNow
    <3> QED
      BY <2>2, <3>2 DEF Store!Next
  <2>3. CASE next \notin Promised
    <3>1. ReadableNow' = ReadableNow
      BY <1>2, <1>5, <1>6, <1>7, <2>1, <2>3
    <3> QED
      BY <1>10, <2>1, <3>1
  <2> QED
    BY <2>2, <2>3
<1>14. CASE Close
  <2>1. file = "empty" /\ file' = "image" /\ next' = next /\ next - 1 = total
    BY <1>6, <1>8, <1>14 DEF Close
  <2>2. ReadableNow = Promised /\ ReadableNow' = ReadableNow
    <3>1. \A r \in Promised : r < next
      BY <1>6, <1>7, <2>1
    <3> QED
      BY <1>2, <1>5, <2>1, <3>1
  <2> QED
    BY <1>4, <2>1, <2>2 DEF Store!Next, Store!Close, ReadableNow
<1>15. CASE Refuse
  <2>1. file = "empty" /\ file' = "absent" /\ next' = next
    BY <1>8, <1>15 DEF Refuse, Abort, AtRow
  <2>2. ReadableNow' = ReadableNow
    BY <1>2, <1>5, <2>1
  <2> QED
    BY <1>4, <2>1, <2>2 DEF Store!Next, Store!Refuse, ReadableNow
<1>16. ~(Open \/ WriteRow \/ WriteIndex \/ Close \/ Refuse) => next' = next /\ file' = file
  BY DEF Next, RefuseArguments, GenerateKey, UseKey, NoHmacKey, NoValue, NoSpace, NoPage,
         Abort, BeginBlob, WriteChunk, NoChunk, NoIndex, FillPage, vars
<1> QED
  BY <1>11, <1>12, <1>13, <1>14, <1>15, <1>16

(* The tool keeps the promise of NvsStore for every CSV file in which a     *)
(* namespace comes first and is declared once and a key is there once in    *)
(* it, as csv_gen.py writes them, and for all sizes of pages, blobs and     *)
(* partitions: a device that is given the pages finds the rows one by one,  *)
(* a blob at once with its index, never loses one again, and an image has   *)
(* them all (write_entry, write_varlen_binary_data, __exit__).  The rows    *)
(* are those promised: all whose characters are of one byte, without        *)
(* encryption those before the first that is not so.                        *)
THEOREM ImplementsStore ==
  ASSUME \A in \in Inputs : WellFormed(in.rows)
  PROVE  Spec => ImplementsNvsStore
<1>1. Init => Store!Init
  BY StoreBegins DEF Init
<1>2. IInv /\ StoreInv /\ [Next]_vars => [Store!Next]_(Store!vars)
  BY StoreSteps
<1> QED
  BY <1>1, <1>2, StoreInvariance, PTL DEF Spec, ImplementsNvsStore, Store!Spec
=============================================================================
