------------------------- MODULE NvsPartitionProofs -------------------------
(* Theorems about NvsPartition, for all values of its constants. *)
EXTENDS NvsPartition, SequenceTheorems, FiniteSetTheorems, TLAPS

(* Pages as they are while the tool writes them: the last one is active, no *)
(* page is overfull, and every entry is sealed with its own address.        *)
Ordered(ps) ==
  \A p \in 1..Len(ps) :
    /\ ps[p].num = p - 1
    /\ ps[p].state = IF p = Len(ps) THEN "active" ELSE "full"

Fitting(ps) == \A p \in 1..Len(ps) : Len(ps[p].slots) <= MaxEntries

SealedAt(key, p, i, slot) == slot = Sealed(key, Tweak(p - 1, i - 1), slot.content)

SealedWith(key, ps) ==
  \A p \in 1..Len(ps) : \A i \in 1..Len(ps[p].slots) : SealedAt(key, p, i, ps[p].slots[i])

Writable(key, ps) ==
  /\ ps \in Seq(Page)
  /\ Len(ps) > 0
  /\ Ordered(ps)
  /\ Fitting(ps)
  /\ SealedWith(key, ps)

(* Every page is where its number says, and none is too long. *)
Exact(ps) ==
  \A p \in 1..Len(ps) : ps[p].address = (p - 1) * PageSize /\ ps[p].length = PageSize

-----------------------------------------------------------------------------
(* Arithmetic of entries and pages. *)

LEMMA PageSizeType == PageSize \in Nat /\ PageSize > 0
  BY FormatAssumption DEF PageSize, FirstEntryOffset, EntrySize

(* n bytes take n / 32 entries, rounded up. *)
LEMMA EntriesBounds ==
  ASSUME NEW n \in Nat
  PROVE  /\ Entries(n) \in Nat
         /\ n <= Entries(n) * 32
         /\ Entries(n) * 32 < n + 32
  BY DEF Entries, EntrySize

LEMMA EntriesMonotone ==
  ASSUME NEW n \in Nat, NEW m \in Nat, n <= m
  PROVE  Entries(n) <= Entries(m)
<1>1. /\ Entries(n) \in Nat /\ Entries(m) \in Nat
      /\ Entries(n) * 32 < n + 32
      /\ m <= Entries(m) * 32
  BY EntriesBounds
<1> QED
  BY <1>1

LEMMA TweakType ==
  ASSUME NEW page \in Nat, NEW i \in Nat
  PROVE  Tweak(page, i) \in Nat
<1>1. page * PageSize \in Nat
  BY PageSizeType
<1> QED
  BY <1>1 DEF Tweak, FirstEntryOffset, EntrySize

(* A multiple of the size of a page is some number of pages. *)
LEMMA Multiples ==
  ASSUME NEW a \in Nat, NEW b \in Nat, b > 0, a % b = 0
  PROVE  \E n \in Nat : a = n * b
<1>1. a \div b \in Nat /\ a = b * (a \div b) + (a % b)
  OBVIOUS
<1> DEFINE n == a \div b
<1> HIDE DEF n
<1>2. n \in Nat /\ a = b * n
  BY <1>1 DEF n
<1>3. a = n * b
  BY <1>2
<1> QED
  BY <1>2, <1>3

LEMMA OneMore ==
  ASSUME NEW a \in Int, NEW b \in Int
  PROVE  (a + 1) * b = a * b + b
  OBVIOUS

(* One page less of what is left. *)
LEMMA OneLess ==
  ASSUME NEW a \in Nat, NEW b \in Nat, NEW n \in Nat, a = n * b, a # 0
  PROVE  a - b \in Nat /\ \E m \in Nat : a - b = m * b
<1>1. n # 0
  OBVIOUS
<1>2. n - 1 \in Nat
  BY <1>1
<1>3. n * b = (n - 1) * b + b
  BY OneMore, <1>2, n = (n - 1) + 1
<1>4. (n - 1) * b \in Nat
  BY <1>2
<1> QED
  BY <1>2, <1>3, <1>4

(* decrypt gives an entry of the page the number that encrypt_data gave it. *)
LEMMA DecryptedNumber ==
  ASSUME NEW ps, NEW p, ps[p] \in Seq(Slot), NEW i \in 1..Len(ps[p])
  PROVE  DecryptedNo(ps, p, i) = i - 1
<1>1. {f \in 0..i : Decrypts(ps, p, f)} = 2..i
  BY DEF Decrypts
<1>2. Cardinality(2..i) = i - 1
  BY FS_Interval
<1> QED
  BY <1>1, <1>2 DEF DecryptedNo

-----------------------------------------------------------------------------
(* What the pages' operators return. *)

LEMMA SealedType ==
  ASSUME NEW key \in EncryptionKeys, NEW p \in Nat, NEW i \in Nat, NEW c \in Contents
  PROVE  /\ Sealed(key, Tweak(p, i), c) \in Slot
         /\ Sealed(key, Tweak(p, i), c).content = c
  BY TweakType DEF Sealed, Slot

LEMMA FullPage ==
  ASSUME NEW p \in Page
  PROVE  LET q == [p EXCEPT !.state = "full"]
         IN  /\ q \in Page /\ q.num = p.num /\ q.slots = p.slots /\ q.state = "full"
             /\ q.address = p.address /\ q.length = p.length
  BY DEF Page

LEMMA WithPageProperties ==
  ASSUME NEW key \in EncryptionKeys, NEW ps, Writable(key, ps),
         NEW state \in {"active", "reserved"}
  PROVE  LET rs == WithPage(ps, state)
         IN  /\ rs \in Seq(Page)
             /\ Len(rs) = Len(ps) + 1
             /\ \A p \in 1..Len(rs) :
                  /\ rs[p].num = p - 1
                  /\ rs[p].state = IF p = Len(rs) THEN state ELSE "full"
             /\ \A p \in 1..Len(ps) : rs[p].slots = ps[p].slots
             /\ rs[Len(rs)].slots = <<>>
             /\ Used(rs) = 0
             /\ Fitting(rs)
             /\ SealedWith(key, rs)
             /\ state = "active" => Writable(key, rs)
             /\ \A p \in 1..Len(ps) : rs[p].address = ps[p].address
             /\ Exact(ps) => Exact(rs)
<1> DEFINE n  == Len(ps)
           qs == [ps EXCEPT ![n].state = "full"]
           np == NewPage(n, state, EndOf(ps))
           rs == Append(qs, np)
<1>1. /\ ps \in Seq(Page)
      /\ n \in Nat /\ n > 0
      /\ \A p \in 1..n : ps[p] \in Page
  BY ElementOfSeq DEF Writable
<1>2. qs = [ps EXCEPT ![n] = [ps[n] EXCEPT !.state = "full"]]
  OBVIOUS
<1>3. [ps[n] EXCEPT !.state = "full"] \in Page
  BY <1>1, FullPage
<1>4. /\ qs \in Seq(Page)
      /\ Len(qs) = n
      /\ \A p \in 1..n : qs[p] = IF p = n THEN [ps[n] EXCEPT !.state = "full"] ELSE ps[p]
  BY <1>1, <1>2, <1>3, ExceptSeq
<1>5. /\ np \in Page
      /\ np.num = n /\ np.state = state /\ np.slots = <<>>
      /\ Len(np.slots) = 0
      /\ np.address = ps[n].address + ps[n].length /\ np.length = PageSize
  <2>1. ps[n].address \in Nat /\ ps[n].length \in Nat /\ PageSize \in Nat
    BY <1>1, PageSizeType DEF Page
  <2> QED
    BY <1>1, <2>1 DEF NewPage, Page, EndOf
<1>6. /\ rs \in Seq(Page)
      /\ Len(rs) = n + 1
      /\ \A p \in 1..n : rs[p] = qs[p]
      /\ rs[n + 1] = np
  <2> HIDE DEF qs, np
  <2> QED
    BY <1>1, <1>4, <1>5, AppendProperties
<1>7. WithPage(ps, state) = rs
  BY DEF WithPage
<1>7a. /\ qs[n].state = "full" /\ qs[n].num = ps[n].num /\ qs[n].slots = ps[n].slots
       /\ qs[n].address = ps[n].address /\ qs[n].length = ps[n].length
  BY <1>1, <1>4, FullPage
<1> HIDE DEF rs, np, qs
<1>8. \A p \in 1..n : /\ rs[p].num = ps[p].num
                      /\ rs[p].slots = ps[p].slots
                      /\ rs[p].state = "full"
                      /\ rs[p].address = ps[p].address
                      /\ rs[p].length = ps[p].length
  BY <1>1, <1>4, <1>6, <1>7a DEF Writable, Ordered
<1>9. \A p \in 1..Len(rs) : /\ rs[p].num = p - 1
                            /\ rs[p].state = IF p = Len(rs) THEN state ELSE "full"
  BY <1>1, <1>5, <1>6, <1>8 DEF Writable, Ordered
<1>10. Fitting(rs)
  BY <1>1, <1>5, <1>6, <1>8, FormatAssumption DEF Writable, Fitting
<1>11. SealedWith(key, rs)
  BY <1>1, <1>5, <1>6, <1>8 DEF Writable, SealedWith
<1>12. rs[Len(rs)].slots = <<>> /\ Used(rs) = 0
  BY <1>1, <1>5, <1>6 DEF Used
<1>13. state = "active" => Writable(key, rs)
  BY <1>1, <1>6, <1>9, <1>10, <1>11 DEF Writable, Ordered
<1>14. ASSUME Exact(ps) PROVE Exact(rs)
  <2>1. ps[n].address = (n - 1) * PageSize /\ ps[n].length = PageSize
    BY <1>1, <1>14 DEF Exact
  <2>2. (n - 1) + 1 = n /\ n - 1 \in Int /\ PageSize \in Int
    BY <1>1, PageSizeType
  <2>3. ((n - 1) + 1) * PageSize = (n - 1) * PageSize + PageSize
    BY <2>2, OneMore
  <2>4. np.address = n * PageSize
    BY <1>5, <2>1, <2>2, <2>3
  <2>5. rs[n + 1].address = ((n + 1) - 1) * PageSize /\ rs[n + 1].length = PageSize
    BY <1>1, <1>5, <1>6, <2>4
  <2>6. \A p \in 1..n : rs[p].address = (p - 1) * PageSize /\ rs[p].length = PageSize
    BY <1>8, <1>14 DEF Exact
  <2>7. \A p \in 1..Len(rs) : p \in 1..n \/ p = n + 1
    BY <1>1, <1>6
  <2> QED
    BY <2>5, <2>6, <2>7 DEF Exact
<1> QED
  BY <1>1, <1>6, <1>7, <1>8, <1>9, <1>10, <1>11, <1>12, <1>13, <1>14

LEMMA PutProperties ==
  ASSUME encr_key \in EncryptionKeys,
         NEW ps, Writable(encr_key, ps),
         NEW entries \in Seq(Contents), Used(ps) + Len(entries) <= MaxEntries,
         NEW bytes \in Nat
  PROVE  /\ Writable(encr_key, Put(ps, entries, bytes))
         /\ Len(Put(ps, entries, bytes)) = Len(ps)
         /\ Used(Put(ps, entries, bytes)) = Used(ps) + Len(entries)
         /\ \A p \in 1..Len(ps) - 1 : Put(ps, entries, bytes)[p] = ps[p]
         /\ \A i \in 1..Used(ps) + Len(entries) :
              Put(ps, entries, bytes)[Len(ps)].slots[i].content =
                IF i <= Used(ps) THEN ps[Len(ps)].slots[i].content ELSE entries[i - Used(ps)]
         /\ \A p \in 1..Len(ps) : Put(ps, entries, bytes)[p].address = ps[p].address
         /\ Exact(ps) /\ (encr_key # NoKey \/ bytes <= (Len(entries) - 1) * EntrySize) =>
              Exact(Put(ps, entries, bytes))
<1> DEFINE n == Len(ps)
           old == ps[n].slots
           new == [i \in 1..Len(entries) |->
                     Sealed(encr_key, Tweak(n - 1, Len(old) + i - 1), entries[i])]
           end == EndOfBytes(ps, bytes)
           length == IF encr_key = NoKey /\ end > ps[n].length THEN end ELSE ps[n].length
           page == [ps[n] EXCEPT !.slots = old \o new, !.length = length]
           rs == Put(ps, entries, bytes)
<1>1. /\ ps \in Seq(Page)
      /\ n \in Nat /\ n > 0
      /\ \A p \in 1..n : ps[p] \in Page
  BY ElementOfSeq DEF Writable
<1>2. /\ old \in Seq(Slot)
      /\ Len(old) \in Nat
      /\ Len(old) = Used(ps)
      /\ \A i \in 1..Len(old) : SealedAt(encr_key, n, i, old[i])
  BY <1>1 DEF Page, Used, Writable, SealedWith
<1>3. /\ Len(entries) \in Nat
      /\ \A i \in 1..Len(entries) : entries[i] \in Contents
  BY ElementOfSeq
<1>4. \A i \in 1..Len(entries) :
        /\ Len(old) + i - 1 \in Nat
        /\ new[i] = Sealed(encr_key, Tweak(n - 1, Len(old) + i - 1), entries[i])
        /\ new[i] \in Slot
        /\ new[i].content = entries[i]
  <2> SUFFICES ASSUME NEW i \in 1..Len(entries)
               PROVE  /\ Len(old) + i - 1 \in Nat
                      /\ new[i] = Sealed(encr_key, Tweak(n - 1, Len(old) + i - 1), entries[i])
                      /\ new[i] \in Slot
                      /\ new[i].content = entries[i]
    OBVIOUS
  <2> HIDE DEF n, old
  <2>1. n - 1 \in Nat /\ Len(old) + i - 1 \in Nat /\ entries[i] \in Contents
    BY <1>1, <1>2, <1>3
  <2>2. new[i] = Sealed(encr_key, Tweak(n - 1, Len(old) + i - 1), entries[i])
    OBVIOUS
  <2> QED
    BY <2>1, <2>2, SealedType
<1>5. new \in Seq(Slot) /\ Len(new) = Len(entries)
  BY <1>3, <1>4
<1>5a. rs = [ps EXCEPT ![n] = page]
  BY DEF Put, Used
<1>5b. page = [ps[n] EXCEPT !.slots = old \o new, !.length = length]
  OBVIOUS
<1>5c. length \in Nat
  <2>1. Used(ps) \in Nat /\ ps[n].length \in Nat
    <3>1. ps[n] \in Page
      BY <1>1
    <3> QED
      BY <1>2, <3>1 DEF Page
  <2> QED
    BY <2>1 DEF EndOfBytes, FirstEntryOffset, EntrySize
<1>5d. ASSUME encr_key # NoKey \/ bytes <= (Len(entries) - 1) * EntrySize,
              ps[n].length = PageSize
       PROVE  length = PageSize
  <2>1. CASE encr_key # NoKey
    BY <1>5d, <2>1
  <2>2. CASE bytes <= (Len(entries) - 1) * EntrySize
    <3>1. /\ Used(ps) \in Nat /\ Len(entries) \in Nat /\ MaxEntries \in Nat
          /\ Used(ps) + Len(entries) <= MaxEntries
      BY <1>2, <1>3, FormatAssumption
    <3>2. end <= PageSize
      BY <2>2, <3>1 DEF EndOfBytes, PageSize, FirstEntryOffset, EntrySize
    <3>3. end \in Nat /\ PageSize \in Nat
      BY <3>1, PageSizeType DEF EndOfBytes, FirstEntryOffset, EntrySize
    <3> HIDE DEF end
    <3> QED
      BY <1>5d, <3>2, <3>3
  <2> QED
    BY <1>5d, <2>1, <2>2
<1> HIDE DEF new, old, page, rs, length, end
<1>6. /\ old \o new \in Seq(Slot)
      /\ Len(old \o new) = Len(old) + Len(entries)
      /\ \A i \in 1..Len(old) + Len(entries) :
           (old \o new)[i] = IF i <= Len(old) THEN old[i] ELSE new[i - Len(old)]
  <2>1. old \in Seq(Slot) /\ new \in Seq(Slot)
    BY <1>2, <1>5
  <2>2. /\ old \o new \in Seq(Slot)
        /\ Len(old \o new) = Len(old) + Len(new)
        /\ \A i \in 1..Len(old) + Len(new) :
             (old \o new)[i] = IF i <= Len(old) THEN old[i] ELSE new[i - Len(old)]
    BY <2>1, ConcatProperties
  <2> QED
    BY <2>2, <1>5
<1>7. /\ page \in Page
      /\ page.num = ps[n].num /\ page.state = ps[n].state /\ page.slots = old \o new
      /\ page.address = ps[n].address /\ page.length = length
  <2>1. ps[n] \in Page /\ old \o new \in Seq(Slot)
    BY <1>1, <1>6
  <2> DEFINE m == ps[n]
             t == old \o new
  <2>2. m \in Page /\ t \in Seq(Slot) /\ length \in Nat /\ page = [m EXCEPT !.slots = t, !.length = length]
    BY <2>1, <1>5b, <1>5c
  <2> HIDE DEF m, t
  <2>3. /\ page \in Page
        /\ page.num = m.num /\ page.state = m.state /\ page.slots = t
        /\ page.address = m.address /\ page.length = length
    BY <2>2 DEF Page
  <2> QED
    BY <2>3 DEF m, t
<1>9. /\ rs \in Seq(Page)
      /\ Len(rs) = n
      /\ \A p \in 1..n : rs[p] = IF p = n THEN page ELSE ps[p]
  BY <1>1, <1>5a, <1>7, ExceptSeq
<1>10. Ordered(rs)
  BY <1>1, <1>7, <1>9 DEF Writable, Ordered
<1>11. Used(rs) = Used(ps) + Len(entries)
  <2>1. rs[Len(rs)] = page
    BY <1>1, <1>9
  <2> QED
    BY <2>1, <1>2, <1>6, <1>7 DEF Used
<1>12. Fitting(rs)
  BY <1>1, <1>2, <1>6, <1>7, <1>9 DEF Writable, Fitting
<1>13. ASSUME NEW i \in 1..Len(old) + Len(entries)
       PROVE  SealedAt(encr_key, n, i, (old \o new)[i])
  <2>1. CASE i <= Len(old)
    <3>1. i \in 1..Len(old) /\ (old \o new)[i] = old[i]
      BY <2>1, <1>2, <1>3, <1>6
    <3>2. SealedAt(encr_key, n, i, old[i])
      BY <3>1, <1>2
    <3> QED
      BY <3>1, <3>2, Zenon
  <2>2. CASE i > Len(old)
    <3>1. i - Len(old) \in 1..Len(entries)
      BY <2>2, <1>2, <1>3
    <3>2. Len(old) + (i - Len(old)) - 1 = i - 1
      BY <1>2
    <3>3. new[i - Len(old)] = Sealed(encr_key, Tweak(n - 1, i - 1), new[i - Len(old)].content)
      BY <3>1, <3>2, <1>4
    <3>4. (old \o new)[i] = new[i - Len(old)]
      BY <2>2, <1>2, <1>6
    <3>5. SealedAt(encr_key, n, i, new[i - Len(old)])
      BY <3>3 DEF SealedAt
    <3> QED
      BY <3>4, <3>5, Zenon
  <2>3. i <= Len(old) \/ i > Len(old)
    BY <1>2, <1>3
  <2> QED
    BY <2>1, <2>2, <2>3, Zenon
<1>14. SealedWith(encr_key, rs)
  BY <1>1, <1>6, <1>7, <1>9, <1>13 DEF Writable, SealedWith
<1>15. ASSUME NEW i \in 1..Used(ps) + Len(entries)
       PROVE  rs[n].slots[i].content =
                IF i <= Used(ps) THEN ps[n].slots[i].content ELSE entries[i - Used(ps)]
  <2>1. i \in 1..Len(old) + Len(entries) /\ n \in 1..n /\ Used(ps) = Len(old)
    BY <1>1, <1>2
  <2>2. rs[n].slots = old \o new
    BY <1>7, <1>9, <2>1
  <2>3. CASE i <= Used(ps)
    <3>1. (old \o new)[i] = old[i]
      BY <1>6, <2>1, <2>3
    <3> QED
      BY <2>2, <2>3, <3>1 DEF old
  <2>4. CASE ~(i <= Used(ps))
    <3>1. i - Len(old) \in 1..Len(entries) /\ (old \o new)[i] = new[i - Len(old)]
      BY <1>2, <1>3, <1>6, <2>1, <2>4
    <3>2. new[i - Len(old)].content = entries[i - Len(old)]
      BY <1>4, <3>1
    <3> QED
      BY <2>1, <2>2, <2>4, <3>1, <3>2
  <2> QED
    BY <2>3, <2>4
<1>16. \A p \in 1..n - 1 : rs[p] = ps[p]
  BY <1>1, <1>9
<1>17. \A p \in 1..n : rs[p].address = ps[p].address
  BY <1>1, <1>7, <1>9
<1>18. ASSUME Exact(ps), encr_key # NoKey \/ bytes <= (Len(entries) - 1) * EntrySize
       PROVE  Exact(rs)
  <2>1. ps[n].length = PageSize
    BY <1>1, <1>18 DEF Exact
  <2>2. length = PageSize
    BY <1>5d, <1>18, <2>1
  <2>3. \A p \in 1..n : rs[p].length = PageSize
    BY <1>7, <1>9, <1>18, <2>2 DEF Exact
  <2>4. \A p \in 1..n : ps[p].address = (p - 1) * PageSize
    BY <1>18 DEF Exact
  <2> QED
    BY <1>9, <1>17, <2>3, <2>4 DEF Exact
<1> QED
  BY <1>1, <1>9, <1>10, <1>11, <1>12, <1>14, <1>15, <1>16, <1>17, <1>18 DEF Writable, rs

-----------------------------------------------------------------------------
(* What is written. *)

LEMMA EntryType ==
  ASSUME NEW type \in {"primitive", "string", "blob", "chunk", "index"},
         NEW ns \in Nat, NEW key \in Keys, NEW span \in Nat, NEW chunk \in Nat,
         NEW value \in Nat, NEW n \in Nat
  PROVE  Entry(type, ns, key, span, chunk, value, n) \in Contents
  BY DEF Entry, Contents

LEMMA PiecesType ==
  ASSUME NEW r \in Nat, NEW from \in Nat, NEW n \in Nat
  PROVE  Pieces(r, from, n) \in Seq(Contents) /\ Len(Pieces(r, from, n)) = Entries(n)
<1>1. Entries(n) \in Nat
  BY EntriesBounds
<1> DEFINE P(i) == [type |-> "data", row |-> r, from |-> from + (i - 1) * EntrySize,
                    to |-> IF i = Entries(n) THEN from + n ELSE from + i * EntrySize]
<1>2. \A i \in 1..Entries(n) : P(i) \in Contents
  BY <1>1 DEF Contents, EntrySize
<1> HIDE DEF P
<1>3. [i \in 1..Entries(n) |-> P(i)] \in Seq(Contents)
      /\ Len([i \in 1..Entries(n) |-> P(i)]) = Entries(n)
  BY <1>1, <1>2
<1> QED
  BY <1>3 DEF Pieces, P

(* An entry and the data that follow it. *)
LEMMA EntryWithData ==
  ASSUME NEW e \in Contents, NEW d \in Seq(Contents)
  PROVE  <<e>> \o d \in Seq(Contents) /\ Len(<<e>> \o d) = Len(d) + 1
<1>1. <<e>> \in Seq(Contents) /\ Len(<<e>>) = 1 /\ Len(d) \in Nat
  OBVIOUS
<1>2. <<e>> \o d \in Seq(Contents) /\ Len(<<e>> \o d) = Len(<<e>>) + Len(d)
  BY <1>1, ConcatProperties, Zenon
<1> QED
  BY <1>1, <1>2

(* The bytes of n characters are n, or more. *)
LEMMA BytesBounds ==
  ASSUME NEW r, r.wide \in Nat, NEW c \in Nat, NEW n \in Nat
  PROVE  /\ BytePos(r, c) \in Nat
         /\ Bytes(r, c, n) \in Nat
         /\ Bytes(r, c, n) >= n
         /\ r.wide = 0 => BytePos(r, c) = c /\ Bytes(r, c, n) = n
  BY DEF BytePos, Bytes

(* As many entries hold the characters as are counted for them; when they   *)
(* are of one byte these are all their pieces.                              *)
LEMMA StoredProperties ==
  ASSUME next \in Nat, row.wide \in Nat, NEW c \in Nat, NEW n \in Nat
  PROVE  /\ Stored(c, n) \in Seq(Contents)
         /\ Len(Stored(c, n)) = Entries(n)
         /\ Entries(n) \in Nat
         /\ \A j \in 1..Entries(n) : Stored(c, n)[j].type = "data"
         /\ row.wide = 0 => Stored(c, n) = Pieces(next, c, n)
<1> DEFINE from == BytePos(row, c)
           m == Bytes(row, c, n)
           d == Pieces(next, from, m)
<1>1. /\ from \in Nat /\ m \in Nat /\ n <= m
      /\ row.wide = 0 => from = c /\ m = n
  BY BytesBounds
<1> HIDE DEF from, m
<1>2. Entries(n) \in Nat /\ Entries(m) \in Nat /\ Entries(n) <= Entries(m)
  BY <1>1, EntriesBounds, EntriesMonotone
<1>3. d \in Seq(Contents) /\ Len(d) = Entries(m)
  BY <1>1, PiecesType
<1>4. \A j \in 1..Entries(m) : d[j].type = "data"
  BY DEF Pieces
<1>5. \A j \in 1..Entries(n) : j \in 1..Entries(m) /\ d[j] \in Contents
  BY <1>2, <1>3
<1> HIDE DEF d
<1>6. Stored(c, n) = SubSeq(d, 1, Entries(n))
  BY DEF Stored, d, from, m
<1>7. /\ SubSeq(d, 1, Entries(n)) \in Seq(Contents)
      /\ Len(SubSeq(d, 1, Entries(n))) = Entries(n)
      /\ \A j \in 1..Entries(n) : SubSeq(d, 1, Entries(n))[j] = d[j]
  <2>1. /\ 1 \in Int /\ Entries(n) \in Int
        /\ SubSeq(d, 1, Entries(n)) \in Seq(Contents)
        /\ Len(SubSeq(d, 1, Entries(n))) = IF 1 <= Entries(n) THEN Entries(n) - 1 + 1 ELSE 0
        /\ \A j \in 1..Entries(n) - 1 + 1 : SubSeq(d, 1, Entries(n))[j] = d[1 + j - 1]
    BY <1>2, <1>5, SubSeqProperties
  <2> QED
    BY <1>2, <2>1
<1>8. ASSUME row.wide = 0 PROVE SubSeq(d, 1, Entries(n)) = Pieces(next, c, n)
  <2>1. d = Pieces(next, c, n) /\ Len(d) = Entries(n)
    BY <1>1, <1>3, <1>8 DEF d
  <2>2. SubSeq(d, 1, Entries(n)) = d
    BY <1>2, <1>3, <1>7, <2>1, SeqEqual
  <2> QED
    BY <2>1, <2>2
<1> QED
  BY <1>2, <1>4, <1>5, <1>6, <1>7, <1>8

-----------------------------------------------------------------------------
(* The inductive invariant.  While the tool runs, what is left of the       *)
(* partition is a number of whole pages, and with the pages made and the    *)
(* one kept back it is all of it; a chunk never starts behind the end of    *)
(* its blob, and there is an entry free for it.                             *)

Running == pc \in {"rows", "chunks", "index"}

PagesInv ==
  /\ pc \in {"start", "open"} => pages = <<>> /\ file = "absent"
  /\ pc = "open" => ~BadSize
  /\ file = "image" => pc = "done"
  /\ Running =>
       /\ file = "empty"
       /\ Writable(encr_key, pages)
       /\ (Len(pages) + 1) * PageSize + size = input.size
       /\ \E n \in Nat : size = n * PageSize

BlobInv ==
  /\ next >= 1
  /\ pc \in {"chunks", "index"} => next <= Len(input.rows) /\ Used(pages) < MaxEntries
  /\ pc = "chunks" => blob.offset <= row.size

(* What decrypt is given is what the entries were sealed with, and there    *)
(* is a key once the tool has started to encrypt.                           *)
Started == pc \notin {"start", "failed"} \/ pages # <<>>

KeyInv ==
  /\ keyfile = encr_key
  /\ Started /\ input.command = "encrypt" => encr_key # NoKey

EntriesInv == Fitting(pages) /\ SealedWith(encr_key, pages)

(* Pages are where they belong as long as only characters of one byte have  *)
(* been written, or the entries are encrypted.                              *)
Tidy == encr_key # NoKey \/ \A r \in DOMAIN input.rows : r <= next => input.rows[r].wide = 0

ExactInv == Tidy => Exact(pages)

ImageInv ==
  file = "image" =>
    /\ Len(pages) * PageSize = input.size
    /\ \A p \in DOMAIN pages :
         /\ pages[p].num = p - 1
         /\ pages[p].state = IF p = Len(pages) THEN "reserved" ELSE "full"
    /\ pages[Len(pages)].slots = <<>>

IInv == TypeOK /\ PagesInv /\ BlobInv /\ KeyInv /\ EntriesInv /\ ExactInv /\ ImageInv

-----------------------------------------------------------------------------
(* The initial state. *)

LEMMA InitInv == Init => IInv
<1> SUFFICES ASSUME Init PROVE IInv
  OBVIOUS
<1>1. TypeOK
  BY InputsAssumption DEF Init, TypeOK, NoBlob, EncryptionKeys
<1>2. PagesInv /\ BlobInv /\ KeyInv /\ ImageInv
  BY DEF Init, PagesInv, BlobInv, KeyInv, Started, ImageInv, Running
<1>3. Fitting(pages) /\ SealedWith(encr_key, pages) /\ ExactInv
  BY DEF Init, Fitting, SealedWith, ExactInv, Exact
<1> QED
  BY <1>1, <1>2, <1>3 DEF IInv, EntriesInv

-----------------------------------------------------------------------------
(* Each step. *)

(* Without pages there is nothing that could be too long or badly sealed. *)
LEMMA NoPages ==
  ASSUME NEW key, NEW ps, ps = <<>>
  PROVE  Fitting(ps) /\ SealedWith(key, ps) /\ Exact(ps)
  BY DEF Fitting, SealedWith, Exact

(* A step that writes nothing changes nothing of it. *)
LEMMA ExactKept ==
  ASSUME ExactInv, UNCHANGED <<input, next, pages, encr_key>>
  PROVE  ExactInv'
  BY DEF ExactInv, Tidy, Exact

LEMMA RefuseArgumentsInv == IInv /\ (RefuseArguments \/ NoHmacKey) => IInv'
<1> SUFFICES ASSUME IInv, RefuseArguments \/ NoHmacKey PROVE IInv'
  OBVIOUS
<1>1. /\ pc = "start" /\ pc' = "failed"
      /\ error' \in {"arguments", "value"}
      /\ UNCHANGED <<input, next, namespace_idx, pages, size, blob, encr_key, keyfile, file>>
  BY DEF RefuseArguments, NoHmacKey
<1>2. pages = <<>> /\ file = "absent"
  BY <1>1 DEF IInv, PagesInv
<1>3. EntriesInv' /\ ExactInv'
  BY <1>1, <1>2, NoPages DEF EntriesInv, ExactInv
<1>4. TypeOK'
  BY <1>1 DEF IInv, TypeOK
<1>5. KeyInv'
  BY <1>1, <1>2 DEF IInv, KeyInv, Started
<1> QED
  BY <1>1, <1>2, <1>3, <1>4, <1>5
     DEF IInv, PagesInv, BlobInv, ImageInv, Running

LEMMA KeyStepsInv == IInv /\ (GenerateKey \/ UseKey) => IInv'
<1> SUFFICES ASSUME IInv, GenerateKey \/ UseKey PROVE IInv'
  OBVIOUS
<1>1. /\ pc = "start"
      /\ pc' \in {"open", "done"}
      /\ pc' = "open" => ~BadSize
      /\ encr_key' \in EncryptionKeys
      /\ keyfile' = encr_key'
      /\ input.command = "encrypt" => encr_key' # NoKey
      /\ UNCHANGED <<input, next, namespace_idx, pages, size, blob, file, error>>
  BY LimitsAssumption
     DEF GenerateKey, UseKey, BadArguments, NewKey, IInv, TypeOK, Input, EncryptionKeys
<1>2. pages = <<>> /\ file = "absent"
  BY <1>1 DEF IInv, PagesInv
<1>3. EntriesInv' /\ ExactInv'
  BY <1>1, <1>2, NoPages DEF EntriesInv, ExactInv
<1>4. BadSize' = BadSize
  BY <1>1 DEF BadSize
<1>5. TypeOK'
  BY <1>1 DEF IInv, TypeOK
<1> QED
  BY <1>1, <1>2, <1>3, <1>4, <1>5
     DEF IInv, PagesInv, BlobInv, KeyInv, ImageInv, Running

(* An exception ends the program. *)
LEMMA AbortInv ==
  ASSUME IInv, Running, NEW e \in {"input", "value", "size", "page"}, Abort(e)
  PROVE  IInv'
<1>1. /\ pc' = "failed"
      /\ error' = e
      /\ file' \in {"absent", "empty"}
      /\ UNCHANGED <<input, next, namespace_idx, pages, size, blob, encr_key, keyfile>>
  BY DEF Abort, IInv, PagesInv
<1>2. EntriesInv'
  BY <1>1 DEF IInv, EntriesInv, Fitting, SealedWith
<1>3. TypeOK'
  BY <1>1 DEF IInv, TypeOK
<1>4. pc # "start" /\ KeyInv'
  BY <1>1 DEF Running, IInv, KeyInv, Started
<1>5. ExactInv'
  BY <1>1, ExactKept DEF IInv
<1> QED
  BY <1>1, <1>2, <1>3, <1>4, <1>5
     DEF IInv, PagesInv, BlobInv, ImageInv, Running

LEMMA AbortStepsInv ==
  IInv /\ (Refuse \/ NoValue \/ NoSpace \/ NoPage \/ NoChunk \/ NoIndex) => IInv'
<1> SUFFICES ASSUME IInv, Refuse \/ NoValue \/ NoSpace \/ NoPage \/ NoChunk \/ NoIndex
             PROVE  IInv'
  OBVIOUS
<1>1. /\ Running
      /\ Abort("input") \/ Abort("value") \/ Abort("size") \/ Abort("page")
  BY DEF Refuse, NoValue, NoSpace, NoPage, NoChunk, NoIndex, AtRow, Running
<1> QED
  BY <1>1, AbortInv

LEMMA OpenInv == IInv /\ Open => IInv'
<1> SUFFICES ASSUME IInv, Open PROVE IInv'
  OBVIOUS
<1> DEFINE page == NewPage(0, "active", 0)
<1>1. /\ page \in Page /\ page.num = 0 /\ page.state = "active" /\ page.slots = <<>>
      /\ page.address = 0 /\ page.length = PageSize
  BY PageSizeType DEF NewPage, Page
<1> HIDE DEF page
<1>2. /\ pages' = <<page>>
      /\ pages' \in Seq(Page)
      /\ Len(pages') = 1
      /\ pages'[1] = page
  BY <1>1 DEF Open, page
<1>3. Fitting(pages') /\ SealedWith(encr_key', pages') /\ Ordered(pages')
  BY <1>1, <1>2, FormatAssumption DEF Fitting, SealedWith, Ordered
<1>4. Writable(encr_key', pages')
  BY <1>2, <1>3 DEF Writable
<1>5. /\ input.size \in Nat
      /\ input.size % PageSize = 0
      /\ input.size >= 3 * PageSize
  <2>1. input.size \in Nat
    BY DEF IInv, TypeOK, Input
  <2>2. ~(input.size % PageSize # 0) /\ ~(input.size < 3 * PageSize)
    BY DEF Open, IInv, PagesInv, BadSize
  <2> QED
    BY <2>1, <2>2, PageSizeType
<1>6. PICK n \in Nat : input.size = n * PageSize
  BY <1>5, PageSizeType, Multiples
<1>7. n >= 3
  BY <1>5, <1>6, PageSizeType
<1>8. /\ size' = input.size - 2 * PageSize
      /\ size' = (n - 2) * PageSize
      /\ n - 2 \in Nat
      /\ size' \in Nat
  BY <1>5, <1>6, <1>7, PageSizeType DEF Open
<1>9. (Len(pages') + 1) * PageSize + size' = input'.size
  BY <1>2, <1>5, <1>8, PageSizeType DEF Open
<1>10. TypeOK'
  BY <1>2, <1>8 DEF Open, IInv, TypeOK
<1>11. PagesInv'
  BY <1>4, <1>8, <1>9 DEF Open, PagesInv, Running
<1>12. EntriesInv'
  BY <1>3 DEF EntriesInv
<1>13. ExactInv'
  BY <1>1, <1>2, PageSizeType DEF ExactInv, Exact
<1>14. KeyInv'
  BY DEF Open, IInv, KeyInv, Started
<1> QED
  BY <1>10, <1>11, <1>12, <1>13, <1>14 DEF Open, IInv, BlobInv, ImageInv

(* The rows of the file. *)
LEMMA RowType ==
  ASSUME IInv, next <= Len(input.rows)
  PROVE  /\ row \in Row /\ row.size \in Nat /\ row.key \in Keys
         /\ row.wide \in Nat
         /\ Tidy => encr_key # NoKey \/ row.wide = 0
<1>1. input.rows \in Seq(Row) /\ next \in 1..Len(input.rows)
  BY DEF IInv, TypeOK, Input, BlobInv
<1>2. row \in Row
  BY <1>1, ElementOfSeq DEF row
<1>3. Tidy => encr_key # NoKey \/ row.wide = 0
  <2>1. next \in DOMAIN input.rows /\ next <= next
    BY <1>1
  <2> QED
    BY <2>1 DEF Tidy, row
<1> QED
  BY <1>2, <1>3 DEF Row

(* The page that a row is written in, and what is left of the partition. *)
LEMMA PageForProperties ==
  ASSUME IInv, Running, NEW r, NEW ps, PageFor(r, ps)
  PROVE  /\ Writable(encr_key, ps)
         /\ ~PageFull(ps, r)
         /\ size' \in Nat
         /\ (Len(ps) + 1) * PageSize + size' = input.size
         /\ \E n \in Nat : size' = n * PageSize
         /\ Tidy => Exact(ps)
<1>1. /\ Writable(encr_key, pages)
      /\ Len(pages) \in Nat
      /\ size \in Nat /\ input.size \in Nat
      /\ (Len(pages) + 1) * PageSize + size = input.size
      /\ encr_key \in EncryptionKeys
      /\ Tidy => Exact(pages)
  BY DEF IInv, PagesInv, TypeOK, Input, ExactInv
<1>2. PICK n \in Nat : size = n * PageSize
  BY DEF IInv, PagesInv
<1>3. CASE ps = pages /\ ~PageFull(pages, r) /\ size' = size
  BY <1>1, <1>2, <1>3
<1>4. CASE /\ size # 0 /\ ps = WithPage(pages, "active") /\ ~PageFull(ps, r)
           /\ size' = size - PageSize
  <2>1. Writable(encr_key, ps) /\ Len(ps) = Len(pages) + 1 /\ (Tidy => Exact(ps))
    BY <1>1, <1>4, WithPageProperties
  <2>2. size' \in Nat /\ \E m \in Nat : size' = m * PageSize
    BY <1>1, <1>2, <1>4, OneLess, PageSizeType
  <2>3. (Len(pages) + 1 + 1) * PageSize = (Len(pages) + 1) * PageSize + PageSize
    BY <1>1, PageSizeType, OneMore
  <2>4. (Len(pages) + 1) * PageSize \in Nat
    BY <1>1, PageSizeType
  <2>5. (Len(ps) + 1) * PageSize + size' = input.size
    <3> DEFINE a == (Len(pages) + 1) * PageSize
               b == (Len(pages) + 1 + 1) * PageSize
    <3>1. (Len(ps) + 1) * PageSize = b
      BY <2>1
    <3>2. b = a + PageSize /\ a \in Nat /\ a + size = input.size
      BY <1>1, <2>3, <2>4
    <3> HIDE DEF a, b
    <3> QED
      BY <1>1, <1>4, <3>1, <3>2, PageSizeType
  <2> QED
    BY <1>4, <2>1, <2>2, <2>5
<1> QED
  BY <1>3, <1>4 DEF PageFor

(* The entries of a row are as many as its page can take. *)
LEMMA EntriesOfProperties ==
  ASSUME IInv, AtRow, Whole(row), NEW ps, Writable(encr_key, ps), ~PageFull(ps, row)
  PROVE  /\ EntriesOf(row) \in Seq(Contents) /\ Used(ps) + Len(EntriesOf(row)) <= MaxEntries
         /\ BytesOf(row) \in Nat
         /\ row.wide = 0 => BytesOf(row) <= (Len(EntriesOf(row)) - 1) * EntrySize
<1>1. /\ row.wide \in Nat
      /\ row \in Row /\ row.size \in Nat /\ row.key \in Keys
      /\ row.type \in {"namespace", "primitive", "string", "blob"}
  BY RowType DEF AtRow, Row
<1>2. /\ next \in Nat /\ namespace_idx \in Nat /\ NamespaceIdx \in Nat
      /\ ChunkAny \in Nat /\ MaxEntries \in Nat
  BY FormatAssumption DEF IInv, TypeOK, NamespaceIdx, ChunkAny
<1>3. Used(ps) \in Nat
  <2>1. ps[Len(ps)] \in Page
    BY ElementOfSeq DEF Writable
  <2> QED
    BY <2>1 DEF Page, Used
<1>4. CASE row.type = "namespace"
  <2> DEFINE e == Entry("primitive", 0, row.key, 1, ChunkAny, NamespaceIdx, 0)
  <2>1. EntriesOf(row) = <<e>>
    BY <1>4 DEF EntriesOf
  <2>2. e \in Contents
    BY <1>1, <1>2, EntryType
  <2> HIDE DEF e
  <2>3. <<e>> \in Seq(Contents) /\ Len(<<e>>) = 1
    BY <2>2
  <2>4. Used(ps) < MaxEntries
    BY <1>2, <1>3 DEF PageFull
  <2>5. BytesOf(row) = 0 /\ 0 <= (1 - 1) * EntrySize
    BY <1>4 DEF BytesOf, EntrySize
  <2> QED
    BY <1>2, <1>3, <2>1, <2>3, <2>4, <2>5
<1>5. CASE row.type = "primitive"
  <2> DEFINE e == Entry("primitive", namespace_idx, row.key, 1, ChunkAny, next, 0)
  <2>1. EntriesOf(row) = <<e>>
    BY <1>5 DEF EntriesOf
  <2>2. e \in Contents
    BY <1>1, <1>2, EntryType
  <2> HIDE DEF e
  <2>3. <<e>> \in Seq(Contents) /\ Len(<<e>>) = 1
    BY <2>2
  <2>4. Used(ps) < MaxEntries
    BY <1>2, <1>3 DEF PageFull
  <2>5. BytesOf(row) = 0 /\ 0 <= (1 - 1) * EntrySize
    BY <1>5 DEF BytesOf, EntrySize
  <2> QED
    BY <1>2, <1>3, <2>1, <2>3, <2>4, <2>5
<1>6. CASE row.type \in {"string", "blob"}
  <2> DEFINE e == Entry(row.type, namespace_idx, row.key, Entries(row.size) + 1,
                        ChunkAny, 0, row.size)
  <2>1. EntriesOf(row) = <<e>> \o Stored(0, row.size)
    BY <1>6 DEF EntriesOf
  <2>2. Entries(row.size) \in Nat /\ row.size <= Entries(row.size) * 32
    BY <1>1, EntriesBounds
  <2>3. e \in Contents
    <3>1. /\ Entries(row.size) + 1 \in Nat /\ 0 \in Nat
          /\ row.type \in {"primitive", "string", "blob", "chunk", "index"}
      BY <1>6, <2>2
    <3> QED
      BY <1>1, <1>2, <3>1, EntryType, Zenon
  <2> HIDE DEF e
  <2>4. Stored(0, row.size) \in Seq(Contents) /\ Len(Stored(0, row.size)) = Entries(row.size)
    BY <1>1, <1>2, StoredProperties
  <2>5. /\ EntriesOf(row) \in Seq(Contents)
        /\ Len(EntriesOf(row)) = Entries(row.size) + 1
    BY <2>1, <2>3, <2>4, EntryWithData
  <2>6. Used(ps) + (Entries(row.size) + 1) <= MaxEntries
    BY <1>2, <1>3, <1>6, <2>2 DEF PageFull
  <2>7. BytesOf(row) \in Nat /\ (row.wide = 0 => BytesOf(row) = row.size)
    <3>1. /\ Bytes(row, 0, row.size) \in Nat
          /\ row.wide = 0 => Bytes(row, 0, row.size) = row.size
      BY <1>1, BytesBounds
    <3> QED
      BY <1>6, <3>1 DEF BytesOf
  <2>8. (Len(EntriesOf(row)) - 1) * EntrySize = Entries(row.size) * 32
    BY <2>2, <2>5 DEF EntrySize
  <2> QED
    BY <1>1, <2>2, <2>5, <2>6, <2>7, <2>8
<1> QED
  BY <1>1, <1>4, <1>5, <1>6

(* What is tidy after a step was so before it. *)
LEMMA TidyBefore ==
  ASSUME IInv, UNCHANGED <<input, encr_key>>, next' \in {next, next + 1}, Tidy'
  PROVE  Tidy
<1>1. CASE encr_key # NoKey
  BY <1>1 DEF Tidy
<1>2. CASE \A r \in DOMAIN input.rows : r <= next' => input.rows[r].wide = 0
  <2>1. next \in Nat /\ next <= next' /\ DOMAIN input.rows \subseteq Nat /\ next' \in Nat
    BY DEF IInv, TypeOK, Input
  <2>2. \A r \in DOMAIN input.rows : r <= next => r <= next'
    BY <2>1
  <2> QED
    BY <1>2, <2>2 DEF Tidy
<1> QED
  BY <1>1, <1>2 DEF Tidy

LEMMA WriteRowInv == IInv /\ WriteRow => IInv'
<1> SUFFICES ASSUME IInv, WriteRow PROVE IInv'
  OBVIOUS
<1>1. PICK ps : PageFor(row, ps) /\ pages' = Put(ps, EntriesOf(row), BytesOf(row))
  BY DEF WriteRow
<1>2. /\ AtRow /\ Running /\ pc = "rows" /\ Whole(row)
      /\ next' = next + 1 /\ namespace_idx' = NamespaceIdx
      /\ UNCHANGED <<input, pc, blob, encr_key, keyfile, file, error>>
  BY DEF WriteRow, AtRow, Running
<1>3. /\ Writable(encr_key, ps)
      /\ ~PageFull(ps, row)
      /\ size' \in Nat
      /\ (Len(ps) + 1) * PageSize + size' = input.size
      /\ \E n \in Nat : size' = n * PageSize
      /\ Tidy => Exact(ps)
  BY <1>1, <1>2, PageForProperties
<1>4. /\ EntriesOf(row) \in Seq(Contents) /\ Used(ps) + Len(EntriesOf(row)) <= MaxEntries
      /\ BytesOf(row) \in Nat
      /\ row.wide = 0 => BytesOf(row) <= (Len(EntriesOf(row)) - 1) * EntrySize
  BY <1>2, <1>3, EntriesOfProperties
<1>4a. Tidy => encr_key # NoKey \/ row.wide = 0
  BY <1>2, RowType DEF AtRow
<1>5. /\ Writable(encr_key, pages') /\ Len(pages') = Len(ps)
      /\ Tidy => Exact(pages')
  <2>1. encr_key \in EncryptionKeys
    BY DEF IInv, TypeOK
  <2> QED
    BY <1>1, <1>3, <1>4, <1>4a, <2>1, PutProperties
<1>6. TypeOK'
  BY <1>2, <1>3, <1>5 DEF IInv, TypeOK, NamespaceIdx, Writable
<1>7. PagesInv'
  BY <1>2, <1>3, <1>5 DEF IInv, PagesInv, Running
<1>8. EntriesInv'
  BY <1>2, <1>5 DEF EntriesInv, Writable
<1>9. BlobInv'
  BY <1>2 DEF IInv, TypeOK, BlobInv
<1>10. ExactInv'
  BY <1>2, <1>5, TidyBefore DEF ExactInv
<1>11. KeyInv'
  BY <1>2 DEF IInv, KeyInv, Started, Running
<1> QED
  BY <1>2, <1>6, <1>7, <1>8, <1>9, <1>10, <1>11
     DEF IInv, PagesInv, ImageInv, Running

LEMMA BeginBlobInv == IInv /\ BeginBlob => IInv'
<1> SUFFICES ASSUME IInv, BeginBlob PROVE IInv'
  OBVIOUS
<1>1. PageFor(row, pages')
  BY DEF BeginBlob
<1>2. /\ AtRow /\ Running /\ pc = "rows" /\ pc' = "chunks"
      /\ blob' = NoBlob
      /\ UNCHANGED <<input, next, namespace_idx, encr_key, keyfile, file, error>>
  BY DEF BeginBlob, AtRow, Running
<1>3. /\ Writable(encr_key, pages')
      /\ ~PageFull(pages', row)
      /\ size' \in Nat
      /\ (Len(pages') + 1) * PageSize + size' = input.size
      /\ \E n \in Nat : size' = n * PageSize
      /\ Tidy => Exact(pages')
  BY <1>1, <1>2, PageForProperties
<1>4. TypeOK'
  BY <1>2, <1>3 DEF IInv, TypeOK, NoBlob, Writable
<1>5. PagesInv'
  BY <1>2, <1>3 DEF IInv, PagesInv, Running
<1>6. EntriesInv'
  BY <1>2, <1>3 DEF EntriesInv, Writable
<1>7. BlobInv'
  <2>1. row.size \in Nat /\ row' = row
    BY <1>2, RowType DEF AtRow, row
  <2>2. Len(pages') > 0 /\ pages'[Len(pages')] \in Page
    BY <1>3, ElementOfSeq DEF Writable
  <2>3. Used(pages') < MaxEntries
    BY <1>3, <2>2, FormatAssumption DEF PageFull, Used, Page
  <2> QED
    BY <1>2, <2>1, <2>3 DEF IInv, BlobInv, NoBlob, AtRow
<1>8. ExactInv' /\ KeyInv'
  <2>1. Tidy' => Tidy
    BY <1>2, TidyBefore
  <2> QED
    BY <1>2, <1>3, <2>1 DEF ExactInv, IInv, KeyInv, Started, Running
<1> QED
  BY <1>2, <1>4, <1>5, <1>6, <1>7, <1>8
     DEF IInv, PagesInv, ImageInv, Running

(* A page more, of those that are left. *)
LEMMA NextPageProperties ==
  ASSUME IInv, size # 0, size' = size - PageSize, NEW n \in Nat,
         (n + 1) * PageSize + size = input.size,
         \E k \in Nat : size = k * PageSize
  PROVE  /\ size' \in Nat
         /\ ((n + 1) + 1) * PageSize + size' = input.size
         /\ \E k \in Nat : size' = k * PageSize
<1>1. size \in Nat /\ PageSize \in Nat /\ PageSize > 0
  BY PageSizeType DEF IInv, TypeOK
<1>2. size' \in Nat /\ \E k \in Nat : size' = k * PageSize
  BY <1>1, OneLess
<1> DEFINE a == (n + 1) * PageSize
           b == ((n + 1) + 1) * PageSize
<1>3. b = a + PageSize /\ a \in Nat
  BY <1>1, OneMore
<1>4. a + size = input.size
  OBVIOUS
<1> HIDE DEF a, b
<1>5. b + size' = input.size
  BY <1>1, <1>3, <1>4
<1> QED
  BY <1>2, <1>5 DEF b

(* The chunk fits, and leaves room for the index unless it ends the page.   *)
LEMMA ChunkProperties ==
  ASSUME IInv, pc = "chunks"
  PROVE  /\ ChunkSize \in Nat
         /\ ChunkEntries \in Seq(Contents)
         /\ Used(pages) \in Nat
         /\ Len(ChunkEntries) \in Nat
         /\ Used(pages) + Len(ChunkEntries) <= MaxEntries
         /\ ~ChunkEndsPage => Used(pages) + Len(ChunkEntries) < MaxEntries
         /\ blob.offset \in Nat /\ blob.chunks \in Nat
         /\ blob.offset + ChunkSize <= row.size
         /\ ChunkBytes \in Nat
         /\ row.wide = 0 => ChunkBytes <= (Len(ChunkEntries) - 1) * EntrySize
<1>1. /\ next \in Nat /\ next <= Len(input.rows) /\ namespace_idx \in Nat
      /\ blob.offset \in Nat /\ blob.chunks \in Nat
      /\ Used(pages) < MaxEntries /\ blob.offset <= row.size
  BY DEF IInv, TypeOK, BlobInv
<1>2. row.size \in Nat /\ row.key \in Keys /\ row.wide \in Nat
  BY <1>1, RowType
<1>3. Used(pages) \in Nat /\ MaxEntries \in Nat
  <2>1. Writable(encr_key, pages)
    BY DEF IInv, PagesInv, Running
  <2>2. pages[Len(pages)] \in Page
    BY <2>1, ElementOfSeq DEF Writable
  <2> QED
    BY <2>2, FormatAssumption DEF Page, Used
<1>4. Tailroom = (MaxEntries - Used(pages) - 1) * 32 /\ Tailroom \in Nat
  BY <1>1, <1>3 DEF Tailroom, EntrySize
<1>5. ChunkSize \in Nat /\ ChunkSize <= Tailroom /\ blob.offset + ChunkSize <= row.size
  BY <1>1, <1>2, <1>4 DEF ChunkSize
<1> DEFINE e == Entry("chunk", namespace_idx, row.key, Entries(ChunkSize) + 1, blob.chunks,
                      0, ChunkSize)
<1>6. /\ Entries(ChunkSize) \in Nat
      /\ Entries(ChunkSize) * 32 < ChunkSize + 32
      /\ ChunkSize <= Entries(ChunkSize) * 32
  BY <1>5, EntriesBounds
<1>7. e \in Contents
  <2>1. Entries(ChunkSize) + 1 \in Nat /\ 0 \in Nat
    BY <1>6
  <2>2. "chunk" \in {"primitive", "string", "blob", "chunk", "index"}
    OBVIOUS
  <2> QED
    BY <1>1, <1>2, <1>5, <2>1, <2>2, EntryType, Zenon
<1>8. ChunkEntries = <<e>> \o Stored(blob.offset, ChunkSize)
  BY DEF ChunkEntries
<1> HIDE DEF e
<1>9. /\ <<e>> \o Stored(blob.offset, ChunkSize) \in Seq(Contents)
      /\ Len(<<e>> \o Stored(blob.offset, ChunkSize)) = Entries(ChunkSize) + 1
  <2>1. /\ Stored(blob.offset, ChunkSize) \in Seq(Contents)
        /\ Len(Stored(blob.offset, ChunkSize)) = Entries(ChunkSize)
    BY <1>1, <1>2, <1>5, StoredProperties
  <2> QED
    BY <1>7, <2>1, EntryWithData
<1>10. ChunkEntries \in Seq(Contents) /\ Len(ChunkEntries) = Entries(ChunkSize) + 1
  BY <1>8, <1>9, Zenon
<1>11. Used(pages) + (Entries(ChunkSize) + 1) <= MaxEntries
  BY <1>3, <1>4, <1>5, <1>6
<1>12. ASSUME ~ChunkEndsPage
       PROVE  Used(pages) + (Entries(ChunkSize) + 1) < MaxEntries
  <2>1. ~(Tailroom - ChunkSize < 32)
    BY <1>12 DEF ChunkEndsPage, EntrySize
  <2> QED
    BY <2>1, <1>3, <1>4, <1>5, <1>6
<1>13. Used(pages) + Len(ChunkEntries) <= MaxEntries
  BY <1>10, <1>11, Zenon
<1>14. ~ChunkEndsPage => Used(pages) + Len(ChunkEntries) < MaxEntries
  BY <1>10, <1>12, Zenon
<1>15. ChunkBytes \in Nat /\ (row.wide = 0 => ChunkBytes = ChunkSize)
  BY <1>1, <1>2, <1>5, BytesBounds DEF ChunkBytes
<1>16. (Len(ChunkEntries) - 1) * EntrySize = Entries(ChunkSize) * 32
  BY <1>6, <1>10 DEF EntrySize
<1> QED
  BY <1>1, <1>3, <1>5, <1>6, <1>10, <1>13, <1>14, <1>15, <1>16

LEMMA WriteChunkInv == IInv /\ WriteChunk => IInv'
<1> SUFFICES ASSUME IInv, WriteChunk PROVE IInv'
  OBVIOUS
<1>1. /\ pc = "chunks" /\ Running
      /\ blob' = [offset |-> blob.offset + ChunkSize, chunks |-> blob.chunks + 1]
      /\ pc' = IF blob.offset + ChunkSize < row.size THEN "chunks" ELSE "index"
      /\ UNCHANGED <<input, next, namespace_idx, encr_key, keyfile, file, error>>
  BY DEF WriteChunk, Running
<1>2. /\ ChunkSize \in Nat
      /\ ChunkEntries \in Seq(Contents)
      /\ Used(pages) \in Nat
      /\ Len(ChunkEntries) \in Nat
      /\ Used(pages) + Len(ChunkEntries) <= MaxEntries
      /\ ~ChunkEndsPage => Used(pages) + Len(ChunkEntries) < MaxEntries
      /\ blob.offset \in Nat /\ blob.chunks \in Nat
      /\ blob.offset + ChunkSize <= row.size
      /\ ChunkBytes \in Nat
      /\ row.wide = 0 => ChunkBytes <= (Len(ChunkEntries) - 1) * EntrySize
  BY <1>1, ChunkProperties
<1>2a. Tidy => Exact(pages) /\ (encr_key # NoKey \/ row.wide = 0)
  <2>1. next <= Len(input.rows)
    BY <1>1 DEF IInv, BlobInv
  <2> QED
    BY <2>1, RowType DEF IInv, ExactInv
<1>3. /\ Writable(encr_key, pages)
      /\ (Len(pages) + 1) * PageSize + size = input.size
      /\ \E n \in Nat : size = n * PageSize
      /\ encr_key \in EncryptionKeys
      /\ size \in Nat
      /\ Len(pages) \in Nat
  BY <1>1 DEF IInv, PagesInv, TypeOK
<1> DEFINE ps == Put(pages, ChunkEntries, ChunkBytes)
<1>4. /\ Writable(encr_key, ps)
      /\ Len(ps) = Len(pages)
      /\ Used(ps) = Used(pages) + Len(ChunkEntries)
      /\ Tidy => Exact(ps)
  BY <1>2, <1>2a, <1>3, PutProperties
<1> HIDE DEF ps
<1>5. /\ Writable(encr_key, pages')
      /\ Used(pages') < MaxEntries
      /\ size' \in Nat
      /\ (Len(pages') + 1) * PageSize + size' = input.size
      /\ \E n \in Nat : size' = n * PageSize
      /\ Tidy => Exact(pages')
  <2>1. CASE ~ChunkEndsPage /\ pages' = ps /\ size' = size
    BY <2>1, <1>2, <1>3, <1>4
  <2>2. CASE /\ ChunkEndsPage /\ size # 0
             /\ pages' = WithPage(ps, "active") /\ size' = size - PageSize
    <3>1. /\ Writable(encr_key, pages') /\ Used(pages') = 0
          /\ Len(pages') = Len(pages) + 1
          /\ Tidy => Exact(pages')
      BY <2>2, <1>3, <1>4, WithPageProperties
    <3>2. /\ size' \in Nat
          /\ ((Len(pages) + 1) + 1) * PageSize + size' = input.size
          /\ \E n \in Nat : size' = n * PageSize
      BY <2>2, <1>3, NextPageProperties
    <3>3. (Len(pages') + 1) * PageSize + size' = input.size
      BY <3>1, <3>2
    <3> QED
      BY <3>1, <3>2, <3>3, FormatAssumption
  <2> QED
    BY <2>1, <2>2 DEF WriteChunk, ps
<1>6. TypeOK'
  BY <1>1, <1>2, <1>5 DEF IInv, TypeOK, Writable
<1>7. PagesInv'
  BY <1>1, <1>5 DEF IInv, PagesInv, Running
<1>8. EntriesInv'
  BY <1>1, <1>5 DEF EntriesInv, Writable
<1>9. BlobInv'
  <2>1. row' = row
    BY <1>1 DEF row
  <2> QED
    BY <1>1, <1>2, <1>5, <2>1 DEF IInv, BlobInv
<1>10. ExactInv' /\ KeyInv'
  <2>1. Tidy' => Tidy
    BY <1>1, TidyBefore
  <2> QED
    BY <1>1, <1>5, <2>1 DEF ExactInv, IInv, KeyInv, Started, Running
<1> QED
  BY <1>1, <1>6, <1>7, <1>8, <1>9, <1>10
     DEF IInv, PagesInv, ImageInv, Running

LEMMA WriteIndexInv == IInv /\ WriteIndex => IInv'
<1> SUFFICES ASSUME IInv, WriteIndex PROVE IInv'
  OBVIOUS
<1> DEFINE e == Entry("index", namespace_idx, row.key, 1, ChunkAny, blob.chunks, row.size)
<1>1. /\ pc = "index" /\ Running
      /\ pages' = Put(pages, <<e>>, 0)
      /\ next' = next + 1 /\ pc' = "rows"
      /\ UNCHANGED <<input, namespace_idx, size, blob, encr_key, keyfile, file, error>>
  BY DEF WriteIndex, Running
<1>2. /\ Writable(encr_key, pages) /\ encr_key \in EncryptionKeys
      /\ next <= Len(input.rows) /\ Used(pages) < MaxEntries
      /\ namespace_idx \in Nat /\ blob.chunks \in Nat
  BY <1>1 DEF IInv, PagesInv, BlobInv, TypeOK
<1>3. e \in Contents
  BY <1>2, RowType, EntryType, FormatAssumption DEF ChunkAny
<1> HIDE DEF e
<1>4. <<e>> \in Seq(Contents) /\ Len(<<e>>) = 1
  BY <1>3
<1>5. pages[Len(pages)] \in Page
  BY <1>2, ElementOfSeq DEF Writable
<1>6. Used(pages) + Len(<<e>>) <= MaxEntries
  BY <1>2, <1>4, <1>5, FormatAssumption DEF Page, Used
<1>7. /\ Writable(encr_key, pages') /\ Len(pages') = Len(pages)
      /\ Exact(pages) => Exact(pages')
  <2>1. 0 \in Nat /\ 0 <= (Len(<<e>>) - 1) * EntrySize
    BY <1>4 DEF EntrySize
  <2> QED
    BY <1>1, <1>2, <1>4, <1>6, <2>1, PutProperties
<1>8. TypeOK'
  BY <1>1, <1>7 DEF IInv, TypeOK, Writable
<1>9. PagesInv'
  BY <1>1, <1>7 DEF IInv, PagesInv, Running
<1>10. EntriesInv'
  BY <1>1, <1>7 DEF EntriesInv, Writable
<1>11. BlobInv'
  BY <1>1 DEF IInv, TypeOK, BlobInv
<1>12. ExactInv' /\ KeyInv'
  <2>1. Tidy' => Tidy
    BY <1>1, TidyBefore
  <2> QED
    BY <1>1, <1>7, <2>1 DEF ExactInv, IInv, KeyInv, Started, Running
<1> QED
  BY <1>1, <1>8, <1>9, <1>10, <1>11, <1>12
     DEF IInv, PagesInv, ImageInv, Running

LEMMA FillPageInv == IInv /\ FillPage => IInv'
<1> SUFFICES ASSUME IInv, FillPage PROVE IInv'
  OBVIOUS
<1>1. /\ pc = "rows" /\ Running /\ size # 0
      /\ pages' = WithPage(pages, "active") /\ size' = size - PageSize
      /\ UNCHANGED <<input, pc, next, namespace_idx, blob, encr_key, keyfile, file, error>>
  BY DEF FillPage, Running
<1>2. /\ Writable(encr_key, pages) /\ encr_key \in EncryptionKeys
      /\ Len(pages) \in Nat
      /\ (Len(pages) + 1) * PageSize + size = input.size
      /\ \E n \in Nat : size = n * PageSize
  BY <1>1 DEF IInv, PagesInv, TypeOK
<1>3. /\ Writable(encr_key, pages') /\ Len(pages') = Len(pages) + 1
      /\ Exact(pages) => Exact(pages')
  BY <1>1, <1>2, WithPageProperties
<1>4. /\ size' \in Nat
      /\ ((Len(pages) + 1) + 1) * PageSize + size' = input.size
      /\ \E n \in Nat : size' = n * PageSize
  BY <1>1, <1>2, NextPageProperties
<1>5. (Len(pages') + 1) * PageSize + size' = input.size
  BY <1>3, <1>4
<1>6. TypeOK'
  BY <1>1, <1>3, <1>4 DEF IInv, TypeOK, Writable
<1>7. PagesInv'
  BY <1>1, <1>3, <1>4, <1>5 DEF IInv, PagesInv, Running
<1>8. EntriesInv'
  BY <1>1, <1>3 DEF EntriesInv, Writable
<1>9. BlobInv'
  BY <1>1 DEF IInv, BlobInv
<1>10. ExactInv' /\ KeyInv'
  BY <1>1, <1>3 DEF ExactInv, Tidy, IInv, KeyInv, Started, Running
<1> QED
  BY <1>1, <1>6, <1>7, <1>8, <1>9, <1>10
     DEF IInv, PagesInv, ImageInv, Running

LEMMA CloseInv == IInv /\ Close => IInv'
<1> SUFFICES ASSUME IInv, Close PROVE IInv'
  OBVIOUS
<1>1. /\ pc = "rows" /\ Running /\ size = 0 /\ pc' = "done" /\ file' = "image"
      /\ pages' = WithPage(pages, "reserved")
      /\ UNCHANGED <<input, next, namespace_idx, size, blob, encr_key, keyfile, error>>
  BY DEF Close, Running
<1>2. /\ Writable(encr_key, pages) /\ encr_key \in EncryptionKeys
      /\ Len(pages) \in Nat
      /\ (Len(pages) + 1) * PageSize + size = input.size
  BY <1>1 DEF IInv, PagesInv, TypeOK
<1>3. /\ pages' \in Seq(Page)
      /\ Len(pages') = Len(pages) + 1
      /\ \A p \in 1..Len(pages') :
           /\ pages'[p].num = p - 1
           /\ pages'[p].state = IF p = Len(pages') THEN "reserved" ELSE "full"
      /\ pages'[Len(pages')].slots = <<>>
      /\ Fitting(pages')
      /\ SealedWith(encr_key, pages')
      /\ Exact(pages) => Exact(pages')
  BY <1>1, <1>2, WithPageProperties
<1>4. Len(pages') * PageSize = input.size
  <2>1. (Len(pages) + 1) * PageSize \in Nat
    BY <1>2, PageSizeType
  <2> QED
    BY <1>1, <1>2, <1>3, <2>1
<1>5. DOMAIN pages' = 1..Len(pages')
  BY <1>3
<1>6. ImageInv'
  BY <1>1, <1>3, <1>4, <1>5 DEF ImageInv
<1>7. TypeOK'
  BY <1>1, <1>3 DEF IInv, TypeOK
<1>8. PagesInv'
  BY <1>1 DEF PagesInv, Running
<1>9. EntriesInv'
  BY <1>1, <1>3 DEF EntriesInv
<1>10. BlobInv'
  BY <1>1 DEF IInv, BlobInv
<1>11. ExactInv' /\ KeyInv'
  BY <1>1, <1>3 DEF ExactInv, Tidy, IInv, KeyInv, Started, Running
<1> QED
  BY <1>1, <1>6, <1>7, <1>8, <1>9, <1>10, <1>11 DEF IInv

LEMMA StutterInv == IInv /\ UNCHANGED vars => IInv'
<1> SUFFICES ASSUME IInv, UNCHANGED vars PROVE IInv'
  OBVIOUS
<1>1. UNCHANGED <<input, pc, next, namespace_idx, pages, size, blob, encr_key, keyfile, file, error>>
  BY DEF vars
<1>2. TypeOK' /\ PagesInv' /\ KeyInv' /\ ImageInv'
  BY <1>1 DEF IInv, TypeOK, PagesInv, KeyInv, Started, ImageInv, Running, BadSize
<1>3. BlobInv'
  BY <1>1 DEF IInv, BlobInv, Used, row
<1>4. EntriesInv' /\ ExactInv'
  BY <1>1, ExactKept DEF IInv, EntriesInv
<1> QED
  BY <1>2, <1>3, <1>4 DEF IInv

LEMMA Invariance == Spec => []IInv
<1>1. IInv /\ [Next]_vars => IInv'
  BY RefuseArgumentsInv, KeyStepsInv, OpenInv, AbortStepsInv, WriteRowInv, BeginBlobInv,
     WriteChunkInv, WriteIndexInv, FillPageInv, CloseInv, StutterInv DEF Next
<1> QED
  BY InitInv, <1>1, PTL DEF Spec

-----------------------------------------------------------------------------
(* The theorems. *)

(* Every variable of the tool has its type. *)
THEOREM TypeCorrect == Spec => []TypeOK
<1>1. IInv => TypeOK
  BY DEF IInv
<1> QED
  BY Invariance, <1>1, PTL

(* No page is given more entries than it has and the loop that writes a     *)
(* blob always has an entry free, however large pages, blobs and partitions *)
(* are; bytes are written past the end of a page only for a value with      *)
(* characters of more than one byte, without encryption                     *)
(* (write_varlen_binary_data, write_entry_to_buf).                          *)
THEOREM PagesAlwaysFit == Spec => []PagesFit
<1>1. IInv => PagesFit
  <2> SUFFICES ASSUME IInv PROVE PagesFit
    OBVIOUS
  <2>1. DOMAIN pages = 1..Len(pages)
    BY DEF IInv, TypeOK
  <2>2. ASSUME NEW p \in 1..Len(pages), pages[p].length # PageSize
        PROVE  encr_key = NoKey /\ \E r \in DOMAIN input.rows : r <= next /\ input.rows[r].wide > 0
    <3>1. ~Tidy
      BY <2>2 DEF IInv, ExactInv, Exact
    <3>2. PICK r \in DOMAIN input.rows : r <= next /\ input.rows[r].wide # 0
      BY <3>1 DEF Tidy
    <3>3. input.rows[r].wide \in Nat
      <4>1. input.rows \in Seq(Row)
        BY DEF IInv, TypeOK, Input
      <4> QED
        BY <4>1, ElementOfSeq DEF Row
    <3> QED
      BY <3>1, <3>2, <3>3 DEF Tidy
  <2> QED
    BY <2>1, <2>2 DEF IInv, EntriesInv, Fitting, BlobInv, PagesFit
<1> QED
  BY Invariance, <1>1, PTL

(* A finished image has the pages asked for and they are in order, all full *)
(* but the reserved one; they are where they belong, and the image has the  *)
(* size asked for, if it is encrypted or all characters are of one byte     *)
(* (create_new_page, __exit__, get_binary_data).                            *)
THEOREM ImageAlwaysFills == Spec => []ImageFillsPartition
<1>1. IInv => ImageFillsPartition
  <2> SUFFICES ASSUME IInv, file = "image"
               PROVE  /\ ImageInv
                      /\ encr_key # NoKey \/ (\A r \in DOMAIN input.rows : input.rows[r].wide = 0)
                           => Exact(pages)
    <3>1. DOMAIN pages = 1..Len(pages)
      BY DEF IInv, TypeOK
    <3> QED
      BY <3>1 DEF ImageFillsPartition, ImageInv, Exact
  <2> QED
    BY DEF IInv, ExactInv, Tidy
<1> QED
  BY Invariance, <1>1, PTL

(* What the tool encrypts with a key, its decrypt gives back with the key's *)
(* file (encrypt_data, decrypt).                                            *)
THEOREM DecryptAlwaysRecovers == Spec => []DecryptRecovers
<1>1. IInv => DecryptRecovers
  <2> SUFFICES ASSUME IInv, encr_key # NoKey
               PROVE  Decrypted(keyfile, Slots) = InClear
    BY DEF DecryptRecovers
  <2>1. /\ pages \in Seq(Page) /\ DOMAIN pages = 1..Len(pages)
        /\ keyfile = encr_key
        /\ SealedWith(encr_key, pages)
    BY DEF IInv, TypeOK, KeyInv, EntriesInv
  <2>2. ASSUME NEW p \in 1..Len(pages), NEW i \in DOMAIN pages[p].slots
        PROVE  Unsealed(keyfile, Tweak(p - 1, DecryptedNo(Slots, p, i)), pages[p].slots[i])
                 = pages[p].slots[i].content
    <3>1. pages[p] \in Page
      BY <2>1, ElementOfSeq
    <3>2. i \in 1..Len(pages[p].slots)
      BY <3>1 DEF Page
    <3>3. pages[p].slots[i] = Sealed(encr_key, Tweak(p - 1, i - 1), pages[p].slots[i].content)
      BY <2>1, <3>2 DEF SealedWith, SealedAt
    <3>4. /\ pages[p].slots[i].key = encr_key
          /\ pages[p].slots[i].tweak = Tweak(p - 1, i - 1)
      BY <3>3 DEF Sealed
    <3>5. DecryptedNo(Slots, p, i) = i - 1
      <4>1. Slots[p] = pages[p].slots
        BY <2>1 DEF Slots
      <4> QED
        BY <3>1, <3>2, <4>1, DecryptedNumber DEF Page
    <3> QED
      BY <2>1, <3>4, <3>5 DEF Unsealed
  <2>3. DOMAIN Slots = 1..Len(pages) /\ \A p \in 1..Len(pages) : Slots[p] = pages[p].slots
    BY <2>1 DEF Slots
  <2>4. Decrypted(keyfile, Slots) =
          [p \in 1..Len(pages) |->
            [i \in DOMAIN pages[p].slots |->
              Unsealed(keyfile, Tweak(p - 1, DecryptedNo(Slots, p, i)), pages[p].slots[i])]]
    BY <2>3 DEF Decrypted
  <2>5. ASSUME NEW p \in 1..Len(pages)
        PROVE  [i \in DOMAIN pages[p].slots |->
                  Unsealed(keyfile, Tweak(p - 1, DecryptedNo(Slots, p, i)), pages[p].slots[i])]
               = [i \in DOMAIN pages[p].slots |-> pages[p].slots[i].content]
    BY <2>2, Zenon
  <2>6. InClear = [p \in 1..Len(pages) |->
                    [i \in DOMAIN pages[p].slots |-> pages[p].slots[i].content]]
    BY <2>1, Zenon DEF InClear
  <2> QED
    BY <2>4, <2>5, <2>6, Zenon
<1> QED
  BY Invariance, <1>1, PTL
=============================================================================
