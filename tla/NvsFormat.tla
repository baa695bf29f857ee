------------------------------ MODULE NvsFormat ------------------------------
(***************************************************************************)
(* The NVS partition that the config builder makes for a device, as it     *)
(* lies in flash, and how it is read: by the firmware, through the NVS     *)
(* library of the ESP32, and by the tool's own "decrypt".                  *)
(*                                                                         *)
(* A page is a header and MaxEntries entries of 32 bytes.  An item is one  *)
(* entry that describes it and, for a string or a blob, the entries that   *)
(* follow with its bytes.  A value is known by the number of the CSV row   *)
(* it comes from, a piece of it by its first and last position in it.      *)
(***************************************************************************)
EXTENDS Integers, Sequences, FiniteSets

CONSTANTS
  MaxEntries,   (* PAGE_PARAMS['max_entries']: 126.                        *)
  MaxByte,      (* The largest value of one byte: 255.                     *)
  Keys,         (* The keys and namespaces of the CSV files.               *)
  NoKey         (* No encryption key.                                      *)

ASSUME FormatAssumption == MaxEntries \in Nat /\ MaxEntries > 1 /\ MaxByte \in Nat

EntrySize == 32
FirstEntryOffset == 64
PageSize == FirstEntryOffset + MaxEntries * EntrySize

(* No chunk in particular: the entry is not a chunk of a blob. *)
ChunkAny == MaxByte

(* The entry that describes an item.  ns is the number of its namespace, 0  *)
(* for an item that declares a namespace; value is a namespace's number, a  *)
(* primitive's value, or how many chunks an index counts.                   *)
Entry(type, ns, key, span, chunk, value, size) ==
  [type |-> type, ns |-> ns, key |-> key, span |-> span, chunk |-> chunk,
   value |-> value, size |-> size]

(* How many entries n bytes take. *)
Entries(n) == (n + EntrySize - 1) \div EntrySize

(* The entries with the n bytes of the row's value that start at from.  The *)
(* last one may be filled in part.                                          *)
Pieces(row, from, n) ==
  [i \in 1..Entries(n) |->
    [type |-> "data", row |-> row, from |-> from + (i - 1) * EntrySize,
     to |-> IF i = Entries(n) THEN from + n ELSE from + i * EntrySize]]

(* The address in the partition of entry i (from 0) of a page.  It is the  *)
(* tweak with which the entry is encrypted.                                 *)
Tweak(page, i) == page * PageSize + FirstEntryOffset + i * EntrySize

(* What an entry holds under a key; without one, what it holds in clear.   *)
Sealed(key, tweak, content) ==
  [key |-> key, tweak |-> IF key = NoKey THEN 0 ELSE tweak, content |-> content]

Garbage == [type |-> "garbage"]

(* What decrypting it with a key and a tweak gives. *)
Unsealed(key, tweak, entry) ==
  IF entry.key = key /\ entry.tweak = tweak THEN entry.content ELSE Garbage

-----------------------------------------------------------------------------
(* decrypt: the tool goes through the file 32 bytes at a time, page_num    *)
(* and file_entry_no tell where it is.  It decrypts what is not blank and  *)
(* not one of the two entries of the header, numbering it as it goes; the  *)
(* numbers start again with every page.  pages is a sequence of pages,     *)
(* each the sequence of its entries that are not blank.                    *)

(* The tool decrypts the entry with this file_entry_no of page p. *)
Decrypts(pages, p, file_entry_no) ==
  file_entry_no \notin {0, 1} /\ file_entry_no - 1 <= Len(pages[p])

(* Slip for DecryptedNo: the count goes on in the next page. *)
DecryptedNoInFile(pages, p, i) ==
  Cardinality({h \in (1..p) \X (0..MaxEntries + 1) :
                 (h[1] < p \/ h[2] < i + 1) /\ Decrypts(pages, h[1], h[2])})

(* decrypted_entry_no when entry i of page p is read: what the tool has     *)
(* decrypted since the page began.                                          *)
DecryptedNo(pages, p, i) ==
  Cardinality({file_entry_no \in 0..i : Decrypts(pages, p, file_entry_no)})

Decrypted(key, pages) ==
  [p \in DOMAIN pages |->
    [i \in DOMAIN pages[p] |->
      Unsealed(key, Tweak(p - 1, DecryptedNo(pages, p, i)), pages[p][i])]]

-----------------------------------------------------------------------------
(* The NVS library on the device.  pages is in clear. *)

(* The entries of a page that describe an item: the first one, and from    *)
(* each the one that its span leads to.                                    *)
Heads(page) ==
  LET HeadsFrom[i \in 1..(MaxEntries + 1)] ==
        IF i > Len(page) \/ page[i].type \in {"data", "garbage"} THEN {}
        ELSE {i} \cup (IF i + page[i].span > MaxEntries THEN {}
                       ELSE HeadsFrom[i + page[i].span])
  IN  HeadsFrom[1]

(* The items of these types: where they are. *)
Items(pages, ns, key, types) ==
  {h \in UNION {{p} \X Heads(pages[p]) : p \in DOMAIN pages} :
     LET e == pages[h[1]][h[2]] IN e.type \in types /\ e.ns = ns /\ e.key = key}

(* The entries with the data of an item. *)
DataOf(pages, h) == SubSeq(pages[h[1]], h[2] + 1, h[2] + pages[h[1]][h[2]].span - 1)

(* The data of the first n chunks of a blob, put together. *)
Assembled(pages, ns, key, n) ==
  LET Chunk(c) == {h \in Items(pages, ns, key, {"chunk"}) : pages[h[1]][h[2]].chunk = c}
      Up[k \in 0..n] ==
        IF k = 0 THEN <<>>
        ELSE IF Chunk(k - 1) = {} THEN <<Garbage>>
        ELSE Up[k - 1] \o DataOf(pages, CHOOSE h \in Chunk(k - 1) : TRUE)
  IN  Up[n]

(* The number of the namespace of this name, 0 if there is none. *)
NamespaceOf(pages, name) ==
  LET found == {pages[h[1]][h[2]].value : h \in Items(pages, 0, name, {"primitive"})}
  IN  IF found = {} THEN 0 ELSE CHOOSE n \in found : \A m \in found : n <= m

(* The device gets exactly the value of the row, of this size in bytes.    *)
Readable(pages, name, key, type, row, size) ==
  LET ns == NamespaceOf(pages, name)
  IN  /\ ns # 0
      /\ \/ /\ type = "primitive"
            /\ \E h \in Items(pages, ns, key, {"primitive"}) :
                 pages[h[1]][h[2]].value = row
         \/ /\ type \in {"string", "blob"}
            /\ \E h \in Items(pages, ns, key, {type}) :
                 /\ pages[h[1]][h[2]].size = size
                 /\ DataOf(pages, h) = Pieces(row, 0, size)
         \/ /\ type = "blob"
            /\ \E h \in Items(pages, ns, key, {"index"}) :
                 /\ pages[h[1]][h[2]].size = size
                 /\ Assembled(pages, ns, key, pages[h[1]][h[2]].value)
                      = Pieces(row, 0, size)
=============================================================================
