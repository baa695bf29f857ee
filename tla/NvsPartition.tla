---------------------------- MODULE NvsPartition ----------------------------
(***************************************************************************)
(* nvs_partition_gen.py: the tool that turns the CSV file of a device's    *)
(* settings into the NVS partition to be flashed, one row after another.   *)
(* The pages are filled in memory and written to the output file at the    *)
(* end; the file itself is emptied at the beginning.                       *)
(***************************************************************************)
EXTENDS NvsFormat

CONSTANTS
  Inputs,       (* The command lines and CSV files the tool may be given.  *)
  LongKeys,     (* The keys of more than 15 characters.                    *)
  MaxBlobSize   (* PAGE_PARAMS['max_blob_size'], by version.               *)

(* A row of the CSV file.  size: the characters of its value, or its bytes  *)
(* if it is given as bytes.  wide: how many of the characters, the first    *)
(* ones, take two bytes in UTF-8.  flaw: what is wrong with the value:      *)
(* "input" (an encoding that does not exist, half a byte of hexadecimal) is *)
(* reported as such; "value" (not a number, not hexadecimal) and "range"    *)
(* (out of the range of its type) are errors of Python's library.           *)
Row == {r \in [type : {"namespace", "primitive", "string", "blob"}, key : Keys,
                size : Nat, wide : Nat, flaw : {"none", "input", "value", "range"}] :
          r.wide <= r.size /\ (r.type \in {"namespace", "primitive"} => r.wide = 0)}

(* A call of the tool.  size: of the partition, in bytes.  named: the file  *)
(* names end in .bin.  keys: which of --keygen and --inputkey are given to  *)
(* "encrypt".  hmac: a new key is to be derived from one that is made or    *)
(* given too, or that is missing.                                           *)
Input == [rows : Seq(Row), version : {1, 2}, size : Nat, named : BOOLEAN,
          command : {"generate", "generate-key", "encrypt"}, keys : SUBSET {"keygen", "inputkey"},
          hmac : {"no", "made", "given", "missing"}]

ASSUME InputsAssumption == Inputs \subseteq Input
ASSUME LimitsAssumption ==
  /\ LongKeys \subseteq Keys
  /\ MaxBlobSize \in [{1, 2} -> Nat]
  /\ NoKey \notin {"random", "derived", "inputkey"}

VARIABLES
  input,          (* How the tool was called.                              *)
  pc,             (* Where it is.                                          *)
  next,           (* The row it writes.                                    *)
  namespace_idx,  (* The number of the last namespace.                     *)
  pages,          (* The pages; the last one is cur_page.                  *)
  size,           (* The bytes left for more pages.                        *)
  blob,           (* The bytes and the chunks of a blob written so far.    *)
  encr_key,       (* The key that entries are encrypted with.              *)
  keyfile,        (* The key in the file that goes with the partition.     *)
  file,           (* The output file.                                      *)
  error           (* Why the tool stopped.                                 *)

vars == <<input, pc, next, namespace_idx, pages, size, blob, encr_key, keyfile, file, error>>

EncryptionKeys == {NoKey, "random", "derived", "inputkey"}
Contents ==
  [type : {"primitive", "string", "blob", "chunk", "index"}, ns : Nat, key : Keys,
   span : Nat, chunk : Nat, value : Nat, size : Nat]
  \cup [type : {"data"}, row : Nat, from : Nat, to : Nat]
Slot == [key : EncryptionKeys, tweak : Nat, content : Contents]

(* slots: the entries written, entry_num of them, as the bitmap says.       *)
(* state: of a reserved page, the header is as blank as the entries.        *)
(* length: of page_buf, in bytes.  address: the bytes that get_binary_data  *)
(* puts before it.                                                          *)
Page == [num : Nat, state : {"active", "full", "reserved"}, slots : Seq(Slot),
         address : Nat, length : Nat]

TypeOK ==
  /\ input \in Input
  /\ pc \in {"start", "open", "rows", "chunks", "index", "done", "failed"}
  /\ next \in Nat
  /\ namespace_idx \in Nat
  /\ pages \in Seq(Page)
  /\ size \in Nat
  /\ blob \in [offset : Nat, chunks : Nat]
  /\ encr_key \in EncryptionKeys
  /\ keyfile \in EncryptionKeys
  /\ file \in {"absent", "empty", "image"}
  /\ error \in {"none", "arguments", "input", "value", "size", "page"}

NoBlob == [offset |-> 0, chunks |-> 0]

Init ==
  /\ input \in Inputs
  /\ pc = "start"
  /\ next = 1
  /\ namespace_idx = 0
  /\ pages = <<>>
  /\ size = 0
  /\ blob = NoBlob
  /\ encr_key = NoKey
  /\ keyfile = NoKey
  /\ file = "absent"
  /\ error = "none"

-----------------------------------------------------------------------------
(* Pages. *)

NewPage(num, state, address) ==
  [num |-> num, state |-> state, slots |-> <<>>, address |-> address, length |-> PageSize]

(* entry_num of the current page. *)
Used(ps) == Len(ps[Len(ps)].slots)

(* Where the image ends. *)
EndOf(ps) == ps[Len(ps)].address + ps[Len(ps)].length

(* Slip for WithPage: the page that is left stays active. *)
WithPageLeftActive(ps, state) == Append(ps, NewPage(Len(ps), state, EndOf(ps)))

(* create_new_page: the current page is full, the new one is the current one. *)
WithPage(ps, state) ==
  Append([ps EXCEPT ![Len(ps)].state = "full"], NewPage(Len(ps), state, EndOf(ps)))

(* Where the bytes that follow an entry of the current page end, in it. *)
EndOfBytes(ps, bytes) == FirstEntryOffset + (Used(ps) + 1) * EntrySize + bytes

(* write_entry_to_buf, for an entry and then the bytes of its data: the     *)
(* entries, encrypted if there is a key, follow the last one of the current *)
(* page.  Without a key all the bytes are written, in however many entries  *)
(* they were counted: those past the last entry counted are overwritten by  *)
(* what comes next, or make page_buf longer.                                *)
Put(ps, entries, bytes) ==
  LET cur_page == ps[Len(ps)]
  IN  [ps EXCEPT ![Len(ps)] =
        [cur_page EXCEPT
          !.slots = @ \o
            [i \in 1..Len(entries) |->
              Sealed(encr_key, Tweak(Len(ps) - 1, Used(ps) + i - 1), entries[i])],
          !.length =
            IF encr_key = NoKey /\ EndOfBytes(ps, bytes) > @ THEN EndOfBytes(ps, bytes) ELSE @]]

-----------------------------------------------------------------------------
(* Rows. *)

row == input.rows[next]

AtRow == pc = "rows" /\ next <= Len(input.rows)

(* The bytes before character c of the value, and those of n characters     *)
(* from c on.                                                               *)
BytePos(r, c) == c + (IF c < r.wide THEN c ELSE r.wide)
Bytes(r, c, n) == BytePos(r, c + n) - BytePos(r, c)

(* What the entries that n characters are counted to take hold of them. *)
Stored(c, n) == SubSeq(Pieces(next, BytePos(row, c), Bytes(row, c, n)), 1, Entries(n))

(* Every value of version 1, and a string of any version, is in one page.  *)
Whole(r) == r.type # "blob" \/ input.version = 1

(* generate and write_entry raise an InputError. *)
Refused(r) ==
  \/ r.key \in LongKeys
  \/ r.flaw = "input"
  \/ r.type \in {"string", "blob"} /\ Whole(r) /\ r.size > MaxBlobSize[input.version]

(* The number of the namespace that the row declares or is in. *)
NamespaceIdx == IF row.type = "namespace" THEN namespace_idx + 1 ELSE namespace_idx

(* struct raises an error; a namespace's number is one byte. *)
Unpackable(r) == r.flaw = "range" \/ NamespaceIdx > MaxByte

Accepted(r) == ~Refused(r) /\ r.flaw # "value" /\ ~Unpackable(r)

(* write_varlen_data and write_primitive_data raise a PageFullError. *)
PageFull(ps, r) ==
  \/ Used(ps) >= MaxEntries
  \/ /\ r.type \in {"string", "blob"}
     /\ Whole(r)
     /\ Used(ps) + Entries(r.size) + 1 >= MaxEntries

(* The entries of a row that is not written in chunks. *)
EntriesOf(r) ==
  CASE r.type = "namespace" ->
         <<Entry("primitive", 0, r.key, 1, ChunkAny, NamespaceIdx, 0)>>
    [] r.type = "primitive" ->
         <<Entry("primitive", namespace_idx, r.key, 1, ChunkAny, next, 0)>>
    [] OTHER ->
         <<Entry(r.type, namespace_idx, r.key, Entries(r.size) + 1, ChunkAny, 0, r.size)>>
           \o Stored(0, r.size)

BytesOf(r) == IF r.type \in {"string", "blob"} THEN Bytes(r, 0, r.size) ELSE 0

-----------------------------------------------------------------------------
(* How the tool starts and stops. *)

(* check_size: one page of the partition is kept back, two more are needed. *)
BadSize ==
  \/ input.size % PageSize # 0
  \/ input.size < 3 * PageSize

(* encrypt: one of --keygen and --inputkey. *)
BadKeys ==
  /\ input.command = "encrypt"
  /\ input.keys \in {{}, {"keygen", "inputkey"}}

(* generate-key looks at the name of the key's file only. *)
BadArguments ==
  \/ ~input.named
  \/ input.command # "generate-key" /\ (BadSize \/ BadKeys)

RefuseArguments ==
  /\ pc = "start"
  /\ BadArguments
  /\ pc' = "failed"
  /\ error' = "arguments"
  /\ UNCHANGED <<input, next, namespace_idx, pages, size, blob, encr_key, keyfile, file>>

NewKey ==
  \/ input.command = "generate-key"
  \/ input.command = "encrypt" /\ input.keys = {"keygen"}

(* generate_key: a key, random or derived from the HMAC key, and its file.  *)
GenerateKey ==
  /\ pc = "start"
  /\ ~BadArguments
  /\ NewKey
  /\ input.hmac # "missing"
  /\ encr_key' = IF input.hmac = "no" THEN "random" ELSE "derived"
  /\ keyfile' = encr_key'
  /\ pc' = IF input.command = "encrypt" THEN "open" ELSE "done"
  /\ UNCHANGED <<input, next, namespace_idx, pages, size, blob, file, error>>

(* The key of the partition is the one given, if it is to be encrypted.     *)
UseKey ==
  /\ pc = "start"
  /\ ~BadArguments
  /\ ~NewKey
  /\ encr_key' = IF input.command = "encrypt" THEN "inputkey" ELSE NoKey
  /\ keyfile' = encr_key'
  /\ pc' = "open"
  /\ UNCHANGED <<input, next, namespace_idx, pages, size, blob, file, error>>

NoHmacKey ==
  /\ pc = "start"
  /\ ~BadArguments
  /\ NewKey
  /\ input.hmac = "missing"
  /\ pc' = "failed"
  /\ error' = "value"
  /\ UNCHANGED <<input, next, namespace_idx, pages, size, blob, encr_key, keyfile, file>>

(* The output file is opened for writing, and the first page is made. *)
Open ==
  /\ pc = "open"
  /\ pc' = "rows"
  /\ file' = "empty"
  /\ pages' = <<NewPage(0, "active", 0)>>
  /\ size' = input.size - 2 * PageSize
  /\ UNCHANGED <<input, next, namespace_idx, blob, encr_key, keyfile, error>>

(* An exception ends the program: the pages are lost.  generate removes the *)
(* file for an InputError only.                                             *)
Abort(e) ==
  /\ pc' = "failed"
  /\ error' = e
  /\ file' = IF e = "input" THEN "absent" ELSE file
  /\ UNCHANGED <<input, next, namespace_idx, pages, size, blob, encr_key, keyfile>>

Refuse ==
  /\ AtRow
  /\ Refused(row)
  /\ Abort("input")

(* The value cannot be read, or, once there is a page for it, not packed. *)
NoValue ==
  /\ AtRow
  /\ ~Refused(row)
  /\ \/ row.flaw = "value"
     \/ Unpackable(row) /\ (PageFull(pages, row) => size # 0)
  /\ Abort("value")

(* A new page is needed and there is no room in the partition for it. *)
NoSpace ==
  /\ AtRow
  /\ ~Refused(row)
  /\ row.flaw # "value"
  /\ PageFull(pages, row)
  /\ size = 0
  /\ Abort("size")

(* The new page is found too small as well. *)
NoPage ==
  /\ AtRow
  /\ Accepted(row)
  /\ PageFull(pages, row)
  /\ size # 0
  /\ PageFull(WithPage(pages, "active"), row)
  /\ Abort("page")

-----------------------------------------------------------------------------
(* Writing. *)

(* Slip for PageFor: the size that is left is not looked at. *)
PageForUnchecked(r, ps) ==
  \/ /\ ~PageFull(pages, r)
     /\ ps = pages
     /\ UNCHANGED size
  \/ /\ PageFull(pages, r)
     /\ ps = WithPage(pages, "active")
     /\ ~PageFull(ps, r)
     /\ size' = size - PageSize

(* A current page that is not full for the row: the present one or a new one. *)
PageFor(r, ps) ==
  \/ /\ ~PageFull(pages, r)
     /\ ps = pages
     /\ UNCHANGED size
  \/ /\ PageFull(pages, r)
     /\ size # 0
     /\ ps = WithPage(pages, "active")
     /\ ~PageFull(ps, r)
     /\ size' = size - PageSize

WriteRow ==
  /\ AtRow
  /\ Whole(row)
  /\ Accepted(row)
  /\ \E ps \in {pages, WithPage(pages, "active")} :
       /\ PageFor(row, ps)
       /\ pages' = Put(ps, EntriesOf(row), BytesOf(row))
  /\ namespace_idx' = NamespaceIdx
  /\ next' = next + 1
  /\ UNCHANGED <<input, pc, blob, encr_key, keyfile, file, error>>

BeginBlob ==
  /\ AtRow
  /\ ~Whole(row)
  /\ Accepted(row)
  /\ \E ps \in {pages, WithPage(pages, "active")} :
       /\ PageFor(row, ps)
       /\ pages' = ps
  /\ pc' = "chunks"
  /\ blob' = NoBlob
  /\ UNCHANGED <<input, next, namespace_idx, encr_key, keyfile, file, error>>

(* Slip for Tailroom: the entry that describes the chunk is forgotten. *)
TailroomOfAll == (MaxEntries - Used(pages)) * EntrySize

(* What the current page can still take in a chunk: bytes, compared with    *)
(* characters.                                                              *)
Tailroom == (MaxEntries - Used(pages) - 1) * EntrySize

ChunkSize ==
  IF Tailroom < row.size - blob.offset THEN Tailroom ELSE row.size - blob.offset

(* More chunks follow, or the page cannot take the index after this one. *)
ChunkEndsPage ==
  \/ blob.offset + ChunkSize < row.size
  \/ Tailroom - ChunkSize < EntrySize

(* Slip for ChunkEntries: the size of the whole blob in every chunk. *)
ChunkEntriesFromStart ==
  <<Entry("chunk", namespace_idx, row.key, Entries(ChunkSize) + 1, blob.chunks, 0, ChunkSize)>>
    \o Stored(0, ChunkSize)

ChunkEntries ==
  <<Entry("chunk", namespace_idx, row.key, Entries(ChunkSize) + 1, blob.chunks, 0, ChunkSize)>>
    \o Stored(blob.offset, ChunkSize)

ChunkBytes == Bytes(row, blob.offset, ChunkSize)

(* One turn of the loop of write_varlen_binary_data. *)
WriteChunk ==
  /\ pc = "chunks"
  /\ blob.chunks <= MaxByte
  /\ \/ /\ ~ChunkEndsPage
        /\ pages' = Put(pages, ChunkEntries, ChunkBytes)
        /\ UNCHANGED size
     \/ /\ ChunkEndsPage
        /\ size # 0
        /\ pages' = WithPage(Put(pages, ChunkEntries, ChunkBytes), "active")
        /\ size' = size - PageSize
  /\ blob' = [offset |-> blob.offset + ChunkSize, chunks |-> blob.chunks + 1]
  /\ pc' = IF blob.offset + ChunkSize < row.size THEN "chunks" ELSE "index"
  /\ UNCHANGED <<input, next, namespace_idx, encr_key, keyfile, file, error>>

NoChunk ==
  /\ pc = "chunks"
  /\ \/ /\ blob.chunks > MaxByte
        /\ Abort("value")
     \/ /\ blob.chunks <= MaxByte
        /\ ChunkEndsPage
        /\ size = 0
        /\ Abort("size")

(* The index makes the chunks a blob. *)
WriteIndex ==
  /\ pc = "index"
  /\ blob.chunks <= MaxByte
  /\ pages' = Put(pages, <<Entry("index", namespace_idx, row.key, 1, ChunkAny,
                                 blob.chunks, row.size)>>, 0)
  /\ next' = next + 1
  /\ pc' = "rows"
  /\ UNCHANGED <<input, namespace_idx, size, blob, encr_key, keyfile, file, error>>

NoIndex ==
  /\ pc = "index"
  /\ blob.chunks > MaxByte
  /\ Abort("value")

-----------------------------------------------------------------------------
(* __exit__ without an exception: empty pages up to the size, a reserved one, *)
(* and the file is written.                                                  *)

FillPage ==
  /\ pc = "rows"
  /\ next > Len(input.rows)
  /\ size # 0
  /\ pages' = WithPage(pages, "active")
  /\ size' = size - PageSize
  /\ UNCHANGED <<input, pc, next, namespace_idx, blob, encr_key, keyfile, file, error>>

Close ==
  /\ pc = "rows"
  /\ next > Len(input.rows)
  /\ size = 0
  /\ pages' = WithPage(pages, "reserved")
  /\ file' = "image"
  /\ pc' = "done"
  /\ UNCHANGED <<input, next, namespace_idx, size, blob, encr_key, keyfile, error>>

Next ==
  \/ RefuseArguments \/ GenerateKey \/ UseKey \/ NoHmacKey \/ Open
  \/ Refuse \/ NoValue \/ NoSpace \/ NoPage
  \/ WriteRow \/ BeginBlob \/ WriteChunk \/ NoChunk \/ WriteIndex \/ NoIndex
  \/ FillPage \/ Close

Spec == Init /\ [][Next]_vars

-----------------------------------------------------------------------------
(* Properties. *)

(* No page is given more entries than it has, the assertion 'Page           *)
(* overflow!!' holds in every turn of the loop that writes a blob, and its  *)
(* index finds an entry free in the page that the last chunk leaves.  Bytes *)
(* are written past the end of a page only without encryption and for a     *)
(* value with characters of more than one byte, written by now              *)
(* (write_varlen_binary_data 247-330, write_entry_to_buf 202-220).          *)
PagesFit ==
  /\ \A p \in DOMAIN pages :
       /\ Len(pages[p].slots) <= MaxEntries
       /\ pages[p].length # PageSize =>
            encr_key = NoKey /\ \E r \in DOMAIN input.rows : r <= next /\ input.rows[r].wide > 0
  /\ pc \in {"chunks", "index"} => Used(pages) < MaxEntries

(* The image has as many pages as were asked for, numbered in their order,  *)
(* the last one blank and no other left active; each is where its number    *)
(* says, and none is too long, if the image is encrypted or all characters  *)
(* are of one byte (create_new_page, __exit__ 492-526, get_binary_data).    *)
ImageFillsPartition ==
  file = "image" =>
    /\ Len(pages) * PageSize = input.size
    /\ \A p \in DOMAIN pages :
         /\ pages[p].num = p - 1
         /\ pages[p].state = IF p = Len(pages) THEN "reserved" ELSE "full"
    /\ pages[Len(pages)].slots = <<>>
    /\ encr_key # NoKey \/ (\A r \in DOMAIN input.rows : input.rows[r].wide = 0) =>
         \A p \in DOMAIN pages :
           pages[p].address = (p - 1) * PageSize /\ pages[p].length = PageSize

(* The image has the "size of NVS partition in bytes" that the help of the  *)
(* command line (nvs_partition_gen.py 1002) says it is given.               *)
ImageHasSize == file = "image" => EndOf(pages) = input.size

Slots == [p \in DOMAIN pages |-> pages[p].slots]

InClear == [p \in DOMAIN pages |->
             [i \in DOMAIN pages[p].slots |-> pages[p].slots[i].content]]

(* The tool's own decrypt, given the key file, gives back every entry of an *)
(* encrypted image, although it counts the entries it meets where           *)
(* encrypt_data counts those it writes (144-202, 791-836).                  *)
DecryptRecovers ==
  file = "image" /\ encr_key # NoKey => Decrypted(keyfile, Slots) = InClear

-----------------------------------------------------------------------------
(* The name of the namespace that row r is in: that of the last one before. *)
NameOf(r) ==
  LET before == {n \in 1..r : input.rows[n].type = "namespace"}
  IN  input.rows[CHOOSE n \in before : \A m \in before : m <= n].key

(* The pages that the device finds: where a page of the flash begins, and   *)
(* before the end of the partition.                                         *)
OnFlash(page, end) == page.address % PageSize = 0 /\ page.address + PageSize <= end

InFlash == [p \in DOMAIN pages |-> IF OnFlash(pages[p], input.size) THEN InClear[p] ELSE <<>>]

(* A device that is given the pages finds the row. *)
IsReadable(r) ==
  LET R == input.rows[r]
  IN  IF R.type = "namespace" THEN NamespaceOf(InFlash, R.key) # 0
      ELSE Readable(InFlash, NameOf(r), R.key, R.type, r, BytePos(R, R.size))

(* The rows that the tool can be relied on for: a value with characters of  *)
(* more than one byte is stored under a size that is not its own, and may   *)
(* move the pages after it, unless they are encrypted.                      *)
Promised ==
  {r \in DOMAIN input.rows :
     /\ input.rows[r].wide = 0
     /\ input.command = "encrypt" \/ \A q \in 1..r : input.rows[q].wide = 0}

Store == INSTANCE NvsStore WITH
  promised <- Promised,
  readable <- {r \in Promised : IsReadable(r)}

(* The promised rows become readable one by one and stay readable, a blob   *)
(* at once with its last entry, whatever pages they are spread over and     *)
(* whatever is written after them; an image is written with all of them, or *)
(* not at all (write_entry, write_varlen_binary_data, __exit__).            *)
ImplementsNvsStore == Store!Spec
=============================================================================
