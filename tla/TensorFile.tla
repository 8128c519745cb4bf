------------------------------ MODULE TensorFile ------------------------------
(***************************************************************************)
(* A tensor file (.etn) and the one TensorFile object that has it open:    *)
(* the header at the front, the tensors' data behind it and, at the end,   *)
(* the table of entries, which every append overwrites and the next        *)
(* write_metadata() puts down again further on.                            *)
(*                                                                         *)
(* The unit is a cell of 32 bytes.  A file is a sequence of cells, changed *)
(* by positional writes and truncations.  A crash keeps any of those made  *)
(* since the last fsync() and loses the others.                            *)
(***************************************************************************)
EXTENDS Integers, FiniteSets, SequencesExt, FiniteSetsExt

CONSTANTS
  Names,       \* names of tensors
  Size,        \* the cells a tensor of that name takes
  Values,      \* what a cell of a tensor may hold
  MaxEntries,  \* bound: entries of a file
  MaxOps,      \* bound: operations that store data
  MaxCrashes   \* bound: crashes

ASSUME TensorFileAssumption ==
  /\ Size \in [Names -> Nat \ {0}]
  /\ MaxEntries \in Nat /\ MaxOps \in Nat /\ MaxCrashes \in Nat

VARIABLES
  file,      \* the cells of the file, as every reader sees them
  images,    \* the files a crash may leave
  mode,      \* "closed", or how the object was opened: "Read", "Write", "ReadWrite"
  entries,   \* _entries
  nextData,  \* _next_data_offset
  syncing,   \* flush() has written the metadata and is about to call fsync()
  content,   \* what the program last stored under a name
  durable,   \* what of it a crash must leave in the file
  ops, crashes

disk    == <<file, images>>
handle  == <<mode, entries, nextData, syncing>>
history == <<content, durable>>
vars    == <<disk, handle, history, ops, crashes>>

HeaderCells == 2   \* 64 bytes
EntryCells  == 5   \* 160 bytes
Alignment   == 2   \* ETN_DATA_ALIGNMENT: 64 bytes

AlignUp(offset) == ((offset + Alignment - 1) \div Alignment) * Alignment

Zero    == <<"zero">>
Data(v) == <<"data", v>>

\* Nothing is stored under a name; a cell that was reserved and not written, or
\* of which it is not known whether a crash keeps the old value or the new one.
Absent    == <<>>
Unwritten == "unwritten"
Nothing   == [n \in Names |-> Absent]

-----------------------------------------------------------------------------
(* The operating system. *)

Pwrite(at, cells) == [at |-> at, cells |-> cells]
Truncate(length)  == [length |-> length]

Effect(f, call) ==
  LET Cell(i) == IF i \in DOMAIN f THEN f[i] ELSE Zero
  IN IF "length" \in DOMAIN call
       THEN [i \in 1 .. call.length |-> Cell(i)]
       ELSE [i \in 1 .. Max({Len(f), call.at + Len(call.cells)}) |->
               IF i - call.at \in DOMAIN call.cells THEN call.cells[i - call.at] ELSE Cell(i)]

Do(calls) ==
  /\ file'   = FoldLeft(Effect, file, calls)
  /\ images' = FoldLeft(LAMBDA fs, call : fs \cup {Effect(f, call) : f \in fs}, images, calls)

-----------------------------------------------------------------------------
(* The format. *)

Entry(name, at) == [name |-> name, at |-> at, size |-> Size[name]]
EntriesOf(es, name) == {i \in DOMAIN es : es[i].name = name}

\* _name_to_index: the last entry of a name hides the earlier ones.
FindEntry(es, name) == es[Max(EntriesOf(es, name))]

TableOffset(next) == AlignUp(next)

Table(es) ==
  [k \in 1 .. (EntryCells * Len(es)) |->
     <<"entry", es[(k - 1) \div EntryCells + 1], (k - 1) % EntryCells>>]

\* write_metadata(): the header, the table, the exact size; in this order.
Metadata(es, next) ==
  LET at == TableOffset(next)
  IN <<Pwrite(0, <<<<"header", Len(es), at>>, Zero>>)>> \o
     (IF es = <<>> THEN <<>> ELSE <<Pwrite(at, Table(es))>>) \o
     <<Truncate(at + EntryCells * Len(es))>>

\* read_metadata(): the entries of a file whose header and table are there.
HasHeader(f) == Len(f) >= HeaderCells /\ f[1][1] = "header"
TableEntry(f, i) == f[f[1][3] + EntryCells * (i - 1) + 1][2]

Readable(f) ==
  /\ HasHeader(f)
  /\ Len(f) >= f[1][3] + EntryCells * f[1][2]
  /\ \A i \in 1 .. f[1][2] :
       LET at == f[1][3] + EntryCells * (i - 1)
       IN /\ f[at + 1][1] = "entry"
          /\ \A k \in 1 .. EntryCells : f[at + k] = <<"entry", f[at + 1][2], k - 1>>

ReadEntries(f) == [i \in 1 .. f[1][2] |-> TableEntry(f, i)]

\* Mutant: what is appended goes behind the table.
NextDataBehindTable(es) ==
  LET last == Max({HeaderCells} \cup {es[i].at + es[i].size : i \in DOMAIN es})
  IN AlignUp(last) + EntryCells * Len(es)

NextDataOf(es) == Max({HeaderCells} \cup {es[i].at + es[i].size : i \in DOMAIN es})

-----------------------------------------------------------------------------
Init ==
  /\ file = <<>> /\ images = {<<>>}
  /\ mode = "closed" /\ entries = <<>> /\ nextData = 0 /\ syncing = FALSE
  /\ content = Nothing /\ durable = Nothing
  /\ ops = 0 /\ crashes = 0

Writing == mode \in {"Write", "ReadWrite"} /\ ~ syncing
Count   == ops < MaxOps /\ ops' = ops + 1 /\ UNCHANGED crashes

\* The constructor: Mode::Write empties the file.
Create ==
  /\ mode = "closed"
  /\ Do(<<Truncate(0)>> \o Metadata(<<>>, HeaderCells))
  /\ mode' = "Write" /\ entries' = <<>> /\ nextData' = HeaderCells
  /\ content' = Nothing /\ durable' = Nothing
  /\ UNCHANGED <<syncing, ops, crashes>>

\* The constructor on a file that can be read; otherwise it throws, and what the
\* object would make of cells that are no entries is not modelled.
Open(m) ==
  /\ mode = "closed" /\ file # <<>> /\ Readable(file)
  /\ mode' = m
  /\ entries' = ReadEntries(file) /\ nextData' = NextDataOf(entries')
  /\ UNCHANGED <<disk, syncing, history, ops, crashes>>

\* An empty file is given its metadata, in Mode::ReadWrite only.
OpenEmpty(m) ==
  /\ mode = "closed" /\ file = <<>>
  /\ mode' = m /\ entries' = <<>> /\ nextData' = HeaderCells
  /\ Do(IF m = "ReadWrite" THEN Metadata(<<>>, HeaderCells) ELSE <<>>)
  /\ UNCHANGED <<syncing, history, ops, crashes>>

\* Mutant: the padding before the data is not counted.
AddEntryUnpadded(e) ==
  /\ Len(entries) < MaxEntries
  /\ entries' = Append(entries, e)
  /\ nextData' = nextData + e.size
  /\ UNCHANGED <<mode, syncing>>

AddEntry(e) ==
  /\ Len(entries) < MaxEntries
  /\ entries' = Append(entries, e)
  /\ nextData' = e.at + e.size
  /\ UNCHANGED <<mode, syncing>>

Write(name, v) ==
  LET e == Entry(name, AlignUp(nextData))
      cells == [k \in 1 .. Size[name] |-> v]
  IN /\ Writing /\ Count
     /\ Do(<<Pwrite(e.at, [k \in DOMAIN cells |-> Data(v)])>>)
     /\ AddEntry(e)
     /\ content' = [content EXCEPT ![name] = cells] /\ durable' = Nothing

\* pwrite() fails after some cells: write_at() throws, no entry is added.
WriteFails(name, v) ==
  /\ Writing /\ Count
  /\ Len(entries) < MaxEntries
  /\ \E done \in 0 .. (Size[name] - 1) :
       Do(IF done = 0 THEN <<>>
          ELSE <<Pwrite(AlignUp(nextData), [k \in 1 .. done |-> Data(v)])>>)
  /\ durable' = Nothing
  /\ UNCHANGED <<handle, content>>

Reserve(name) ==
  /\ Writing /\ Count
  /\ AddEntry(Entry(name, AlignUp(nextData)))
  /\ content' = [content EXCEPT ![name] = [k \in 1 .. Size[name] |-> Unwritten]]
  /\ durable' = Nothing
  /\ UNCHANGED disk

\* The cells of a slab, one by one: a crash may keep any of them, so that their order
\* does not matter.  A slice that fails part way is a smaller one to the file.
WriteSlice(name, cells, v) ==
  LET Over(stored, w) == [k \in DOMAIN stored |-> IF k \in cells THEN w ELSE stored[k]]
  IN /\ Writing /\ Count
     /\ EntriesOf(entries, name) # {}
     /\ Do(LET at == FindEntry(entries, name).at
           IN [i \in 1 .. Cardinality(cells) |->
                 Pwrite(at + SetToSeq(cells)[i] - 1, <<Data(v)>>)])
     /\ content' = [content EXCEPT ![name] = Over(@, v)]
     /\ durable' = [durable EXCEPT ![name] = Over(@, Unwritten)]
     /\ UNCHANGED handle

Flush ==
  /\ Writing
  /\ Do(Metadata(entries, nextData))
  /\ syncing' = TRUE
  /\ UNCHANGED <<mode, entries, nextData, history, ops, crashes>>

Sync ==
  /\ syncing
  /\ images' = {file}
  /\ durable' = content
  /\ syncing' = FALSE
  /\ UNCHANGED <<file, mode, entries, nextData, content, ops, crashes>>

\* One of the calls of write_metadata() fails: flush() throws.
FlushFails ==
  /\ Writing
  /\ \E done \in 0 .. (Len(Metadata(entries, nextData)) - 2) :
       Do(SubSeq(Metadata(entries, nextData), 1, done))
  /\ UNCHANGED <<handle, history, ops, crashes>>

\* The destructor.  One that fails throws, which ends the program: Crash.
Close ==
  /\ mode # "closed" /\ ~ syncing
  /\ Do(IF mode = "Read" THEN <<>> ELSE Metadata(entries, nextData))
  /\ mode' = "closed" /\ entries' = <<>> /\ nextData' = 0
  /\ UNCHANGED <<syncing, history, ops, crashes>>

Crash ==
  /\ crashes < MaxCrashes /\ crashes' = crashes + 1
  /\ \E f \in images : file' = f /\ images' = {f}
  /\ mode' = "closed" /\ entries' = <<>> /\ nextData' = 0 /\ syncing' = FALSE
  /\ content' = durable
  /\ UNCHANGED <<durable, ops>>

Next ==
  \/ Create \/ Flush \/ Sync \/ FlushFails \/ Close \/ Crash
  \/ \E m \in {"Read", "ReadWrite"} : Open(m) \/ OpenEmpty(m)
  \/ \E n \in Names : Reserve(n)
  \/ \E n \in Names, v \in Values : Write(n, v) \/ WriteFails(n, v)
  \/ \E n \in Names, v \in Values : \E cells \in SUBSET (1 .. Size[n]) \ {{}} : WriteSlice(n, cells, v)

Spec == Init /\ [][Next]_vars

-----------------------------------------------------------------------------
Region(e) == (e.at + 1) .. (e.at + e.size)

\* The object: the data of its entries is aligned, behind the header and before what
\* is appended next, and a tensor that can be read shares no cell with another.
\* (After a crash that promised nothing, the header of one generation may lead to the
\* table of another: what the program stored before is then unknown, not shared.)
FileTypeOK ==
  /\ mode \in {"closed", "Read", "Write", "ReadWrite"}
  /\ file \in images
  /\ \A i \in DOMAIN entries :
       /\ entries[i] = Entry(entries[i].name, entries[i].at)
       /\ entries[i].at % Alignment = 0
       /\ Region(entries[i]) \subseteq (HeaderCells + 1) .. nextData
  /\ \A n \in Names : Len(content[n]) \in {0, Size[n]} /\ Len(durable[n]) \in {0, Size[n]}
  /\ \A i, j \in DOMAIN entries :
       i # j /\ content[entries[i].name] # Absent /\ FindEntry(entries, entries[i].name) = entries[i]
         => Region(entries[i]) \cap Region(entries[j]) = {}

\* Whatever is read is what was stored last under that name, cell by cell: through
\* the object that stored it, also after writes and flushes that failed; through
\* one that opens the file later; and after a crash, provided that since the last
\* flush() there were only slices, reads, closings and openings.  An append in
\* between overwrites the table, and a crash may then lose every tensor.
ReadBack ==
  LET seen == IF mode = "closed" /\ Readable(file) THEN ReadEntries(file) ELSE entries
  IN \A n \in Names : content[n] # Absent =>
       /\ EntriesOf(seen, n) # {}
       /\ \A k \in 1 .. Size[n] :
            content[n][k] # Unwritten => /\ FindEntry(seen, n).at + k \in DOMAIN file
                                         /\ file[FindEntry(seen, n).at + k] = Data(content[n][k])

=============================================================================
