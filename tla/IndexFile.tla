------------------------------- MODULE IndexFile -------------------------------
(* The dense rows beside the chunks, and the index file they are written to    *)
(* and read back from (internal/search/dense_store.go, index_serialize.go,     *)
(* index.go; internal/binfmt).  A chunk is a name with a size; a row is the    *)
(* vector of a chunk, exact or rounded to int8; the CRC of a body is the body. *)
EXTENDS Naturals, Sequences, FiniteSets, FiniteSetsExt, Subsequences

CONSTANTS
  ChunkNames, SizeOf,    \* chunk -> bytes of its record
  RowBytes,              \* embedDim * 4
  MinChunkBytes,         \* minSerializedChunkBytes
  Wrap,                  \* section lengths are uint32: modulo Wrap
  Modes, StoreKinds, Chunkers,
  FormatVersion, Versions,
  MaxChunks,             \* bound
  LoadOptions                 \* load options: [mode, chunker, model], "" for any

\* A record has fixed fields beside its strings, and a length is of something.
FileAssumption ==
  /\ RowBytes \in Nat \ {0} /\ MinChunkBytes \in Nat \ {0} /\ Wrap \in Nat \ {0}
  /\ SizeOf \in [ChunkNames -> Nat] /\ \A c \in ChunkNames : SizeOf[c] >= MinChunkBytes

VARIABLES
  kind,      \* "flat", "flat-i8", "flat-binary-i8"
  mode,
  chunks,    \* names
  tombs,     \* parallel to chunks: Chunk.Tombstoned
  rows,      \* the store's rows, parallel to chunks
  codes,     \* sign bits of flat-binary-i8, parallel to chunks
  file,      \* [version, mode, chunker, n, dim, chunksLen, chunks, vecsLen, vecs, crc]
  written,   \* history: what the file was written from
  harmed,    \* history: the file's bytes were changed since
  loaded     \* result of the last load

vars == <<kind, mode, chunks, tombs, rows, codes, file, written, harmed, loaded>>

NoFile == <<>>
Refused(why) == [ok |-> FALSE, why |-> why]
NotLoaded == Refused("none")

Exact(c) == [of |-> c, exact |-> TRUE]
Rounded(r) == [r EXCEPT !.exact = FALSE]
RowOf(k, c) == IF k = "flat" THEN Exact(c) ELSE Rounded(Exact(c))
Picked(s, kept) == [j \in DOMAIN kept |-> s[kept[j]]]

-----------------------------------------------------------------------------
(* The store: makeDenseStore, and Append, Compact, WriteRowF32 of each kind.  *)

StoreOf(k, cs) ==
  [rows |-> [i \in DOMAIN cs |-> RowOf(k, cs[i])],
   codes |-> IF k = "flat-binary-i8" THEN cs ELSE <<>>]
Appended(k, rs, bits, cs) ==
  [rows |-> rs \o StoreOf(k, cs).rows, codes |-> bits \o StoreOf(k, cs).codes]
\* flat-binary-i8 compacts its exact half and its codes by the same list.
Compacted_Codes(k, rs, bits, kept) ==            \* mutant: the codes keep their order
  [rows |-> Picked(rs, kept), codes |-> SubSeq(bits, 1, IF bits = <<>> THEN 0 ELSE Len(kept))]
Compacted(k, rs, bits, kept) ==
  [rows |-> Picked(rs, kept), codes |-> IF k = "flat-binary-i8" THEN Picked(bits, kept) ELSE <<>>]

\* Index.Vecs: the flat store's rows; the other kinds embed the chunks again.
Vecs == IF kind = "flat" THEN rows ELSE [i \in DOMAIN chunks |-> Exact(chunks[i])]

Init ==
  /\ kind \in StoreKinds /\ mode \in Modes
  /\ chunks = <<>> /\ tombs = <<>> /\ rows = <<>> /\ codes = <<>>
  /\ file = NoFile /\ written = NoFile /\ harmed = FALSE /\ loaded = NotLoaded

Stored(st) == IF mode = "bm25" THEN rows' = <<>> /\ codes' = <<>>
                               ELSE rows' = st.rows /\ codes' = st.codes
Disk == file = NoFile /\ UNCHANGED <<file, written, harmed, loaded>>  \* bound: one file per store

AppendChunk(c) ==
  /\ Len(chunks) < MaxChunks
  /\ chunks' = Append(chunks, c) /\ tombs' = Append(tombs, FALSE)
  /\ Stored(Appended(kind, rows, codes, <<c>>))
  /\ UNCHANGED <<kind, mode>> /\ Disk

Tombstone(i) ==
  /\ ~tombs[i] /\ tombs' = [tombs EXCEPT ![i] = TRUE]
  /\ UNCHANGED <<kind, mode, chunks, rows, codes>> /\ Disk

\* The survivors, in order, of chunks and store at once.
CompactStore ==
  /\ \E i \in DOMAIN tombs : tombs[i]
  /\ LET kept == Select([i \in DOMAIN chunks |-> i], {i \in DOMAIN tombs : ~tombs[i]})
     IN /\ chunks' = Picked(chunks, kept) /\ tombs' = [i \in DOMAIN kept |-> FALSE]
        /\ Stored(Compacted(kind, rows, codes, kept))
  /\ UNCHANGED <<kind, mode>> /\ Disk

\* WithExtraChunks: a new index over Vecs, always flat; the tombstones stay.
WithExtraChunks(c) ==
  /\ Len(chunks) < MaxChunks
  /\ chunks' = Append(chunks, c) /\ tombs' = Append(tombs, FALSE)
  /\ kind' = "flat" /\ codes' = <<>>
  /\ rows' = IF mode = "bm25" THEN <<>> ELSE Append(Vecs, Exact(c))
  /\ UNCHANGED mode /\ Disk

-----------------------------------------------------------------------------
(* Writing: serializeIndexFromStore, serializeIndexWithRows.                  *)

\* Where each record ends, from the first.
Ends(cs) ==
  LET end[k \in 0..Len(cs)] == IF k = 0 THEN 0 ELSE end[k - 1] + SizeOf[cs[k].name] IN end
ChunksBytes(cs) == Ends(cs)[Len(cs)]
Corpus == [i \in DOMAIN chunks |-> [name |-> chunks[i], tomb |-> tombs[i]]]

\* The body, with the lengths as they fit their field.
Body(m, chunker) ==
  LET vs == IF m = "bm25" THEN <<>> ELSE rows
  IN [version |-> FormatVersion, mode |-> m, chunker |-> chunker,
      n |-> Len(chunks), dim |-> IF m # "bm25" /\ chunks # <<>> THEN RowBytes ELSE 0,
      chunksLen |-> ChunksBytes(Corpus) % Wrap, chunks |-> Corpus,
      vecsLen |-> (Len(vs) * RowBytes) % Wrap, vecs |-> vs]

Serialize(chunker) ==
  /\ file = NoFile
  /\ mode # "bm25" => Len(rows) = Len(chunks)
  /\ file' = [body |-> Body(mode, chunker), crc |-> Body(mode, chunker), whole |-> TRUE]
  /\ written' = [mode |-> mode, chunker |-> chunker, chunks |-> Corpus, vecs |-> Body(mode, chunker).vecs]
  /\ harmed' = FALSE /\ loaded' = NotLoaded
  /\ UNCHANGED <<kind, mode, chunks, tombs, rows, codes>>

\* The bytes change on disk: cut short, or some field of the body.
Store == <<kind, mode, chunks, tombs, rows, codes>>
Damage ==
  /\ file # NoFile /\ ~harmed /\ harmed' = TRUE /\ loaded' = NotLoaded
  /\ \/ file' = [file EXCEPT !.whole = FALSE]
     \/ \E v \in Versions \ {file.body.version} : file' = [file EXCEPT !.body.version = v]
     \/ \E m \in Modes \ {file.body.mode} : file' = [file EXCEPT !.body.mode = m]
     \/ file.body.n > 0 /\ file' = [file EXCEPT !.body.chunks[1].tomb = ~file.body.chunks[1].tomb]
  /\ UNCHANGED <<Store, written>>

\* A build of another format wrote it.
Replaced ==
  /\ file # NoFile /\ ~harmed /\ harmed' = TRUE /\ loaded' = NotLoaded
  /\ \E v \in Versions \ {FormatVersion} :
       LET b == [file.body EXCEPT !.version = v]
       IN file' = [body |-> b, crc |-> b, whole |-> TRUE]
  /\ UNCHANGED <<Store, written>>

-----------------------------------------------------------------------------
(* Reading: deserializeCorpus, its checks in their order.                     *)

\* deserializeChunks: how many records end at or before the length, or none
\* when it is inside one.
Decoded(cs, len) ==
  LET read == {k \in 0..Len(cs) : Ends(cs)[k] = len}
  IN IF read = {} THEN Len(cs) + 1 ELSE Min(read)

CrcMatches(f) == f.whole /\ f.crc = f.body

Deserialize(f, want) ==
  LET b == f.body
      why == <<"corrupt", "format version", "chunker", "mode", "model required",
               "corrupt", "corrupt", "corrupt", "corrupt">>
      failed == {i \in DOMAIN why :
        \/ i = 1 /\ ~CrcMatches(f)
        \/ i = 2 /\ b.version # FormatVersion
        \/ i = 3 /\ want.chunker \notin {"", b.chunker}
        \/ i = 4 /\ want.mode \notin {"", b.mode}
        \/ i = 5 /\ b.mode # "bm25" /\ ~want.model
        \/ i = 6 /\ b.n * MinChunkBytes > b.chunksLen
        \/ i = 7 /\ Decoded(b.chunks, b.chunksLen) # b.n
        \/ i = 8 /\ b.vecsLen > 0 /\ (b.mode = "bm25" \/ b.vecsLen # b.n * b.dim)
        \/ i = 9 /\ b.vecsLen = 0 /\ b.mode # "bm25" /\ b.n > 0}
  IN IF failed # {} THEN Refused(why[Min(failed)])
     ELSE [ok |-> TRUE, mode |-> b.mode, chunker |-> b.chunker, chunks |-> b.chunks,
           vecs |-> IF b.vecsLen > 0 THEN b.vecs ELSE <<>>]

Load(want) ==
  /\ file # NoFile /\ loaded = NotLoaded
  /\ loaded' = [result |-> Deserialize(file, want), want |-> want]
  /\ UNCHANGED <<Store, file, written, harmed>>

Next ==
  \/ \E c \in ChunkNames : AppendChunk(c) \/ WithExtraChunks(c)
  \/ \E i \in DOMAIN chunks : Tombstone(i)
  \/ CompactStore
  \/ \E ch \in Chunkers : Serialize(ch)
  \/ Damage \/ Replaced
  \/ \E w \in LoadOptions : Load(w)
Spec == Init /\ [][Next]_vars

-----------------------------------------------------------------------------
(* After any appends, tombstones, compactions and re-indexing the store's     *)
(* rows and codes are those of the chunks beside them (dense_store.go).       *)
RowsFollow ==
  mode # "bm25" =>
    /\ [i \in DOMAIN rows |-> rows[i].of] = chunks
    /\ kind = "flat-binary-i8" => codes = chunks

(* A load gives back just what was written, in a mode and with a chunker that *)
(* was asked for, or refuses (deserializeCorpus); it refuses a file that is   *)
(* unharmed and wanted only when a section outgrew its length field.          *)
LoadIsExact ==
  loaded # NotLoaded =>
    LET r == loaded.result
        w == loaded.want
        wanted == /\ w.mode \in {"", written.mode} /\ w.chunker \in {"", written.chunker}
                  /\ written.mode = "bm25" \/ w.model
        fits == ChunksBytes(written.chunks) < Wrap /\ Len(written.vecs) * RowBytes < Wrap
    IN /\ r.ok => /\ [mode |-> r.mode, chunker |-> r.chunker, chunks |-> r.chunks, vecs |-> r.vecs] = written
                  /\ wanted
       /\ ~harmed => (r.ok <=> wanted /\ fits)

FileIsExact == RowsFollow /\ LoadIsExact
================================================================================
