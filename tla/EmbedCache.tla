------------------------------ MODULE EmbedCache -----------------------------
(* The embedding cache of a repository (internal/embedcache, and encodeCached  *)
(* of internal/search/embed_cache.go): a write-behind buffer over a SQLite     *)
(* table that outlives the process and is scoped to one model.  A vector is    *)
(* the model that made it.                                                    *)
EXTENDS Naturals, Sequences, SequencesExt, FiniteSets, Subsequences

CONSTANTS Processes,   \* ken-mcp processes over one repository
          Models,      \* model fingerprints
          Texts,       \* chunk texts; the key is their hash
          FlushBatch,  \* flushBatch
          MaxEntries,  \* bound of the table
          None         \* no scope yet; not open

EmbedAssumption == None \notin Models /\ MaxEntries \in Nat

VARIABLES
  scope,   \* meta: the model the table is for, or None
  rows,    \* the table, oldest rowid first: <<text, model>>
  open,    \* the model of each process that has it open, or None
  buffer,  \* each process's pending writes: texts
  mixed,   \* history: it was reset while another process had it open
  served   \* history: <<model of the process, vector>> of the last hit

vars == <<scope, rows, open, buffer, mixed, served>>

Init ==
  /\ scope = None /\ rows = <<>>
  /\ open = [p \in Processes |-> None]
  /\ buffer = [p \in Processes |-> {}]
  /\ mixed = FALSE
  /\ served = <<None, None>>

RowsOf(t) == {i \in DOMAIN rows : rows[i][1] = t}

-----------------------------------------------------------------------------
\* A table of another scope is emptied.
Open_KeepsRows(p, m) ==                         \* mutant: another model's vectors
  /\ open[p] = None
  /\ open' = [open EXCEPT ![p] = m]
  /\ scope' = m
  /\ UNCHANGED <<rows, buffer, mixed, served>>
Open(p, m) ==
  /\ open[p] = None
  /\ open' = [open EXCEPT ![p] = m]
  /\ scope' = m
  /\ IF scope \in {None, m}
       THEN UNCHANGED <<rows, mixed>>
       ELSE /\ rows' = <<>>
            /\ mixed' = (mixed \/ \E q \in Processes : open[q] # None)
  /\ UNCHANGED <<buffer, served>>

\* A file that cannot be opened, or whose scope cannot be read or reset, is
\* left alone: the build runs without a cache.
OpenFails(p) == open[p] = None /\ UNCHANGED vars

\* INSERT OR REPLACE gives a replaced row a new rowid; then the oldest rows
\* beyond the limit go.
Inserted(old, texts, m) ==
  Select(old, {i \in DOMAIN old : old[i][1] \notin texts})
  \o [i \in 1..Cardinality(texts) |-> <<SetToSeq(texts)[i], m>>]
Newest(table) ==
  SubSeq(table, IF Len(table) > MaxEntries THEN Len(table) - MaxEntries + 1 ELSE 1, Len(table))

\* flushLocked: the buffer is emptied whether or not the transaction ran.
Flushed(p, texts) ==
  \/ rows' = Newest(Inserted(rows, texts, open[p]))
  \/ UNCHANGED rows

\* encodeCached: a hit of the buffer, a hit of the table, or encode and Put.
EncodeCached(p, t) ==
  /\ open[p] # None
  /\ \/ /\ t \in buffer[p]
        /\ served' = <<open[p], open[p]>>
        /\ UNCHANGED <<rows, buffer>>
     \/ /\ t \notin buffer[p]
        /\ \E i \in RowsOf(t) : served' = <<open[p], rows[i][2]>>
        /\ UNCHANGED <<rows, buffer>>
     \/ /\ t \notin buffer[p] /\ RowsOf(t) = {}
        /\ served' = <<open[p], open[p]>>
        /\ LET full == buffer[p] \cup {t} IN
           IF Cardinality(full) >= FlushBatch
             THEN /\ Flushed(p, full)
                  /\ buffer' = [buffer EXCEPT ![p] = {}]
             ELSE buffer' = [buffer EXCEPT ![p] = full] /\ UNCHANGED rows
  /\ UNCHANGED <<scope, open, mixed>>

\* The build is over: Close flushes what is left.
Close(p) ==
  /\ open[p] # None
  /\ IF buffer[p] = {} THEN UNCHANGED rows ELSE Flushed(p, buffer[p])
  /\ buffer' = [buffer EXCEPT ![p] = {}]
  /\ open' = [open EXCEPT ![p] = None]
  /\ UNCHANGED <<scope, mixed, served>>

\* The process is killed: the buffer is lost.
Crash(p) ==
  /\ open[p] # None
  /\ buffer' = [buffer EXCEPT ![p] = {}]
  /\ open' = [open EXCEPT ![p] = None]
  /\ UNCHANGED <<scope, rows, mixed, served>>

Next ==
  \E p \in Processes :
    \/ \E m \in Models : Open(p, m)
    \/ OpenFails(p)
    \/ \E t \in Texts : EncodeCached(p, t)
    \/ Close(p)
    \/ Crash(p)

Spec == Init /\ [][Next]_vars

-----------------------------------------------------------------------------
(* A vector served to a process is one its own model made, whatever sessions  *)
(* and models came before, unless two processes with different models had the *)
(* same table open: the scope is checked at Open only, and the first one goes *)
(* on writing its vectors into a table that is now the other's.               *)
OwnModelServed ==
  /\ ~mixed => served[1] = served[2]
  /\ Len(rows) <= MaxEntries
  /\ \A i, j \in 1..Len(rows) : rows[i][1] = rows[j][1] => i = j
=============================================================================
