----------------------------- MODULE ServerImport -----------------------------
(***************************************************************************)
(* ImportServers: the lines of an Excel file become servers in batches.    *)
(* Each batch is checked with one query, stored with one INSERT and copied *)
(* to Redis with one pipeline, whose commands other clients interleave     *)
(* with.  The imports run beside the single-server requests of             *)
(* ServerManagement, in the same process.                                  *)
(*                                                                         *)
(* given is a history variable: what an import was given and what it did.  *)
(***************************************************************************)
EXTENDS ServerManagement, Sequences, FiniteSetsExt

CONSTANTS
    Importers,      \* goroutines serving ImportServers
    BatchSize,      \* batchSize
    MaxLines        \* bound on the lines of a file

ASSUME ImportAssumption ==
    /\ BatchSize \in Nat \ {0} /\ MaxLines \in Nat
    /\ Importers \cap Requests = {}

VARIABLES
    imp,        \* imp[i]: the local variables of goroutine i
    given       \* history: given[i], the lines of the file, the rows stored, the table
                \* as the batch was checked against

importVars == <<storeVars, req, imp, given>>

\* A line with a name and an address, or one that is refused as invalid;
\* blank lines are skipped and left out
Lines == [name: Names, ipv4: IPs] \cup {None}

Files == UNION {[1..n -> Lines] : n \in 0..MaxLines}

\* Values for some of the lines, by their numbers
PartOf(S) == UNION {[K -> S] : K \in SUBSET (1..MaxLines)}

\* rest are the lines not yet read, valid the lines of the batch to store,
\* items the servers to copy to Redis
ImportLocals == [pc: {"idle", "find", "create", "hset", "sadd"},
                 rest: Files, valid: PartOf(Lines \ {None}), items: PartOf([id: Servers, ipv4: IPs]),
                 success: Nat, fail: Nat]

\* No lines, or a table without rows
Nothing == [k \in {} |-> None]

NotImporting == [pc |-> "idle", rest |-> <<>>, valid |-> Nothing, items |-> Nothing,
                 success |-> 0, fail |-> 0]

NotGiven == [lines |-> 0, stored |-> {}, checked |-> Nothing]

ImportInit ==
    /\ imp = [i \in Importers |-> NotImporting]
    /\ given = [i \in Importers |-> NotGiven]

\* The numbers of the lines of rest, up to n, that are not refused
ValidLines(rest, n) == {k \in 1..n : rest[k] # None}

\* Bound: an import or a creation starts only if an id is left for every row
Unreserved ==
    Cardinality(Servers \ issued)
      - Cardinality({r \in Requests : req[r].pc = "create"})
      - Cardinality(UNION {{i} \X ValidLines(imp[i].rest, Len(imp[i].rest)) : i \in Importers})
      - Cardinality(UNION {{i} \X DOMAIN imp[i].valid : i \in Importers})

ImportServers(i, file) ==
    /\ imp[i].pc = "idle"
    /\ Cardinality(ValidLines(file, Len(file))) <= Unreserved
    /\ imp' = [imp EXCEPT ![i] = [NotImporting EXCEPT !.pc = "find", !.rest = file]]
    /\ given' = [given EXCEPT ![i] = [NotGiven EXCEPT !.lines = Len(file)]]
    /\ UNCHANGED <<storeVars, req>>

\* The import returns, with its counts or an error
Finish(i) ==
    /\ imp' = [imp EXCEPT ![i] = NotImporting]
    /\ given' = [given EXCEPT ![i] = NotGiven]

\* The lines read until a batch is full or the file ends
LinesOfBatch(rest) ==
    LET full == {n \in 1..Len(rest) : Cardinality(ValidLines(rest, n)) = BatchSize}
    IN  IF full = {} THEN Len(rest) ELSE Min(full)

Clash(l, s) == l.name = s.name \/ l.ipv4 = s.ipv4

\* FindByNamesOrIPv4s
FindByNamesOrIPv4s(lines) ==
    {rows[id] : id \in {x \in DOMAIN rows : \E l \in lines : Clash(l, rows[x])}}

\* Mutant: a line is compared with the table and not with the lines before it
SelectNotStored(rest, batch, existing) ==
    {k \in batch : ~\E s \in existing : Clash(rest[k], s)}

\* The lines of the batch whose name and address are neither stored nor in a
\* line that was kept before
SelectNew(rest, batch, existing) ==
    CHOOSE kept \in SUBSET batch :
        \A k \in batch :
            k \in kept <=> /\ ~\E s \in existing : Clash(rest[k], s)
                          /\ ~\E j \in kept : j < k /\ Clash(rest[k], rest[j])

\* The next batch is read and checked; at the end of the file the import
\* answers its counts
FindExisting(i) ==
    LET rest  == imp[i].rest
        n     == LinesOfBatch(rest)
        batch == ValidLines(rest, n)
        kept  == SelectNew(rest, batch, FindByNamesOrIPv4s({rest[k] : k \in batch}))
    IN  /\ imp[i].pc = "find"
        /\ IF rest = <<>>
           THEN Finish(i)
           ELSE /\ imp' = [imp EXCEPT ![i] =
                            [@ EXCEPT !.pc = IF kept = {} THEN "find" ELSE "create",
                                      !.rest = SubSeq(rest, n + 1, Len(rest)),
                                      !.valid = [k \in kept |-> rest[k]],
                                      !.success = imp[i].success + Cardinality(kept),
                                      !.fail = imp[i].fail + n - Cardinality(kept)]]
                /\ given' = [given EXCEPT ![i].checked = rows]
        /\ UNCHANGED <<storeVars, req>>

\* The unique indexes, for several rows in one statement
InsertAllowed(valid) ==
    \A k \in DOMAIN valid :
        /\ UniqueIndexes(None, valid[k].name, valid[k].ipv4)
        /\ \A j \in DOMAIN valid \ {k} : ~Clash(valid[j], valid[k])

\* One row for every line, with its id; the other columns take their defaults
InsertAll(ids, valid) ==
    /\ rows' = [id \in DOMAIN rows \cup Range(ids) |->
                   IF id \in DOMAIN rows THEN rows[id]
                   ELSE LET l == valid[AntiFunction(ids)[id]]
                        IN  [name |-> l.name, ipv4 |-> l.ipv4, status |-> "ONLINE", failures |-> 0]]
    /\ issued' = issued \cup Range(ids)

StoreBatch(i) ==
    LET valid == imp[i].valid
    IN  \E ids \in Injection(DOMAIN valid, Servers \ issued) :
          /\ InsertAll(ids, valid)
          /\ users' = [id \in Servers |-> IF id \in Range(ids) THEN users[id] \cup {i} ELSE users[id]]
          /\ imp' = [imp EXCEPT ![i] =
                      [@ EXCEPT !.pc = "hset", !.valid = Nothing,
                                !.items = [k \in DOMAIN valid |-> [id |-> ids[k], ipv4 |-> valid[k].ipv4]]]]
          /\ given' = [given EXCEPT ![i] = [@ EXCEPT !.stored = given[i].stored \cup Range(ids),
                                                     !.checked = Nothing]]

\* Mutant: the error of the INSERT is logged and the import goes on
BatchCreateOrSkip(i) ==
    /\ imp[i].pc = "create"
    /\ IF InsertAllowed(imp[i].valid)
       THEN StoreBatch(i)
       ELSE /\ imp' = [imp EXCEPT ![i] = [@ EXCEPT !.pc = "find", !.valid = Nothing]]
            /\ UNCHANGED <<given, rows, issued, users>>
    /\ UNCHANGED <<hash, allIds, disturbed, req>>

\* One INSERT: all the rows of the batch, or none and the error of a unique
\* index.  The error ends the import without its counts; the rows of earlier
\* batches stay.
BatchCreate(i) ==
    /\ imp[i].pc = "create"
    /\ IF InsertAllowed(imp[i].valid)
       THEN StoreBatch(i)
       ELSE Finish(i) /\ UNCHANGED <<rows, issued, users>>
    /\ UNCHANGED <<hash, allIds, disturbed, req>>
-----------------------------------------------------------------------------
(* BatchUpsert: the pipeline's commands, in their order *)

\* The number of the line whose server is sent next
Sending(i) == Min(DOMAIN imp[i].items)

BatchHSet(i) ==
    LET item == imp[i].items[Sending(i)]
    IN  /\ imp[i].pc = "hset"
        /\ CacheHSet(item.id, item.ipv4, "ONLINE", 0)
        /\ imp' = [imp EXCEPT ![i].pc = "sadd"]
        /\ UNCHANGED <<rows, allIds, issued, users, disturbed, req, given>>

\* The item is done; the last one ends the batch
NextItem(i) ==
    LET left == Drop(imp[i].items, Sending(i))
    IN  imp' = [imp EXCEPT ![i] = [@ EXCEPT !.pc = IF DOMAIN left = {} THEN "find" ELSE "hset",
                                            !.items = left]]

\* Mutant: the pipeline has no SADD
BatchWithoutSAdd(i) ==
    /\ imp[i].pc = "sadd"
    /\ Leave(i, imp[i].items[Sending(i)].id)
    /\ NextItem(i)
    /\ UNCHANGED <<rows, hash, allIds, issued, req, given>>

BatchSAdd(i) ==
    LET id == imp[i].items[Sending(i)].id
    IN  /\ imp[i].pc = "sadd"
        /\ allIds' = allIds \cup {id}
        /\ Leave(i, id)
        /\ NextItem(i)
        /\ UNCHANGED <<rows, hash, issued, req, given>>

ItemIds(i) == {imp[i].items[k].id : k \in DOMAIN imp[i].items}

\* Mutant: the items are kept, to be sent with those of the next batch
PipelineErrorKeepsItems(i) ==
    /\ RedisMayFail
    /\ imp[i].pc \in {"hset", "sadd"}
    /\ users' = [id \in Servers |-> users[id] \ {i}]
    /\ disturbed' = disturbed \cup ItemIds(i)
    /\ imp' = [imp EXCEPT ![i].pc = "find"]
    /\ UNCHANGED <<rows, hash, allIds, issued, req, given>>

\* The connection breaks: a prefix of the commands ran, the error is logged
\* and the import goes on with the next batch
PipelineError(i) ==
    /\ RedisMayFail
    /\ imp[i].pc \in {"hset", "sadd"}
    /\ users' = [id \in Servers |-> users[id] \ {i}]
    /\ disturbed' = disturbed \cup ItemIds(i)
    /\ imp' = [imp EXCEPT ![i] = [@ EXCEPT !.pc = "find", !.items = Nothing]]
    /\ UNCHANGED <<rows, hash, allIds, issued, req, given>>

\* The query of a batch, which is made only if it has lines, or the INSERT fails
ImportDBError(i) ==
    /\ DBMayFail
    /\ \/ imp[i].pc = "create"
       \/ imp[i].pc = "find" /\ ValidLines(imp[i].rest, Len(imp[i].rest)) # {}
    /\ Finish(i)
    /\ UNCHANGED <<storeVars, req>>
-----------------------------------------------------------------------------
ImportStep(i) ==
    \/ FindExisting(i) \/ BatchCreate(i) \/ BatchHSet(i) \/ BatchSAdd(i)
    \/ PipelineError(i) \/ ImportDBError(i)

\* A single-server request beside the imports: creations compete for names
\* and addresses, deletions free them and race the pipeline.  Updates do the
\* first as creations do; ServerSystem has them.
Request(r) ==
    /\ \/ \E name \in Names, ipv4 \in IPs : CreateServer(r, name, ipv4) /\ Unreserved > 0
       \/ \E id \in Servers : DeleteServer(r, id)
       \/ RequestStep(r) \/ DBError(r) \/ RedisError(r)
    /\ UNCHANGED <<imp, given>>

\* The API process dies with its requests and its imports
Crash ==
    /\ APIMayCrash
    /\ \E i \in Importers : imp[i].pc # "idle"
    /\ req' = [r \in Requests |-> Idle]
    /\ imp' = [i \in Importers |-> NotImporting]
    /\ given' = [i \in Importers |-> NotGiven]
    /\ users' = [id \in Servers |-> {}]
    /\ disturbed' = disturbed \cup (UNION {ItemIds(i) : i \in Importers}) \cup
         {req[r].id : r \in {q \in Requests : req[q].pc \in {"hset", "sadd", "del", "srem"}}}
    /\ UNCHANGED <<rows, hash, allIds, issued>>

ImportNext ==
    \/ \E i \in Importers : ImportStep(i) \/ \E file \in Files : ImportServers(i, file)
    \/ \E r \in Requests : Request(r)
    \/ Crash

Init == StoresInit /\ MgmtInit /\ ImportInit

Spec == Init /\ [][ImportNext]_importVars
-----------------------------------------------------------------------------
TypeOK ==
    /\ StoresTypeOK(Requests \cup Importers)
    /\ MgmtTypeOK
    /\ imp \in [Importers -> ImportLocals]
    /\ \A i \in Importers :
         /\ imp[i].pc = "create" <=> DOMAIN imp[i].valid # {}
         /\ imp[i].pc \in {"hset", "sadd"} <=> DOMAIN imp[i].items # {}
         /\ ItemIds(i) \cup given[i].stored \subseteq issued
         /\ given[i].lines \in Nat /\ given[i].checked \in [DOMAIN given[i].checked -> Row]

(* The counts an import answers are true: every line of the file that is   *)
(* not blank counts once, as stored or as failed, and as many rows were    *)
(* stored as the answer calls successful, across batches and whatever ran  *)
(* beside it (import_export.go:100-183).                                   *)
CountsAreTrue ==
    \A i \in Importers :
        imp[i].pc = "find" /\ imp[i].rest = <<>> =>
            /\ imp[i].success = Cardinality(given[i].stored)
            /\ imp[i].success + imp[i].fail = given[i].lines

(* Duplicates never fail an import (docs/USER_MANUAL.md:79): the INSERT of *)
(* a batch can hit a unique index only if another actor changed the table  *)
(* after the batch was checked (import_export.go:88-117).                  *)
DuplicatesAreSkipped ==
    \A i \in Importers :
        imp[i].pc = "create" /\ rows = given[i].checked => InsertAllowed(imp[i].valid)
=============================================================================
