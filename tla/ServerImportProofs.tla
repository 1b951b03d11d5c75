------------------------- MODULE ServerImportProofs -------------------------
(***************************************************************************)
(* Proofs about ServerImport, for any sets of servers, requests and        *)
(* imports, files and batches of any length, and every fault: types, the   *)
(* unique indexes, deletions, the counts an import answers, and that       *)
(* duplicates alone never fail an import.                                  *)
(***************************************************************************)
EXTENDS ServerImport, FiniteSetTheorems, TLAPS

\* The time limits of the provers
USE SMTT(30), ZenonT(30)
-----------------------------------------------------------------------------
(* Reading a batch *)

LEMMA MinimumIn ==
    ASSUME NEW S \in SUBSET Nat, S # {}
    PROVE  Min(S) \in S /\ \A y \in S : Min(S) <= y
<1>1. PICK x \in S : \A y \in S : <<y, x>> \notin OpToRel(<, Nat)
    BY NatLessThanWellFounded, WFMin, Zenon
<1>2. ASSUME NEW y \in S PROVE x <= y
    <2>1. x \in Nat /\ y \in Nat /\ <<y, x>> \in Nat \X Nat
        OBVIOUS
    <2>2. ~(y < x)
        BY <1>1, <2>1, Zenon DEF OpToRel
    <2> QED BY <2>1, <2>2
<1> QED BY <1>2, Zenon DEF Min

\* What SelectNew chooses, for the lines up to n
Kept(kept, rest, batch, existing, n) ==
    \A k \in batch : k <= n =>
        (k \in kept <=> /\ ~\E s \in existing : Clash(rest[k], s)
                        /\ ~\E j \in kept : j < k /\ Clash(rest[k], rest[j]))

(* One line more: it is kept or not, and decides nothing about the others. *)
LEMMA KeepOneMore ==
    ASSUME NEW rest, NEW batch \in SUBSET Nat, NEW existing, NEW n \in Nat,
           NEW kept \in SUBSET batch, Kept(kept, rest, batch, existing, n)
    PROVE  \E more \in SUBSET batch : Kept(more, rest, batch, existing, n + 1)
<1> DEFINE old  == {k \in kept : k <= n}
           Good(k) == /\ ~\E s \in existing : Clash(rest[k], s)
                      /\ ~\E j \in old : Clash(rest[k], rest[j])
           more == old \cup {k \in batch : k = n + 1 /\ Good(k)}
<1>1. more \in SUBSET batch
    OBVIOUS
<1>2. ASSUME NEW k \in batch, k <= n + 1
      PROVE  k \in more <=> /\ ~\E s \in existing : Clash(rest[k], s)
                            /\ ~\E j \in more : j < k /\ Clash(rest[k], rest[j])
    <2>0. k \in Nat /\ (k <= n \/ k = n + 1)
        BY <1>2
    <2>1. CASE k <= n
        <3>1. k \in more <=> k \in kept
            BY <2>0, <2>1
        <3>2. \A j \in batch : j < k => (j \in more <=> j \in kept)
            BY <2>0, <2>1
        <3>3. more \subseteq batch /\ kept \subseteq batch
            BY Zenon
        <3> HIDE DEF more
        <3> QED BY <2>1, <3>1, <3>2, <3>3, Zenon DEF Kept
    <2>2. CASE k = n + 1
        <3>0. k \notin old
            BY <2>0, <2>2
        <3>1. k \in more <=> Good(k)
            <4> HIDE DEF old
            <4> DEFINE G == Good(k)
            <4>1. k \in {i \in batch : i = n + 1 /\ Good(i)} <=> G
                BY <2>2, Zenon
            <4> QED BY <3>0, <4>1, Zenon
        <3>2. \A j \in batch : j < k => (j \in more <=> j \in old)
            BY <2>0, <2>2
        <3>3. \A j \in old : j \in batch /\ j < k
            BY <2>0, <2>2
        <3>4. more \subseteq batch
            BY Zenon
        <3> HIDE DEF more, old
        <3> QED BY <3>1, <3>2, <3>3, <3>4, Zenon
    <2> QED BY <2>0, <2>1, <2>2
<1> HIDE DEF more
<1>3. Kept(more, rest, batch, existing, n + 1)
    BY <1>2, Zenon DEF Kept
<1> QED BY <1>1, <1>3

(* There is such a choice for a batch of any length: a least length        *)
(* without one cannot exist.                                               *)
LEMMA KeptExists ==
    ASSUME NEW rest, NEW batch \in SUBSET (Nat \ {0}), NEW existing
    PROVE  \A n \in Nat : \E kept \in SUBSET batch : Kept(kept, rest, batch, existing, n)
<1> DEFINE without == {n \in Nat : ~\E kept \in SUBSET batch : Kept(kept, rest, batch, existing, n)}
<1> SUFFICES ASSUME without # {} PROVE FALSE
    OBVIOUS
<1>1. without \in SUBSET Nat
    OBVIOUS
<1> DEFINE m == Min(without)
<1>2. m \in without /\ \A y \in without : m <= y
    BY <1>1, MinimumIn
<1>3. m \in Nat
    BY <1>2
<1>4. m # 0
    <2>1. Kept({}, rest, batch, existing, 0)
        BY DEF Kept
    <2> QED BY <1>2, <2>1, Zenon
<1>5. m - 1 \in Nat /\ m - 1 \notin without /\ m - 1 + 1 = m
    <2> HIDE DEF m, without
    <2> QED BY <1>2, <1>3, <1>4
<1>6. PICK kept \in SUBSET batch : Kept(kept, rest, batch, existing, m - 1)
    BY <1>5, Zenon
<1>7. batch \in SUBSET Nat
    OBVIOUS
<1> HIDE DEF m
<1>8. \E more \in SUBSET batch : Kept(more, rest, batch, existing, m - 1 + 1)
    BY <1>5, <1>6, <1>7, KeepOneMore
<1>9. \E more \in SUBSET batch : Kept(more, rest, batch, existing, m)
    BY <1>5, <1>8
<1> QED BY <1>2, <1>9

LEMMA FilesAre ==
    ASSUME NEW f
    PROVE  f \in Files <=> f \in Seq(Lines) /\ Len(f) <= MaxLines
<1>1. ASSUME f \in Files PROVE f \in Seq(Lines) /\ Len(f) <= MaxLines
    <2>1. PICK n \in 0..MaxLines : f \in [1..n -> Lines]
        BY <1>1, Zenon DEF Files
    <2>2. n \in Nat /\ n <= MaxLines
        BY ImportAssumption
    <2>3. f \in Seq(Lines) /\ Len(f) = n
        BY <2>1, <2>2
    <2> QED BY <2>2, <2>3
<1>2. ASSUME f \in Seq(Lines), Len(f) <= MaxLines PROVE f \in Files
    <2>1. Len(f) \in 0..MaxLines /\ f \in [1..Len(f) -> Lines]
        BY <1>2, ImportAssumption
    <2> QED BY <2>1, Zenon DEF Files
<1> QED BY <1>1, <1>2

(* A batch takes at least one line, and no more than there are. *)
LEMMA BatchSome ==
    ASSUME NEW rest \in Files, rest # <<>>
    PROVE  LinesOfBatch(rest) \in 1..Len(rest) /\ Len(rest) \in Nat
<1> DEFINE full == {n \in 1..Len(rest) : Cardinality(ValidLines(rest, n)) = BatchSize}
<1>1. rest \in Seq(Lines)
    BY FilesAre
<1>2. Len(rest) \in Nat /\ Len(rest) # 0
    BY <1>1
<1>3. CASE full = {}
    BY <1>2, <1>3 DEF LinesOfBatch
<1>4. CASE full # {}
    <2>1. full \in SUBSET (1..Len(rest)) /\ full \in SUBSET Nat
        BY <1>2
    <2>2. LinesOfBatch(rest) = Min(full)
        BY <1>4, Zenon DEF LinesOfBatch
    <2> HIDE DEF full
    <2> QED BY <1>2, <1>4, <2>1, <2>2, MinimumIn, Zenon
<1> QED BY <1>3, <1>4

(* What is left of the file after n lines. *)
LEMMA RestOfFile ==
    ASSUME NEW rest \in Files, NEW n \in 1..Len(rest)
    PROVE  /\ SubSeq(rest, n + 1, Len(rest)) \in Files
           /\ Len(SubSeq(rest, n + 1, Len(rest))) = Len(rest) - n
<1>1. rest \in Seq(Lines) /\ Len(rest) <= MaxLines /\ Len(rest) \in Nat /\ MaxLines \in Nat
    BY FilesAre, ImportAssumption
<1> DEFINE left == SubSeq(rest, n + 1, Len(rest))
<1>2. left \in Seq(Lines) /\ Len(left) = Len(rest) - n
    BY <1>1
<1>3. Len(left) <= MaxLines
    BY <1>1, <1>2
<1> QED BY <1>2, <1>3, FilesAre, Zenon

(* The lines SelectNew keeps are lines of the batch that clash neither     *)
(* with a row found nor with one another.                                  *)
LEMMA SelectNewKeeps ==
    ASSUME NEW rest \in Files, NEW n \in 1..Len(rest), NEW existing
    PROVE  LET kept == SelectNew(rest, ValidLines(rest, n), existing)
           IN  /\ kept \subseteq ValidLines(rest, n)
               /\ \A k \in kept : ~\E s \in existing : Clash(rest[k], s)
               /\ \A j, k \in kept : j < k => ~Clash(rest[k], rest[j])
<1> DEFINE batch == ValidLines(rest, n)
           kept == SelectNew(rest, batch, existing)
<1>1. rest \in Seq(Lines) /\ Len(rest) \in Nat /\ n \in Nat
    BY FilesAre
<1>2. batch \in SUBSET (Nat \ {0}) /\ \A k \in batch : k <= n
    BY <1>1 DEF ValidLines
<1> HIDE DEF batch
<1>3. \E some \in SUBSET batch : Kept(some, rest, batch, existing, n)
    BY <1>1, <1>2, KeptExists, Zenon
<1>4. \E some \in SUBSET batch : \A k \in batch :
        k \in some <=> /\ ~\E s \in existing : Clash(rest[k], s)
                       /\ ~\E j \in some : j < k /\ Clash(rest[k], rest[j])
    BY <1>2, <1>3, Zenon DEF Kept
<1>5. /\ kept \in SUBSET batch
      /\ \A k \in batch :
           k \in kept <=> /\ ~\E s \in existing : Clash(rest[k], s)
                          /\ ~\E j \in kept : j < k /\ Clash(rest[k], rest[j])
    BY <1>4, Zenon DEF SelectNew
<1> HIDE DEF kept
<1>6. \A k \in kept : ~\E s \in existing : Clash(rest[k], s)
    BY <1>5, Zenon
<1>7. \A j, k \in kept : j < k => ~Clash(rest[k], rest[j])
    BY <1>5, Zenon
<1> QED BY <1>5, <1>6, <1>7, Zenon DEF batch, kept

(* How many rows a batch has. *)
LEMMA KeptCounted ==
    ASSUME NEW n \in Nat, NEW kept \in SUBSET (1..n)
    PROVE  IsFiniteSet(kept) /\ Cardinality(kept) \in Nat /\ Cardinality(kept) <= n
<1>1. IsFiniteSet(1..n) /\ Cardinality(1..n) = n
    BY FS_Interval
<1>2. IsFiniteSet(kept) /\ Cardinality(kept) <= Cardinality(1..n)
    BY <1>1, FS_Subset, Zenon
<1>3. Cardinality(kept) \in Nat
    BY <1>2, FS_CardinalityType
<1> QED BY <1>1, <1>2, <1>3

(* The ids of a batch are as many as its lines, and new. *)
LEMMA IdsCounted ==
    ASSUME NEW K, IsFiniteSet(K), NEW ids \in Injection(K, Servers \ issued),
           NEW stored \in SUBSET issued, IsFiniteSet(stored)
    PROVE  /\ IsFiniteSet(stored \cup Range(ids))
           /\ Cardinality(stored \cup Range(ids)) = Cardinality(stored) + Cardinality(K)
<1> DEFINE R == Range(ids)
<1>1. ids \in [K -> Servers \ issued] /\ R \subseteq Servers \ issued
    BY DEF Injection, Range
<1>2. ids \in Surjection(K, R) /\ ids \in Injection(K, R)
    BY <1>1 DEF Injection, Surjection, Range, IsInjective
<1> HIDE DEF R
<1>3. IsFiniteSet(R) /\ Cardinality(R) = Cardinality(K)
    BY <1>2, FS_Surjection
<1>4. stored \cap R = {}
    BY <1>1
<1>5. /\ IsFiniteSet(stored \cup R)
      /\ Cardinality(stored \cup R) = Cardinality(stored) + Cardinality(R) - Cardinality(stored \cap R)
    BY <1>3, FS_Union
<1>6. Cardinality(stored) \in Nat /\ Cardinality(R) \in Nat /\ Cardinality(stored \cap R) = 0
    BY <1>3, <1>4, FS_CardinalityType, FS_EmptySet, Zenon
<1> QED BY <1>3, <1>5, <1>6 DEF R
-----------------------------------------------------------------------------
(* The inductive invariant *)

\* The local variables q of a request, when ids are the ids generated so far
LocalsFit(q, ids) ==
    /\ q \in Locals
    /\ q.id \in ids \cup {None}
    /\ q.pc # "update"
    /\ q.pc \in {"idle", "create"} <=> q.id = None
    /\ q.pc \in {"create", "hset", "sadd"} => q.name \in Names /\ q.ipv4 \in IPs
    /\ q.pc \in {"hset", "sadd"} => q.status \in Status
    /\ q.pc = "create" => q.failures = 0

RowsFit(f, ids) == DOMAIN f \subseteq ids /\ f \in [DOMAIN f -> Row]

HashFit(f, ids) == DOMAIN f \subseteq ids /\ \A x \in DOMAIN f : f[x] \in Hash

HistoryFits ==
    /\ users \in [Servers -> SUBSET (Requests \cup Importers)]
    /\ disturbed \subseteq Servers

StoresFit ==
    /\ RowsFit(rows, issued)
    /\ HashFit(hash, issued)
    /\ allIds \subseteq issued
    /\ issued \subseteq Servers

RequestsFit ==
    /\ req \in [Requests -> Locals]
    /\ \A r \in Requests : LocalsFit(req[r], issued)

\* The local variables v of an import and its history g: their types ...
LinesFit(v, ids) ==
    /\ v \in ImportLocals
    /\ v.pc = "create" <=> DOMAIN v.valid # {}
    /\ v.pc \in {"hset", "sadd"} <=> DOMAIN v.items # {}
    /\ \A k \in DOMAIN v.items : v.items[k].id \in ids

GivenFits(g, ids) ==
    /\ DOMAIN g = {"lines", "stored", "checked"}
    /\ g.lines \in Nat
    /\ g.stored \subseteq ids
    /\ g.checked \in [DOMAIN g.checked -> Row]

\* ... every line is counted once: as stored, as about to be stored, as
\* failed or as not read yet ...
CountsFit(v, g) ==
    /\ IsFiniteSet(g.stored)
    /\ v.success = Cardinality(g.stored) + Cardinality(DOMAIN v.valid)
    /\ v.pc # "idle" => v.success + v.fail + Len(v.rest) = g.lines

\* ... and the lines to store clash neither with the table as it was read
\* nor with one another
SelectedFits(v, g) ==
    v.pc = "create" =>
        \A k \in DOMAIN v.valid :
            /\ \A x \in DOMAIN g.checked : ~Clash(v.valid[k], g.checked[x])
            /\ \A j \in DOMAIN v.valid \ {k} : ~Clash(v.valid[j], v.valid[k])

ImportFits(v, g, ids) ==
    LinesFit(v, ids) /\ GivenFits(g, ids) /\ CountsFit(v, g) /\ SelectedFits(v, g)

ImportsFit ==
    /\ imp \in [Importers -> ImportLocals]
    /\ given = [i \in Importers |-> given[i]]
    /\ \A i \in Importers : ImportFits(imp[i], given[i], issued)

ImportInv == StoresFit /\ HistoryFits /\ RequestsFit /\ ImportsFit

LEMMA ImportInvTypes == ImportInv => TypeOK
<1> SUFFICES ASSUME ImportInv PROVE TypeOK
    OBVIOUS
<1>1. StoresTypeOK(Requests \cup Importers)
    BY DEF ImportInv, StoresFit, HistoryFits, RowsFit, HashFit, StoresTypeOK
<1>2. MgmtTypeOK
    BY DEF ImportInv, RequestsFit, MgmtTypeOK
<1>3. imp \in [Importers -> ImportLocals]
    BY DEF ImportInv, ImportsFit
<1>4. ASSUME NEW i \in Importers
      PROVE  /\ imp[i].pc = "create" <=> DOMAIN imp[i].valid # {}
             /\ imp[i].pc \in {"hset", "sadd"} <=> DOMAIN imp[i].items # {}
             /\ ItemIds(i) \cup given[i].stored \subseteq issued
             /\ given[i].lines \in Nat /\ given[i].checked \in [DOMAIN given[i].checked -> Row]
    <2>1. LinesFit(imp[i], issued) /\ GivenFits(given[i], issued)
        BY DEF ImportInv, ImportsFit, ImportFits
    <2>2. ItemIds(i) \subseteq issued
        BY <2>1 DEF LinesFit, ItemIds
    <2> QED BY <2>1, <2>2, Zenon DEF LinesFit, GivenFits
<1> QED
    BY <1>1, <1>2, <1>3, <1>4 DEF TypeOK
-----------------------------------------------------------------------------
(* Requests *)

LEMMA IdleFits == ASSUME NEW ids PROVE LocalsFit(Idle, ids)
  BY DEF LocalsFit, Idle, Locals

LEMMA GotoFits ==
    ASSUME NEW ids, NEW q, LocalsFit(q, ids), NEW pc \in {"hset", "sadd", "del", "srem"},
           q.pc \notin {"idle", "create"},
           pc \in {"hset", "sadd"} => q.pc = "hset"
    PROVE  LocalsFit([q EXCEPT !.pc = pc], ids)
  BY DEF LocalsFit, Locals

LEMMA ChecksFit ==
    ASSUME NEW ids, NEW q, LocalsFit(q, ids), NEW c \in SUBSET {"name", "ipv4"}
    PROVE  LocalsFit([q EXCEPT !.checks = c], ids)
  BY DEF LocalsFit, Locals

LEMMA CreatedFits ==
    ASSUME NEW ids, NEW q, LocalsFit(q, ids), q.pc = "create", NEW id \in Servers
    PROVE  LocalsFit([q EXCEPT !.pc = "hset", !.id = id, !.status = "ONLINE"], ids \cup {id})
  BY StoresAssumption, Zenon DEF LocalsFit, Locals, Status

LEMMA CreatingFits ==
    ASSUME NEW ids, NEW name \in Names, NEW ipv4 \in IPs
    PROVE  LocalsFit([Idle EXCEPT !.pc = "create", !.checks = {"name", "ipv4"},
                                  !.name = name, !.ipv4 = ipv4], ids)
  BY Zenon DEF LocalsFit, Locals, Idle

LEMMA DeletingFits ==
    ASSUME NEW ids, NEW id \in Servers, id \in ids
    PROVE  LocalsFit([Idle EXCEPT !.pc = "delete", !.id = id], ids)
  BY StoresAssumption, Zenon DEF LocalsFit, Locals, Idle

LEMMA PutRow ==
    ASSUME NEW f, NEW ids, RowsFit(f, ids), NEW id, NEW row \in Row
    PROVE  RowsFit(Put(f, id, row), ids \cup {id})
  BY DEF RowsFit, Put

LEMMA DropRow ==
    ASSUME NEW f, NEW ids, RowsFit(f, ids), NEW id
    PROVE  RowsFit(Drop(f, id), ids)
  BY DEF RowsFit, Drop, Restrict

LEMMA PutHash ==
    ASSUME NEW f, NEW ids, HashFit(f, ids), NEW id \in ids, NEW info \in Hash
    PROVE  HashFit(Put(f, id, info), ids)
  BY DEF HashFit, Put

LEMMA DropHash ==
    ASSUME NEW f, NEW ids, HashFit(f, ids), NEW id
    PROVE  HashFit(Drop(f, id), ids)
  BY DEF HashFit, Drop, Restrict

LEMMA HistoryStep ==
    ASSUME HistoryFits, NEW a \in Requests \cup Importers, NEW id \in Servers,
           \/ Enter(a, id) \/ Leave(a, id) \/ LeaveTorn(a, id)
           \/ Settle(a, id) /\ UNCHANGED users
           \/ UNCHANGED <<users, disturbed>>
    PROVE  HistoryFits'
<1>1. users' \in [Servers -> SUBSET (Requests \cup Importers)]
    BY DEF HistoryFits, Enter, Leave, LeaveTorn
<1>2. disturbed' \subseteq Servers
    BY DEF HistoryFits, Enter, Leave, LeaveTorn, Settle
<1> QED
    BY <1>1, <1>2 DEF HistoryFits

\* One request assigns its local variables; the stores keep their types
LEMMA RequestChange ==
    ASSUME ImportInv, NEW r \in Requests, NEW q, req' = [req EXCEPT ![r] = q],
           LocalsFit(q, issued'), issued \subseteq issued', StoresFit', HistoryFits',
           UNCHANGED <<imp, given>>
    PROVE  ImportInv'
<1>1. RequestsFit'
  <2>1. req' \in [Requests -> Locals]
      BY DEF ImportInv, RequestsFit, LocalsFit
  <2>2. \A x \in Requests : LocalsFit(req[x], issued')
      BY DEF ImportInv, RequestsFit, LocalsFit
  <2> QED
      BY <2>1, <2>2 DEF ImportInv, RequestsFit
<1>2. ImportsFit'
  <2>1. ASSUME NEW i \in Importers PROVE ImportFits(imp[i], given[i], issued')
    <3>1. ImportFits(imp[i], given[i], issued)
        BY DEF ImportInv, ImportsFit
    <3>2. LinesFit(imp[i], issued') /\ GivenFits(given[i], issued')
        BY <3>1 DEF ImportFits, LinesFit, GivenFits
    <3> QED
        BY <3>1, <3>2 DEF ImportFits
  <2> QED
      BY <2>1, Zenon DEF ImportInv, ImportsFit
<1> QED
    BY <1>1, <1>2 DEF ImportInv

\* ... and leaves the stores alone
LEMMA RequestOnly ==
    ASSUME ImportInv, NEW r \in Requests, NEW q, req' = [req EXCEPT ![r] = q],
           LocalsFit(q, issued), UNCHANGED <<rows, hash, allIds, issued>>, HistoryFits',
           UNCHANGED <<imp, given>>
    PROVE  ImportInv'
<1>1. StoresFit'
    BY DEF ImportInv, StoresFit
<1> QED
    BY <1>1, RequestChange, Zenon

LEMMA RequestIds ==
    ASSUME ImportInv, NEW r \in Requests
    PROVE  /\ LocalsFit(req[r], issued)
           /\ req[r].pc \notin {"idle", "create"} => req[r].id \in issued /\ req[r].id \in Servers
           /\ req[r].id # None => req[r].id \in Servers
           /\ LeaveUnwritten(r) => HistoryFits'
<1>1. LocalsFit(req[r], issued) /\ issued \subseteq Servers
    BY DEF ImportInv, RequestsFit, StoresFit
<1>2. req[r].id # None => req[r].id \in Servers
    BY <1>1 DEF LocalsFit
<1>3. LeaveUnwritten(r) => HistoryFits'
    BY <1>2, HistoryStep DEF LeaveUnwritten, ImportInv, HistoryFits
<1> QED
    BY <1>1, <1>2, <1>3 DEF LocalsFit

LEMMA CreateRowType ==
    ASSUME ImportInv, NEW r \in Requests, CreateRow(r), UNCHANGED <<imp, given>>
    PROVE  ImportInv'
<1>0. LocalsFit(req[r], issued) /\ req[r].pc = "create"
    BY RequestIds, Zenon DEF CreateRow
<1>1. CASE UniqueIndexes(None, req[r].name, req[r].ipv4)
  <2>1. PICK id \in Servers \ issued :
          /\ Insert(id, req[r].name, req[r].ipv4)
          /\ Enter(r, id)
          /\ req' = [req EXCEPT ![r] = [req[r] EXCEPT !.pc = "hset", !.id = id, !.status = "ONLINE"]]
      BY <1>1, Zenon DEF CreateRow
  <2> DEFINE row == [name |-> req[r].name, ipv4 |-> req[r].ipv4, status |-> "ONLINE", failures |-> 0]
             q == [req[r] EXCEPT !.pc = "hset", !.id = id, !.status = "ONLINE"]
  <2>2. rows' = Put(rows, id, row) /\ issued' = issued \cup {id} /\ UNCHANGED <<hash, allIds>>
      BY <2>1, Zenon DEF Insert, CreateRow
  <2>3. row \in Row
      BY <1>0 DEF LocalsFit, Row, Status
  <2>4. LocalsFit(q, issued')
      BY <1>0, <2>2, CreatedFits, Zenon
  <2>5. req' = [req EXCEPT ![r] = q]
      BY <2>1
  <2> HIDE DEF row, q
  <2>6. RowsFit(rows, issued)'
      BY <2>2, <2>3, PutRow DEF ImportInv, StoresFit
  <2>7. StoresFit'
      BY <2>2, <2>6 DEF ImportInv, StoresFit, HashFit
  <2>8. HistoryFits'
      BY <2>1, HistoryStep DEF ImportInv
  <2> QED
      BY <2>2, <2>4, <2>5, <2>7, <2>8, RequestChange, Zenon
<1>2. CASE ~UniqueIndexes(None, req[r].name, req[r].ipv4)
  <2>1. HistoryFits'
      BY <1>2 DEF CreateRow, ImportInv, HistoryFits
  <2> QED
      BY <1>2, <2>1, IdleFits, RequestOnly DEF CreateRow, Return
<1> QED
    BY <1>1, <1>2

LEMMA DeleteServerRowType ==
    ASSUME ImportInv, NEW r \in Requests, DeleteServerRow(r), UNCHANGED <<imp, given>>
    PROVE  ImportInv'
<1>0. /\ LocalsFit(req[r], issued) /\ req[r].pc = "delete"
      /\ req[r].id \in issued /\ req[r].id \in Servers /\ HistoryFits
    BY RequestIds DEF DeleteServerRow, ImportInv
<1>1. CASE req[r].id \in DOMAIN rows
  <2>1. /\ rows' = Drop(rows, req[r].id) /\ UNCHANGED <<hash, allIds, issued, users>>
        /\ Settle(r, req[r].id) /\ req' = [req EXCEPT ![r] = [req[r] EXCEPT !.pc = "del"]]
      BY <1>1 DEF DeleteServerRow, DeleteRow, Goto
  <2>2. StoresFit'
      BY <2>1, DropRow DEF ImportInv, StoresFit
  <2>3. LocalsFit([req[r] EXCEPT !.pc = "del"], issued')
      BY <1>0, <2>1, GotoFits, Zenon
  <2>4. HistoryFits'
      BY <1>0, <2>1, HistoryStep
  <2> QED
      BY <2>1, <2>2, <2>3, <2>4, RequestChange, Zenon
<1>2. CASE req[r].id \notin DOMAIN rows
  <2>1. Return(r) /\ Leave(r, req[r].id) /\ UNCHANGED <<rows, hash, allIds, issued>>
      BY <1>2 DEF DeleteServerRow
  <2> QED
      BY <1>0, <2>1, IdleFits, HistoryStep, RequestOnly, Zenon DEF Return
<1> QED
    BY <1>1, <1>2

LEMMA RequestTypeStep ==
    ASSUME ImportInv, NEW r \in Requests, RequestStep(r), UNCHANGED <<imp, given>>
    PROVE  ImportInv'
<1>0. LocalsFit(req[r], issued) /\ HistoryFits
    BY RequestIds DEF ImportInv
<1>1. CASE CheckName(r)
  <2>1. CASE NameTaken(req[r].name, req[r].id)
      BY <1>1, <2>1, IdleFits, RequestIds, RequestOnly, Zenon DEF CheckName, Return
  <2>2. CASE ~NameTaken(req[r].name, req[r].id)
    <3>1. /\ req' = [req EXCEPT ![r] = [req[r] EXCEPT !.checks = req[r].checks \ {"name"}]]
          /\ UNCHANGED <<rows, hash, allIds, issued, users, disturbed>>
        BY <1>1, <2>2 DEF CheckName
    <3>2. LocalsFit([req[r] EXCEPT !.checks = req[r].checks \ {"name"}], issued)
      <4>1. req[r].checks \ {"name"} \in SUBSET {"name", "ipv4"}
          BY <1>0 DEF LocalsFit, Locals
      <4> QED
          BY <1>0, <4>1, ChecksFit, Zenon
    <3>3. HistoryFits'
        BY <1>0, <3>1 DEF HistoryFits
    <3> QED
        BY <3>1, <3>2, <3>3, RequestOnly, Zenon
  <2> QED
      BY <2>1, <2>2
<1>2. CASE CheckIPv4(r)
  <2>1. CASE IPv4Taken(req[r].ipv4, req[r].id)
      BY <1>2, <2>1, IdleFits, RequestIds, RequestOnly, Zenon DEF CheckIPv4, Return
  <2>2. CASE ~IPv4Taken(req[r].ipv4, req[r].id)
    <3>1. /\ req' = [req EXCEPT ![r] = [req[r] EXCEPT !.checks = {}]]
          /\ UNCHANGED <<rows, hash, allIds, issued, users, disturbed>>
        BY <1>2, <2>2 DEF CheckIPv4
    <3>2. LocalsFit([req[r] EXCEPT !.checks = {}], issued)
        BY <1>0, ChecksFit, Zenon
    <3>3. HistoryFits'
        BY <1>0, <3>1 DEF HistoryFits
    <3> QED
        BY <3>1, <3>2, <3>3, RequestOnly, Zenon
  <2> QED
      BY <2>1, <2>2
<1>3. CASE UpsertHSet(r)
  <2> DEFINE info == [ipv4 |-> req[r].ipv4, status |-> req[r].status, retry |-> req[r].failures]
  <2>1. /\ hash' = Put(hash, req[r].id, info) /\ req[r].pc = "hset"
        /\ req' = [req EXCEPT ![r] = [req[r] EXCEPT !.pc = "sadd"]]
        /\ UNCHANGED <<rows, allIds, issued, users, disturbed>>
      BY <1>3 DEF UpsertHSet, CacheHSet, Goto
  <2>2. info \in Hash /\ req[r].id \in issued
      BY <1>0, <2>1, RequestIds DEF LocalsFit, Locals, Hash
  <2> HIDE DEF info
  <2>3. StoresFit'
      BY <2>1, <2>2, PutHash DEF ImportInv, StoresFit
  <2>4. LocalsFit([req[r] EXCEPT !.pc = "sadd"], issued')
      BY <1>0, <2>1, GotoFits, Zenon
  <2>5. HistoryFits'
      BY <1>0, <2>1 DEF HistoryFits
  <2> QED
      BY <2>1, <2>3, <2>4, <2>5, RequestChange, Zenon
<1>4. CASE UpsertSAdd(r) \/ CacheSRem(r)
  <2>1. /\ req[r].pc \in {"sadd", "srem"} /\ Return(r) /\ Leave(r, req[r].id)
        /\ allIds' \subseteq allIds \cup {req[r].id}
        /\ UNCHANGED <<rows, hash, issued>>
      BY <1>4 DEF UpsertSAdd, CacheSRem
  <2>2. req[r].id \in issued /\ req[r].id \in Servers
      BY <2>1, RequestIds
  <2>3. StoresFit'
      BY <2>1, <2>2 DEF ImportInv, StoresFit
  <2>4. HistoryFits'
      BY <1>0, <2>1, <2>2, HistoryStep
  <2> QED
      BY <2>1, <2>3, <2>4, IdleFits, RequestChange, Zenon DEF Return
<1>5. CASE CacheDel(r)
  <2>1. /\ hash' = Drop(hash, req[r].id) /\ req[r].pc = "del"
        /\ req' = [req EXCEPT ![r] = [req[r] EXCEPT !.pc = "srem"]]
        /\ UNCHANGED <<rows, allIds, issued, users, disturbed>>
      BY <1>5 DEF CacheDel, Goto
  <2>2. StoresFit'
      BY <2>1, DropHash DEF ImportInv, StoresFit
  <2>3. LocalsFit([req[r] EXCEPT !.pc = "srem"], issued')
      BY <1>0, <2>1, GotoFits, Zenon
  <2>4. HistoryFits'
      BY <1>0, <2>1 DEF HistoryFits
  <2> QED
      BY <2>1, <2>2, <2>3, <2>4, RequestChange, Zenon
<1>6. ~UpdateServerRow(r)
    BY <1>0 DEF LocalsFit, UpdateServerRow
<1> QED
    BY <1>1, <1>2, <1>3, <1>4, <1>5, <1>6, CreateRowType, DeleteServerRowType DEF RequestStep

LEMMA RequestType ==
    ASSUME ImportInv, NEW r \in Requests, Request(r)
    PROVE  ImportInv'
<1>0. UNCHANGED <<imp, given>>
    BY DEF Request
<1>1. ASSUME NEW name \in Names, NEW ipv4 \in IPs, CreateServer(r, name, ipv4) PROVE ImportInv'
  <2>1. HistoryFits' /\ UNCHANGED <<rows, hash, allIds, issued>>
      BY <1>1, Zenon DEF CreateServer, storeVars, ImportInv, HistoryFits
  <2> QED
      BY <1>0, <1>1, <2>1, CreatingFits, RequestOnly, Zenon DEF CreateServer
<1>2. ASSUME NEW id \in Servers, DeleteServer(r, id) PROVE ImportInv'
  <2>1. /\ id \in issued /\ Enter(r, id) /\ UNCHANGED <<rows, hash, allIds, issued>>
        /\ req' = [req EXCEPT ![r] = [Idle EXCEPT !.pc = "delete", !.id = id]]
      BY <1>2, Zenon DEF DeleteServer, ImportInv, StoresFit, RowsFit
  <2>2. HistoryFits'
      BY <2>1, HistoryStep DEF ImportInv
  <2> QED
      BY <1>0, <2>1, <2>2, DeletingFits, RequestOnly, Zenon
<1>3. CASE DBError(r)
    BY <1>0, <1>3, IdleFits, RequestIds, RequestOnly, Zenon DEF DBError, Return
<1>4. CASE RedisError(r)
  <2>1. HistoryFits'
      BY <1>4, RequestIds, HistoryStep DEF RedisError, ImportInv
  <2> QED
      BY <1>0, <1>4, <2>1, IdleFits, RequestOnly, Zenon DEF RedisError, Return
<1>5. CASE RequestStep(r)
    BY <1>0, <1>5, RequestTypeStep
<1> QED
    BY <1>1, <1>2, <1>3, <1>4, <1>5, Zenon DEF Request
-----------------------------------------------------------------------------
(* Imports *)

LEMMA PartOfIs ==
    ASSUME NEW S, NEW f
    PROVE  f \in PartOf(S) <=> DOMAIN f \subseteq 1..MaxLines /\ f \in [DOMAIN f -> S]
  BY Zenon DEF PartOf

LEMMA NothingFits == ASSUME NEW S PROVE Nothing \in PartOf(S) /\ DOMAIN Nothing = {}
<1>1. DOMAIN Nothing = {} /\ Nothing \in [{} -> S]
    BY DEF Nothing
<1> QED BY <1>1, PartOfIs, Zenon

LEMMA NotImportingFits == ASSUME NEW ids PROVE ImportFits(NotImporting, NotGiven, ids)
<1>1. <<>> \in Files
    <2>1. <<>> \in Seq(Lines) /\ Len(<<>>) <= MaxLines
        BY ImportAssumption
    <2> QED BY <2>1, FilesAre, Zenon
<1>2. NotImporting \in ImportLocals
    BY <1>1, NothingFits DEF NotImporting, ImportLocals
<1>3. LinesFit(NotImporting, ids)
    BY <1>2, NothingFits DEF NotImporting, LinesFit
<1>4. GivenFits(NotGiven, ids)
    <2>1. Nothing \in [DOMAIN Nothing -> Row]
        BY NothingFits, PartOfIs
    <2> QED BY <2>1 DEF NotGiven, GivenFits
<1>5. CountsFit(NotImporting, NotGiven)
    BY NothingFits, FS_EmptySet DEF NotImporting, NotGiven, CountsFit
<1>6. SelectedFits(NotImporting, NotGiven)
    BY DEF NotImporting, SelectedFits
<1> QED BY <1>3, <1>4, <1>5, <1>6 DEF ImportFits

\* One import assigns its local variables; the stores keep their types
LEMMA ImportChange ==
    ASSUME ImportInv, NEW i \in Importers, NEW v, NEW g,
           imp' = [imp EXCEPT ![i] = v], given' = [given EXCEPT ![i] = g],
           ImportFits(v, g, issued'), issued \subseteq issued', StoresFit', HistoryFits',
           UNCHANGED req
    PROVE  ImportInv'
<1>1. RequestsFit'
  <2>1. \A x \in Requests : LocalsFit(req[x], issued')
      BY DEF ImportInv, RequestsFit, LocalsFit
  <2> QED
      BY <2>1 DEF ImportInv, RequestsFit
<1>2. ImportsFit'
  <2>1. v \in ImportLocals /\ imp \in [Importers -> ImportLocals] /\ given = [j \in Importers |-> given[j]]
      BY DEF ImportInv, ImportsFit, ImportFits, LinesFit
  <2>2. imp' \in [Importers -> ImportLocals] /\ given' = [j \in Importers |-> given'[j]]
      BY <2>1
  <2>3. \A j \in Importers : IF j = i THEN imp'[j] = v /\ given'[j] = g
                             ELSE imp'[j] = imp[j] /\ given'[j] = given[j]
      BY <2>1
  <2>4. ASSUME NEW j \in Importers PROVE ImportFits(imp[j], given[j], issued')
    <3>1. ImportFits(imp[j], given[j], issued)
        BY DEF ImportInv, ImportsFit
    <3>2. LinesFit(imp[j], issued') /\ GivenFits(given[j], issued')
        BY <3>1 DEF ImportFits, LinesFit, GivenFits
    <3> QED
        BY <3>1, <3>2 DEF ImportFits
  <2>5. \A j \in Importers : ImportFits(imp'[j], given'[j], issued')
      BY <2>3, <2>4, Zenon
  <2> QED
      BY <2>2, <2>5, Zenon DEF ImportsFit
<1> QED
    BY <1>1, <1>2 DEF ImportInv

\* ... and leaves the stores alone
LEMMA ImportOnly ==
    ASSUME ImportInv, NEW i \in Importers, NEW v, NEW g,
           imp' = [imp EXCEPT ![i] = v], given' = [given EXCEPT ![i] = g],
           ImportFits(v, g, issued), UNCHANGED <<storeVars, req>>
    PROVE  ImportInv'
<1>1. StoresFit' /\ HistoryFits' /\ UNCHANGED issued
    BY DEF ImportInv, StoresFit, HistoryFits, storeVars
<1> QED
    BY <1>1, ImportChange, Zenon

LEMMA ImportServersType ==
    ASSUME ImportInv, NEW i \in Importers, NEW file \in Files, ImportServers(i, file)
    PROVE  ImportInv'
<1> DEFINE v == [NotImporting EXCEPT !.pc = "find", !.rest = file]
           g == [NotGiven EXCEPT !.lines = Len(file)]
<1>1. /\ v.pc = "find" /\ v.rest = file /\ v.valid = Nothing /\ v.items = Nothing
      /\ v.success = 0 /\ v.fail = 0
      /\ g.lines = Len(file) /\ g.stored = {} /\ g.checked = Nothing
    BY DEF NotImporting, NotGiven
<1>2. imp' = [imp EXCEPT ![i] = v] /\ given' = [given EXCEPT ![i] = g] /\ UNCHANGED <<storeVars, req>>
    BY Zenon DEF ImportServers
<1>3. Len(file) \in Nat
    BY FilesAre
<1>4. v \in ImportLocals
    <2>1. NotImporting \in ImportLocals
        BY NotImportingFits DEF ImportFits, LinesFit
    <2> QED BY <2>1, Zenon DEF ImportLocals
<1>5. DOMAIN g = {"lines", "stored", "checked"}
    BY DEF NotGiven
<1> HIDE DEF v, g
<1>6. LinesFit(v, issued)
    BY <1>1, <1>4, NothingFits DEF LinesFit
<1>7. GivenFits(g, issued)
    <2>1. Nothing \in [DOMAIN Nothing -> Row]
        BY NothingFits, PartOfIs
    <2> QED BY <1>1, <1>3, <1>5, <2>1, Zenon DEF GivenFits
<1>8. CountsFit(v, g)
    <2>1. Cardinality(g.stored) = 0 /\ Cardinality(DOMAIN v.valid) = 0 /\ IsFiniteSet(g.stored)
        BY <1>1, NothingFits, FS_EmptySet
    <2> QED BY <1>1, <1>3, <2>1 DEF CountsFit
<1>9. SelectedFits(v, g)
    BY <1>1 DEF SelectedFits
<1> QED BY <1>2, <1>6, <1>7, <1>8, <1>9, ImportOnly, Zenon DEF ImportFits

LEMMA FinishType ==
    ASSUME ImportInv, NEW i \in Importers, Finish(i), UNCHANGED <<storeVars, req>>
    PROVE  ImportInv'
  BY NotImportingFits, ImportOnly, Zenon DEF Finish

(* A batch is read and checked: its counts add up, and what it keeps       *)
(* clashes with no row.                                                    *)
LEMMA FindExistingType ==
    ASSUME ImportInv, NEW i \in Importers, FindExisting(i)
    PROVE  ImportInv'
<1> DEFINE rest  == imp[i].rest
           n     == LinesOfBatch(rest)
           batch == ValidLines(rest, n)
           found == FindByNamesOrIPv4s({rest[k] : k \in batch})
           kept  == SelectNew(rest, batch, found)
           v == [imp[i] EXCEPT !.pc = IF kept = {} THEN "find" ELSE "create",
                               !.rest = SubSeq(rest, n + 1, Len(rest)),
                               !.valid = [k \in kept |-> rest[k]],
                               !.success = imp[i].success + Cardinality(kept),
                               !.fail = imp[i].fail + n - Cardinality(kept)]
           g == [given[i] EXCEPT !.checked = rows]
<1>0. /\ LinesFit(imp[i], issued) /\ GivenFits(given[i], issued) /\ CountsFit(imp[i], given[i])
      /\ imp[i].pc = "find" /\ UNCHANGED <<storeVars, req>>
    BY DEF ImportInv, ImportsFit, ImportFits, FindExisting
<1>1. CASE rest = <<>>
    BY <1>0, <1>1, FinishType DEF FindExisting
<1>2. CASE rest # <<>>
  <2>1. imp' = [imp EXCEPT ![i] = v] /\ given' = [given EXCEPT ![i] = g]
    <3>1. imp' = [imp EXCEPT ![i] = v]
        BY <1>2, Zenon DEF FindExisting
    <3>2. given' = [given EXCEPT ![i] = g]
        BY <1>2 DEF FindExisting
    <3> QED BY <3>1, <3>2
  <2>2. rest \in Files /\ imp[i] \in ImportLocals
      BY <1>0 DEF LinesFit, ImportLocals
  <2>3. n \in 1..Len(rest) /\ Len(rest) \in Nat /\ rest \in Seq(Lines) /\ Len(rest) <= MaxLines
      BY <1>2, <2>2, BatchSome, FilesAre
  <2>4. /\ kept \subseteq batch
        /\ \A k \in kept : ~\E s \in found : Clash(rest[k], s)
        /\ \A j, k \in kept : j < k => ~Clash(rest[k], rest[j])
      BY <2>2, <2>3, SelectNewKeeps, Zenon
  <2>5. \A k \in batch : k \in 1..n /\ k \in 1..Len(rest) /\ rest[k] \in Lines \ {None}
      BY <2>3 DEF ValidLines
  <2>6. /\ SubSeq(rest, n + 1, Len(rest)) \in Files
        /\ Len(SubSeq(rest, n + 1, Len(rest))) = Len(rest) - n
      BY <2>2, <2>3, RestOfFile, Zenon
  <2>7. /\ v.pc = IF kept = {} THEN "find" ELSE "create"
        /\ v.rest = SubSeq(rest, n + 1, Len(rest)) /\ v.valid = [k \in kept |-> rest[k]]
        /\ v.items = imp[i].items
        /\ v.success = imp[i].success + Cardinality(kept)
        /\ v.fail = imp[i].fail + n - Cardinality(kept)
      BY <2>2, ZenonT(30) DEF ImportLocals
  <2>8. DOMAIN g = {"lines", "stored", "checked"} /\ g.lines = given[i].lines
        /\ g.stored = given[i].stored /\ g.checked = rows
      BY <1>0 DEF GivenFits
  <2>9. /\ v.pc \in {"find", "create"} /\ v.rest \in Files /\ v.valid \in PartOf(Lines \ {None})
        /\ v.success \in Nat /\ v.fail \in Nat
        /\ IsFiniteSet(kept) /\ Cardinality(kept) \in Nat /\ Cardinality(kept) <= n
    <3>1. kept \subseteq 1..n /\ n \in Nat
      <4> HIDE DEF rest, n, batch, found, kept, v, g
      <4>1. n \in Nat
          BY <2>3
      <4>2. \A k \in batch : k \in 1..n
          BY <2>5, Zenon
      <4> QED BY <2>4, <4>1, <4>2
    <3>2. IsFiniteSet(kept) /\ Cardinality(kept) \in Nat /\ Cardinality(kept) <= n
        BY <3>1, KeptCounted
    <3>3. imp[i].success \in Nat /\ imp[i].fail \in Nat
        BY <2>2 DEF ImportLocals
    <3>4. v.success \in Nat /\ v.fail \in Nat
      <4> HIDE DEF v, n, kept
      <4> QED BY <2>7, <3>1, <3>2, <3>3
    <3>5. v.valid \in PartOf(Lines \ {None})
      <4>1. kept \subseteq 1..MaxLines
        <5>1. MaxLines \in Nat
            BY ImportAssumption
        <5> HIDE DEF kept, n
        <5> QED BY <2>3, <3>1, <5>1
      <4>2. DOMAIN v.valid = kept /\ v.valid \in [kept -> Lines \ {None}]
        <5> HIDE DEF v, kept, batch
        <5> QED BY <2>4, <2>5, <2>7
      <4> HIDE DEF v, kept
      <4> QED BY <4>1, <4>2, PartOfIs
    <3>6. v.pc \in {"find", "create"} /\ v.rest \in Files
      <4> HIDE DEF v, kept, n
      <4> QED BY <2>6, <2>7
    <3> QED BY <3>2, <3>4, <3>5, <3>6, ZenonT(30)
  <2>10. v \in ImportLocals
    <3>1. imp[i].items \in PartOf([id: Servers, ipv4: IPs])
        BY <2>2 DEF ImportLocals
    <3>2. DOMAIN v = DOMAIN imp[i] /\ v = [x \in DOMAIN v |-> v[x]]
        BY ZenonT(30)
    <3>3. DOMAIN v = {"pc", "rest", "valid", "items", "success", "fail"}
        BY <2>2, <3>2, Zenon DEF ImportLocals
    <3> HIDE DEF v
    <3> QED BY <2>7, <2>9, <3>1, <3>2, <3>3, Zenon DEF ImportLocals
  <2> HIDE DEF v, g, kept, n
  <2>11. DOMAIN v.valid = kept /\ \A k \in kept : v.valid[k] = rest[k]
      BY <2>7
  <2>12. LinesFit(v, issued)
    <3>1. DOMAIN imp[i].items = {}
        BY <1>0 DEF LinesFit
    <3> QED BY <2>7, <2>10, <2>11, <3>1, ZenonT(30) DEF LinesFit
  <2>13. GivenFits(g, issued)
    <3>1. rows \in [DOMAIN rows -> Row]
        BY DEF ImportInv, StoresFit, RowsFit
    <3> QED BY <1>0, <2>8, <3>1, Zenon DEF GivenFits
  <2>14. CountsFit(v, g)
    <3>1. DOMAIN imp[i].valid = {} /\ Cardinality({}) = 0
        BY <1>0, FS_EmptySet DEF LinesFit
    <3>2. /\ IsFiniteSet(g.stored) /\ Cardinality(g.stored) \in Nat
          /\ imp[i].success = Cardinality(g.stored)
          /\ imp[i].success + imp[i].fail + Len(rest) = g.lines
      <4>1. IsFiniteSet(g.stored)
          BY <1>0, <2>8 DEF CountsFit
      <4>2. Cardinality(g.stored) \in Nat
          BY <4>1, FS_CardinalityType
      <4>3. imp[i].success = Cardinality(g.stored) + 0
          BY <1>0, <2>8, <3>1, Zenon DEF CountsFit
      <4>4. imp[i].success + imp[i].fail + Len(rest) = g.lines
          BY <1>0, <2>8 DEF CountsFit
      <4> QED BY <4>1, <4>2, <4>3, <4>4
    <3>3. v.success = Cardinality(g.stored) + Cardinality(DOMAIN v.valid)
        BY <2>7, <2>11, <3>2
    <3>4. imp[i].success \in Nat /\ imp[i].fail \in Nat
        BY <2>2 DEF ImportLocals
    <3>5. v.success + v.fail + Len(v.rest) = g.lines
      <4> DEFINE c == Cardinality(kept)
                 l == Len(rest)
      <4>1. /\ v.success = imp[i].success + c /\ v.fail = imp[i].fail + n - c
            /\ Len(v.rest) = l - n /\ imp[i].success + imp[i].fail + l = g.lines
          BY <2>6, <2>7, <3>2, Zenon
      <4>2. c \in Nat /\ l \in Nat /\ n \in Nat
          BY <2>3, <2>9
      <4> HIDE DEF c, l
      <4> QED BY <3>4, <4>1, <4>2
    <3> QED BY <3>2, <3>3, <3>5 DEF CountsFit
  <2>15. SelectedFits(v, g)
    <3>1. ASSUME NEW k \in kept, NEW x \in DOMAIN rows PROVE ~Clash(rest[k], rows[x])
      <4>1. SUFFICES ASSUME Clash(rest[k], rows[x]) PROVE FALSE
          OBVIOUS
      <4>2. rest[k] \in {rest[j] : j \in batch}
          BY <2>4
      <4>3. rows[x] \in found
          BY <4>1, <4>2, Zenon DEF FindByNamesOrIPv4s
      <4> QED BY <2>4, <4>1, <4>3, Zenon
    <3>2. ASSUME NEW k \in kept, NEW j \in kept \ {k} PROVE ~Clash(rest[j], rest[k])
      <4>1. j \in Nat /\ k \in Nat /\ (j < k \/ k < j)
          BY <2>3, <2>4, <2>5
      <4> QED BY <2>4, <4>1, Zenon DEF Clash
    <3> QED BY <2>8, <2>11, <3>1, <3>2, Zenon DEF SelectedFits
  <2> QED
      BY <1>0, <2>1, <2>12, <2>13, <2>14, <2>15, ImportOnly, Zenon DEF ImportFits
<1> QED BY <1>1, <1>2

\* The lines of a batch, and the ids they get
LEMMA BatchIds ==
    ASSUME ImportInv, NEW i \in Importers
    PROVE  LET K == DOMAIN imp[i].valid
           IN  /\ K \subseteq 1..MaxLines /\ IsFiniteSet(K)
               /\ imp[i].valid \in [K -> [name: Names, ipv4: IPs]]
               /\ DOMAIN imp[i].items \subseteq 1..MaxLines
               /\ imp[i].items \in [DOMAIN imp[i].items -> [id: Servers, ipv4: IPs]]
               /\ \A k \in DOMAIN imp[i].items : imp[i].items[k].id \in issued
<1>1. LinesFit(imp[i], issued) /\ imp[i] \in ImportLocals
    BY DEF ImportInv, ImportsFit, ImportFits, LinesFit
<1>2. imp[i].valid \in PartOf(Lines \ {None}) /\ imp[i].items \in PartOf([id: Servers, ipv4: IPs])
    BY <1>1 DEF ImportLocals
<1>3. /\ DOMAIN imp[i].valid \subseteq 1..MaxLines
      /\ imp[i].valid \in [DOMAIN imp[i].valid -> Lines \ {None}]
      /\ DOMAIN imp[i].items \subseteq 1..MaxLines
      /\ imp[i].items \in [DOMAIN imp[i].items -> [id: Servers, ipv4: IPs]]
    BY <1>2, PartOfIs, Zenon
<1>4. Lines \ {None} \subseteq [name: Names, ipv4: IPs]
    BY Zenon DEF Lines
<1>5. imp[i].valid \in [DOMAIN imp[i].valid -> [name: Names, ipv4: IPs]]
    BY <1>3, <1>4
<1>6. IsFiniteSet(DOMAIN imp[i].valid)
    BY <1>3, ImportAssumption, KeptCounted
<1> QED BY <1>1, <1>3, <1>5, <1>6, Zenon DEF LinesFit

NewRow(l) == [name |-> l.name, ipv4 |-> l.ipv4, status |-> "ONLINE", failures |-> 0]

\* The rows of valid were added under ids, and nothing else changed
Added(K, ids, valid) ==
    /\ DOMAIN rows' = DOMAIN rows \cup Range(ids)
    /\ \A x \in DOMAIN rows : rows'[x] = rows[x]
    /\ \A x \in Range(ids) : \E k \in K : ids[k] = x
    /\ \A k \in K : ids[k] \in Servers \ issued /\ ids[k] \in Range(ids)
    /\ \A k \in K : rows'[ids[k]] = NewRow(valid[k])

(* The INSERT of a batch keeps the table's rows and adds one for every     *)
(* line.                                                                   *)
LEMMA InsertAllRows ==
    ASSUME RowsFit(rows, issued), NEW K, NEW valid \in [K -> [name: Names, ipv4: IPs]],
           NEW ids \in Injection(K, Servers \ issued), InsertAll(ids, valid)
    PROVE  Added(K, ids, valid) /\ RowsFit(rows', issued')
<1> DEFINE inv == AntiFunction(ids)
<1>1. ids \in [K -> Servers \ issued] /\ \A j, k \in K : ids[j] = ids[k] => j = k
    BY DEF Injection, IsInjective
<1>2. \A x \in Range(ids) : \E k \in K : ids[k] = x
    BY <1>1 DEF Range
<1>3. \A k \in K : ids[k] \in Servers \ issued /\ ids[k] \in Range(ids)
    BY <1>1 DEF Range
<1>4. \A k \in K : inv[ids[k]] = k
    <2> TAKE k \in K
    <2>1. DOMAIN ids = K
        BY <1>1
    <2>2. inv[ids[k]] = CHOOSE s \in K : ids[k] \in Range(ids) => ids[s] = ids[k]
        BY <1>3, <2>1, Zenon DEF AntiFunction, Inverse
    <2>3. ids[k] \in Range(ids)
        BY <1>3
    <2> QED BY <1>1, <2>2, <2>3, Zenon
<1>5. rows' = [id \in DOMAIN rows \cup Range(ids) |->
                  IF id \in DOMAIN rows THEN rows[id] ELSE NewRow(valid[inv[id]])]
    BY Zenon DEF InsertAll, NewRow
<1>6. issued' = issued \cup Range(ids) /\ DOMAIN rows \subseteq issued /\ rows \in [DOMAIN rows -> Row]
    BY Zenon DEF InsertAll, RowsFit
<1> HIDE DEF inv
<1>7. DOMAIN rows' = DOMAIN rows \cup Range(ids) /\ \A x \in DOMAIN rows : rows'[x] = rows[x]
    BY <1>5
<1>8. \A k \in K : rows'[ids[k]] = NewRow(valid[k])
    <2> TAKE k \in K
    <2>1. ids[k] \notin DOMAIN rows /\ ids[k] \in Range(ids)
        BY <1>3, <1>6
    <2>2. rows'[ids[k]] = NewRow(valid[inv[ids[k]]])
        BY <1>5, <2>1, Zenon
    <2> QED BY <1>4, <2>2, Zenon
<1>9. \A k \in K : NewRow(valid[k]) \in Row
    BY DEF NewRow, Row, Status
<1>10. \A x \in DOMAIN rows' : rows'[x] \in Row
    BY <1>2, <1>6, <1>7, <1>8, <1>9
<1>11. rows' \in [DOMAIN rows' -> Row]
    <2>1. rows' = [x \in DOMAIN rows' |-> rows'[x]]
        BY <1>5
    <2> QED BY <1>10, <2>1
<1>12. RowsFit(rows', issued')
    BY <1>6, <1>7, <1>11 DEF RowsFit
<1> QED BY <1>2, <1>3, <1>7, <1>8, <1>12, Zenon DEF Added

LEMMA BatchCreateType ==
    ASSUME ImportInv, NEW i \in Importers, BatchCreate(i)
    PROVE  ImportInv'
<1> DEFINE valid == imp[i].valid
           K == DOMAIN valid
<1>0. /\ LinesFit(imp[i], issued) /\ GivenFits(given[i], issued) /\ CountsFit(imp[i], given[i])
      /\ imp[i].pc = "create" /\ imp[i] \in ImportLocals
      /\ UNCHANGED <<hash, allIds, disturbed, req>>
    BY DEF ImportInv, ImportsFit, ImportFits, LinesFit, BatchCreate
<1>1. CASE ~InsertAllowed(valid)
  <2>1. Finish(i) /\ UNCHANGED <<storeVars, req>>
      BY <1>1 DEF BatchCreate, storeVars
  <2> QED BY <2>1, FinishType
<1>2. CASE InsertAllowed(valid)
  <2>0. /\ K \subseteq 1..MaxLines /\ IsFiniteSet(K) /\ valid \in [K -> [name: Names, ipv4: IPs]]
        /\ K # {}
    <3>1. K # {}
        BY <1>0 DEF LinesFit
    <3> QED BY <3>1, BatchIds, Zenon
  <2>1. StoreBatch(i)
      BY <1>2 DEF BatchCreate
  <2>2. PICK ids \in Injection(K, Servers \ issued) :
          /\ InsertAll(ids, valid)
          /\ users' = [id \in Servers |-> IF id \in Range(ids) THEN users[id] \cup {i} ELSE users[id]]
          /\ imp' = [imp EXCEPT ![i] =
                      [imp[i] EXCEPT !.pc = "hset", !.valid = Nothing,
                                !.items = [k \in K |-> [id |-> ids[k], ipv4 |-> valid[k].ipv4]]]]
          /\ given' = [given EXCEPT ![i] = [given[i] EXCEPT !.stored = given[i].stored \cup Range(ids),
                                                            !.checked = Nothing]]
      BY <2>1, Zenon DEF StoreBatch
  <2> DEFINE items == [k \in K |-> [id |-> ids[k], ipv4 |-> valid[k].ipv4]]
             v == [imp[i] EXCEPT !.pc = "hset", !.valid = Nothing, !.items = items]
             g == [given[i] EXCEPT !.stored = given[i].stored \cup Range(ids), !.checked = Nothing]
  <2>3. imp' = [imp EXCEPT ![i] = v] /\ given' = [given EXCEPT ![i] = g]
      BY <2>2, Zenon
  <2>4. RowsFit(rows, issued) /\ issued \subseteq Servers /\ HashFit(hash, issued) /\ allIds \subseteq issued
      BY DEF ImportInv, StoresFit
  <2>5. /\ RowsFit(rows', issued')
        /\ \A k \in K : ids[k] \in Servers \ issued /\ ids[k] \in Range(ids)
        /\ \A x \in Range(ids) : \E k \in K : ids[k] = x
    <3>1. InsertAll(ids, valid)
        BY <2>2
    <3> HIDE DEF K, valid
    <3>2. Added(K, ids, valid) /\ RowsFit(rows', issued')
        BY <2>0, <2>4, <3>1, InsertAllRows, Zenon
    <3> QED BY <3>2, Zenon DEF Added
  <2>6. issued' = issued \cup Range(ids) /\ issued \subseteq issued' /\ issued' \subseteq Servers
    <3>1. issued' = issued \cup Range(ids)
        BY <2>2, Zenon DEF InsertAll
    <3> QED BY <2>4, <2>5, <3>1
  <2>7. StoresFit'
    <3>1. HashFit(hash', issued') /\ allIds' \subseteq issued'
        BY <1>0, <2>4, <2>6 DEF HashFit
    <3> QED BY <2>5, <2>6, <3>1, Zenon DEF StoresFit
  <2>8. HistoryFits'
    <3>1. users \in [Servers -> SUBSET (Requests \cup Importers)] /\ disturbed' \subseteq Servers
        BY <1>0 DEF ImportInv, HistoryFits
    <3>2. users' \in [Servers -> SUBSET (Requests \cup Importers)]
        BY <2>2, <3>1
    <3> QED BY <3>1, <3>2 DEF HistoryFits
  <2>9. items \in PartOf([id: Servers, ipv4: IPs]) /\ DOMAIN items = K
    <3>1. \A k \in K : [id |-> ids[k], ipv4 |-> valid[k].ipv4] \in [id: Servers, ipv4: IPs]
        BY <2>0, <2>5
    <3>2. DOMAIN items = K /\ items \in [K -> [id: Servers, ipv4: IPs]]
        BY <3>1
    <3> HIDE DEF items
    <3> QED BY <2>0, <3>2, PartOfIs, Zenon
  <2>10. \A k \in K : items[k].id \in issued'
      BY <2>5, <2>6
  <2> HIDE DEF items
  <2>11. /\ v.pc = "hset" /\ v.valid = Nothing /\ v.items = items /\ v.rest = imp[i].rest
         /\ v.success = imp[i].success /\ v.fail = imp[i].fail /\ v \in ImportLocals
    <3>1. Nothing \in PartOf(Lines \ {None})
        BY NothingFits
    <3> QED BY <1>0, <2>9, <3>1, Zenon DEF ImportLocals
  <2>12. /\ DOMAIN g = {"lines", "stored", "checked"} /\ g.lines = given[i].lines
         /\ g.stored = given[i].stored \cup Range(ids) /\ g.checked = Nothing
      BY <1>0 DEF GivenFits
  <2> HIDE DEF v, g
  <2>13. LinesFit(v, issued')
      BY <2>0, <2>9, <2>10, <2>11, NothingFits DEF LinesFit
  <2>14. GivenFits(g, issued')
    <3>1. Nothing \in [DOMAIN Nothing -> Row]
        BY NothingFits, PartOfIs
    <3>2. g.stored \subseteq issued' /\ g.lines \in Nat
        BY <1>0, <2>6, <2>12 DEF GivenFits
    <3> QED BY <2>12, <3>1, <3>2, Zenon DEF GivenFits
  <2>15. CountsFit(v, g)
    <3>1. given[i].stored \in SUBSET issued /\ IsFiniteSet(given[i].stored)
        BY <1>0 DEF GivenFits, CountsFit
    <3>2. /\ IsFiniteSet(g.stored)
          /\ Cardinality(g.stored) = Cardinality(given[i].stored) + Cardinality(K)
      <4> DEFINE st == given[i].stored
      <4>1. st \in SUBSET issued /\ IsFiniteSet(st) /\ IsFiniteSet(K)
          BY <2>0, <3>1
      <4> HIDE DEF K, valid, st
      <4>2. /\ IsFiniteSet(st \cup Range(ids))
            /\ Cardinality(st \cup Range(ids)) = Cardinality(st) + Cardinality(K)
          BY <4>1, IdsCounted, Zenon
      <4> QED BY <2>12, <4>2 DEF st
    <3>3. Cardinality(given[i].stored) \in Nat /\ Cardinality(K) \in Nat /\ Cardinality(DOMAIN v.valid) = 0
        BY <2>0, <2>11, <3>1, FS_CardinalityType, FS_EmptySet, NothingFits
    <3>4. imp[i].success = Cardinality(given[i].stored) + Cardinality(K)
        BY <1>0 DEF CountsFit
    <3>5. v.success = Cardinality(g.stored) + Cardinality(DOMAIN v.valid)
        BY <2>11, <3>2, <3>3, <3>4
    <3>6. v.success + v.fail + Len(v.rest) = g.lines
        BY <1>0, <2>11, <2>12 DEF CountsFit
    <3> QED BY <3>2, <3>5, <3>6 DEF CountsFit
  <2>16. SelectedFits(v, g)
      BY <2>11 DEF SelectedFits
  <2>17. UNCHANGED req
      BY <1>0
  <2> QED
      BY <2>3, <2>6, <2>7, <2>8, <2>13, <2>14, <2>15, <2>16, <2>17, ImportChange, Zenon DEF ImportFits
<1> QED BY <1>1, <1>2

\* The pipeline sends the item of the first line that is left
LEMMA SendingIn ==
    ASSUME ImportInv, NEW i \in Importers, imp[i].pc \in {"hset", "sadd"}
    PROVE  /\ Sending(i) \in DOMAIN imp[i].items
           /\ imp[i].items[Sending(i)].id \in issued /\ imp[i].items[Sending(i)].id \in Servers
           /\ imp[i].items[Sending(i)].ipv4 \in IPs
<1>1. LinesFit(imp[i], issued)
    BY DEF ImportInv, ImportsFit, ImportFits
<1>2. DOMAIN imp[i].items # {}
    BY <1>1 DEF LinesFit
<1>3. DOMAIN imp[i].items \subseteq 1..MaxLines /\ MaxLines \in Nat
    BY BatchIds, ImportAssumption, Zenon
<1>4. DOMAIN imp[i].items \in SUBSET Nat
    BY <1>3
<1>5. Sending(i) \in DOMAIN imp[i].items
    BY <1>2, <1>4, MinimumIn, Zenon DEF Sending
<1>6. /\ imp[i].items \in [DOMAIN imp[i].items -> [id: Servers, ipv4: IPs]]
      /\ \A k \in DOMAIN imp[i].items : imp[i].items[k].id \in issued
    BY BatchIds, Zenon
<1> QED BY <1>5, <1>6

\* An import assigns its program counter and its items
LEMMA ItemsFit ==
    ASSUME NEW ids, NEW v, NEW g, ImportFits(v, g, ids), v.pc \in {"hset", "sadd"},
           NEW pc \in {"find", "hset", "sadd"}, NEW items \in PartOf([id: Servers, ipv4: IPs]),
           pc = "find" <=> DOMAIN items = {}, \A k \in DOMAIN items : items[k].id \in ids
    PROVE  ImportFits([v EXCEPT !.pc = pc, !.items = items], g, ids)
<1> DEFINE w == [v EXCEPT !.pc = pc, !.items = items]
<1>1. /\ w.pc = pc /\ w.items = items /\ w.rest = v.rest /\ w.valid = v.valid
      /\ w.success = v.success /\ w.fail = v.fail /\ w \in ImportLocals
    BY Zenon DEF ImportFits, LinesFit, ImportLocals
<1> HIDE DEF w
<1>2. LinesFit(w, ids)
    <2>1. DOMAIN w.valid = {}
        BY <1>1 DEF ImportFits, LinesFit
    <2> QED BY <1>1, <2>1, Zenon DEF LinesFit
<1>3. CountsFit(w, g)
    BY <1>1 DEF ImportFits, CountsFit
<1>4. SelectedFits(w, g)
    BY <1>1 DEF SelectedFits
<1> QED BY <1>2, <1>3, <1>4 DEF ImportFits, w

LEMMA BatchHSetType ==
    ASSUME ImportInv, NEW i \in Importers, BatchHSet(i)
    PROVE  ImportInv'
<1> DEFINE item == imp[i].items[Sending(i)]
           info == [ipv4 |-> item.ipv4, status |-> "ONLINE", retry |-> 0]
           v == [imp[i] EXCEPT !.pc = "sadd", !.items = imp[i].items]
<1>1. /\ hash' = Put(hash, item.id, info) /\ imp[i].pc = "hset"
      /\ UNCHANGED <<rows, allIds, issued, users, disturbed, req, given>>
    BY Zenon DEF BatchHSet, CacheHSet
<1>2. ImportFits(imp[i], given[i], issued) /\ imp[i] \in ImportLocals
    BY DEF ImportInv, ImportsFit
<1>3. imp' = [imp EXCEPT ![i] = v]
    <2>1. imp' = [imp EXCEPT ![i] = [imp[i] EXCEPT !.pc = "sadd"]]
        BY DEF BatchHSet
    <2>2. v = [imp[i] EXCEPT !.pc = "sadd"]
        BY <1>2, Zenon DEF ImportLocals
    <2> QED BY <2>1, <2>2, Zenon
<1>4. given' = [given EXCEPT ![i] = given[i]]
    BY <1>1 DEF ImportInv, ImportsFit
<1>5. item.id \in issued /\ info \in Hash
    <2>1. item.id \in issued /\ item.ipv4 \in IPs
        BY <1>1, SendingIn
    <2> HIDE DEF item
    <2> QED BY <2>1 DEF Hash, Status
<1> HIDE DEF info, item
<1>6. StoresFit'
    BY <1>1, <1>5, PutHash DEF ImportInv, StoresFit
<1>7. HistoryFits'
    BY <1>1 DEF ImportInv, HistoryFits
<1>8. ImportFits(v, given[i], issued')
    <2>1. /\ imp[i].items \in PartOf([id: Servers, ipv4: IPs]) /\ DOMAIN imp[i].items # {}
          /\ \A k \in DOMAIN imp[i].items : imp[i].items[k].id \in issued
        BY <1>1, <1>2 DEF ImportFits, LinesFit, ImportLocals
    <2> QED BY <1>1, <1>2, <2>1, ItemsFit, ZenonT(30)
<1> HIDE DEF v
<1> QED BY <1>1, <1>3, <1>4, <1>6, <1>7, <1>8, ImportChange, Zenon

LEMMA BatchSAddType ==
    ASSUME ImportInv, NEW i \in Importers, BatchSAdd(i)
    PROVE  ImportInv'
<1> DEFINE id == imp[i].items[Sending(i)].id
           left == Drop(imp[i].items, Sending(i))
           pc == IF DOMAIN left = {} THEN "find" ELSE "hset"
           v == [imp[i] EXCEPT !.pc = pc, !.items = left]
<1>1. /\ imp[i].pc = "sadd" /\ allIds' = allIds \cup {id} /\ Leave(i, id)
      /\ imp' = [imp EXCEPT ![i] = v]
      /\ UNCHANGED <<rows, hash, issued, req, given>>
    BY Zenon DEF BatchSAdd, NextItem
<1>2. ImportFits(imp[i], given[i], issued)
    BY DEF ImportInv, ImportsFit
<1>3. given' = [given EXCEPT ![i] = given[i]]
    BY <1>1 DEF ImportInv, ImportsFit
<1>4. id \in issued /\ id \in Servers
    BY <1>1, SendingIn
<1>5. StoresFit'
    BY <1>1, <1>4 DEF ImportInv, StoresFit
<1>6. HistoryFits'
    <2> HIDE DEF id
    <2> QED BY <1>1, <1>4, HistoryStep DEF ImportInv
<1>7. left \in PartOf([id: Servers, ipv4: IPs]) /\ \A k \in DOMAIN left : left[k].id \in issued
    <2>1. /\ DOMAIN imp[i].items \subseteq 1..MaxLines
          /\ imp[i].items \in [DOMAIN imp[i].items -> [id: Servers, ipv4: IPs]]
          /\ \A k \in DOMAIN imp[i].items : imp[i].items[k].id \in issued
        BY BatchIds, Zenon
    <2>2. /\ DOMAIN left \subseteq DOMAIN imp[i].items
          /\ left \in [DOMAIN left -> [id: Servers, ipv4: IPs]]
          /\ \A k \in DOMAIN left : left[k] = imp[i].items[k]
        BY <2>1 DEF Drop, Restrict
    <2> HIDE DEF left
    <2>3. DOMAIN left \subseteq 1..MaxLines /\ \A k \in DOMAIN left : left[k].id \in issued
        BY <2>1, <2>2, Zenon
    <2> QED BY <2>2, <2>3, PartOfIs, Zenon
<1> HIDE DEF left
<1>8. ImportFits(v, given[i], issued')
    <2>1. pc \in {"find", "hset", "sadd"} /\ (pc = "find" <=> DOMAIN left = {})
        OBVIOUS
    <2> HIDE DEF pc
    <2> QED BY <1>1, <1>2, <1>7, <2>1, ItemsFit, Zenon
<1> HIDE DEF v
<1> QED BY <1>1, <1>3, <1>5, <1>6, <1>8, ImportChange, Zenon

LEMMA PipelineErrorType ==
    ASSUME ImportInv, NEW i \in Importers, PipelineError(i)
    PROVE  ImportInv'
<1> DEFINE v == [imp[i] EXCEPT !.pc = "find", !.items = Nothing]
<1>1. /\ imp[i].pc \in {"hset", "sadd"} /\ imp' = [imp EXCEPT ![i] = v]
      /\ users' = [x \in Servers |-> users[x] \ {i}] /\ disturbed' = disturbed \cup ItemIds(i)
      /\ UNCHANGED <<rows, hash, allIds, issued, req, given>>
    BY Zenon DEF PipelineError
<1>2. ImportFits(imp[i], given[i], issued)
    BY DEF ImportInv, ImportsFit
<1>3. given' = [given EXCEPT ![i] = given[i]]
    BY <1>1 DEF ImportInv, ImportsFit
<1>4. StoresFit'
    BY <1>1 DEF ImportInv, StoresFit
<1>5. HistoryFits'
    <2>1. ItemIds(i) \subseteq Servers
        BY ImportInvTypes DEF TypeOK, StoresTypeOK
    <2> QED BY <1>1, <2>1 DEF ImportInv, HistoryFits
<1>6. ImportFits(v, given[i], issued')
    BY <1>1, <1>2, NothingFits, ItemsFit, Zenon
<1> HIDE DEF v
<1> QED BY <1>1, <1>3, <1>4, <1>5, <1>6, ImportChange, Zenon

LEMMA CrashType ==
    ASSUME ImportInv, Crash
    PROVE  ImportInv'
<1>1. StoresFit' /\ UNCHANGED issued
    BY DEF Crash, ImportInv, StoresFit
<1>2. RequestsFit'
    BY IdleFits, Zenon DEF Crash, RequestsFit, LocalsFit
<1>3. ImportsFit'
    <2>1. NotImporting \in ImportLocals
        BY NotImportingFits DEF ImportFits, LinesFit
    <2>2. imp' = [i \in Importers |-> NotImporting] /\ given' = [i \in Importers |-> NotGiven]
        BY Zenon DEF Crash
    <2>3. \A i \in Importers : ImportFits(imp'[i], given'[i], issued')
        BY <2>2, NotImportingFits, Zenon
    <2>4. imp' \in [Importers -> ImportLocals] /\ given' = [i \in Importers |-> given'[i]]
        BY <2>1, <2>2
    <2> QED BY <2>3, <2>4, Zenon DEF ImportsFit
<1>4. HistoryFits'
    <2>1. \A i \in Importers : ItemIds(i) \subseteq Servers
        BY ImportInvTypes DEF TypeOK, StoresTypeOK
    <2>2. \A r \in Requests : req[r].pc \in {"hset", "sadd", "del", "srem"} => req[r].id \in Servers
        BY RequestIds
    <2>3. disturbed \subseteq Servers
        BY DEF ImportInv, HistoryFits
    <2> DEFINE A == UNION {ItemIds(i) : i \in Importers}
               B == {req[r].id : r \in {q \in Requests : req[q].pc \in {"hset", "sadd", "del", "srem"}}}
    <2>4. A \subseteq Servers
        BY <2>1
    <2>5. B \subseteq Servers
        BY <2>2
    <2>6. disturbed' \subseteq Servers
      <3>1. disturbed' = disturbed \cup A \cup B
          BY Zenon DEF Crash
      <3> HIDE DEF A, B
      <3> QED BY <2>3, <2>4, <2>5, <3>1
    <2>7. users' \in [Servers -> SUBSET (Requests \cup Importers)]
        BY DEF Crash
    <2> QED BY <2>6, <2>7 DEF HistoryFits
<1> QED BY <1>1, <1>2, <1>3, <1>4 DEF ImportInv

LEMMA ImportStepType ==
    ASSUME ImportInv, NEW i \in Importers, ImportStep(i)
    PROVE  ImportInv'
<1>1. CASE ImportDBError(i)
    BY <1>1, FinishType DEF ImportDBError
<1> QED
    BY <1>1, FindExistingType, BatchCreateType, BatchHSetType, BatchSAddType, PipelineErrorType, ZenonT(30)
       DEF ImportStep
-----------------------------------------------------------------------------
(* Theorems *)

LEMMA ImportInitial == Init => ImportInv
<1> SUFFICES ASSUME Init PROVE ImportInv
    OBVIOUS
<1>1. StoresFit
    BY DEF Init, StoresInit, StoresFit, RowsFit, HashFit
<1>2. HistoryFits
    BY DEF Init, StoresInit, HistoryFits
<1>3. RequestsFit
    BY IdleFits, Zenon DEF Init, MgmtInit, RequestsFit, LocalsFit
<1>4. ImportsFit
    <2>1. NotImporting \in ImportLocals
        BY NotImportingFits DEF ImportFits, LinesFit
    <2>2. imp = [i \in Importers |-> NotImporting] /\ given = [i \in Importers |-> NotGiven]
        BY Zenon DEF Init, ImportInit
    <2>3. \A i \in Importers : ImportFits(imp[i], given[i], issued)
        BY <2>2, NotImportingFits, Zenon
    <2>4. imp \in [Importers -> ImportLocals] /\ given = [i \in Importers |-> given[i]]
        BY <2>1, <2>2
    <2> QED BY <2>3, <2>4, Zenon DEF ImportsFit
<1> QED BY <1>1, <1>2, <1>3, <1>4 DEF ImportInv

LEMMA ImportInvStutter ==
    ASSUME ImportInv, UNCHANGED importVars
    PROVE  ImportInv'
<1>1. UNCHANGED <<rows, hash, allIds, issued, users, disturbed, req, imp, given>>
    BY DEF importVars, storeVars
<1>2. StoresFit' /\ HistoryFits' /\ RequestsFit'
    BY <1>1 DEF ImportInv, StoresFit, HistoryFits, RequestsFit
<1>3. ImportsFit'
    BY <1>1 DEF ImportInv, ImportsFit
<1> QED BY <1>2, <1>3 DEF ImportInv

(* ImportInv holds in every reachable state. *)
THEOREM ImportInductive == Spec => []ImportInv
<1>1. ImportInv /\ [ImportNext]_importVars => ImportInv'
  <2> SUFFICES ASSUME ImportInv, [ImportNext]_importVars PROVE ImportInv'
      OBVIOUS
  <2>1. ASSUME NEW i \in Importers, NEW file \in Files, ImportServers(i, file) PROVE ImportInv'
      BY <2>1, ImportServersType
  <2>2. ASSUME NEW i \in Importers, ImportStep(i) PROVE ImportInv'
      BY <2>2, ImportStepType
  <2>3. ASSUME NEW r \in Requests, Request(r) PROVE ImportInv'
      BY <2>3, RequestType
  <2> QED
      BY <2>1, <2>2, <2>3, CrashType, ImportInvStutter, Zenon DEF ImportNext
<1> QED
    BY <1>1, ImportInitial, PTL DEF Spec

(* Types of every variable of an import and of the stores it shares with   *)
(* the requests; a pending batch is never empty, and every id an import    *)
(* still has to send was generated.                                        *)
THEOREM ImportsAreTyped == Spec => []TypeOK
  BY ImportInductive, ImportInvTypes, PTL

(* The counts an import answers are true, for files and batches of any     *)
(* length (import_export.go:100-183).                                      *)
THEOREM ImportCountsAreTrue == Spec => []CountsAreTrue
<1>1. ImportInv => CountsAreTrue
  <2> SUFFICES ASSUME ImportInv, NEW i \in Importers, imp[i].pc = "find", imp[i].rest = <<>>
               PROVE  /\ imp[i].success = Cardinality(given[i].stored)
                      /\ imp[i].success + imp[i].fail = given[i].lines
      BY Zenon DEF CountsAreTrue
  <2>1. LinesFit(imp[i], issued) /\ CountsFit(imp[i], given[i]) /\ imp[i] \in ImportLocals
      BY DEF ImportInv, ImportsFit, ImportFits
  <2>2. DOMAIN imp[i].valid = {} /\ imp[i].success \in Nat /\ imp[i].fail \in Nat
      BY <2>1 DEF LinesFit, ImportLocals
  <2>3. Cardinality(DOMAIN imp[i].valid) = 0 /\ Len(imp[i].rest) = 0
      BY <2>2, FS_EmptySet
  <2>4. Cardinality(given[i].stored) \in Nat
      BY <2>1, FS_CardinalityType DEF CountsFit
  <2>5. /\ imp[i].success = Cardinality(given[i].stored) + 0
        /\ imp[i].success + imp[i].fail + 0 = given[i].lines
      BY <2>1, <2>3 DEF CountsFit
  <2> QED
      BY <2>2, <2>4, <2>5
<1> QED
    BY <1>1, ImportInductive, PTL

(* Duplicates alone never fail an import: a batch that was checked against *)
(* the table as it still is passes the unique indexes                      *)
(* (import_export.go:88-117).                                              *)
THEOREM ImportSkipsDuplicates == Spec => []DuplicatesAreSkipped
<1>1. ImportInv => DuplicatesAreSkipped
  <2> SUFFICES ASSUME ImportInv, NEW i \in Importers, imp[i].pc = "create", rows = given[i].checked
               PROVE  InsertAllowed(imp[i].valid)
      BY Zenon DEF DuplicatesAreSkipped
  <2>1. SelectedFits(imp[i], given[i])
      BY DEF ImportInv, ImportsFit, ImportFits
  <2>2. \A k \in DOMAIN imp[i].valid :
           /\ \A x \in DOMAIN rows : ~Clash(imp[i].valid[k], rows[x])
           /\ \A j \in DOMAIN imp[i].valid \ {k} : ~Clash(imp[i].valid[j], imp[i].valid[k])
      BY <2>1 DEF SelectedFits
  <2> QED
      BY <2>2, Zenon DEF InsertAllowed, UniqueIndexes, NameTaken, IPv4Taken, Clash
<1> QED
    BY <1>1, ImportInductive, PTL

\* What a step does to the table
TableStep ==
    \/ UNCHANGED rows
    \/ \E id \in Servers \ issued, row \in Row :
          rows' = Put(rows, id, row) /\ UniqueIndexes(None, row.name, row.ipv4)
    \/ \E id : rows' = Drop(rows, id)
    \/ \E i \in Importers : InsertAllowed(imp[i].valid) /\ StoreBatch(i)

LEMMA TableSteps ==
    ASSUME ImportInv, [ImportNext]_importVars
    PROVE  TableStep
<1>1. ASSUME NEW i \in Importers, NEW file \in Files, ImportServers(i, file) PROVE TableStep
    BY <1>1 DEF ImportServers, storeVars, TableStep
<1>2. ASSUME NEW i \in Importers, ImportStep(i) PROVE TableStep
  <2>1. CASE BatchCreate(i)
      BY <2>1, Zenon DEF BatchCreate, TableStep
  <2>2. CASE ~BatchCreate(i)
      BY <1>2, <2>2, Zenon
         DEF ImportStep, FindExisting, BatchHSet, BatchSAdd, PipelineError, ImportDBError, storeVars,
             TableStep
  <2> QED BY <2>1, <2>2
<1>3. ASSUME NEW r \in Requests, Request(r) PROVE TableStep
  <2>1. CASE CreateRow(r)
    <3>1. CASE ~UniqueIndexes(None, req[r].name, req[r].ipv4)
        BY <2>1, <3>1, Zenon DEF CreateRow, TableStep
    <3>2. CASE UniqueIndexes(None, req[r].name, req[r].ipv4)
      <4> DEFINE row == [name |-> req[r].name, ipv4 |-> req[r].ipv4, status |-> "ONLINE", failures |-> 0]
      <4>1. PICK id \in Servers \ issued : rows' = Put(rows, id, row)
          BY <2>1, <3>2, ZenonT(30) DEF CreateRow, Insert
      <4>2. LocalsFit(req[r], issued) /\ req[r].pc = "create"
          BY <2>1, RequestIds, ZenonT(30) DEF CreateRow
      <4>3. row \in Row /\ row.name = req[r].name /\ row.ipv4 = req[r].ipv4
          BY <4>2 DEF LocalsFit, Row, Status
      <4> HIDE DEF row
      <4> QED BY <3>2, <4>1, <4>3, Zenon DEF TableStep
    <3> QED BY <3>1, <3>2
  <2>2. CASE DeleteServerRow(r)
      BY <2>2, ZenonT(30) DEF DeleteServerRow, DeleteRow, TableStep
  <2>3. ~UpdateServerRow(r)
      BY RequestIds, Zenon DEF LocalsFit, UpdateServerRow
  <2>4. CASE ~CreateRow(r) /\ ~DeleteServerRow(r)
      BY <1>3, <2>3, <2>4, ZenonT(30)
         DEF Request, CreateServer, DeleteServer, RequestStep, CheckName, CheckIPv4, UpsertHSet,
             UpsertSAdd, CacheDel, CacheSRem, DBError, RedisError, storeVars, TableStep
  <2> QED BY <2>1, <2>2, <2>4
<1>4. CASE Crash
    BY <1>4, Zenon DEF Crash, TableStep
<1>5. CASE UNCHANGED importVars
    BY <1>5 DEF importVars, storeVars, TableStep
<1> QED
    BY <1>1, <1>2, <1>3, <1>4, <1>5, Zenon DEF ImportNext

(* The unique indexes hold beside imports, which insert several rows in    *)
(* one statement (domain/server.go:24-25, import_export.go:117).           *)
THEOREM ImportKeepsServersUnique == Spec => []UniqueServers
<1>1. Init => UniqueServers
    BY DEF Init, StoresInit, UniqueServers
<1>2. ASSUME ImportInv, UniqueServers, [ImportNext]_importVars PROVE UniqueServers'
  <2>0. RowsFit(rows, issued)
      BY <1>2 DEF ImportInv, StoresFit
  <2>1. CASE UNCHANGED rows
      BY <1>2, <2>1 DEF UniqueServers
  <2>2. ASSUME NEW id \in Servers \ issued, NEW row \in Row, rows' = Put(rows, id, row),
               UniqueIndexes(None, row.name, row.ipv4)
        PROVE  UniqueServers'
    <3>1. None \notin DOMAIN rows /\ id \notin DOMAIN rows
        BY <1>2, <2>0, StoresAssumption DEF ImportInv, StoresFit, RowsFit
    <3> QED
        BY <1>2, <2>2, <3>1 DEF UniqueServers, UniqueIndexes, NameTaken, IPv4Taken, Put
  <2>3. ASSUME NEW id, rows' = Drop(rows, id) PROVE UniqueServers'
      BY <1>2, <2>3 DEF UniqueServers, Drop, Restrict
  <2>4. ASSUME NEW i \in Importers, InsertAllowed(imp[i].valid), StoreBatch(i) PROVE UniqueServers'
    <3> DEFINE valid == imp[i].valid
               K == DOMAIN valid
    <3>1. PICK ids \in Injection(K, Servers \ issued) : InsertAll(ids, valid)
        BY <2>4, Zenon DEF StoreBatch
    <3>2. valid \in [K -> [name: Names, ipv4: IPs]]
        BY <1>2, BatchIds, Zenon
    <3>3. /\ \A k \in K, x \in DOMAIN rows : ~Clash(valid[k], rows[x])
          /\ \A j, k \in K : j # k => ~Clash(valid[j], valid[k])
      <4>1. None \notin DOMAIN rows
          BY <1>2, <2>0, StoresAssumption DEF ImportInv, StoresFit, RowsFit
      <4> HIDE DEF valid
      <4>2. InsertAllowed(valid)
          BY <2>4 DEF valid
      <4> QED
          BY <4>1, <4>2 DEF InsertAllowed, UniqueIndexes, NameTaken, IPv4Taken, Clash
    <3> HIDE DEF K, valid
    <3>4. /\ DOMAIN rows' = DOMAIN rows \cup Range(ids)
          /\ \A x \in DOMAIN rows : rows'[x] = rows[x]
          /\ \A x \in Range(ids) : \E k \in K : ids[k] = x
          /\ \A k \in K : rows'[ids[k]] = NewRow(valid[k])
      <4>1. InsertAll(ids, valid)
          BY <3>1
      <4>2. Added(K, ids, valid)
          BY <2>0, <3>2, <4>1, InsertAllRows, Zenon
      <4> QED BY <4>2, Zenon DEF Added
    <3>5. \A k \in K : NewRow(valid[k]).name = valid[k].name /\ NewRow(valid[k]).ipv4 = valid[k].ipv4
        BY DEF NewRow
    <3> DEFINE t == rows'
    <3>6. ASSUME NEW x \in DOMAIN t, NEW y \in DOMAIN t, x # y
          PROVE  t[x].name # t[y].name /\ t[x].ipv4 # t[y].ipv4
      <4>1. CASE x \in DOMAIN rows /\ y \in DOMAIN rows
          BY <1>2, <3>4, <3>6, <4>1 DEF UniqueServers
      <4>2. ASSUME NEW z \in DOMAIN rows, NEW k \in K
            PROVE  t[z].name # t[ids[k]].name /\ t[z].ipv4 # t[ids[k]].ipv4
        <5>1. t[z] = rows[z] /\ t[ids[k]] = NewRow(valid[k])
            BY <3>4, Zenon
        <5>2. valid[k].name # rows[z].name /\ valid[k].ipv4 # rows[z].ipv4
            BY <3>3, Zenon DEF Clash
        <5> HIDE DEF t
        <5> QED BY <3>5, <5>1, <5>2, Zenon
      <4>3. ASSUME NEW j \in K, NEW k \in K, j # k
            PROVE  t[ids[j]].name # t[ids[k]].name /\ t[ids[j]].ipv4 # t[ids[k]].ipv4
        <5>1. t[ids[j]] = NewRow(valid[j]) /\ t[ids[k]] = NewRow(valid[k])
            BY <3>4, Zenon
        <5>2. valid[j].name # valid[k].name /\ valid[j].ipv4 # valid[k].ipv4
            BY <3>3, <4>3, Zenon DEF Clash
        <5> HIDE DEF t
        <5> QED BY <3>5, <5>1, <5>2, Zenon
      <4>4. /\ x \in DOMAIN rows \/ \E k \in K : x = ids[k]
            /\ y \in DOMAIN rows \/ \E k \in K : y = ids[k]
          BY <3>4, <3>6
      <4> HIDE DEF t
      <4> QED BY <3>6, <4>1, <4>2, <4>3, <4>4, Zenon
    <3> QED BY <3>6 DEF UniqueServers
  <2> QED
      BY <1>2, <2>1, <2>2, <2>3, <2>4, TableSteps, Zenon DEF TableStep
<1> QED
    BY <1>1, <1>2, ImportInductive, PTL DEF Spec

(* An import never gives a deleted server a row again: it inserts under    *)
(* ids that were never used (import_export.go:117-132).                    *)
THEOREM ImportsKeepDeletedDeleted == Spec => DeletedStaysDeleted
<1>1. ASSUME ImportInv, [ImportNext]_importVars, NEW id \in issued \ DOMAIN rows
      PROVE  id \notin DOMAIN rows'
  <2>1. CASE UNCHANGED rows
      BY <2>1
  <2>2. ASSUME NEW x \in Servers \ issued, NEW row, rows' = Put(rows, x, row) PROVE id \notin DOMAIN rows'
      BY <2>2 DEF Put
  <2>3. ASSUME NEW x, rows' = Drop(rows, x) PROVE id \notin DOMAIN rows'
      BY <2>3 DEF Drop, Restrict
  <2>4. ASSUME NEW i \in Importers, StoreBatch(i) PROVE id \notin DOMAIN rows'
    <3>1. PICK ids \in Injection(DOMAIN imp[i].valid, Servers \ issued) : InsertAll(ids, imp[i].valid)
        BY <2>4, Zenon DEF StoreBatch
    <3>2. DOMAIN rows' = DOMAIN rows \cup Range(ids)
        BY <3>1 DEF InsertAll
    <3>3. id \notin Range(ids)
        BY DEF Injection, Range
    <3> QED BY <3>2, <3>3
  <2> QED BY <1>1, <2>1, <2>2, <2>3, <2>4, TableSteps, Zenon DEF TableStep
<1>2. ImportInv /\ [ImportNext]_importVars =>
        [\A id \in issued \ DOMAIN rows : id \notin DOMAIN rows']_storeVars
    BY <1>1
<1> QED
    BY <1>2, ImportInductive, PTL DEF Spec, DeletedStaysDeleted
=============================================================================
