------------------------------ MODULE Storage ------------------------------
(***************************************************************************)
(* One SQL statement of the Ledger on its way to the Storage component:    *)
(* SQLite's pager (components/Ledger/src/sqlite3.c), the VFS of ledger.c   *)
(* and the disk of storage.c.                                              *)
(*                                                                         *)
(* The VFS knows one file: xOpen ignores the name, xDelete and xTruncate   *)
(* do nothing, xAccess says yes.  The database and its rollback journal    *)
(* are therefore the same bytes.  Page k of the database lies in slot k of *)
(* the disk.  The journal's header lies in slot 1, and its record i, which *)
(* is eight bytes longer than a page, fills slot i+2 from byte 8i on and   *)
(* the first 8(i+1) bytes of slot i+3.  Two cells per slot, the first bytes*)
(* and the rest, tell apart everything that overwrites something else.     *)
(*                                                                         *)
(* A page is the number of the statement that wrote it.  Every statement   *)
(* is a transaction of its own.  Pages are never evicted (the cache is     *)
(* larger than the disk) and the database does not grow.                   *)
(***************************************************************************)
EXTENDS Integers, Sequences

CONSTANTS
  NPages,         \* pages of the database once the schema is there
  Statements,     \* which pages a statement reads, and which it writes in what order
  MaxStatements,  \* bound: statements
  MaxFaults       \* bound: failed disk_read and disk_write

Pages == 1..NPages
Slots == 1..(NPages + 2)
Cells == Slots \X {"first", "rest"}

\* Page 1 is written by every statement, for its change counter; any other page
\* is read before it is written.
ASSUME PagesAssumption == NPages \in Nat /\ NPages >= 1
ASSUME StatementsAssumption ==
  \A s \in Statements :
    /\ s.reads \subseteq Pages
    /\ s.writes \in Seq(Pages \ {1})
    /\ \A i, j \in 1..Len(s.writes) : i # j => s.writes[i] # s.writes[j]
    /\ Len(s.writes) < NPages
    /\ \A i \in 1..Len(s.writes) : s.writes[i] \in s.reads
ASSUME BoundAssumption == MaxStatements \in Nat /\ MaxFaults \in Nat

VARIABLES
  disk,        \* the bytes of the disk, by cell
  cache,       \* the page cache
  dbFileVers,  \* the change counter as the pager saw it last
  pc,          \* where the pager is
  eState,      \* how far the write transaction is, as the pager names it
  stmt,        \* number of the statement in execution
  needs,       \* the pages it reads
  list,        \* the pages it modifies, in the order in which it does
  pos,         \* journal records written or played back so far
  playback,    \* the playback in progress: hot or not, its records and nonce
  dirty,       \* pages still to be written to the database
  rc,          \* the result of the last statement
  faults,      \* how many disk_read and disk_write have failed
  committed,   \* history: by page, the last successful statement that wrote it
  begun        \* history: the statements that came to write to the database

statement == <<stmt, needs, list>>
vars == <<disk, cache, dbFileVers, pc, eState, statement, pos, playback, dirty, rc,
          faults, committed, begun>>

Versions == 0..MaxStatements
Absent   == -1
NoFile   == [is |-> "junk"]

Page(v)          == [is |-> "page", ver |-> v]
Header(s, n)     == [is |-> "header", by |-> s, nRec |-> n]
Record(s, i, p, v) == [is |-> "record", by |-> s, nr |-> i, page |-> p, ver |-> v]

-----------------------------------------------------------------------------
(* The disk: where things lie.                                             *)

PageCells(p)   == {p} \X {"first", "rest"}
RecordCells(i) == {<<i + 2, "rest">>, <<i + 3, "first">>}
                  \cup (IF i = 0 THEN {<<2, "first">>} ELSE {})

\* disk_write: the disk with content in these cells.
Put(cells, content) == [c \in Cells |-> IF c \in cells THEN content ELSE disk[c]]

IsPage(p)   == \A c \in PageCells(p) : disk[c].is = "page"
IsHeader    == disk[<<1, "first">>].is = "header"
IsSynced    == IsHeader /\ disk[<<1, "first">>].nRec > 0

\* Defect: the checksum does not depend on the nonce.
IsRecordOfAny(i, n) ==
  /\ disk[<<i + 2, "rest">>].is = "record" /\ disk[<<i + 2, "rest">>].nr = i
  /\ \A c \in RecordCells(i) : disk[c] = disk[<<i + 2, "rest">>]

\* Record i carries the nonce n from end to end, so its checksum is right.
IsRecord(i, n) ==
  /\ disk[<<i + 2, "rest">>].is = "record"
  /\ disk[<<i + 2, "rest">>].by = n /\ disk[<<i + 2, "rest">>].nr = i
  /\ \A c \in RecordCells(i) : disk[c] = disk[<<i + 2, "rest">>]

-----------------------------------------------------------------------------
(* The end of a statement.                                                 *)

\* Defect: pages to be written are still on the list when the lock goes.
ReturnUnclean(result) ==
  /\ pc' = "idle" /\ eState' = "OPEN" /\ rc' = result
  /\ UNCHANGED dirty

\* pager_unlock: back to OPEN, and the statement returns its result.
Return(result) ==
  /\ pc' = "idle" /\ eState' = "OPEN" /\ rc' = result
  /\ dirty' = {}

\* The statement fails before it has opened the journal.
Refuse ==
  /\ Return("error")
  /\ UNCHANGED <<disk, statement, pos, playback, committed, begun>>

\* An error inside a playback: pager_error, and the unlock drops the cache.
PlaybackFails ==
  /\ Return("error")
  /\ cache' = [p \in Pages |-> Absent]
  /\ UNCHANGED <<dbFileVers, statement, pos, playback, committed, begun>>

\* An error in a write transaction: sqlite3PagerRollback.
Rollback ==
  /\ pc' = "header"
  /\ playback' = [hot |-> FALSE, n |-> 0, nonce |-> stmt]
  /\ UNCHANGED <<cache, eState, statement, pos, dirty, rc, committed, begun>>

\* A fault: malloc fails in disk_read, or disk_write has no room.
Fault == faults < MaxFaults /\ faults' = faults + 1
NoFault == UNCHANGED faults

-----------------------------------------------------------------------------
(* sqlite3PagerSharedLock: a journal to roll back?  Is the cache current?  *)

Begin(s) ==
  /\ pc = "idle" /\ stmt < MaxStatements
  /\ pc'    = "lock"
  /\ stmt'  = stmt + 1
  /\ needs' = s.reads
  /\ list'  = Append(s.writes, 1)
  /\ pos'   = 0
  /\ NoFault
  /\ UNCHANGED <<disk, cache, dbFileVers, eState, playback, dirty, rc, committed, begun>>

\* The journal exists, says xAccess, and its first byte is the database's:
\* it is hot unless it is zero, as in a header that has not been synced.
HasHotJournal ==
  /\ pc = "lock"
  /\ IF IsHeader /\ ~IsSynced
       THEN pc' = "version" /\ UNCHANGED playback
       ELSE pc' = "header" /\ playback' = [hot |-> TRUE, n |-> 0, nonce |-> 0]
  /\ NoFault
  /\ UNCHANGED <<disk, cache, dbFileVers, eState, statement, pos, dirty, rc, committed, begun>>

\* Defect: the cache is trusted whatever the file says.
CheckVersionNever ==
  /\ pc = "version"
  /\ pc' = "page1"
  /\ NoFault
  /\ UNCHANGED <<disk, cache, dbFileVers, eState, statement, pos, playback, dirty, rc,
                 committed, begun>>

\* The change counter in the file is not the one seen last: drop the cache.
CheckVersion ==
  /\ pc = "version"
  /\ pc' = "page1"
  /\ cache' = IF disk[<<1, "first">>] = Page(dbFileVers) THEN cache
              ELSE [p \in Pages |-> Absent]
  /\ NoFault
  /\ UNCHANGED <<disk, dbFileVers, eState, statement, pos, playback, dirty, rc,
                 committed, begun>>

\* lockBtree: page 1 from the cache, or from the disk if it is one.
GetPage1 ==
  /\ pc = "page1"
  /\ IF cache[1] # Absent
       THEN pc' = "fetch" /\ UNCHANGED <<cache, dbFileVers>>
       ELSE /\ IsPage(1)
            /\ pc' = "fetch"
            /\ cache' = [cache EXCEPT ![1] = disk[<<1, "first">>].ver]
            /\ dbFileVers' = disk[<<1, "first">>].ver
  /\ NoFault
  /\ UNCHANGED <<disk, eState, statement, pos, playback, dirty, rc, committed, begun>>

\* SQLITE_NOTADB.
NotADatabase ==
  /\ pc = "page1" /\ cache[1] = Absent /\ ~IsPage(1)
  /\ NoFault
  /\ Refuse /\ UNCHANGED <<cache, dbFileVers>>

-----------------------------------------------------------------------------
(* The b-tree reads the pages it works on before it changes the first.     *)

Wanted == {p \in needs : cache[p] = Absent}

\* readDbPage.
FetchPage(p) ==
  /\ pc = "fetch" /\ p \in Wanted /\ IsPage(p)
  /\ cache' = [cache EXCEPT ![p] = disk[<<p, "rest">>].ver]
  /\ NoFault
  /\ UNCHANGED <<disk, dbFileVers, pc, eState, statement, pos, playback, dirty, rc,
                 committed, begun>>

\* Journal bytes where a page should be: SQLITE_CORRUPT.
FetchJunk(p) ==
  /\ pc = "fetch" /\ p \in Wanted /\ ~IsPage(p)
  /\ NoFault
  /\ Refuse /\ UNCHANGED <<cache, dbFileVers>>

\* pager_open_journal: a header without its magic; the nonce is drawn here.
OpenJournal ==
  /\ pc = "fetch" /\ Wanted = {}
  /\ pc' = "journal" /\ eState' = "CACHEMOD"
  /\ disk' = Put(PageCells(1), Header(stmt, 0))
  /\ pos'  = 0
  /\ NoFault
  /\ UNCHANGED <<cache, dbFileVers, statement, playback, dirty, rc, committed, begun>>

\* A read or a write before the journal is open fails: nothing has happened.
EarlyFault ==
  /\ pc \in {"lock", "version", "page1", "fetch"}
  /\ Fault
  /\ dbFileVers' = IF pc = "page1" THEN Absent ELSE dbFileVers
  /\ Refuse /\ UNCHANGED cache

-----------------------------------------------------------------------------
(* pager_write: the old page into the journal, then the change.            *)

JournalPage ==
  /\ pc = "journal" /\ pos < Len(list)
  /\ LET p == list[pos + 1]
     IN  /\ disk'  = Put(RecordCells(pos), Record(stmt, pos, p, cache[p]))
         /\ cache' = [cache EXCEPT ![p] = stmt]
  /\ pos' = pos + 1
  /\ NoFault
  /\ UNCHANGED <<dbFileVers, pc, eState, statement, playback, dirty, rc, committed, begun>>

\* One of the three writes of a record fails; the first ones have happened.
JournalFault ==
  /\ pc = "journal" /\ pos < Len(list)
  /\ Fault
  /\ \E torn \in BOOLEAN :
       disk' = IF torn THEN Put(RecordCells(pos), NoFile) ELSE disk
  /\ Rollback /\ UNCHANGED dbFileVers

\* syncJournal: the magic and the number of records complete the header.
SyncJournal ==
  /\ pc = "journal" /\ pos = Len(list)
  /\ pc' = "write" /\ eState' = "DBMOD"
  /\ disk'  = Put({<<1, "first">>}, Header(stmt, pos))
  /\ dirty' = {list[i] : i \in 1..Len(list)}
  /\ begun' = begun \cup {stmt}
  /\ NoFault
  /\ UNCHANGED <<cache, dbFileVers, statement, pos, playback, rc, committed>>

\* Its read behind the last record or its write fails.
SyncFault ==
  /\ pc = "journal" /\ pos = Len(list)
  /\ Fault
  /\ Rollback /\ UNCHANGED <<disk, dbFileVers>>

-----------------------------------------------------------------------------
(* sqlite3PagerCommitPhaseOne: the pages into the database, in their order.*)

First(p) == p \in dirty /\ \A q \in dirty : p <= q

\* Defect: dbFileVers does not follow the change counter.
SeenAfterNever(p) == dbFileVers

\* Having written page 1, or tried to, the pager has seen its change counter.
SeenAfter(p) == IF p = 1 THEN stmt ELSE dbFileVers

WritePage(p) ==
  /\ pc = "write" /\ First(p)
  /\ disk'  = Put(PageCells(p), Page(cache[p]))
  /\ dirty' = dirty \ {p}
  /\ dbFileVers' = SeenAfter(p)
  /\ NoFault
  /\ UNCHANGED <<cache, pc, eState, statement, pos, playback, rc, committed, begun>>

WriteFault(p) ==
  /\ pc = "write" /\ First(p)
  /\ Fault
  /\ dbFileVers' = SeenAfter(p)
  /\ Rollback /\ UNCHANGED disk

\* pager_end_transaction deletes the journal, which xDelete does not.
Commit ==
  /\ pc = "write" /\ dirty = {}
  /\ Return("ok")
  /\ committed' = [p \in Pages |->
                     IF \E i \in 1..Len(list) : list[i] = p THEN stmt ELSE committed[p]]
  /\ NoFault
  /\ UNCHANGED <<disk, cache, dbFileVers, statement, pos, playback, begun>>

-----------------------------------------------------------------------------
(* pager_playback, of a hot journal or to roll a statement back.           *)

\* Defect: a rollback, too, wants to see the magic of its own journal.
PlaybackHeaderByMagic ==
  /\ pc = "header"
  /\ pos' = 0
  /\ IF IsSynced
       THEN /\ pc' = "replay"
            /\ playback' = [playback EXCEPT !.n = disk[<<1, "first">>].nRec,
                                            !.nonce = disk[<<1, "first">>].by]
            /\ cache' = IF playback.hot THEN [p \in Pages |-> Absent] ELSE cache
       ELSE pc' = "replayed" /\ UNCHANGED <<cache, playback>>
  /\ NoFault
  /\ UNCHANGED <<disk, dbFileVers, eState, statement, dirty, rc, committed, begun>>

\* The header counts if its magic is there.  A rollback that has not synced
\* the header yet knows that it is its own, and tries every record that the
\* file has room for.
PlaybackHeader ==
  /\ pc = "header"
  /\ pos' = 0
  /\ IF eState = "CACHEMOD" \/ IsSynced
       THEN /\ pc' = "replay"
            /\ playback' = [playback EXCEPT
                 !.n = IF eState = "CACHEMOD" THEN NPages ELSE disk[<<1, "first">>].nRec,
                 !.nonce = disk[<<1, "first">>].by]
            /\ cache' = IF playback.hot THEN [p \in Pages |-> Absent] ELSE cache
       ELSE pc' = "replayed" /\ UNCHANGED <<cache, playback>>
  /\ NoFault
  /\ UNCHANGED <<disk, dbFileVers, eState, statement, dirty, rc, committed, begun>>

\* Defect: the position in the journal stays where it is.
ReplayPageAgain ==
  /\ pc = "replay" /\ pos < playback.n /\ IsRecord(pos, playback.nonce)
  /\ NoFault
  /\ UNCHANGED <<disk, cache, dbFileVers, pc, eState, statement, pos, playback, dirty, rc,
                 committed, begun>>

\* pager_playback_one_page: a page in the cache is restored there and, once
\* the database may have been written, on the disk.
ReplayPage ==
  /\ pc = "replay" /\ pos < playback.n /\ IsRecord(pos, playback.nonce)
  /\ LET r == disk[<<pos + 2, "rest">>]
         cached == cache[r.page] # Absent
     IN  /\ disk'  = IF eState = "CACHEMOD" THEN disk
                     ELSE Put(PageCells(r.page), Page(r.ver))
         /\ cache' = IF cached THEN [cache EXCEPT ![r.page] = r.ver] ELSE cache
         /\ dbFileVers' = IF cached /\ r.page = 1 THEN r.ver ELSE dbFileVers
  /\ pos' = pos + 1
  /\ NoFault
  /\ UNCHANGED <<pc, eState, statement, playback, dirty, rc, committed, begun>>

\* Something has been written over the record.  Where its page number was
\* there may be a number beyond the database, and the record is skipped;
\* or the record does not add up, and the playback ends.
ReplayDamaged ==
  /\ pc = "replay" /\ pos < playback.n /\ ~IsRecord(pos, playback.nonce)
  /\ \/ pos' = pos + 1 /\ pc' = pc
     \/ pos' = pos /\ pc' = "replayed"
  /\ NoFault
  /\ UNCHANGED <<disk, cache, dbFileVers, eState, statement, playback, dirty, rc,
                 committed, begun>>

ReplayEnds ==
  /\ pc = "replay" /\ pos = playback.n
  /\ pc' = "replayed"
  /\ NoFault
  /\ UNCHANGED <<disk, cache, dbFileVers, eState, statement, pos, playback, dirty, rc,
                 committed, begun>>

\* Every cached page is declared clean.  A hot journal is out of the way now,
\* or so it is taken; after a rollback the statement returns its error.
Replayed ==
  /\ pc = "replayed"
  /\ IF playback.hot
       THEN pc' = "version" /\ dirty' = {} /\ UNCHANGED <<eState, rc>>
       ELSE Return("error")
  /\ NoFault
  /\ UNCHANGED <<disk, cache, dbFileVers, statement, pos, playback, committed, begun>>

\* A read or a write of the playback fails.
PlaybackFault ==
  /\ pc \in {"header", "replay", "replayed"}
  /\ Fault
  /\ PlaybackFails /\ UNCHANGED disk

-----------------------------------------------------------------------------
\* The schema's last statement has left the record of page 1 behind.
Init ==
  /\ disk = [c \in Cells |-> IF c \in RecordCells(0) \/ c[1] > NPages THEN NoFile
                             ELSE Page(0)]
  /\ cache      = [p \in Pages |-> 0]
  /\ dbFileVers = 0
  /\ pc         = "idle"
  /\ eState     = "OPEN"
  /\ stmt       = 0
  /\ needs      = {}
  /\ list       = << >>
  /\ pos        = 0
  /\ playback   = [hot |-> FALSE, n |-> 0, nonce |-> 0]
  /\ dirty      = {}
  /\ rc         = "ok"
  /\ faults     = 0
  /\ committed  = [p \in Pages |-> 0]
  /\ begun      = {}

Lock   == HasHotJournal \/ CheckVersion \/ GetPage1 \/ NotADatabase
Fetch  == \E p \in Pages : FetchPage(p) \/ FetchJunk(p)
Write  == \/ OpenJournal \/ JournalPage \/ SyncJournal \/ Commit
          \/ \E p \in Pages : WritePage(p)
Replay == \/ PlaybackHeader \/ ReplayPage \/ ReplayDamaged \/ ReplayEnds \/ Replayed
Faults == \/ EarlyFault \/ JournalFault \/ SyncFault \/ PlaybackFault
          \/ \E p \in Pages : WriteFault(p)

\* The bound is reached.
Exhausted == pc = "idle" /\ stmt = MaxStatements /\ UNCHANGED vars

Next ==
  \/ \E s \in Statements : Begin(s)
  \/ Lock \/ Fetch \/ Write \/ Replay \/ Faults
  \/ Exhausted

Spec == Init /\ [][Next]_vars

\* The Ledger's thread does nothing else before the statement returns.
FairSpec == Spec /\ WF_vars(Lock \/ Fetch \/ Write \/ Replay)

\* The pages of the Ledger's database: 2 accounts, 3 the index of its primary
\* key, 4 transactions, 5 its id counter.  Update, account, audit row.
LedgerStatements ==
  {[reads |-> {2, 3}, writes |-> <<2>>],
   [reads |-> {2, 3}, writes |-> <<3, 2>>],
   [reads |-> {4, 5}, writes |-> <<4, 5>>]}

-----------------------------------------------------------------------------
(* Properties.                                                             *)

\* Every variable has its type, and the transaction is as far as pc says.
Contents ==
  {NoFile} \cup {Page(v) : v \in Versions} \cup {Header(s, n) : s \in Versions, n \in 0..NPages}
  \cup {Record(s, i, p, v) : s \in Versions, i \in 0..NPages, p \in Pages, v \in Versions}
Playbacks == [hot : BOOLEAN, n : 0..NPages, nonce : Versions]

TypeOK ==
  /\ disk \in [Cells -> Contents]
  /\ cache \in [Pages -> Versions \cup {Absent}]
  /\ dbFileVers \in Versions \cup {Absent}
  /\ eState \in {"OPEN", "CACHEMOD", "DBMOD"}
  /\ stmt \in Versions
  /\ needs \subseteq Pages /\ list \in Seq(Pages) /\ Len(list) <= NPages
  /\ pos \in 0..NPages
  /\ playback \in Playbacks
  /\ dirty \subseteq Pages
  /\ rc \in {"ok", "error"}
  /\ faults \in 0..MaxFaults
  /\ committed \in [Pages -> Versions]
  /\ begun \subseteq 1..MaxStatements
  /\ \/ pc \in {"idle", "lock", "version", "page1", "fetch"} /\ eState = "OPEN" /\ dirty = {}
     \/ pc = "journal" /\ eState = "CACHEMOD" /\ pos <= Len(list)
     \/ pc = "write" /\ eState = "DBMOD"
     \/ pc \in {"header", "replay", "replayed"} /\ (playback.hot <=> eState = "OPEN")

\* As long as no call of the Storage component fails, every statement succeeds
\* and the cache holds what was committed last, page for page - although the
\* disk does not (CommittedOnDisk): dbFileVers keeps up with the change counter
\* of page 1, the only page that is always whole, so nothing is read again.
CacheServes == (pc = "idle" /\ faults = 0) => (rc = "ok" /\ cache = committed)

\* Whatever fails: a statement that did not come to write to the database has
\* left nothing behind that a later statement could read from the cache.
\* (One that did can fail and keep all or part of its effect: page 1 has taken
\* the place of the journal header, so its rollback finds no journal.)
EffectsOnlyFromCommit ==
  pc = "idle" => \A p \in Pages : cache[p] \in {Absent, 0} \cup begun

\* Whatever fails, rollbacks from a spoiled journal included: no page in the
\* cache is ever older than the last success that wrote it.
NothingForgotten ==
  pc = "idle" => \A p \in Pages : cache[p] # Absent => cache[p] >= committed[p]

\* A journal header that was not synced stays in page 1's place: from then on
\* no statement comes as far as changing anything (SQLITE_NOTADB for good).
RefusedForGood ==
  [][(IsHeader /\ ~IsSynced /\ eState = "OPEN") =>
       (eState' = "OPEN" /\ disk' = disk /\ committed' = committed)]_vars

\* Whatever is found on the disk, playbacks of damaged journals included,
\* every statement returns, with a result or an error.
Returns == (pc # "idle") ~> (pc = "idle")

\* README.md:44 "persisting ledger adjustments to a permanent backend": what a
\* successful statement has committed is on the disk after the next one, too.
CommittedOnDisk ==
  (pc = "idle" /\ rc = "ok") =>
    \A p \in Pages : committed[p] > 0 => disk[<<p, "rest">>] = Page(committed[p])

=============================================================================
