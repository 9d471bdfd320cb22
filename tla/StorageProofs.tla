--------------------------- MODULE StorageProofs ---------------------------
(***************************************************************************)
(* Proofs about Storage: for every database, every set of statements, and  *)
(* any number of statements and faults.                                    *)
(***************************************************************************)
EXTENDS Storage, TLAPS

-----------------------------------------------------------------------------
(* Types.                                                                  *)

\* Everything the statement modifies is in the cache.
Cached == \A i \in 1..Len(list) : cache[list[i]] # Absent

\* The transaction that the journal is written for.
ListInv ==
  /\ pc # "idle" => stmt \in 1..MaxStatements
  /\ pc # "idle" => \A i \in 1..Len(list) : list[i] = 1 \/ list[i] \in needs
  /\ pc = "fetch" => cache[1] # Absent
  /\ pc \in {"journal", "write"} => Cached
  /\ dirty \subseteq {list[i] : i \in 1..Len(list)}

\* A journal header stands in page 1's place until page 1 is written.
HeaderInv == eState = "CACHEMOD" => IsHeader

TypeInv == TypeOK /\ ListInv /\ HeaderInv

\* What the tag of a content says about its fields.
LEMMA ContentFields ==
  ASSUME NEW c \in Contents
  PROVE  /\ c.is = "page"   => c.ver \in Versions
         /\ c.is = "header" => c.by \in Versions /\ c.nRec \in 0..NPages
         /\ c.is = "record" => c.page \in Pages /\ c.ver \in Versions
  <1>1. CASE c = NoFile
    BY <1>1 DEF NoFile
  <1>2. CASE \E v \in Versions : c = Page(v)
    BY <1>2 DEF Page
  <1>3. CASE \E s \in Versions, n \in 0..NPages : c = Header(s, n)
    BY <1>3 DEF Header
  <1>4. CASE \E s \in Versions, i \in 0..NPages, p \in Pages, v \in Versions :
               c = Record(s, i, p, v)
    BY <1>4 DEF Record
  <1>5. QED
    BY <1>1, <1>2, <1>3, <1>4 DEF Contents

\* The constructors build contents.
LEMMA ContentMade ==
  /\ NoFile \in Contents
  /\ \A v \in Versions : Page(v) \in Contents
  /\ \A s \in Versions, n \in 0..NPages : Header(s, n) \in Contents
  /\ \A s \in Versions, i \in 0..NPages, p \in Pages, v \in Versions :
       Record(s, i, p, v) \in Contents
  BY DEF Contents

\* Writing keeps the disk a disk, and leaves what it does not name.
LEMMA PutFacts ==
  ASSUME disk \in [Cells -> Contents], NEW content \in Contents, NEW cells
  PROVE  /\ Put(cells, content) \in [Cells -> Contents]
         /\ \A c \in Cells : Put(cells, content)[c] = IF c \in cells THEN content ELSE disk[c]
  BY DEF Put

\* The places: page 1's first cell belongs to page 1 and to the header only.
LEMMA Places ==
  /\ <<1, "first">> \in Cells
  /\ \A p \in Pages : /\ PageCells(p) \subseteq Cells
                      /\ <<1, "first">> \in PageCells(p) <=> p = 1
                      /\ <<p, "first">> \in Cells /\ <<p, "rest">> \in Cells
  /\ \A i \in 0..(NPages - 1) : <<i + 2, "rest">> \in Cells
  /\ \A i \in Nat : <<1, "first">> \notin RecordCells(i)
  /\ 1 \in Pages
  BY PagesAssumption DEF Cells, Slots, Pages, PageCells, RecordCells

\* The list of a statement that begins.
LEMMA ListMade ==
  ASSUME NEW s \in Statements
  PROVE  LET l == Append(s.writes, 1)
         IN  /\ l \in Seq(Pages) /\ Len(l) \in 1..NPages
             /\ \A i \in 1..Len(l) : l[i] = 1 \/ l[i] \in s.reads
             /\ l[Len(l)] = 1
             /\ s.reads \subseteq Pages
  BY StatementsAssumption, PagesAssumption DEF Pages

LEMMA TypeInit == Init => TypeInv
  <1> SUFFICES ASSUME Init PROVE TypeInv
    OBVIOUS
  <1>1. 0 \in Versions /\ MaxFaults \in Nat /\ NPages \in Nat
    BY BoundAssumption, PagesAssumption DEF Versions
  <1>2. disk \in [Cells -> Contents]
    BY <1>1, ContentMade DEF Init
  <1>3. playback \in Playbacks
    BY <1>1 DEF Init, Playbacks
  <1>4. TypeOK
    BY <1>1, <1>2, <1>3 DEF Init, TypeOK
  <1>5. ListInv /\ HeaderInv
    BY DEF Init, ListInv, HeaderInv
  <1>6. QED
    BY <1>4, <1>5 DEF TypeInv

\* The pages that are being written are pages of the cache.
LEMMA ListPages ==
  ASSUME TypeInv
  PROVE  /\ \A i \in 1..Len(list) : list[i] \in Pages
         /\ pc \in {"journal", "write"} =>
              \A i \in 1..Len(list) : cache[list[i]] \in Versions
         /\ pc = "write" => \A p \in dirty : p \in Pages /\ cache[p] \in Versions
  BY DEF TypeInv, TypeOK, ListInv, Cached

LEMMA TypeStep == TypeInv /\ [Next]_vars => TypeInv'
  <1> SUFFICES ASSUME TypeInv, [Next]_vars PROVE TypeInv'
    OBVIOUS
  <1> USE BoundAssumption, PagesAssumption
  <1>1. ASSUME NEW s \in Statements, Begin(s) PROVE TypeInv'
    <2>1. TypeOK'
      BY <1>1, ListMade DEF Begin, NoFault, TypeInv, TypeOK, Versions
    <2>2. ListInv'
      BY <1>1, ListMade DEF Begin, NoFault, TypeInv, TypeOK, ListInv, Cached, Versions
    <2>3. HeaderInv'
      BY <1>1 DEF Begin, TypeInv, HeaderInv, IsHeader
    <2>4. QED
      BY <2>1, <2>2, <2>3 DEF TypeInv
  <1>2. CASE HasHotJournal
    <2>0. playback' \in Playbacks /\ (pc' = "header" => playback'.hot)
      <3>1. 0 \in 0..NPages /\ 0 \in Versions
        BY DEF Versions
      <3> DEFINE hot == [hot |-> TRUE, n |-> 0, nonce |-> 0]
      <3>2. hot \in Playbacks /\ hot.hot
        BY <3>1 DEF Playbacks
      <3>3. \/ pc' = "version" /\ playback' = playback
            \/ pc' = "header" /\ playback' = hot
        BY <1>2 DEF HasHotJournal
      <3>4. playback \in Playbacks
        BY DEF TypeInv, TypeOK
      <3> HIDE DEF hot
      <3>5. QED
        BY <3>2, <3>3, <3>4
    <2>1. TypeOK'
      BY <1>2, <2>0 DEF HasHotJournal, NoFault, TypeInv, TypeOK, statement
    <2>2. ListInv' /\ HeaderInv'
      BY <1>2 DEF HasHotJournal, NoFault, TypeInv, TypeOK, ListInv, Cached, HeaderInv, IsHeader,
                  statement
    <2>3. QED
      BY <2>1, <2>2 DEF TypeInv
  <1>3. CASE CheckVersion
    <2>1. cache' \in [Pages -> Versions \cup {Absent}]
      BY <1>3 DEF CheckVersion, TypeInv, TypeOK
    <2>2. TypeOK'
      BY <1>3, <2>1 DEF CheckVersion, NoFault, TypeInv, TypeOK, statement
    <2>3. ListInv' /\ HeaderInv'
      BY <1>3 DEF CheckVersion, TypeInv, TypeOK, ListInv, Cached, HeaderInv, IsHeader, statement
    <2>4. QED
      BY <2>2, <2>3 DEF TypeInv
  <1>4. CASE GetPage1
    <2>1. cache[1] = Absent => disk[<<1, "first">>].ver \in Versions
      BY <1>4, Places, ContentFields DEF GetPage1, IsPage, PageCells, TypeInv, TypeOK
    <2>2. cache' \in [Pages -> Versions \cup {Absent}] /\ dbFileVers' \in Versions \cup {Absent}
      BY <1>4, <2>1 DEF GetPage1, TypeInv, TypeOK
    <2>3. TypeOK'
      BY <1>4, <2>2 DEF GetPage1, NoFault, TypeInv, TypeOK, statement
    <2>4. cache'[1] # Absent
      BY <1>4, <2>1, Places DEF GetPage1, TypeInv, TypeOK, Versions, Absent
    <2>5. ListInv' /\ HeaderInv'
      BY <1>4, <2>4 DEF GetPage1, TypeInv, TypeOK, ListInv, Cached, HeaderInv, IsHeader, statement
    <2>6. QED
      BY <2>3, <2>5 DEF TypeInv
  <1>5. ASSUME Refuse, NoFault \/ Fault, UNCHANGED cache,
               dbFileVers' \in Versions \cup {Absent}
        PROVE  TypeInv'
    <2>1. TypeOK'
      BY <1>5 DEF Refuse, Return, NoFault, Fault, TypeInv, TypeOK, statement
    <2>2. ListInv' /\ HeaderInv'
      BY <1>5 DEF Refuse, Return, TypeInv, TypeOK, ListInv, Cached, HeaderInv, IsHeader, statement
    <2>3. QED
      BY <2>1, <2>2 DEF TypeInv
  <1>6. CASE NotADatabase \/ (\E p \in Pages : FetchJunk(p)) \/ EarlyFault
    BY <1>5, <1>6 DEF NotADatabase, FetchJunk, EarlyFault, TypeInv, TypeOK
  <1>7. ASSUME NEW p \in Pages, FetchPage(p) PROVE TypeInv'
    <2>1. disk[<<p, "rest">>].ver \in Versions
      BY <1>7, Places, ContentFields DEF FetchPage, IsPage, PageCells, TypeInv, TypeOK
    <2>2. TypeOK'
      BY <1>7, <2>1 DEF FetchPage, NoFault, TypeInv, TypeOK, statement
    <2>3. cache'[1] # Absent
      BY <1>7, <2>1, Places DEF FetchPage, TypeInv, TypeOK, ListInv, Versions, Absent
    <2>4. ListInv' /\ HeaderInv'
      BY <1>7, <2>3 DEF FetchPage, TypeInv, TypeOK, ListInv, Cached, HeaderInv, IsHeader, statement
    <2>5. QED
      BY <2>2, <2>4 DEF TypeInv
  <1>8. CASE OpenJournal
    <2>1. Header(stmt, 0) \in Contents
      BY <1>8, ContentMade DEF OpenJournal, TypeInv, TypeOK
    <2>2. /\ disk' \in [Cells -> Contents]
          /\ disk'[<<1, "first">>] = Header(stmt, 0)
      <3>1. disk \in [Cells -> Contents] /\ disk' = Put(PageCells(1), Header(stmt, 0))
        BY <1>8 DEF OpenJournal, TypeInv, TypeOK
      <3>2. <<1, "first">> \in PageCells(1) /\ <<1, "first">> \in Cells
        BY Places
      <3>3. QED
        BY <2>1, <3>1, <3>2, PutFacts
    <2>3. TypeOK'
      BY <1>8, <2>2 DEF OpenJournal, NoFault, TypeInv, TypeOK, statement
    <2>4. ListInv'
      BY <1>8 DEF OpenJournal, Wanted, TypeInv, TypeOK, ListInv, Cached, statement
    <2>5. HeaderInv'
      BY <2>2 DEF HeaderInv, IsHeader, Header
    <2>6. QED
      BY <2>3, <2>4, <2>5 DEF TypeInv
  <1>9. CASE JournalPage
    <2>1. /\ pos \in 0..(NPages - 1)
          /\ list[pos + 1] \in Pages /\ cache[list[pos + 1]] \in Versions
          /\ stmt \in Versions
      BY <1>9, ListPages DEF JournalPage, TypeInv, TypeOK
    <2>2. Record(stmt, pos, list[pos + 1], cache[list[pos + 1]]) \in Contents
      BY <2>1, ContentMade
    <2>3. /\ disk' \in [Cells -> Contents]
          /\ disk'[<<1, "first">>] = disk[<<1, "first">>]
      BY <1>9, <2>1, <2>2, PutFacts, Places DEF JournalPage, TypeInv, TypeOK
    <2>4. TypeOK'
      BY <1>9, <2>1, <2>3 DEF JournalPage, NoFault, TypeInv, TypeOK, statement
    <2>5. stmt # Absent
      BY <2>1 DEF Versions, Absent
    <2>6. ListInv'
      BY <1>9, <2>1, <2>5, ListPages DEF JournalPage, TypeInv, TypeOK, ListInv, Cached, statement
    <2>7. HeaderInv'
      BY <1>9, <2>3 DEF JournalPage, TypeInv, HeaderInv, IsHeader
    <2>8. QED
      BY <2>4, <2>6, <2>7 DEF TypeInv
  <1>10. CASE SyncJournal
    <2>1. Header(stmt, pos) \in Contents
      BY <1>10, ContentMade DEF SyncJournal, TypeInv, TypeOK
    <2>2. disk' \in [Cells -> Contents]
      BY <1>10, <2>1, PutFacts DEF SyncJournal, TypeInv, TypeOK
    <2>3. dirty' \subseteq Pages /\ begun' \subseteq 1..MaxStatements
      BY <1>10, ListPages DEF SyncJournal, TypeInv, TypeOK, ListInv
    <2>4. TypeOK'
      BY <1>10, <2>2, <2>3 DEF SyncJournal, NoFault, TypeInv, TypeOK, statement
    <2>5. ListInv' /\ HeaderInv'
      BY <1>10 DEF SyncJournal, TypeInv, TypeOK, ListInv, Cached, HeaderInv, statement
    <2>6. QED
      BY <2>4, <2>5 DEF TypeInv
  <1>11. ASSUME NEW p \in Pages, WritePage(p) PROVE TypeInv'
    <2>1. cache[p] \in Versions /\ stmt \in Versions
      BY <1>11, ListPages DEF WritePage, First, TypeInv, TypeOK
    <2>2. disk' \in [Cells -> Contents]
      BY <1>11, <2>1, ContentMade, PutFacts DEF WritePage, TypeInv, TypeOK
    <2>3. TypeOK'
      BY <1>11, <2>1, <2>2 DEF WritePage, SeenAfter, NoFault, TypeInv, TypeOK, statement
    <2>4. ListInv' /\ HeaderInv'
      BY <1>11 DEF WritePage, TypeInv, TypeOK, ListInv, Cached, HeaderInv, statement
    <2>5. QED
      BY <2>3, <2>4 DEF TypeInv
  <1>12. ASSUME Rollback, Fault, eState \in {"CACHEMOD", "DBMOD"}, pc # "idle",
                disk' \in [Cells -> Contents], dbFileVers' \in Versions \cup {Absent},
                disk'[<<1, "first">>] = disk[<<1, "first">>]
         PROVE  TypeInv'
    <2>1. TypeOK'
      BY <1>12 DEF Rollback, Fault, TypeInv, TypeOK, statement, Playbacks
    <2>2. ListInv' /\ HeaderInv'
      BY <1>12 DEF Rollback, TypeInv, TypeOK, ListInv, Cached, HeaderInv, IsHeader, statement
    <2>3. QED
      BY <2>1, <2>2 DEF TypeInv
  <1>13. CASE JournalFault
    <2>1. pos \in Nat
      BY DEF TypeInv, TypeOK
    <2>2. /\ disk' \in [Cells -> Contents]
          /\ disk'[<<1, "first">>] = disk[<<1, "first">>]
      BY <1>13, <2>1, ContentMade, PutFacts, Places DEF JournalFault, TypeInv, TypeOK
    <2>3. QED
      BY <1>12, <1>13, <2>2 DEF JournalFault, TypeInv, TypeOK
  <1>14. CASE SyncFault \/ \E p \in Pages : WriteFault(p)
    BY <1>12, <1>14 DEF SyncFault, WriteFault, SeenAfter, TypeInv, TypeOK
  <1>15. CASE Commit
    <2>1. committed' \in [Pages -> Versions]
      BY <1>15 DEF Commit, TypeInv, TypeOK
    <2>2. TypeOK'
      BY <1>15, <2>1 DEF Commit, Return, NoFault, TypeInv, TypeOK, statement
    <2>3. ListInv' /\ HeaderInv'
      BY <1>15 DEF Commit, Return, TypeInv, ListInv, HeaderInv, statement
    <2>4. QED
      BY <2>2, <2>3 DEF TypeInv
  <1>16. CASE PlaybackHeader
    <2>1. eState = "CACHEMOD" \/ IsSynced =>
            /\ disk[<<1, "first">>].by \in Versions
            /\ disk[<<1, "first">>].nRec \in 0..NPages
      BY Places, ContentFields DEF TypeInv, TypeOK, HeaderInv, IsHeader, IsSynced
    <2>2. playback' \in Playbacks /\ playback'.hot = playback.hot
      <3>1. NPages \in 0..NPages /\ playback \in Playbacks
        BY DEF TypeInv, TypeOK
      <3>2. CASE eState = "CACHEMOD"
        BY <1>16, <2>1, <3>1, <3>2 DEF PlaybackHeader, Playbacks
      <3>3. CASE eState # "CACHEMOD" /\ IsSynced
        BY <1>16, <2>1, <3>1, <3>3 DEF PlaybackHeader, Playbacks
      <3>4. CASE ~(eState = "CACHEMOD" \/ IsSynced)
        BY <1>16, <3>1, <3>4 DEF PlaybackHeader
      <3>5. QED
        BY <3>2, <3>3, <3>4
    <2>3. cache' \in [Pages -> Versions \cup {Absent}]
      BY <1>16 DEF PlaybackHeader, TypeInv, TypeOK
    <2>4. TypeOK'
      BY <1>16, <2>2, <2>3 DEF PlaybackHeader, NoFault, TypeInv, TypeOK, statement
    <2>5. ListInv' /\ HeaderInv'
      BY <1>16 DEF PlaybackHeader, TypeInv, ListInv, HeaderInv, IsHeader, statement
    <2>6. QED
      BY <2>4, <2>5 DEF TypeInv
  <1>17. CASE ReplayPage
    <2>1. pos \in 0..(NPages - 1)
      BY <1>17 DEF ReplayPage, TypeInv, TypeOK, Playbacks
    <2> DEFINE r == disk[<<pos + 2, "rest">>]
    <2>2. r.page \in Pages /\ r.ver \in Versions
      BY <1>17, <2>1, Places, ContentFields DEF ReplayPage, IsRecord, TypeInv, TypeOK
    <2>3. disk' \in [Cells -> Contents] /\ (eState = "CACHEMOD" => disk' = disk)
      <3>1. /\ disk \in [Cells -> Contents]
            /\ disk' = IF eState = "CACHEMOD" THEN disk
                       ELSE Put(PageCells(r.page), Page(r.ver))
        BY <1>17 DEF ReplayPage, TypeInv, TypeOK
      <3>2. Page(r.ver) \in Contents
        BY <2>2, ContentMade
      <3>3. QED
        BY <3>1, <3>2, PutFacts
    <2>4. /\ cache' \in [Pages -> Versions \cup {Absent}]
          /\ dbFileVers' \in Versions \cup {Absent}
      BY <1>17, <2>2 DEF ReplayPage, TypeInv, TypeOK
    <2>5. TypeOK'
      BY <1>17, <2>1, <2>3, <2>4 DEF ReplayPage, NoFault, TypeInv, TypeOK, statement
    <2>6. ListInv' /\ HeaderInv'
      BY <1>17, <2>3 DEF ReplayPage, TypeInv, ListInv, HeaderInv, IsHeader, statement
    <2>7. QED
      BY <2>5, <2>6 DEF TypeInv
  <1>18. CASE ReplayDamaged \/ ReplayEnds
    <2>0. pos' \in 0..NPages
      BY <1>18 DEF ReplayDamaged, ReplayEnds, TypeInv, TypeOK, Playbacks
    <2>1. TypeOK'
      BY <1>18, <2>0 DEF ReplayDamaged, ReplayEnds, NoFault, TypeInv, TypeOK, statement
    <2>2. ListInv' /\ HeaderInv'
      BY <1>18 DEF ReplayDamaged, ReplayEnds, TypeInv, ListInv, HeaderInv, IsHeader, statement
    <2>3. QED
      BY <2>1, <2>2 DEF TypeInv
  <1>19. CASE Replayed
    <2>1. TypeOK'
      BY <1>19 DEF Replayed, Return, NoFault, TypeInv, TypeOK, statement
    <2>2. ListInv' /\ HeaderInv'
      BY <1>19 DEF Replayed, Return, TypeInv, ListInv, HeaderInv, IsHeader, statement
    <2>3. QED
      BY <2>1, <2>2 DEF TypeInv
  <1>20. CASE PlaybackFault
    <2>1. TypeOK'
      BY <1>20 DEF PlaybackFault, PlaybackFails, Fault, Return, TypeInv, TypeOK, statement
    <2>2. ListInv' /\ HeaderInv'
      BY <1>20 DEF PlaybackFault, PlaybackFails, Return, TypeInv, ListInv, HeaderInv, statement
    <2>3. QED
      BY <2>1, <2>2 DEF TypeInv
  <1>21. CASE UNCHANGED vars
    BY <1>21 DEF vars, statement, TypeInv, TypeOK, ListInv, Cached, HeaderInv, IsHeader
  <1>22. QED
    BY <1>1, <1>2, <1>3, <1>4, <1>6, <1>7, <1>8, <1>9, <1>10, <1>11, <1>13, <1>14, <1>15,
       <1>16, <1>17, <1>18, <1>19, <1>20, <1>21
    DEF Next, Lock, Fetch, Write, Replay, Faults, Exhausted

LEMMA TypeInvariant == Spec => []TypeInv
  BY TypeInit, TypeStep, PTL DEF Spec

\* Whatever fails and whatever the journals on the disk look like, the pager
\* stays within its types: no page number, record or version from outside.
THEOREM TypeCorrect == Spec => []TypeOK
  <1>1. TypeInv => TypeOK
    BY DEF TypeInv
  <1>2. QED
    BY <1>1, TypeInvariant, PTL

-----------------------------------------------------------------------------
(* A journal header that was not synced ends the database.                 *)

Spoiled == IsHeader /\ ~IsSynced /\ eState = "OPEN"

\* No statement gets past page 1, and none takes the header for a hot journal.
RefusedInv ==
  Spoiled => /\ pc \in {"idle", "lock", "version", "page1"}
             /\ pc = "page1" => cache[1] = Absent

\* The first cell of page 1 holds one thing at a time.
LEMMA FirstCell ==
  /\ \A v : IsHeader => disk[<<1, "first">>] # Page(v)
  /\ IsHeader => ~IsPage(1)
  BY DEF IsHeader, IsPage, Page, PageCells

\* A hot journal is played back over page 1 with pages only.
LEMMA HotReplay ==
  ASSUME TypeInv, ReplayPage, IsHeader'
  PROVE  disk'[<<1, "first">>] = disk[<<1, "first">>]
  <1> DEFINE r == disk[<<pos + 2, "rest">>]
  <1>1. CASE eState = "CACHEMOD"
    BY <1>1 DEF ReplayPage
  <1>2. CASE eState # "CACHEMOD"
    <2>1. disk' = Put(PageCells(r.page), Page(r.ver)) /\ disk \in [Cells -> Contents]
      BY <1>2 DEF ReplayPage, TypeInv, TypeOK
    <2>2. disk'[<<1, "first">>] = Page(r.ver) \/ disk'[<<1, "first">>] = disk[<<1, "first">>]
      BY <2>1, Places DEF Put
    <2>3. QED
      BY <2>2 DEF IsHeader, Page
  <1>3. QED
    BY <1>1, <1>2

LEMMA RefusedStep == TypeInv /\ RefusedInv /\ [Next]_vars => RefusedInv'
  <1> SUFFICES ASSUME TypeInv, RefusedInv, [Next]_vars, Spoiled' PROVE RefusedInv'
    BY DEF RefusedInv
  <1>1. CASE \E s \in Statements : Begin(s)
    BY <1>1 DEF Begin, RefusedInv, Spoiled, IsHeader, IsSynced
  <1>2. CASE HasHotJournal \/ GetPage1
    BY <1>2, FirstCell DEF HasHotJournal, GetPage1, RefusedInv, Spoiled, IsHeader, IsSynced
  <1>3. CASE CheckVersion
    <2>1. IsHeader /\ disk[<<1, "first">>] # Page(dbFileVers)
      BY <1>3, FirstCell DEF CheckVersion, Spoiled, IsHeader
    <2>2. cache'[1] = Absent
      BY <1>3, <2>1, Places DEF CheckVersion
    <2>3. QED
      BY <1>3, <2>2 DEF CheckVersion, RefusedInv
  <1>4. CASE \E p \in Pages : FetchPage(p)
    BY <1>4 DEF FetchPage, RefusedInv, Spoiled, IsHeader, IsSynced
  <1>5. CASE pc' = "idle"
    BY <1>5 DEF RefusedInv
  <1>6. CASE ReplayPage
    BY <1>6, HotReplay DEF ReplayPage, RefusedInv, Spoiled, IsHeader, IsSynced
  <1>7. CASE PlaybackHeader \/ ReplayDamaged \/ ReplayEnds
    BY <1>7 DEF PlaybackHeader, ReplayDamaged, ReplayEnds, RefusedInv, Spoiled, IsHeader, IsSynced
  <1>8. CASE Replayed
    BY <1>8 DEF Replayed, Return, RefusedInv, Spoiled, IsHeader, IsSynced
  <1>9. CASE UNCHANGED vars
    BY <1>9 DEF vars, RefusedInv, Spoiled, IsHeader, IsSynced
  <1>10. CASE eState' # "OPEN"
    BY <1>10 DEF Spoiled
  <1>11. CASE \/ JournalPage \/ JournalFault \/ SyncFault
              \/ \E p \in Pages : WritePage(p) \/ WriteFault(p)
    BY <1>10, <1>11 DEF JournalPage, JournalFault, SyncFault, WritePage, WriteFault, Rollback,
                        TypeInv, TypeOK
  <1>12. CASE NotADatabase \/ EarlyFault \/ Commit \/ PlaybackFault \/ \E p \in Pages : FetchJunk(p)
    BY <1>5, <1>12 DEF NotADatabase, EarlyFault, Commit, PlaybackFault, PlaybackFails, FetchJunk,
                       Refuse, Return
  <1>13. CASE OpenJournal \/ SyncJournal
    BY <1>10, <1>13 DEF OpenJournal, SyncJournal
  <1>14. QED
    BY <1>1, <1>2, <1>3, <1>4, <1>6, <1>7, <1>8, <1>9, <1>11, <1>12, <1>13
    DEF Next, Lock, Fetch, Write, Replay, Faults, Exhausted

\* Once a header that was not synced lies in page 1's place, no statement ever
\* changes the disk or succeeds again.
THEOREM Refused == Spec => RefusedForGood
  <1>1. Init => RefusedInv
    BY FirstCell, Places DEF Init, RefusedInv, Spoiled
  <1>2. TypeInv /\ RefusedInv /\ [Next]_vars =>
          [Spoiled => (eState' = "OPEN" /\ disk' = disk /\ committed' = committed)]_vars
    <2> SUFFICES ASSUME TypeInv, RefusedInv, Next, Spoiled
                 PROVE  eState' = "OPEN" /\ disk' = disk /\ committed' = committed
      OBVIOUS
    <2>1. eState = "OPEN" /\ pc \in {"idle", "lock", "version", "page1"}
      BY DEF RefusedInv, Spoiled
    <2>2. CASE (\E s \in Statements : Begin(s)) \/ Lock \/ EarlyFault
      BY <2>1, <2>2 DEF Begin, Lock, HasHotJournal, CheckVersion, GetPage1, NotADatabase,
                        EarlyFault, Refuse, Return
    <2>3. CASE Exhausted
      BY <2>1, <2>3 DEF Exhausted, vars
    <2>4. QED
      BY <2>1, <2>2, <2>3
      DEF Next, Fetch, FetchPage, FetchJunk, Write, OpenJournal, JournalPage, SyncJournal, Commit,
          WritePage, Replay, PlaybackHeader, ReplayPage, ReplayDamaged, ReplayEnds, Replayed,
          Faults, JournalFault, SyncFault, PlaybackFault, WriteFault
  <1>3. QED
    BY <1>1, <1>2, RefusedStep, TypeInvariant, PTL DEF Spec, RefusedForGood, Spoiled

-----------------------------------------------------------------------------
(* Without a fault the cache serves.                                       *)

\* The database after the first k pages of the statement have been changed.
Changed(k) == [p \in Pages |-> IF \E i \in 1..k : list[i] = p THEN stmt ELSE committed[p]]

\* The change counter of page 1 is the last thing in the list.
CounterInv == pc # "idle" => Len(list) >= 1 /\ list[Len(list)] = 1

\* Outside a write transaction the pager has seen what the file says.
CurrentInv ==
  (faults = 0 /\ eState = "OPEN") =>
    /\ rc = "ok" /\ pc # "replay"
    /\ cache = committed
    /\ dbFileVers = committed[1]
    /\ disk[<<1, "first">>] = Page(committed[1])

\* Within one, the cache is ahead by the pages that the statement has changed.
AheadInv ==
  (faults = 0 /\ eState # "OPEN") =>
    /\ rc = "ok"
    /\ \/ pc = "journal" /\ cache = Changed(pos)
       \/ pc = "write" /\ cache = Changed(Len(list))
    /\ pc = "write" => 1 \in dirty \/ (dbFileVers = stmt /\ disk[<<1, "first">>] = Page(stmt))

ServesInv == CounterInv /\ CurrentInv /\ AheadInv

\* Between its beginning and its return a statement stays what it is.
LEMMA StatementStays ==
  ASSUME [Next]_vars, ~(\E s \in Statements : Begin(s))
  PROVE  stmt' = stmt /\ list' = list /\ (pc' # "idle" => pc # "idle")
  BY DEF Next, vars, statement, Lock, HasHotJournal, CheckVersion, GetPage1, NotADatabase,
         Fetch, FetchPage, FetchJunk, Write, OpenJournal, JournalPage, SyncJournal,
         Commit, WritePage, Replay, PlaybackHeader, ReplayPage, ReplayDamaged, ReplayEnds,
         Replayed, Faults, EarlyFault, JournalFault, SyncFault, PlaybackFault,
         WriteFault, Rollback, PlaybackFails, Refuse, Return, Exhausted

LEMMA CounterStep == TypeInv /\ CounterInv /\ [Next]_vars => CounterInv'
  <1> SUFFICES ASSUME TypeInv, CounterInv, [Next]_vars PROVE CounterInv'
    OBVIOUS
  <1>1. CASE \E s \in Statements : Begin(s)
    BY <1>1, ListMade DEF Begin, CounterInv
  <1>2. CASE ~(\E s \in Statements : Begin(s))
    BY <1>2, StatementStays DEF CounterInv
  <1>3. QED
    BY <1>1, <1>2

\* As long as no fault has hit, none has hit before and none hits now.
LEMMA FaultStays ==
  ASSUME TypeInv, [Next]_vars, faults' = 0
  PROVE  faults = 0 /\ ~Faults
  <1>1. ~Fault
    BY BoundAssumption DEF TypeInv, TypeOK, Fault
  <1>2. ~Faults
    BY <1>1 DEF Faults, EarlyFault, JournalFault, SyncFault, PlaybackFault, WriteFault
  <1>3. ~Faults => faults' = faults
    BY DEF Next, vars, Lock, HasHotJournal, CheckVersion, GetPage1, NotADatabase,
           Fetch, FetchPage, FetchJunk, Write, OpenJournal, JournalPage, SyncJournal,
           Commit, WritePage, Replay, PlaybackHeader, ReplayPage, ReplayDamaged, ReplayEnds,
           Replayed, NoFault, Begin, Exhausted
  <1>4. QED
    BY <1>2, <1>3

LEMMA ServesStep == TypeInv /\ ServesInv /\ [Next]_vars => CurrentInv' /\ AheadInv'
  <1> SUFFICES ASSUME TypeInv, ServesInv, [Next]_vars, faults' = 0, faults = 0, ~Faults
               PROVE  CurrentInv' /\ AheadInv'
    BY FaultStays DEF CurrentInv, AheadInv
  <1>0. \A p \in Pages : committed[p] # Absent
    BY DEF TypeInv, TypeOK, Versions, Absent
  <1>1. CASE eState = "OPEN" /\ eState' = "OPEN"
    <2>1. /\ rc = "ok" /\ pc # "replay" /\ cache = committed
          /\ dbFileVers = committed[1] /\ disk[<<1, "first">>] = Page(committed[1])
      BY <1>1 DEF ServesInv, CurrentInv
    <2>2. ~IsHeader /\ ~IsSynced
      BY <2>1 DEF IsHeader, IsSynced, Page
    <2>3. CASE (\E s \in Statements : Begin(s)) \/ UNCHANGED vars
      BY <1>1, <2>1, <2>3 DEF Begin, vars, CurrentInv, AheadInv
    <2>4. CASE HasHotJournal \/ CheckVersion
      BY <1>1, <2>1, <2>4 DEF HasHotJournal, CheckVersion, CurrentInv, AheadInv
    <2>5. CASE GetPage1 \/ NotADatabase
      BY <1>0, <1>1, <2>1, <2>5, Places DEF GetPage1, NotADatabase, CurrentInv, AheadInv
    <2>6. CASE Fetch
      BY <1>0, <2>1, <2>6 DEF Fetch, FetchPage, FetchJunk, Wanted, TypeInv, TypeOK
    <2>7. CASE PlaybackHeader
      BY <1>1, <2>1, <2>2, <2>7 DEF PlaybackHeader, CurrentInv, AheadInv
    <2>8. CASE Replayed
      BY <1>1, <2>1, <2>8 DEF Replayed, TypeInv, TypeOK, CurrentInv, AheadInv
    <2>9. CASE Write \/ ReplayPage \/ ReplayDamaged \/ ReplayEnds
      BY <1>1, <2>1, <2>9 DEF Write, OpenJournal, JournalPage, SyncJournal, Commit, WritePage,
         ReplayPage, ReplayDamaged, ReplayEnds, TypeInv, TypeOK
    <2>10. QED
      BY <2>3, <2>4, <2>5, <2>6, <2>7, <2>8, <2>9 DEF Next, Lock, Replay, Exhausted
  <1>2. CASE eState = "OPEN" /\ eState' # "OPEN"
    <2>1. OpenJournal
      BY <1>2 DEF Next, Begin, vars, Lock, HasHotJournal, CheckVersion, GetPage1, NotADatabase,
         Fetch, FetchPage, FetchJunk, Refuse, Return, Write, JournalPage, SyncJournal, Commit,
         WritePage, Replay, PlaybackHeader, ReplayPage, ReplayDamaged, ReplayEnds, Replayed,
         Exhausted, TypeInv, TypeOK
    <2>2. cache' = Changed(pos)'
      BY <1>2, <2>1 DEF OpenJournal, ServesInv, CurrentInv, Changed, TypeInv, TypeOK
    <2>3. QED
      <3>1. rc' = "ok" /\ pc' = "journal"
        BY <1>2, <2>1 DEF OpenJournal, ServesInv, CurrentInv
      <3>2. QED
        BY <1>2, <2>2, <3>1 DEF CurrentInv, AheadInv
  <1>3. CASE eState # "OPEN"
    <2>1. /\ rc = "ok"
          /\ \/ pc = "journal" /\ cache = Changed(pos)
             \/ pc = "write" /\ cache = Changed(Len(list))
          /\ pc = "write" => 1 \in dirty \/ (dbFileVers = stmt /\ disk[<<1, "first">>] = Page(stmt))
      BY <1>3 DEF ServesInv, AheadInv
    <2>2. CASE JournalPage
      <3>1. pos \in Nat /\ pos' = pos + 1 /\ cache = Changed(pos) /\ list[pos + 1] \in Pages
        BY <2>1, <2>2, ListPages DEF JournalPage, TypeInv, TypeOK
      <3>2. cache' = [cache EXCEPT ![list[pos + 1]] = stmt] /\ UNCHANGED <<list, stmt, committed>>
        BY <2>2 DEF JournalPage, statement
      <3>3. \A i : i \in 1..(pos + 1) <=> i \in 1..pos \/ i = pos + 1
        BY <3>1
      <3>4. cache' = Changed(pos)'
        BY <3>1, <3>2, <3>3 DEF Changed
      <3>5. rc' = "ok" /\ pc' = "journal" /\ eState' # "OPEN"
        BY <1>3, <2>1, <2>2 DEF JournalPage
      <3>6. QED
        BY <3>4, <3>5 DEF CurrentInv, AheadInv
    <2>3. CASE SyncJournal
      <3>1. cache' = Changed(Len(list))'
        BY <2>1, <2>3 DEF SyncJournal, Changed, statement
      <3>2. 1 \in dirty'
        BY <2>3 DEF SyncJournal, ServesInv, CounterInv, TypeInv, TypeOK
      <3>3. rc' = "ok" /\ pc' = "write" /\ eState' # "OPEN"
        BY <2>1, <2>3 DEF SyncJournal
      <3>4. QED
        BY <3>1, <3>2, <3>3 DEF CurrentInv, AheadInv
    <2>4. CASE \E p \in Pages : WritePage(p)
      <3>1. PICK p \in Pages : WritePage(p)
        BY <2>4
      <3>2. cache = Changed(Len(list)) /\ cache' = Changed(Len(list))'
        BY <2>1, <3>1 DEF WritePage, Changed, statement
      <3>3. p = 1 => dbFileVers' = stmt /\ disk'[<<1, "first">>] = Page(stmt)
        <4>1. cache[1] = stmt
          BY <2>1, <3>1, <3>2, Places DEF WritePage, Changed, ServesInv, CounterInv, TypeInv, TypeOK
        <4>2. QED
          BY <3>1, <4>1, Places DEF WritePage, SeenAfter, Put
      <3>4. p # 1 => /\ dirty' = dirty \ {p} /\ dbFileVers' = dbFileVers
                     /\ disk'[<<1, "first">>] = disk[<<1, "first">>]
        BY <3>1, Places DEF WritePage, SeenAfter, Put
      <3>5. rc' = "ok" /\ pc = "write" /\ pc' = "write" /\ eState' # "OPEN" /\ stmt' = stmt
        BY <1>3, <2>1, <3>1 DEF WritePage, statement
      <3>6. 1 \in dirty' \/ (dbFileVers' = stmt' /\ disk'[<<1, "first">>] = Page(stmt'))
        BY <2>1, <3>3, <3>4, <3>5
      <3>7. QED
        BY <3>2, <3>5, <3>6 DEF CurrentInv, AheadInv
    <2>5. CASE Commit
      <3>1. cache' = committed'
        BY <2>1, <2>5 DEF Commit, Changed
      <3>2. committed'[1] = stmt
        BY <2>5, Places DEF Commit, ServesInv, CounterInv, TypeInv, TypeOK
      <3>3. dbFileVers' = committed'[1] /\ disk'[<<1, "first">>] = Page(committed'[1])
        BY <2>1, <2>5, <3>2 DEF Commit
      <3>4. rc' = "ok" /\ pc' = "idle" /\ eState' = "OPEN"
        BY <2>5 DEF Commit, Return
      <3>5. QED
        BY <3>1, <3>3, <3>4 DEF CurrentInv, AheadInv
    <2>6. CASE UNCHANGED vars
      BY <1>3, <2>1, <2>6 DEF vars, statement, CurrentInv, AheadInv, Changed
    <2>7. QED
      BY <1>3, <2>1, <2>2, <2>3, <2>4, <2>5, <2>6
      DEF Next, Begin, Lock, HasHotJournal, CheckVersion, GetPage1, NotADatabase,
         Fetch, FetchPage, FetchJunk, Write, OpenJournal, 
         Replay, PlaybackHeader, ReplayPage, ReplayDamaged, ReplayEnds, Replayed,
         Exhausted, TypeInv, TypeOK
  <1>4. QED
    BY <1>1, <1>2, <1>3

LEMMA ServesInit == Init => ServesInv
  <1> SUFFICES ASSUME Init PROVE ServesInv
    OBVIOUS
  <1>1. disk[<<1, "first">>] = Page(0)
    <2>1. <<1, "first">> \in Cells /\ <<1, "first">> \notin RecordCells(0)
      BY Places
    <2>2. QED
      BY <2>1, PagesAssumption DEF Init
  <1>2. cache = committed /\ committed[1] = 0
    BY Places DEF Init
  <1>3. QED
    BY <1>1, <1>2 DEF Init, ServesInv, CounterInv, CurrentInv, AheadInv

\* For every database and every set of statements: as long as no fault hits,
\* every statement succeeds and the cache holds what was committed last,
\* although journal and database are the same bytes.
THEOREM Served == Spec => []CacheServes
  <1>1. TypeInv /\ ServesInv => CacheServes
    BY DEF TypeInv, TypeOK, ServesInv, CurrentInv, CacheServes
  <1>2. QED
    BY <1>1, TypeInvariant, ServesInit, ServesStep, CounterStep, PTL DEF Spec, ServesInv

-----------------------------------------------------------------------------
(* Whatever fails, only commits have effects.                              *)

\* The versions that may be seen: those of statements that came to write.
Seen == {0} \cup begun

\* What lies on the disk and may be read back.
DiskInv == \A c \in Cells : disk[c].is \in {"page", "record"} => disk[c].ver \in Seen

\* What lies in the cache; before the commit, what the journal can restore.
CacheInv ==
  /\ eState = "OPEN" => \A p \in Pages : cache[p] \in {Absent} \cup Seen
  /\ eState = "DBMOD" => stmt \in begun /\ \A p \in Pages : cache[p] \in {Absent} \cup Seen
  /\ (eState = "CACHEMOD" /\ pc = "replayed") =>
       \A p \in Pages : cache[p] \in {Absent} \cup Seen

\* Until the playback begins, the journal has the records of all pages changed
\* so far.
JournalInv ==
  (eState = "CACHEMOD" /\ pc \in {"journal", "header"}) =>
    /\ pos <= Len(list)
    /\ \A i, j \in 1..Len(list) : i # j => list[i] # list[j]
    /\ disk[<<1, "first">>].by = stmt
    /\ \A i \in 0..(pos - 1) :
         IsRecord(i, stmt) /\ disk[<<i + 2, "rest">>].page = list[i + 1]
    /\ \A p \in Pages :
         cache[p] \notin {Absent} \cup Seen =>
           cache[p] = stmt /\ (\E i \in 1..pos : list[i] = p)

\* From then on, those of the pages that are still to be restored.
ReplayInv ==
  (eState = "CACHEMOD" /\ pc = "replay") =>
    /\ playback.n = NPages /\ playback.nonce = stmt
    /\ \A p \in Pages :
         \/ cache[p] \in {Absent} \cup Seen
         \/ \E i \in pos..(NPages - 1) :
              /\ disk[<<i + 2, "rest">>].page = p
              /\ \A j \in pos..i : IsRecord(j, stmt)

DistinctInv == pc # "idle" => \A i, j \in 1..Len(list) : i # j => list[i] # list[j]

EffectsInv == DistinctInv /\ DiskInv /\ CacheInv /\ JournalInv /\ ReplayInv

LEMMA DistinctStep == TypeInv /\ DistinctInv /\ [Next]_vars => DistinctInv'
  <1> SUFFICES ASSUME TypeInv, DistinctInv, [Next]_vars PROVE DistinctInv'
    OBVIOUS
  <1>1. CASE \E s \in Statements : Begin(s)
    BY <1>1, StatementsAssumption DEF Begin, DistinctInv
  <1>2. CASE ~(\E s \in Statements : Begin(s))
    BY <1>2, StatementStays DEF DistinctInv
  <1>3. QED
    BY <1>1, <1>2

\* The records of a journal do not touch each other.
LEMMA RecordsApart ==
  ASSUME NEW i \in Nat, NEW j \in Nat, i # j
  PROVE  RecordCells(i) \cap RecordCells(j) = {}
  BY DEF RecordCells

\* A record is where its cells are.
LEMMA RecordPlace ==
  ASSUME NEW i \in 0..(NPages - 1)
  PROVE  <<i + 2, "rest">> \in RecordCells(i) /\ RecordCells(i) \subseteq Cells
  BY PagesAssumption DEF RecordCells, Cells, Slots

\* Writing one record leaves the others as they are.
LEMMA RecordKept ==
  ASSUME disk \in [Cells -> Contents], NEW i \in 0..(NPages - 1), NEW k \in Nat, i # k,
         NEW content, disk' = Put(RecordCells(k), content), NEW n,
         IsRecord(i, n)
  PROVE  IsRecord(i, n)' /\ disk'[<<i + 2, "rest">>] = disk[<<i + 2, "rest">>]
  <1>1. RecordCells(i) \cap RecordCells(k) = {} /\ RecordCells(i) \subseteq Cells
    <2>1. i \in Nat
      BY PagesAssumption
    <2>2. QED
      BY <2>1, RecordsApart, RecordPlace
  <1>2. \A c \in RecordCells(i) : disk'[c] = disk[c]
    BY <1>1 DEF Put
  <1>3. QED
    BY <1>2, RecordPlace DEF IsRecord

\* Once written, a record is one.
LEMMA RecordWritten ==
  ASSUME disk \in [Cells -> Contents], NEW i \in 0..(NPages - 1), NEW p, NEW v, NEW n,
         disk' = Put(RecordCells(i), Record(n, i, p, v))
  PROVE  IsRecord(i, n)' /\ disk'[<<i + 2, "rest">>].page = p
  <1>1. \A c \in RecordCells(i) : disk'[c] = Record(n, i, p, v)
    BY RecordPlace DEF Put
  <1>2. /\ Record(n, i, p, v).is = "record" /\ Record(n, i, p, v).by = n
        /\ Record(n, i, p, v).nr = i /\ Record(n, i, p, v).page = p
    BY DEF Record
  <1>3. disk'[<<i + 2, "rest">>] = Record(n, i, p, v)
    BY <1>1, RecordPlace
  <1>4. QED
    BY <1>1, <1>2, <1>3 DEF IsRecord

\* Outside the write transaction: nothing is lost by forgetting.
LEMMA ForgetStep ==
  ASSUME EffectsInv, DistinctInv', disk' = disk, begun' = begun, eState = "OPEN", eState' = "OPEN",
         \A p \in Pages : cache'[p] \in {Absent, cache[p]}
  PROVE  EffectsInv'
  BY DEF EffectsInv, DiskInv, CacheInv, JournalInv, ReplayInv, Seen

\* A rollback begins with the journal as it is.
LEMMA RollbackStep ==
  ASSUME TypeInv, EffectsInv, DistinctInv', Rollback, pc \in {"journal", "write"},
         disk' = disk \/ (pc = "journal" /\ disk' = Put(RecordCells(pos), NoFile))
  PROVE  EffectsInv'
  <1>1. /\ eState' = eState /\ cache' = cache /\ begun' = begun /\ pos' = pos /\ pc' = "header"
        /\ stmt' = stmt /\ list' = list /\ disk \in [Cells -> Contents] /\ pos \in Nat
    BY DEF Rollback, statement, TypeInv, TypeOK
  <1>2. DiskInv'
    BY <1>1 DEF EffectsInv, DiskInv, Seen, Put, NoFile
  <1>3. CacheInv' /\ ReplayInv'
    BY <1>1 DEF EffectsInv, CacheInv, ReplayInv, Seen
  <1>4. JournalInv'
    <2>1. CASE eState # "CACHEMOD"
      BY <1>1, <2>1 DEF JournalInv
    <2>2. CASE eState = "CACHEMOD"
      <3>1. pc = "journal" /\ JournalInv /\ pos <= NPages
        BY <2>2 DEF EffectsInv, TypeInv, TypeOK
      <3>2. disk'[<<1, "first">>] = disk[<<1, "first">>]
        BY <1>1, Places DEF Put
      <3>3. \A i \in 0..(pos - 1) :
              IsRecord(i, stmt)' /\ disk'[<<i + 2, "rest">>].page = list[i + 1]
        <4>1. CASE disk' = disk
          BY <1>1, <2>2, <3>1, <4>1 DEF JournalInv, IsRecord
        <4>2. CASE disk' = Put(RecordCells(pos), NoFile)
          <5> SUFFICES ASSUME NEW i \in 0..(pos - 1)
                       PROVE  IsRecord(i, stmt)' /\ disk'[<<i + 2, "rest">>].page = list[i + 1]
            OBVIOUS
          <5>1. IsRecord(i, stmt) /\ disk[<<i + 2, "rest">>].page = list[i + 1]
            BY <2>2, <3>1 DEF JournalInv
          <5>2. i \in 0..(NPages - 1) /\ i # pos
            BY <1>1, <3>1, PagesAssumption
          <5>3. QED
            BY <1>1, <4>2, <5>1, <5>2, RecordKept
        <4>3. QED
          BY <4>1, <4>2, <3>1
      <3>4. QED
        BY <1>1, <2>2, <3>1, <3>2, <3>3 DEF JournalInv, Seen
    <2>3. QED
      BY <2>1, <2>2
  <1>5. QED
    BY <1>2, <1>3, <1>4 DEF EffectsInv

\* The next page goes to the journal and changes.
LEMMA JournalStep ==
  ASSUME TypeInv, EffectsInv, DistinctInv', JournalPage
  PROVE  EffectsInv'
  <1> DEFINE q == list[pos + 1]
  <1>1. /\ eState = "CACHEMOD" /\ eState' = eState /\ pc = "journal" /\ pc' = pc
        /\ begun' = begun /\ stmt' = stmt /\ list' = list /\ pos' = pos + 1
        /\ pos \in 0..(NPages - 1) /\ pos < Len(list) /\ Len(list) \in Nat
        /\ disk \in [Cells -> Contents] /\ cache \in [Pages -> Versions \cup {Absent}]
        /\ q \in Pages /\ cache[q] \in Versions /\ JournalInv
        /\ cache' = [cache EXCEPT ![q] = stmt]
        /\ disk' = Put(RecordCells(pos), Record(stmt, pos, q, cache[q]))
    <2>1. pos \in Nat /\ pos < Len(list) /\ Len(list) \in Nat /\ Len(list) <= NPages
      BY DEF JournalPage, TypeInv, TypeOK
    <2>2. pos \in 0..(NPages - 1) /\ pos + 1 \in 1..Len(list)
      BY <2>1, PagesAssumption
    <2>3. q \in Pages /\ cache[q] \in Versions
      BY <2>2, ListPages DEF JournalPage
    <2>4. eState = "CACHEMOD"
      BY DEF JournalPage, TypeInv, TypeOK
    <2>5. /\ eState' = eState /\ pc = "journal" /\ pc' = pc
          /\ begun' = begun /\ stmt' = stmt /\ list' = list /\ pos' = pos + 1
          /\ cache' = [cache EXCEPT ![q] = stmt]
          /\ disk' = Put(RecordCells(pos), Record(stmt, pos, q, cache[q]))
      BY DEF JournalPage, statement
    <2>6. QED
      BY <2>1, <2>2, <2>3, <2>4, <2>5 DEF TypeInv, TypeOK, EffectsInv
  <1>2. cache[q] \in Seen
    BY <1>1 DEF JournalInv, Versions, Absent
  <1>3. DiskInv'
    <2>1. Record(stmt, pos, q, cache[q]).ver = cache[q]
      BY DEF Record
    <2>2. QED
      BY <1>1, <1>2, <2>1 DEF EffectsInv, DiskInv, Seen, Put
  <1>4. CacheInv' /\ ReplayInv'
    BY <1>1 DEF CacheInv, ReplayInv
  <1>5. \A i \in 0..pos : IsRecord(i, stmt)' /\ disk'[<<i + 2, "rest">>].page = list[i + 1]
    <2> SUFFICES ASSUME NEW i \in 0..pos
                 PROVE  IsRecord(i, stmt)' /\ disk'[<<i + 2, "rest">>].page = list[i + 1]
      OBVIOUS
    <2>1. CASE i = pos
      BY <1>1, <2>1, RecordWritten
    <2>2. CASE i # pos
      <3>1. IsRecord(i, stmt) /\ disk[<<i + 2, "rest">>].page = list[i + 1]
        BY <1>1, <2>2 DEF JournalInv
      <3>2. i \in 0..(NPages - 1) /\ pos \in Nat
        BY <1>1, PagesAssumption
      <3>3. QED
        BY <1>1, <2>2, <3>1, <3>2, RecordKept
    <2>3. QED
      BY <2>1, <2>2
  <1>6. \A p \in Pages :
          cache'[p] \notin {Absent} \cup Seen' =>
            cache'[p] = stmt /\ (\E i \in 1..(pos + 1) : list[i] = p)
    BY <1>1 DEF JournalInv, Seen
  <1>7. disk'[<<1, "first">>] = disk[<<1, "first">>]
    BY <1>1, Places DEF Put
  <1>8. JournalInv'
    BY <1>1, <1>5, <1>6, <1>7 DEF JournalInv
  <1>9. QED
    BY <1>3, <1>4, <1>8 DEF EffectsInv

\* The rollback of a statement that has not written to the database tries every
\* record there can be.
LEMMA ReplayBegins ==
  ASSUME TypeInv, EffectsInv, DistinctInv', PlaybackHeader
  PROVE  EffectsInv'
  <1>1. /\ eState' = eState /\ disk' = disk /\ begun' = begun /\ stmt' = stmt /\ list' = list
        /\ pos' = 0 /\ pc = "header" /\ pc' \in {"replay", "replayed"}
        /\ \A p \in Pages : cache'[p] \in {Absent, cache[p]}
    BY DEF PlaybackHeader, statement
  <1>2. DiskInv'
    BY <1>1 DEF EffectsInv, DiskInv, Seen
  <1>3. CASE eState # "CACHEMOD"
    BY <1>1, <1>2, <1>3 DEF EffectsInv, CacheInv, JournalInv, ReplayInv, Seen
  <1>4. CASE eState = "CACHEMOD"
    <2>1. /\ JournalInv /\ pos \in Nat /\ pos <= Len(list) /\ Len(list) \in Nat
          /\ Len(list) <= NPages
      BY <1>1, <1>4 DEF TypeInv, TypeOK, EffectsInv, JournalInv
    <2>7. playback \in Playbacks /\ ~playback.hot
      BY <1>1, <1>4 DEF TypeInv, TypeOK
    <2>2. /\ pc' = "replay" /\ cache' = cache
          /\ playback'.n = NPages /\ playback'.nonce = stmt
      BY <1>1, <1>4, <2>1, <2>7 DEF PlaybackHeader, JournalInv, Playbacks
    <2>3. ASSUME NEW p \in Pages, cache[p] \notin {Absent} \cup Seen
          PROVE  \E i \in 0..(NPages - 1) : /\ disk[<<i + 2, "rest">>].page = p
                                            /\ \A j \in 0..i : IsRecord(j, stmt)
      <3>1. PICK k \in 1..pos : list[k] = p
        BY <1>1, <1>4, <2>1, <2>3 DEF JournalInv
      <3>2. k - 1 \in 0..(pos - 1) /\ (k - 1) + 1 = k /\ k - 1 \in 0..(NPages - 1)
        BY <2>1, <3>1, PagesAssumption
      <3>3. \A j \in 0..(pos - 1) :
              IsRecord(j, stmt) /\ disk[<<j + 2, "rest">>].page = list[j + 1]
        BY <1>1, <1>4, <2>1 DEF JournalInv
      <3>4. disk[<<(k - 1) + 2, "rest">>].page = p
        BY <3>1, <3>2, <3>3
      <3>5. \A j \in 0..(k - 1) : IsRecord(j, stmt)
        <4>1. \A j \in 0..(k - 1) : j \in 0..(pos - 1)
          BY <2>1, <3>1
        <4>2. QED
          BY <3>3, <4>1
      <3>6. QED
        BY <3>2, <3>4, <3>5
    <2>4. ReplayInv'
      <3>1. \A p \in Pages :
              \/ cache'[p] \in {Absent} \cup Seen'
              \/ \E i \in pos'..(NPages - 1) :
                   /\ disk'[<<i + 2, "rest">>].page = p
                   /\ \A j \in pos'..i : IsRecord(j, stmt)'
        <4>1. \A j : IsRecord(j, stmt)' <=> IsRecord(j, stmt)
          BY <1>1 DEF IsRecord
        <4>2. Seen' = Seen
          BY <1>1 DEF Seen
        <4>3. QED
          BY <1>1, <2>2, <2>3, <4>1, <4>2
      <3>2. playback'.n = NPages /\ playback'.nonce = stmt'
        BY <1>1, <2>2
      <3>3. QED
        BY <3>1, <3>2 DEF ReplayInv
    <2>5. CacheInv' /\ JournalInv'
      BY <1>1, <1>4, <2>2 DEF CacheInv, JournalInv
    <2>6. QED
      BY <1>2, <2>4, <2>5 DEF EffectsInv
  <1>5. QED
    BY <1>3, <1>4

\* A record restores its page to a version that may be seen.
LEMMA ReplayStep ==
  ASSUME TypeInv, EffectsInv, DistinctInv', ReplayPage
  PROVE  EffectsInv'
  <1> DEFINE r == disk[<<pos + 2, "rest">>]
  <1>1. /\ eState' = eState /\ begun' = begun /\ stmt' = stmt /\ list' = list
        /\ pos' = pos + 1 /\ pc = "replay" /\ pc' = pc /\ playback' = playback
        /\ disk' = IF eState = "CACHEMOD" THEN disk ELSE Put(PageCells(r.page), Page(r.ver))
        /\ cache' = IF cache[r.page] # Absent THEN [cache EXCEPT ![r.page] = r.ver] ELSE cache
    BY DEF ReplayPage, statement
  <1>2. pos \in 0..(NPages - 1)
    BY PagesAssumption DEF ReplayPage, TypeInv, TypeOK, Playbacks
  <1>3. r.ver \in Seen
    BY <1>2, Places DEF ReplayPage, IsRecord, EffectsInv, DiskInv
  <1>4. /\ disk \in [Cells -> Contents]
        /\ cache \in [Pages -> Versions \cup {Absent}]
    BY DEF TypeInv, TypeOK
  <1>5. DiskInv'
    BY <1>1, <1>3, <1>4 DEF EffectsInv, DiskInv, Seen, Put, Page
  <1>6. \A p \in Pages : cache[p] \in {Absent} \cup Seen => cache'[p] \in {Absent} \cup Seen
    BY <1>1, <1>3, <1>4
  <1>7. CacheInv' /\ JournalInv'
    BY <1>1, <1>6 DEF EffectsInv, CacheInv, JournalInv, Seen
  <1>8. ReplayInv'
    <2> SUFFICES ASSUME eState = "CACHEMOD", NEW p \in Pages, cache'[p] \notin {Absent} \cup Seen
                 PROVE  \E i \in (pos + 1)..(NPages - 1) :
                          /\ disk[<<i + 2, "rest">>].page = p
                          /\ \A j \in (pos + 1)..i : IsRecord(j, stmt)
      <3>1. Seen' = Seen /\ (eState = "CACHEMOD" => disk' = disk)
        BY <1>1 DEF Seen
      <3>2. eState = "CACHEMOD" => playback.n = NPages /\ playback.nonce = stmt
        BY <1>1 DEF EffectsInv, ReplayInv
      <3>3. eState = "CACHEMOD" => \A j : IsRecord(j, stmt)' <=> IsRecord(j, stmt)
        BY <1>1, <3>1 DEF IsRecord
      <3>4. QED
        BY <1>1, <3>1, <3>2, <3>3 DEF ReplayInv
    <2>1. PICK i \in pos..(NPages - 1) : /\ disk[<<i + 2, "rest">>].page = p
                                         /\ \A j \in pos..i : IsRecord(j, stmt)
      BY <1>1, <1>6 DEF EffectsInv, ReplayInv
    <2>2. cache[p] # Absent
      BY <1>1, <1>3, <1>4
    <2>3. i # pos
      BY <1>1, <1>3, <1>4, <2>1, <2>2
    <2>4. i \in (pos + 1)..(NPages - 1) /\ \A j \in (pos + 1)..i : j \in pos..i
      BY <1>2, <2>3, PagesAssumption
    <2>5. QED
      BY <2>1, <2>4
  <1>9. QED
    BY <1>5, <1>7, <1>8 DEF EffectsInv

\* A playback does not end before the last record that is needed.
LEMMA ReplayStops ==
  ASSUME TypeInv, EffectsInv, DistinctInv', ReplayDamaged \/ ReplayEnds
  PROVE  EffectsInv'
  <1>1. /\ eState' = eState /\ begun' = begun /\ disk' = disk /\ cache' = cache
        /\ pc = "replay" /\ pc' \in {"replay", "replayed"} /\ playback' = playback
        /\ stmt' = stmt
    BY DEF ReplayDamaged, ReplayEnds, statement
  <1>2. eState = "CACHEMOD" => \A p \in Pages : cache[p] \in {Absent} \cup Seen
    <2> SUFFICES ASSUME eState = "CACHEMOD", NEW p \in Pages, cache[p] \notin {Absent} \cup Seen
                 PROVE  FALSE
      OBVIOUS
    <2>1. PICK i \in pos..(NPages - 1) : \A j \in pos..i : IsRecord(j, stmt)
      BY <1>1 DEF EffectsInv, ReplayInv
    <2>2. /\ playback.n = NPages /\ playback.nonce = stmt /\ pos \in Nat /\ NPages \in Nat
      BY <1>1, PagesAssumption DEF EffectsInv, ReplayInv, TypeInv, TypeOK
    <2>3. IsRecord(pos, stmt) /\ pos # NPages
      BY <2>1, <2>2
    <2>4. QED
      BY <2>2, <2>3 DEF ReplayDamaged, ReplayEnds
  <1>3. DiskInv'
    BY <1>1 DEF EffectsInv, DiskInv, Seen
  <1>4. CacheInv' /\ JournalInv'
    BY <1>1, <1>2 DEF EffectsInv, CacheInv, JournalInv, Seen
  <1>5. ReplayInv'
    BY <1>1, <1>2 DEF EffectsInv, ReplayInv, Seen
  <1>6. QED
    BY <1>3, <1>4, <1>5 DEF EffectsInv

\* A page from the disk into the cache.
LEMMA FetchStep ==
  ASSUME TypeInv, EffectsInv, DistinctInv', GetPage1 \/ (\E p \in Pages : FetchPage(p))
  PROVE  EffectsInv'
  <1>1. /\ disk' = disk /\ begun' = begun /\ eState = "OPEN" /\ eState' = "OPEN"
        /\ cache \in [Pages -> Versions \cup {Absent}]
    BY DEF GetPage1, FetchPage, TypeInv, TypeOK
  <1>2. \A p \in Pages : IsPage(p) => /\ disk[<<p, "first">>].ver \in Seen
                                     /\ disk[<<p, "rest">>].ver \in Seen
    BY Places DEF IsPage, PageCells, EffectsInv, DiskInv
  <1>3. \A p \in Pages : cache'[p] \in {Absent} \cup Seen
    BY <1>1, <1>2, Places DEF GetPage1, FetchPage, EffectsInv, CacheInv
  <1>4. QED
    BY <1>1, <1>3 DEF EffectsInv, DiskInv, CacheInv, JournalInv, ReplayInv, Seen

LEMMA EffectsStep ==
  ASSUME TypeInv, EffectsInv, [Next]_vars
  PROVE  EffectsInv'
  <1>0. DistinctInv'
    BY DistinctStep DEF EffectsInv
  <1>1. CASE \/ \E s \in Statements : Begin(s)
             \/ HasHotJournal \/ CheckVersion \/ NotADatabase \/ EarlyFault
             \/ \E p \in Pages : FetchJunk(p)
    <2>1. /\ disk' = disk /\ begun' = begun /\ eState = "OPEN" /\ eState' = "OPEN"
          /\ \A p \in Pages : cache'[p] \in {Absent, cache[p]}
      BY <1>1 DEF Begin, HasHotJournal, CheckVersion, NotADatabase, EarlyFault, FetchJunk,
                  Refuse, Return, TypeInv, TypeOK
    <2>2. QED
      BY <1>0, <2>1, ForgetStep
  <1>2. CASE GetPage1 \/ (\E p \in Pages : FetchPage(p))
    BY <1>0, <1>2, FetchStep
  <1>3. CASE OpenJournal
    <2>1. /\ disk' = Put(PageCells(1), Header(stmt, 0)) /\ begun' = begun /\ cache' = cache
          /\ pos' = 0 /\ eState = "OPEN" /\ eState' = "CACHEMOD" /\ pc # "idle"
          /\ pc' = "journal" /\ stmt' = stmt /\ list' = list /\ Len(list) \in Nat
          /\ disk \in [Cells -> Contents]
      BY <1>3 DEF OpenJournal, statement, TypeInv, TypeOK
    <2>2. DiskInv'
      BY <2>1 DEF EffectsInv, DiskInv, Seen, Put, Header
    <2>3. disk'[<<1, "first">>].by = stmt
      BY <2>1, Places DEF Put, Header
    <2>6. \A p \in Pages : cache[p] \in {Absent} \cup Seen
      BY <2>1 DEF EffectsInv, CacheInv
    <2>7. Seen' = Seen
      BY <2>1 DEF Seen
    <2>8. \A i, j \in 1..Len(list) : i # j => list[i] # list[j]
      BY <2>1 DEF EffectsInv, DistinctInv
    <2>9. \A i : ~(i \in 0..(pos' - 1))
      BY <2>1
    <2>4. JournalInv'
      BY <2>1, <2>3, <2>6, <2>7, <2>8, <2>9 DEF JournalInv
    <2>5. QED
      BY <1>0, <2>1, <2>2, <2>4 DEF EffectsInv, CacheInv, ReplayInv
  <1>4. CASE JournalPage
    BY <1>0, <1>4, JournalStep
  <1>5. CASE SyncJournal
    <2>1. /\ disk' = Put({<<1, "first">>}, Header(stmt, pos)) /\ begun' = begun \cup {stmt}
          /\ cache' = cache /\ eState = "CACHEMOD" /\ eState' = "DBMOD" /\ pc = "journal"
          /\ stmt' = stmt /\ disk \in [Cells -> Contents]
      BY <1>5 DEF SyncJournal, statement, TypeInv, TypeOK
    <2>2. DiskInv'
      BY <2>1 DEF EffectsInv, DiskInv, Seen, Put, Header
    <2>3. CacheInv'
      BY <2>1 DEF EffectsInv, CacheInv, JournalInv, Seen
    <2>4. QED
      BY <1>0, <2>1, <2>2, <2>3 DEF EffectsInv, JournalInv, ReplayInv
  <1>6. ASSUME NEW p \in Pages, WritePage(p) PROVE EffectsInv'
    <2>1. /\ disk' = Put(PageCells(p), Page(cache[p])) /\ begun' = begun /\ stmt' = stmt
          /\ cache' = cache /\ eState = "DBMOD" /\ eState' = "DBMOD"
          /\ disk \in [Cells -> Contents]
      BY <1>6 DEF WritePage, statement, TypeInv, TypeOK
    <2>2. cache[p] \in Seen
      BY <1>6, <2>1, ListPages DEF WritePage, First, EffectsInv, CacheInv, Versions, Absent
    <2>3. DiskInv'
      BY <2>1, <2>2 DEF EffectsInv, DiskInv, Seen, Put, Page
    <2>4. QED
      BY <1>0, <2>1, <2>3 DEF EffectsInv, CacheInv, JournalInv, ReplayInv, Seen
  <1>7. CASE JournalFault \/ SyncFault \/ \E p \in Pages : WriteFault(p)
    BY <1>0, <1>7, RollbackStep DEF JournalFault, SyncFault, WriteFault
  <1>8. CASE Commit
    BY <1>0, <1>8 DEF Commit, Return, EffectsInv, DiskInv, CacheInv, JournalInv, ReplayInv, Seen,
                      TypeInv, TypeOK
  <1>9. CASE PlaybackHeader
    BY <1>0, <1>9, ReplayBegins
  <1>10. CASE ReplayPage
    BY <1>0, <1>10, ReplayStep
  <1>11. CASE ReplayDamaged \/ ReplayEnds
    BY <1>0, <1>11, ReplayStops
  <1>12. CASE Replayed
    <2>1. /\ disk' = disk /\ begun' = begun /\ cache' = cache /\ eState' = "OPEN"
          /\ \A p \in Pages : cache[p] \in {Absent} \cup Seen
      BY <1>12 DEF Replayed, Return, TypeInv, TypeOK, EffectsInv, CacheInv
    <2>2. QED
      BY <1>0, <2>1 DEF EffectsInv, DiskInv, CacheInv, JournalInv, ReplayInv, Seen
  <1>13. CASE PlaybackFault
    BY <1>0, <1>13 DEF PlaybackFault, PlaybackFails, Return, EffectsInv, DiskInv, CacheInv,
                       JournalInv, ReplayInv, Seen
  <1>14. CASE UNCHANGED vars
    <2>1. \A i, n : IsRecord(i, n)' <=> IsRecord(i, n)
      BY <1>14 DEF vars, IsRecord
    <2>2. Seen' = Seen
      BY <1>14 DEF vars, Seen
    <2>3. DiskInv' /\ CacheInv'
      BY <1>14, <2>2 DEF vars, statement, EffectsInv, DiskInv, CacheInv
    <2>4. JournalInv'
      BY <1>14, <2>1, <2>2 DEF vars, statement, EffectsInv, JournalInv
    <2>5. ReplayInv'
      BY <1>14, <2>1, <2>2 DEF vars, statement, EffectsInv, ReplayInv
    <2>6. QED
      BY <1>0, <2>3, <2>4, <2>5 DEF EffectsInv
  <1>15. QED
    BY <1>1, <1>2, <1>3, <1>4, <1>5, <1>6, <1>7, <1>8, <1>9, <1>10, <1>11, <1>12, <1>13, <1>14
    DEF Next, Lock, Fetch, Write, Replay, Faults, Exhausted

LEMMA EffectsInit == Init => EffectsInv
  <1> SUFFICES ASSUME Init PROVE EffectsInv
    OBVIOUS
  <1>1. \A c \in Cells : disk[c] = NoFile \/ disk[c] = Page(0)
    BY DEF Init
  <1>2. DiskInv
    BY <1>1 DEF DiskInv, Seen, NoFile, Page
  <1>3. QED
    BY <1>2 DEF Init, EffectsInv, DistinctInv, CacheInv, JournalInv, ReplayInv, Seen

\* Whatever fails, rollbacks included: between statements the cache holds no
\* page of a statement that did not come to write to the database.
THEOREM OnlyCommits == Spec => []EffectsOnlyFromCommit
  <1>1. TypeInv /\ EffectsInv => EffectsOnlyFromCommit
    BY DEF TypeInv, TypeOK, EffectsInv, CacheInv, EffectsOnlyFromCommit, Seen
  <1>2. QED
    BY <1>1, TypeInvariant, EffectsInit, EffectsStep, PTL DEF Spec

-----------------------------------------------------------------------------
(* Nothing is forgotten.                                                   *)

\* The pages that the statement has changed so far.
ChangedInv ==
  /\ pc = "journal" => \A i \in 1..pos : cache[list[i]] = stmt
  /\ pc = "write" =>
       \A i \in 1..Len(list) :
         /\ cache[list[i]] = stmt
         /\ list[i] \notin dirty => \A c \in PageCells(list[i]) : disk[c] = Page(stmt)

\* No page is older than the last success that wrote it, be it in the cache or
\* in its place on the disk.
PagesInv ==
  \A p \in Pages :
    /\ committed[p] <= stmt
    /\ cache[p] # Absent => cache[p] >= committed[p]
    /\ \A c \in PageCells(p) : disk[c].is = "page" => disk[c].ver >= committed[p]

\* The current statement has records of its own only once its journal is open.
NonceInv ==
  \A c \in Cells :
    disk[c].is = "record" =>
      /\ disk[c].by <= stmt
      /\ pc # "idle" /\ eState = "OPEN" => disk[c].by # stmt

\* Nor is what a playback of nonce n would restore.
Restores(n) ==
  \A c \in Cells :
    disk[c].is = "record" /\ disk[c].by = n => disk[c].ver >= committed[disk[c].page]

RestoreInv ==
  /\ IsHeader => Restores(disk[<<1, "first">>].by)
  /\ pc = "replay" => Restores(playback.nonce)

KeptInv == ChangedInv /\ PagesInv /\ NonceInv /\ RestoreInv

\* What a page, a header and a record say of themselves.
LEMMA Fields ==
  /\ \A v : Page(v).is = "page" /\ Page(v).ver = v
  /\ \A s, n : Header(s, n).is = "header" /\ Header(s, n).by = s
  /\ \A s, i, p, v : LET r == Record(s, i, p, v)
                     IN  r.is = "record" /\ r.by = s /\ r.page = p /\ r.ver = v
  /\ NoFile.is = "junk"
  BY DEF Page, Header, Record, NoFile

\* A step that only drops pages from the cache, or wipes some of the disk.
LEMMA QuietStep ==
  ASSUME TypeInv, KeptInv, stmt' = stmt, committed' = committed,
         \A p \in Pages : cache'[p] \in {Absent, cache[p]},
         \A c \in Cells : disk'[c] \in {disk[c], NoFile},
         disk'[<<1, "first">>] = disk[<<1, "first">>],
         pc' \notin {"journal", "write"},
         pc' = "replay" => Restores(playback'.nonce),
         pc' = "idle" \/ eState' # "OPEN" \/ (pc # "idle" /\ eState = "OPEN")
  PROVE  KeptInv'
  <1>1. ChangedInv'
    BY DEF ChangedInv
  <1>2. \A c \in Cells : disk'[c].is # "junk" => disk'[c] = disk[c]
    BY Fields
  <1>3. PagesInv'
    BY <1>2, Places DEF KeptInv, PagesInv
  <1>4. NonceInv'
    BY <1>2 DEF KeptInv, NonceInv
  <1>5. \A n : Restores(n) => Restores(n)'
    BY <1>2 DEF Restores
  <1>6. RestoreInv'
    <2>1. IsHeader' => Restores(disk'[<<1, "first">>].by)
      BY DEF KeptInv, RestoreInv, IsHeader
    <2>2. \A n : Restores(n) => (\A c \in Cells : disk'[c].is = "record" /\ disk'[c].by = n
                                    => disk'[c].ver >= committed'[disk'[c].page])
      BY <1>5 DEF Restores
    <2>3. QED
      BY <2>1, <2>2 DEF RestoreInv, Restores
  <1>7. QED
    BY <1>1, <1>3, <1>4, <1>6 DEF KeptInv

\* Pages come into the cache from the disk.
LEMMA FetchKeeps ==
  ASSUME TypeInv, KeptInv, GetPage1 \/ (\E p \in Pages : FetchPage(p))
  PROVE  KeptInv'
  <1>1. /\ disk' = disk /\ stmt' = stmt /\ committed' = committed /\ playback' = playback
        /\ eState = "OPEN" /\ eState' = "OPEN" /\ pc \in {"page1", "fetch"} /\ pc' = "fetch"
        /\ cache \in [Pages -> Versions \cup {Absent}]
    BY DEF GetPage1, FetchPage, statement, TypeInv, TypeOK
  <1>2. \A p \in Pages :
          IsPage(p) => /\ disk[<<p, "first">>].ver >= committed[p]
                       /\ disk[<<p, "rest">>].ver >= committed[p]
    BY DEF IsPage, PageCells, KeptInv, PagesInv
  <1>3. \A p \in Pages : cache'[p] # Absent => cache'[p] >= committed[p]
    BY <1>1, <1>2, Places DEF GetPage1, FetchPage, KeptInv, PagesInv
  <1>4. PagesInv'
    BY <1>1, <1>3 DEF KeptInv, PagesInv
  <1>5. ChangedInv' /\ NonceInv' /\ RestoreInv'
    BY <1>1 DEF KeptInv, ChangedInv, NonceInv, RestoreInv, Restores, IsHeader
  <1>6. QED
    BY <1>4, <1>5 DEF KeptInv

\* A header with a nonce that no record has yet.
LEMMA OpenKeeps ==
  ASSUME TypeInv, KeptInv, OpenJournal
  PROVE  KeptInv'
  <1>1. /\ disk' = Put(PageCells(1), Header(stmt, 0)) /\ cache' = cache /\ pos' = 0
        /\ stmt' = stmt /\ committed' = committed /\ pc = "fetch" /\ pc' = "journal"
        /\ eState = "OPEN" /\ eState' = "CACHEMOD" /\ list' = list
    BY DEF OpenJournal, statement, TypeInv, TypeOK
  <1>2. \A c \in Cells : disk'[c] = IF c \in PageCells(1) THEN Header(stmt, 0) ELSE disk[c]
    BY <1>1 DEF Put
  <1>3. disk'[<<1, "first">>].by = stmt
    <2>1. <<1, "first">> \in Cells /\ <<1, "first">> \in PageCells(1)
      BY Places
    <2>2. disk'[<<1, "first">>] = Header(stmt, 0)
      BY <1>2, <2>1
    <2>3. QED
      BY <2>2, Fields
  <1>4. \A c \in Cells : disk'[c].is # "header" => disk'[c] = disk[c]
    BY <1>2, Fields
  <1>5. PagesInv'
    BY <1>1, <1>4, Places DEF KeptInv, PagesInv
  <1>6. NonceInv' /\ \A c \in Cells : disk'[c].is = "record" => disk'[c].by # stmt
    BY <1>1, <1>4 DEF KeptInv, NonceInv
  <1>7. RestoreInv'
    BY <1>1, <1>3, <1>6 DEF RestoreInv, Restores
  <1>8. ChangedInv'
    <2>1. \A i : ~(i \in 1..0)
      OBVIOUS
    <2>2. QED
      BY <1>1, <2>1 DEF ChangedInv
  <1>9. QED
    BY <1>5, <1>6, <1>7, <1>8 DEF KeptInv

\* The old page goes to the journal, and it is no older than the last commit.
LEMMA JournalKeeps ==
  ASSUME TypeInv, KeptInv, JournalPage
  PROVE  KeptInv'
  <1> DEFINE q == list[pos + 1]
  <1>1. /\ pos \in Nat /\ pos + 1 \in 1..Len(list)
        /\ q \in Pages /\ cache[q] \in Versions /\ stmt \in Versions
        /\ cache \in [Pages -> Versions \cup {Absent}]
    BY ListPages DEF JournalPage, TypeInv, TypeOK
  <1>2. /\ disk' = Put(RecordCells(pos), Record(stmt, pos, q, cache[q]))
        /\ cache' = [cache EXCEPT ![q] = stmt] /\ pos' = pos + 1
        /\ stmt' = stmt /\ committed' = committed /\ pc = "journal" /\ pc' = pc
        /\ eState = "CACHEMOD" /\ eState' = eState /\ list' = list
    BY DEF JournalPage, statement, TypeInv, TypeOK
  <1>3. cache[q] >= committed[q] /\ committed[q] <= stmt
    BY <1>1 DEF KeptInv, PagesInv, Versions, Absent
  <1> DEFINE rec == Record(stmt, pos, q, cache[q])
  <1>4. rec.is = "record" /\ rec.by = stmt /\ rec.page = q /\ rec.ver = cache[q]
    BY Fields
  <1>5. \A c \in Cells : disk'[c] = rec \/ disk'[c] = disk[c]
    BY <1>2 DEF Put
  <1>6. disk'[<<1, "first">>] = disk[<<1, "first">>]
    BY <1>1, <1>2, Places DEF Put
  <1> HIDE DEF rec
  <1>7. \A p \in Pages : cache'[p] = IF p = q THEN stmt ELSE cache[p]
    BY <1>1, <1>2
  <1>8. ChangedInv'
    <2>1. \A i \in 1..(pos + 1) : i \in 1..pos \/ i = pos + 1
      BY <1>1
    <2>2. \A i \in 1..(pos + 1) : list[i] \in Pages
      BY <1>1, ListPages DEF TypeInv, TypeOK
    <2>3. \A i \in 1..pos : cache[list[i]] = stmt
      BY <1>2 DEF KeptInv, ChangedInv
    <2>4. \A i \in 1..(pos + 1) : cache'[list[i]] = stmt
      BY <1>7, <2>1, <2>2, <2>3
    <2>5. QED
      BY <1>2, <2>4 DEF ChangedInv
  <1>9. PagesInv'
    <2>1. \A p \in Pages : cache'[p] # Absent => cache'[p] >= committed[p]
      BY <1>1, <1>3, <1>7 DEF KeptInv, PagesInv, TypeInv, TypeOK, Versions
    <2>2. \A c \in Cells : disk'[c].is = "page" => disk'[c] = disk[c]
      BY <1>4, <1>5
    <2>3. QED
      BY <1>2, <2>1, <2>2, Places DEF KeptInv, PagesInv
  <1>10. NonceInv'
    BY <1>1, <1>2, <1>4, <1>5 DEF KeptInv, NonceInv, Versions
  <1>11. \A n : Restores(n) => \A c \in Cells : disk'[c].is = "record" /\ disk'[c].by = n
                                  => disk'[c].ver >= committed[disk'[c].page]
    BY <1>3, <1>4, <1>5 DEF Restores
  <1>12. RestoreInv'
    BY <1>2, <1>6, <1>11 DEF KeptInv, RestoreInv, Restores, IsHeader
  <1>13. QED
    BY <1>8, <1>9, <1>10, <1>12 DEF KeptInv

\* The header is completed with the nonce it had.
LEMMA SyncKeeps ==
  ASSUME TypeInv, EffectsInv, KeptInv, SyncJournal
  PROVE  KeptInv'
  <1>1. /\ disk' = Put({<<1, "first">>}, Header(stmt, pos)) /\ cache' = cache
        /\ stmt' = stmt /\ committed' = committed /\ pc = "journal" /\ pc' = "write"
        /\ eState = "CACHEMOD" /\ eState' = "DBMOD" /\ list' = list /\ pos = Len(list)
        /\ dirty' = {list[i] : i \in 1..Len(list)}
    BY DEF SyncJournal, statement, TypeInv, TypeOK
  <1>2. \A c \in Cells : disk'[c] = IF c = <<1, "first">> THEN Header(stmt, pos) ELSE disk[c]
    BY <1>1 DEF Put
  <1>3. disk'[<<1, "first">>].by = stmt
    BY <1>2, Places, Fields
  <1>4. \A c \in Cells : disk'[c].is # "header" => disk'[c] = disk[c]
    BY <1>2, Fields
  <1>5. IsHeader /\ disk[<<1, "first">>].by = stmt
    BY <1>1 DEF TypeInv, HeaderInv, EffectsInv, JournalInv
  <1>6. PagesInv'
    BY <1>1, <1>4, Places DEF KeptInv, PagesInv
  <1>7. NonceInv'
    BY <1>1, <1>4 DEF KeptInv, NonceInv
  <1>8. RestoreInv'
    <2>1. Restores(stmt)
      BY <1>5 DEF KeptInv, RestoreInv
    <2>2. QED
      BY <1>1, <1>3, <1>4, <2>1 DEF RestoreInv, Restores
  <1>9. ChangedInv'
    BY <1>1 DEF KeptInv, ChangedInv
  <1>10. QED
    BY <1>6, <1>7, <1>8, <1>9 DEF KeptInv

\* The pages of the database do not touch each other.
LEMMA PagesApart ==
  ASSUME NEW p, NEW q, p # q
  PROVE  PageCells(p) \cap PageCells(q) = {}
  BY DEF PageCells

\* Into the place of a page comes a version no older than the last commit.
LEMMA OverwriteKeeps ==
  ASSUME TypeInv, KeptInv, NEW p \in Pages, NEW v \in Versions, v >= committed[p],
         disk' = Put(PageCells(p), Page(v)), stmt' = stmt, committed' = committed
  PROVE  /\ \A c \in Cells : disk'[c].is # "page" => disk'[c] = disk[c]
         /\ \A r \in Pages : \A c \in PageCells(r) :
              disk'[c].is = "page" => disk'[c].ver >= committed'[r]
         /\ IsHeader' => IsHeader /\ disk'[<<1, "first">>] = disk[<<1, "first">>]
  <1>1. \A c \in Cells : disk'[c] = IF c \in PageCells(p) THEN Page(v) ELSE disk[c]
    BY DEF Put
  <1>2. \A c \in Cells : disk'[c].is # "page" => disk'[c] = disk[c]
    BY <1>1, Fields
  <1>3. ASSUME NEW r \in Pages, NEW c \in PageCells(r), disk'[c].is = "page"
        PROVE  disk'[c].ver >= committed'[r]
    <2>1. c \in Cells
      BY <1>3, Places
    <2>2. CASE r = p
      BY <1>1, <2>1, <2>2, Fields
    <2>3. CASE r # p
      <3>1. c \notin PageCells(p)
        BY <2>3, PagesApart
      <3>2. disk'[c] = disk[c]
        BY <1>1, <2>1, <3>1
      <3>3. QED
        BY <1>3, <3>2 DEF KeptInv, PagesInv
    <2>4. QED
      BY <2>2, <2>3
  <1>4. IsHeader' => IsHeader /\ disk'[<<1, "first">>] = disk[<<1, "first">>]
    BY <1>2, Places DEF IsHeader
  <1>5. QED
    BY <1>2, <1>3, <1>4

\* A changed page to the database.
LEMMA WriteKeeps ==
  ASSUME TypeInv, KeptInv, NEW p \in Pages, WritePage(p)
  PROVE  KeptInv'
  <1>1. /\ disk' = Put(PageCells(p), Page(cache[p])) /\ cache' = cache
        /\ stmt' = stmt /\ committed' = committed /\ pc = "write" /\ pc' = "write"
        /\ eState = "DBMOD" /\ eState' = "DBMOD" /\ list' = list
        /\ p \in dirty /\ dirty' = dirty \ {p} /\ cache[p] \in Versions
    BY ListPages DEF WritePage, First, statement, TypeInv, TypeOK
  <1>2. cache[p] = stmt
    BY <1>1 DEF TypeInv, ListInv, KeptInv, ChangedInv
  <1>3. cache[p] >= committed[p]
    BY <1>1 DEF KeptInv, PagesInv, Versions, Absent
  <1>4. /\ \A c \in Cells : disk'[c].is # "page" => disk'[c] = disk[c]
        /\ \A r \in Pages : \A c \in PageCells(r) :
             disk'[c].is = "page" => disk'[c].ver >= committed'[r]
        /\ IsHeader' => IsHeader /\ disk'[<<1, "first">>] = disk[<<1, "first">>]
    BY <1>1, <1>3, OverwriteKeeps
  <1>5. PagesInv'
    BY <1>1, <1>4 DEF KeptInv, PagesInv
  <1>6. NonceInv'
    BY <1>1, <1>4 DEF KeptInv, NonceInv
  <1>7. RestoreInv'
    BY <1>1, <1>4 DEF KeptInv, RestoreInv, Restores
  <1>8. ASSUME NEW i \in 1..Len(list), list[i] \notin dirty', NEW c \in PageCells(list[i])
        PROVE  disk'[c] = Page(stmt)
    <2>1. list[i] \in Pages /\ c \in Cells
      BY <1>8, ListPages, Places
    <2>2. disk'[c] = IF c \in PageCells(p) THEN Page(stmt) ELSE disk[c]
      BY <1>1, <1>2, <2>1 DEF Put
    <2>3. CASE list[i] = p
      BY <1>8, <2>2, <2>3
    <2>4. CASE list[i] # p
      BY <1>1, <1>8, <2>2, <2>4 DEF KeptInv, ChangedInv
    <2>5. QED
      BY <2>3, <2>4
  <1>9. ChangedInv'
    BY <1>1, <1>8 DEF KeptInv, ChangedInv
  <1>10. QED
    BY <1>5, <1>6, <1>7, <1>9 DEF KeptInv

\* With the commit everything the statement wrote is in place, and page 1 has
\* taken the place of the header: there is no journal any more.
LEMMA CommitKeeps ==
  ASSUME TypeInv, CounterInv, KeptInv, Commit
  PROVE  KeptInv'
  <1>1. /\ disk' = disk /\ cache' = cache /\ stmt' = stmt /\ pc = "write" /\ pc' = "idle"
        /\ dirty = {} /\ stmt \in Versions /\ committed \in [Pages -> Versions]
    BY DEF Commit, Return, statement, TypeInv, TypeOK
  <1>2. \A i \in 1..Len(list) : /\ cache[list[i]] = stmt
                                /\ \A c \in PageCells(list[i]) : disk[c] = Page(stmt)
    BY <1>1 DEF KeptInv, ChangedInv
  <1>3. \A p \in Pages : committed'[p] = IF \E i \in 1..Len(list) : list[i] = p
                                           THEN stmt ELSE committed[p]
    BY DEF Commit
  <1>4. PagesInv'
    <2> SUFFICES ASSUME NEW p \in Pages
                 PROVE  /\ committed'[p] <= stmt
                        /\ cache[p] # Absent => cache[p] >= committed'[p]
                        /\ \A c \in PageCells(p) :
                             disk[c].is = "page" => disk[c].ver >= committed'[p]
      BY <1>1 DEF PagesInv
    <2>1. CASE \E i \in 1..Len(list) : list[i] = p
      <3>1. committed'[p] = stmt /\ cache[p] = stmt /\ \A c \in PageCells(p) : disk[c] = Page(stmt)
        BY <1>2, <1>3, <2>1
      <3>2. QED
        BY <1>1, <3>1, Fields DEF Versions
    <2>2. CASE ~(\E i \in 1..Len(list) : list[i] = p)
      BY <1>3, <2>2 DEF KeptInv, PagesInv
    <2>3. QED
      BY <2>1, <2>2
  <1>5. ~IsHeader'
    <2>1. Len(list) \in 1..Len(list) /\ list[Len(list)] = 1
      BY <1>1 DEF CounterInv, TypeInv, TypeOK
    <2>2. disk[<<1, "first">>] = Page(stmt)
      BY <1>2, <2>1, Places
    <2>3. QED
      BY <1>1, <2>2, Fields DEF IsHeader
  <1>6. ChangedInv' /\ NonceInv' /\ RestoreInv'
    BY <1>1, <1>5 DEF KeptInv, ChangedInv, NonceInv, RestoreInv
  <1>7. QED
    BY <1>4, <1>6 DEF KeptInv

\* A record is restored that the journal's nonce vouches for.
LEMMA ReplayKeeps ==
  ASSUME TypeInv, KeptInv, ReplayPage
  PROVE  KeptInv'
  <1> DEFINE r == disk[<<pos + 2, "rest">>]
  <1>1. pos \in 0..(NPages - 1) /\ <<pos + 2, "rest">> \in Cells
    BY Places, PagesAssumption DEF ReplayPage, TypeInv, TypeOK, Playbacks
  <1>2. /\ stmt' = stmt /\ committed' = committed /\ playback' = playback
        /\ pc = "replay" /\ pc' = "replay" /\ eState' = eState
        /\ disk' = IF eState = "CACHEMOD" THEN disk ELSE Put(PageCells(r.page), Page(r.ver))
        /\ cache' = IF cache[r.page] # Absent THEN [cache EXCEPT ![r.page] = r.ver] ELSE cache
        /\ cache \in [Pages -> Versions \cup {Absent}]
    BY DEF ReplayPage, statement, TypeInv, TypeOK
  <1>3. r.is = "record" /\ r.by = playback.nonce
    BY DEF ReplayPage, IsRecord
  <1>4. r.page \in Pages /\ r.ver \in Versions
    BY <1>1, <1>3, ContentFields DEF TypeInv, TypeOK
  <1>5. r.ver >= committed[r.page]
    BY <1>1, <1>2, <1>3 DEF KeptInv, RestoreInv, Restores
  <1> HIDE DEF r
  <1>6. /\ \A c \in Cells : disk'[c].is # "page" => disk'[c] = disk[c]
        /\ \A p \in Pages : \A c \in PageCells(p) :
             disk'[c].is = "page" => disk'[c].ver >= committed'[p]
        /\ IsHeader' => IsHeader /\ disk'[<<1, "first">>] = disk[<<1, "first">>]
    <2>1. CASE eState = "CACHEMOD"
      BY <1>2, <2>1 DEF KeptInv, PagesInv, IsHeader
    <2>2. CASE eState # "CACHEMOD"
      <3>1. disk' = Put(PageCells(r.page), Page(r.ver))
        BY <1>2, <2>2
      <3>2. QED
        BY <1>2, <1>4, <1>5, <3>1, OverwriteKeeps
    <2>3. QED
      BY <2>1, <2>2
  <1>7. \A p \in Pages : cache'[p] # Absent => cache'[p] >= committed[p]
    BY <1>2, <1>4, <1>5 DEF KeptInv, PagesInv
  <1>8. PagesInv'
    BY <1>2, <1>6, <1>7 DEF KeptInv, PagesInv
  <1>9. NonceInv'
    BY <1>2, <1>6 DEF KeptInv, NonceInv
  <1>10. RestoreInv'
    BY <1>2, <1>6 DEF KeptInv, RestoreInv, Restores
  <1>11. QED
    BY <1>2, <1>8, <1>9, <1>10 DEF KeptInv, ChangedInv

LEMMA KeptStep ==
  ASSUME TypeInv, CounterInv, EffectsInv, KeptInv, [Next]_vars
  PROVE  KeptInv'
  <1>1. ASSUME NEW s \in Statements, Begin(s) PROVE KeptInv'
    <2>1. /\ disk' = disk /\ cache' = cache /\ committed' = committed
          /\ stmt' = stmt + 1 /\ pc' = "lock"
          /\ stmt \in Nat /\ committed \in [Pages -> Nat]
      BY <1>1 DEF Begin, TypeInv, TypeOK, Versions
    <2>2. PagesInv'
      BY <2>1 DEF KeptInv, PagesInv
    <2>3. NonceInv'
      <3>1. \A c \in Cells : disk[c].is = "record" => disk[c].by \in Int
        BY DEF TypeInv, TypeOK, Contents, Versions, NoFile, Page, Header, Record
      <3>2. QED
        BY <2>1, <3>1 DEF KeptInv, NonceInv
    <2>4. ChangedInv' /\ RestoreInv'
      BY <2>1 DEF KeptInv, ChangedInv, RestoreInv, Restores, IsHeader
    <2>5. QED
      BY <2>2, <2>3, <2>4 DEF KeptInv
  <1>2. CASE \/ HasHotJournal \/ CheckVersion \/ NotADatabase \/ EarlyFault
             \/ \E p \in Pages : FetchJunk(p)
    BY <1>2, QuietStep
    DEF HasHotJournal, CheckVersion, NotADatabase, EarlyFault, FetchJunk, Refuse, Return,
        statement, TypeInv, TypeOK
  <1>3. CASE GetPage1 \/ (\E p \in Pages : FetchPage(p))
    BY <1>3, FetchKeeps
  <1>4. CASE OpenJournal
    BY <1>4, OpenKeeps
  <1>5. CASE JournalPage
    BY <1>5, JournalKeeps
  <1>6. CASE SyncJournal
    BY <1>6, SyncKeeps
  <1>7. CASE \E p \in Pages : WritePage(p)
    BY <1>7, WriteKeeps
  <1>8. CASE Commit
    BY <1>8, CommitKeeps
  <1>9. CASE JournalFault
    <2>1. pos \in Nat
      BY DEF TypeInv, TypeOK
    <2>2. /\ \A c \in Cells : disk'[c] \in {disk[c], NoFile}
          /\ disk'[<<1, "first">>] = disk[<<1, "first">>]
      BY <1>9, <2>1, Places DEF JournalFault, Put
    <2>3. /\ stmt' = stmt /\ committed' = committed /\ cache' = cache /\ pc' = "header"
          /\ eState' # "OPEN"
      BY <1>9 DEF JournalFault, Rollback, statement, TypeInv, TypeOK
    <2>4. QED
      BY <2>2, <2>3, QuietStep
  <1>10. CASE SyncFault \/ \E p \in Pages : WriteFault(p)
    BY <1>10, QuietStep DEF SyncFault, WriteFault, Rollback, statement, TypeInv, TypeOK
  <1>11. CASE PlaybackHeader
    <2>1. /\ disk' = disk /\ stmt' = stmt /\ committed' = committed /\ eState' = eState
          /\ pc = "header" /\ pc' \in {"replay", "replayed"}
          /\ \A p \in Pages : cache'[p] \in {Absent, cache[p]}
      BY <1>11 DEF PlaybackHeader, statement
    <2>2. ASSUME pc' = "replay" PROVE Restores(playback'.nonce)
      <3>1. IsHeader /\ playback'.nonce = disk[<<1, "first">>].by
        BY <1>11, <2>2 DEF PlaybackHeader, IsSynced, TypeInv, TypeOK, HeaderInv, Playbacks
      <3>2. QED
        BY <3>1 DEF KeptInv, RestoreInv
    <2>3. QED
      BY <2>1, <2>2, QuietStep
  <1>12. CASE ReplayPage
    BY <1>12, ReplayKeeps
  <1>13. CASE ReplayDamaged \/ ReplayEnds
    <2>1. /\ disk' = disk /\ stmt' = stmt /\ committed' = committed /\ eState' = eState
          /\ pc = "replay" /\ pc' \in {"replay", "replayed"} /\ cache' = cache
          /\ playback' = playback
      BY <1>13 DEF ReplayDamaged, ReplayEnds, statement
    <2>2. Restores(playback.nonce)
      BY <2>1 DEF KeptInv, RestoreInv
    <2>3. QED
      BY <2>1, <2>2, QuietStep
  <1>14. CASE Replayed \/ PlaybackFault
    BY <1>14, QuietStep
    DEF Replayed, PlaybackFault, PlaybackFails, Return, statement, TypeInv, TypeOK
  <1>15. CASE UNCHANGED vars
    BY <1>15 DEF vars, statement, KeptInv, ChangedInv, PagesInv, NonceInv, RestoreInv, Restores,
                 IsHeader
  <1>16. QED
    BY <1>1, <1>2, <1>3, <1>4, <1>5, <1>6, <1>7, <1>8, <1>9, <1>10, <1>11, <1>12, <1>13, <1>14,
       <1>15
    DEF Next, Lock, Fetch, Write, Replay, Faults, Exhausted

LEMMA KeptInit == Init => KeptInv
  <1> SUFFICES ASSUME Init PROVE KeptInv
    OBVIOUS
  <1>1. \A c \in Cells : disk[c] = NoFile \/ disk[c] = Page(0)
    BY DEF Init
  <1>2. \A c \in Cells : /\ disk[c].is \notin {"header", "record"}
                         /\ disk[c].is = "page" => disk[c].ver = 0
    BY <1>1, Fields
  <1>3. PagesInv
    <2>1. \A p \in Pages : committed[p] = 0 /\ cache[p] = 0
      BY DEF Init
    <2>2. \A p \in Pages : \A c \in PageCells(p) : disk[c].is = "page" => disk[c].ver = 0
      BY <1>2, Places
    <2>3. stmt = 0
      BY DEF Init
    <2>4. QED
      BY <2>1, <2>2, <2>3 DEF PagesInv
  <1>4. NonceInv
    BY <1>2 DEF NonceInv
  <1>5. ChangedInv /\ RestoreInv
    BY <1>2, Places DEF Init, ChangedInv, RestoreInv, IsHeader
  <1>6. QED
    BY <1>3, <1>4, <1>5 DEF KeptInv

\* Whatever fails, playbacks of old or damaged journals included: between
\* statements no page in the cache is older than the last success that wrote it.
THEOREM NothingIsForgotten == Spec => []NothingForgotten
  <1>1. KeptInv => NothingForgotten
    BY DEF KeptInv, PagesInv, NothingForgotten
  <1>2. Init => CounterInv
    BY DEF Init, CounterInv
  <1>3. QED
    BY <1>1, <1>2, TypeInvariant, CounterStep, EffectsInit, EffectsStep, KeptInit, KeptStep, PTL
    DEF Spec

=============================================================================
