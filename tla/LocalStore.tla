----------------------------- MODULE LocalStore -----------------------------
(***************************************************************************)
(* What the client keeps on disk from one start to the next: the meeting   *)
(* history and the account to log in with.  A start opens the SQLite       *)
(* database, or, when it cannot be opened, works on what an older version  *)
(* used: a JSON file and the registry.  The program may crash between any  *)
(* two statements, and a statement or the access to the file may fail.     *)
(*                                                                         *)
(* Meetings are numbered in the order of their start, which is the order   *)
(* of started_at as long as the clock is not set back.                     *)
(***************************************************************************)
EXTENDS Integers, Sequences, FiniteSets

CONSTANTS
  MaxRuns,       \* bound on the starts of the program
  MaxMeetings,   \* bound on the meetings
  MaxRecords,    \* kMaxRecords
  Accounts,
  NoAccount      \* nobody to log in with

ASSUME LimitsAreNaturals ==
  MaxRuns \in Nat /\ MaxMeetings \in Nat /\ MaxRecords \in Nat \ {0}
ASSUME NoAccountIsNobody == NoAccount \notin Accounts

VARIABLES
  table,       \* the rows of meeting_history, latest first
  json,        \* the records in meeting_history.json, latest first
  marked,      \* meta has migrated_history_v1
  backup,      \* the file meeting_history.json.migrated exists
  creds,       \* the row of credentials
  oldCreds,    \* login/* in app_settings, where an older version kept it
  registry,    \* login/* in the registry
  stage,       \* where the program is between start and end
  open,        \* _open: the database is used
  toImport,    \* the records of the file still to be inserted
  imported,    \* the import has inserted some
  meeting,     \* the meeting under way, 0 when there is none
  view,        \* stack_meeting_history::_records
  astray,      \* they are not the store's: it could not be read
  runs, meetings, \* starts and meetings so far
  gone,        \* meetings deleted, cleared or trimmed away
  remembered,  \* the account the database is to remember
  loggedOut,   \* how the last start that logged out kept its data
  botched,     \* a statement has failed, or a file was cut off in writing
  cut          \* a crash has hit an import whose file was not put aside yet

historyVars == <<table, json, marked, backup>>
importVars  == <<toImport, imported, cut>>
pageVars    == <<view, astray>>
credVars    == <<creds, oldCreds, registry, remembered, loggedOut>>
storeVars == <<historyVars, importVars, credVars, stage, open, meeting, pageVars, runs, meetings,
          gone, botched>>

Stages == {"off", "move", "drop", "login", "import", "rename", "mark", "running"}

(* length names the meeting whose duration the record has been given. *)
Opened(m) == [meeting |-> m, open |-> TRUE, length |-> 0]

Records == [meeting : 1..MaxMeetings, open : BOOLEAN, length : 0..MaxMeetings]

MeetingsIn(s) == {s[i].meeting : i \in DOMAIN s}

(* An older version has left up to two meetings, the later one perhaps        *)
(* interrupted, and its account in either of two places.                      *)
OldFiles ==
  {<<>>} \cup {<<[meeting |-> 2, open |-> o, length |-> IF o THEN 0 ELSE 2],
                 [meeting |-> 1, open |-> FALSE, length |-> 1]>> : o \in BOOLEAN}

StoreInit ==
  /\ table = <<>> /\ json \in OldFiles /\ marked = FALSE /\ backup = FALSE
  /\ creds = NoAccount
  /\ oldCreds \in Accounts \cup {NoAccount} /\ registry \in Accounts \cup {NoAccount}
  /\ stage = "off" /\ open = FALSE
  /\ toImport = <<>> /\ imported = FALSE
  /\ meeting = 0 /\ view = <<>> /\ astray = FALSE
  /\ runs = 0 /\ meetings = Len(json)
  /\ gone = {} /\ remembered = oldCreds /\ loggedOut = "no"
  /\ botched = FALSE /\ cut = FALSE

-----------------------------------------------------------------------------
(* The records, wherever they are kept; the page loads them after a change. *)

Store == IF open THEN table ELSE json

(* trim() and save_json() keep the latest. *)
Trim(s) == IF Len(s) <= MaxRecords THEN s ELSE SubSeq(s, 1, MaxRecords)

(* Before the first record that is older. *)
Insert(s, r) ==
  LET newer == Cardinality({i \in DOMAIN s : s[i].meeting >= r.meeting})
  IN SubSeq(s, 1, newer) \o <<r>> \o SubSeq(s, newer + 1, Len(s))

(* The one finish_open_session closes: the latest that is open. *)
IsLatestOpen(s, i) == s[i].open /\ \A j \in 1..(i - 1) : ~s[j].open

(* Faulty: every open record is closed. *)
FinishAll(s, m) ==
  [i \in DOMAIN s |-> IF s[i].open THEN [s[i] EXCEPT !.open = FALSE, !.length = m] ELSE s[i]]

Finish(s, m) ==
  [i \in DOMAIN s |->
     IF IsLatestOpen(s, i) THEN [s[i] EXCEPT !.open = FALSE, !.length = m] ELSE s[i]]

WithoutRow(s, i) == SubSeq(s, 1, i - 1) \o SubSeq(s, i + 1, Len(s))

Write(s) ==
  /\ IF open THEN table' = s /\ UNCHANGED json ELSE json' = s /\ UNCHANGED table
  /\ UNCHANGED <<marked, backup>>

(* A failed statement changes nothing; a file that cannot be written whole   *)
(* has been truncated before, and is read as an empty one.                   *)
WriteFails ==
  /\ IF open THEN UNCHANGED json ELSE json' \in {json, <<>>}
  /\ botched' = TRUE
  /\ UNCHANGED <<table, marked, backup, gone>>

(* A change of the records that works or fails; dropped is what it is meant  *)
(* to take away.                                                             *)
Change(s, dropped) ==
  \/ Write(s) /\ gone' = gone \cup dropped /\ UNCHANGED botched
  \/ WriteFails

(* load(), for the page.  When the SELECT fails the old file is read instead,*)
(* and when a later row of it does, the list ends there; a file that cannot  *)
(* be read has no records.                                                   *)
ReloadPage ==
  \/ view' = (IF open THEN table' ELSE json') /\ astray' = FALSE
  \/ /\ astray' = TRUE
     /\ \/ open /\ view' = json'
        \/ open /\ \E n \in 0..(Len(table') - 1) : view' = SubSeq(table', 1, n)
        \/ ~open /\ view' = <<>>

-----------------------------------------------------------------------------
(* From the start to the main window *)

Start ==
  /\ stage = "off" /\ runs < MaxRuns
  /\ runs' = runs + 1
  /\ \/ open' = TRUE /\ stage' = "move"
     \/ open' = FALSE /\ stage' = "login"
  /\ UNCHANGED <<historyVars, importVars, credVars, meeting, pageVars, meetings, gone, botched>>

AtStage(s, next) ==
  /\ stage = s /\ stage' = next
  /\ UNCHANGED <<open, meeting, runs, meetings>>

(* A statement that need not work. *)
Try(effect, nothing) ==
  \/ effect /\ UNCHANGED botched
  \/ nothing /\ botched' = TRUE

(* Faulty: the old account is dropped first. *)
DropOldFirst ==
  /\ AtStage("move", "drop")
  /\ Try(oldCreds' = NoAccount /\ creds' = creds, UNCHANGED <<creds, oldCreds>>)
  /\ UNCHANGED <<historyVars, importVars, registry, remembered, loggedOut, pageVars, gone>>

(* migrate_from_registry: an old account is moved to its table ...           *)
MoveCredentials ==
  /\ AtStage("move", "drop")
  /\ IF creds = NoAccount /\ oldCreds # NoAccount
       THEN Try(creds' = oldCreds, UNCHANGED creds)
       ELSE UNCHANGED <<creds, botched>>
  /\ UNCHANGED <<historyVars, importVars, oldCreds, registry, remembered, loggedOut, pageVars, gone>>

(* ... and dropped where it was, whether or not that has worked.              *)
DropOldCredentials ==
  /\ AtStage("drop", "login")
  /\ Try(oldCreds' = NoAccount, UNCHANGED oldCreds)
  /\ UNCHANGED <<historyVars, importVars, creds, registry, remembered, loggedOut, pageVars, gone>>

(* The account the login window starts with, and logs in at once. *)
StoredAccount == IF open THEN creds ELSE registry

StoreKind == IF open THEN "database" ELSE "registry"

SaveAccount(a) ==
  IF open
    THEN /\ UNCHANGED registry
         /\ Try(creds' = a /\ remembered' = a, UNCHANGED <<creds, remembered>>)
    ELSE registry' = a /\ UNCHANGED <<creds, remembered, botched>>

ClearAccount ==
  IF open
    THEN creds' = NoAccount /\ remembered' = NoAccount /\ UNCHANGED registry
    ELSE registry' = NoAccount /\ UNCHANGED <<creds, remembered>>

(* A login, automatic or not, has succeeded: what the login fields hold when *)
(* the answer arrives is stored.                                             *)
LoginSucceeds(a) ==
  /\ AtStage("login", "import")
  /\ SaveAccount(a)
  /\ loggedOut' = "no"
  /\ toImport' = IF open /\ ~marked THEN json ELSE <<>>
  /\ imported' = FALSE
  /\ UNCHANGED <<historyVars, cut, oldCreds, pageVars, gone>>

(* The main window's pages load the history, which imports the old file      *)
(* first, a record at a time (a file that cannot be read leaves the same as  *)
(* one whose every record is refused) ...                                    *)
ImportRecord ==
  /\ stage = "import" /\ toImport # <<>>
  /\ toImport' = Tail(toImport)
  /\ \/ /\ table' = Insert(table, Head(toImport))
        /\ imported' = TRUE
        /\ UNCHANGED botched
     \/ botched' = TRUE /\ UNCHANGED <<table, imported>>
  /\ UNCHANGED <<json, marked, backup, cut, credVars, stage, open, meeting, pageVars, runs,
                 meetings, gone>>

ImportEnds ==
  /\ toImport = <<>>
  /\ AtStage("import", IF ~open \/ marked THEN "running" ELSE IF imported THEN "rename" ELSE "mark")
  /\ UNCHANGED <<historyVars, importVars, credVars, gone, botched>>
  /\ IF ~open \/ marked THEN ReloadPage ELSE UNCHANGED pageVars

(* ... then puts the file aside, unless one has been put aside before ...    *)
RenameFile ==
  /\ AtStage("rename", "mark")
  /\ json' = IF backup THEN json ELSE <<>>
  /\ backup' = TRUE
  /\ UNCHANGED <<table, marked, importVars, credVars, pageVars, gone, botched>>

(* Faulty: no mark is left. *)
NoMark ==
  /\ AtStage("mark", "running")
  /\ UNCHANGED <<historyVars, importVars, credVars, gone, botched>>
  /\ ReloadPage

(* ... and marks the import as done.                                          *)
MarkImported ==
  /\ AtStage("mark", "running")
  /\ Try(marked' = TRUE, UNCHANGED marked)
  /\ UNCHANGED <<table, json, backup, importVars, credVars, gone>>
  /\ ReloadPage

-----------------------------------------------------------------------------
(* The main window *)

Runs ==
  /\ stage = "running"
  /\ UNCHANGED <<importVars, credVars, open, runs>>

(* append, behind meeting_confirmed_signal: an insert and a trim, or the      *)
(* file, which is written anew with this record alone if it cannot be read.   *)
MeetingConfirmed ==
  /\ Runs /\ meeting = 0 /\ meetings < MaxMeetings
  /\ meetings' = meetings + 1
  /\ meeting' = meetings'
  /\ LET all == Insert(Store, Opened(meetings'))
     IN \/ Change(Trim(all), MeetingsIn(Store) \ MeetingsIn(Trim(all)))
        \/ open /\ Write(all) /\ UNCHANGED <<gone, botched>>
        \/ ~open /\ Write(<<Opened(meetings')>>) /\ botched' = TRUE /\ UNCHANGED gone
  /\ ReloadPage
  /\ UNCHANGED stage

(* finish_open_session, behind meeting_closed_signal *)
MeetingClosed ==
  /\ Runs /\ meeting # 0
  /\ meeting' = 0
  /\ Change(Finish(Store, meeting), {})
  /\ ReloadPage
  /\ UNCHANGED <<stage, meetings>>

(* remove_at takes the position in the store, the page's or not; what it     *)
(* deletes for a page that is astray is deleted all the same.                *)
DeleteRow(i) ==
  /\ Runs /\ i \in DOMAIN view
  /\ LET left == IF i \in DOMAIN Store THEN WithoutRow(Store, i) ELSE Store
     IN Change(left, IF astray THEN MeetingsIn(Store) \ MeetingsIn(left)
                     ELSE {view[i].meeting})
  /\ ReloadPage
  /\ UNCHANGED <<stage, meeting, meetings>>

ClearHistory ==
  /\ Runs
  /\ Change(<<>>, MeetingsIn(Store))
  /\ ReloadPage
  /\ UNCHANGED <<stage, meeting, meetings>>

(* The page is opened. *)
ShowHistory ==
  /\ Runs
  /\ UNCHANGED <<historyVars, stage, meeting, meetings, gone, botched>>
  /\ ReloadPage

EmptyPage == view' = <<>> /\ astray' = FALSE

(* The end of the program closes a meeting first. *)
Closes ==
  /\ stage = "running" /\ stage' = "off"
  /\ meeting' = 0 /\ EmptyPage
  /\ IF meeting # 0 THEN Change(Finish(Store, meeting), {})
     ELSE UNCHANGED <<historyVars, gone, botched>>
  /\ UNCHANGED <<importVars, open, runs, meetings>>

Quit == Closes /\ UNCHANGED credVars

Logout ==
  /\ Closes
  /\ loggedOut' = StoreKind
  /\ ClearAccount
  /\ UNCHANGED oldCreds

LoginCancelled ==
  /\ AtStage("login", "off")
  /\ UNCHANGED <<historyVars, importVars, credVars, pageVars, gone, botched>>

-----------------------------------------------------------------------------
(* Crashes *)

Crash ==
  /\ stage # "off"
  /\ stage' = "off" /\ meeting' = 0
  /\ cut' = (cut \/ (imported /\ json # <<>> /\ stage \in {"import", "rename", "mark"}))
  /\ toImport' = <<>> /\ imported' = FALSE /\ EmptyPage
  /\ UNCHANGED <<historyVars, credVars, open, runs, meetings, gone, botched>>

(* save_json truncates the file before it writes it. *)
CrashWhileSaving ==
  /\ stage = "running" /\ ~open
  /\ json' = <<>> /\ botched' = TRUE
  /\ stage' = "off" /\ meeting' = 0 /\ EmptyPage
  /\ UNCHANGED <<table, marked, backup, importVars, credVars, open, runs, meetings, gone>>

StoreNext ==
  \/ Start
  \/ MoveCredentials
  \/ DropOldCredentials
  \/ \E a \in Accounts : LoginSucceeds(a)
  \/ LoginCancelled
  \/ ImportRecord
  \/ ImportEnds
  \/ RenameFile
  \/ MarkImported
  \/ MeetingConfirmed
  \/ MeetingClosed
  \/ \E i \in DOMAIN view : DeleteRow(i)
  \/ ClearHistory
  \/ ShowHistory
  \/ Quit
  \/ Logout
  \/ Crash
  \/ CrashWhileSaving

StoreSpec == StoreInit /\ [][StoreNext]_storeVars

-----------------------------------------------------------------------------
(* finish_open_session closes whatever record is the latest open one.  That  *)
(* is the meeting's own, although crashes leave others open, as long as its  *)
(* own is there; it need not be when the user has deleted it meanwhile.      *)
ClosesItsOwnRecord ==
  [][stage = "running" /\ meeting \in MeetingsIn(Store) /\ Len(Store') = Len(Store)
     => \A i \in DOMAIN Store :
          Store[i].open /\ ~Store'[i].open
            => Store[i].meeting = meeting /\ Store'[i].length = meeting]_storeVars

(* Every meeting that was entered is recorded once: it is in the table or in *)
(* the file until it is deleted or too old, whatever crashes and changes of  *)
(* the store there are, as long as no statement has failed that writes; and  *)
(* it is not in the table twice, although the import of the file is not one  *)
(* transaction and only a rename and a mark protect it, unless a crash has   *)
(* cut that import short.  And the list whose positions the history page     *)
(* deletes by is the store's, unless its last reading of the store failed.   *)
HistoryIsWhole ==
  /\ ~botched =>
       /\ 1..meetings \subseteq MeetingsIn(table) \cup MeetingsIn(json) \cup gone
       /\ ~cut => Cardinality(MeetingsIn(table)) = Len(table)
  /\ stage = "running" /\ ~astray => view = Store

(* The database remembers the account it was given last, in its own table or *)
(* still where an older version had put it, and after start-up in one copy;  *)
(* and after a logout no start that finds the same kind of store logs in by  *)
(* itself.                                                                   *)
AccountIsKept ==
  ~botched =>
    /\ creds = remembered \/ (creds = NoAccount /\ oldCreds = remembered)
    /\ open /\ stage \notin {"off", "move", "drop"} => oldCreds = NoAccount /\ creds = remembered
    /\ stage = "login" /\ loggedOut = StoreKind => StoredAccount = NoAccount
=============================================================================
