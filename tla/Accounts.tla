------------------------------ MODULE Accounts ------------------------------
(***************************************************************************)
(* The data server with its database and its avatar files, and one client  *)
(* from its login window to its profile pages.  The server handles one     *)
(* request at a time, but statements fail and the process may crash        *)
(* between two of them.  The client's requests travel on connections of    *)
(* their own: one the client still waits for, one it has abandoned by      *)
(* closing the window that sent it, and one of another client, which may   *)
(* use the same account.                                                   *)
(***************************************************************************)
EXTENDS Integers, Sequences, FiniteSets

CONSTANTS
  Names,        \* user names, as typed
  Passwords,
  Texts,        \* what a profile says, its avatar apart
  Fresh,        \* the text of a new profile: the user name as its nickname
  None,
  MaxFiles,     \* bound on the avatars uploaded
  MaxLoads      \* bound on the pictures under way to a view

ASSUME FreshIsAText == Fresh \in Texts
ASSUME BoundsAreNaturals == MaxFiles \in Nat /\ MaxLoads \in Nat
ASSUME NoneIsNothing == None \notin Names \cup Passwords \cup Texts

VARIABLES
  \* the data server
  users,      \* sys_users: the password of each account, or None
  locked,     \* the accounts whose status is not 1
  profiles,   \* sys_user_profiles, or None
  tx,         \* the tables the open transaction has written
  files,      \* the files under uploads/avatars
  short,      \* those of them that were not written to their end
  work,       \* the request being handled, and how far
  up,         \* the server runs
  requests,   \* what is under way, by who waits for the answer
  \* the client
  screen,     \* "off", "login" or "main"
  typed,      \* the lines of the login page and of the register page
  auto,       \* the single shot of the automatic login is due
  session,    \* UserSession
  stored,     \* LoginStore
  dialog,     \* EditProfileDialog
  view,       \* the one view whose pictures are followed: any
  loads,      \* AvatarImageLoader: the pictures under way to it
  shown,      \* the picture it shows
  \* history
  behind,     \* parts of the profile that others, or lost requests, have changed,
              \* or that the login could not read
  overtaken,  \* what is shown is the answer to an older load after that to a newer one
  unsaved     \* the avatar was replaced, the rest not saved, and the view not loaded since

dbVars      == <<users, locked, profiles>>
serverVars  == <<dbVars, tx, files, short, work, up>>
loginVars   == <<typed, auto, stored>>
pictureVars == <<view, loads, shown, overtaken, unsaved>>
vars == <<serverVars, requests, screen, loginVars, session, dialog, pictureVars, behind>>

Views   == {"card", "page", "preview"}
Slots   == {"own", "abandoned"}
Default == 0                        \* the default avatar; uploads are 1, 2, ...
Avatars == Default..MaxFiles
Nothing == -1                       \* a monogram, no picture
Picked  == MaxFiles + 1             \* the picture the user has cropped

(* The client only asks whether there is an answer with the code 0: for it,   *)
(* 400, 401, 403, 404, 409, 413, 500 and a connection that fails are one.     *)
Ok      == 0
Waiting == -1
Error   == -2

Kinds    == {"login", "register", "update", "upload"}
Profile  == [text : Texts, avatar : Nat]
Session  == [name : Names, text : Texts, avatar : Nat]
Requests == [kind : Kinds, name : Names, password : Passwords \cup {None},
             text : Texts \cup {None}, answer : {Ok, Waiting, Error}, avatar : Nat]

ASSUME NoneIsNoRecord ==
  None \notin Slots /\ None \notin Profile /\ None \notin Session /\ None \notin Requests

Idle   == [slot |-> None, step |-> "idle", file |-> Default]
Lines  == [name |-> None, password |-> None]
NoLines == [page \in {"login", "register"} |-> Lines]
Closed == [open |-> FALSE, text |-> Fresh, picked |-> FALSE]

Request(kind, name) ==
  [kind |-> kind, name |-> name, password |-> None, text |-> None, answer |-> Waiting,
   avatar |-> Default]

Init ==
  /\ users \in [Names -> Passwords \cup {None}]
  /\ locked \in SUBSET {n \in Names : users[n] # None}
  /\ profiles = [n \in Names |->
                   IF users[n] = None THEN None ELSE [text |-> Fresh, avatar |-> Default]]
  /\ tx = {} /\ files = {} /\ short = {} /\ work = Idle /\ up = TRUE
  /\ requests = [s \in Slots |-> None]
  /\ screen = "off" /\ auto = FALSE /\ session = None /\ stored = Lines
  /\ typed = NoLines
  /\ dialog = Closed
  /\ view \in Views /\ loads = <<>> /\ shown = Nothing
  /\ behind = {} /\ overtaken = FALSE /\ unsaved = FALSE

-----------------------------------------------------------------------------
(* The data server: AuthService on UserRepository, behind HttpSession.       *)

Waits(kind) ==
  /\ up /\ work = Idle
  /\ requests["own"] # None /\ requests["own"].kind = kind /\ requests["own"].answer = Waiting

Answer(s, code) ==
  requests' = [requests EXCEPT ![s] = IF s = "own" THEN [@ EXCEPT !.answer = code] ELSE None]

AnswerWith(s, profile) ==
  requests' = [requests EXCEPT
    ![s] = IF s = "own" THEN [@ EXCEPT !.answer = Ok, !.text = profile.text,
                                       !.avatar = profile.avatar]
           ELSE None]

(* The session is told of a change only by the answer to its own request.    *)
Changed(s, part) == behind' = IF s = "own" THEN behind \ {part} ELSE behind \cup {part}

ServerOnly ==
  UNCHANGED <<up, locked, screen, loginVars, session, dialog, pictureVars>>

HasCredential(r) == users[r.name] # None /\ r.name \notin locked

(* What load_user_info has when it cannot read the profile: the user name and *)
(* no avatar, which the client takes for the default one.                     *)
BlankProfile == [text |-> Fresh, avatar |-> Default]

(* login reads the credential, of an account that is not locked, and the     *)
(* profile.  Any statement may fail; but when the profile's does not get to  *)
(* its row, the login has succeeded all the same, with a blank profile.      *)
HandleLogin ==
  LET r == requests["own"] IN
  /\ Waits("login")
  /\ \/ Answer("own", Error) /\ UNCHANGED behind
     \/ /\ HasCredential(r) /\ users[r.name] = r.password
        /\ \/ AnswerWith("own", profiles[r.name]) /\ behind' = {}
           \/ AnswerWith("own", BlankProfile) /\ behind' = {"text", "avatar"}
  /\ ServerOnly /\ UNCHANGED <<users, profiles, tx, files, short, work>>

SetRow(name, part, value) == profiles' = [profiles EXCEPT ![name][part] = value]

(* update_profile changes one row, unless a field is refused.                *)
HandleUpdate ==
  LET r == requests["own"] IN
  /\ Waits("update")
  /\ \/ Answer("own", Error) /\ UNCHANGED <<profiles, behind>>
     \/ /\ SetRow(r.name, "text", r.text)
        /\ Changed("own", "text")
        /\ Answer("own", Ok)
  /\ ServerOnly /\ UNCHANGED <<users, tx, files, short, work>>

(* register_user and create_user: a transaction over two tables, and a read  *)
(* of the new account for the answer.                                        *)
RegisterBegins ==
  /\ Waits("register")
  /\ \/ Answer("own", Error) /\ UNCHANGED work
     \/ /\ users[requests["own"].name] = None
        /\ work' = [Idle EXCEPT !.slot = "own", !.step = "users"]
        /\ UNCHANGED requests
  /\ ServerOnly /\ UNCHANGED <<users, profiles, tx, files, short, behind>>

(* Faulty: the rows are inserted without a transaction. *)
RegisterInsertsUnjoined ==
  LET r == requests[work.slot] IN
  /\ work.step \in {"users", "profiles"}
  /\ IF work.step = "users"
       THEN users' = [users EXCEPT ![r.name] = r.password] /\ UNCHANGED profiles
       ELSE profiles' = [profiles EXCEPT ![r.name] = [text |-> Fresh, avatar |-> Default]]
            /\ UNCHANGED users
  /\ work' = [work EXCEPT !.step = IF @ = "users" THEN "profiles" ELSE "commit"]
  /\ ServerOnly /\ UNCHANGED <<tx, requests, files, short, behind>>

RegisterInserts ==
  LET s == work.slot IN
  /\ work.step \in {"users", "profiles"}
  /\ \/ /\ tx' = tx \cup {work.step}
        /\ work' = [work EXCEPT !.step = IF @ = "users" THEN "profiles" ELSE "commit"]
        /\ UNCHANGED requests
     \/ tx' = {} /\ work' = Idle /\ Answer(s, Error)
  /\ ServerOnly /\ UNCHANGED <<users, profiles, files, short, behind>>

SetNew(name) == profiles' = [profiles EXCEPT ![name] = [text |-> Fresh, avatar |-> Default]]

NewAccount(r) ==
  /\ users' = [users EXCEPT ![r.name] = IF "users" \in tx THEN r.password ELSE @]
  /\ IF "profiles" \in tx THEN SetNew(r.name) ELSE UNCHANGED profiles

RegisterCommits ==
  LET s == work.slot IN
  /\ work.step = "commit"
  /\ \/ Answer(s, Error) /\ UNCHANGED <<users, profiles>>
     \/ NewAccount(requests[s]) /\ (Answer(s, Ok) \/ Answer(s, Error))
  /\ tx' = {} /\ work' = Idle
  /\ ServerOnly /\ UNCHANGED <<files, short, behind>>

(* A new file, under a name of its own.  Nobody asks whether what was written *)
(* has all arrived on the disk.                                               *)
StoreFile(file) ==
  /\ files' = files \cup {file}
  /\ short' \in {short, short \cup {file}}

(* upload_avatar: the file first, unless it cannot be opened ...             *)
UploadStores ==
  /\ Waits("upload")
  /\ \/ Answer("own", Error) /\ UNCHANGED <<files, short, work>>
     \/ LET file == Cardinality(files) + 1 IN
        /\ StoreFile(file)
        /\ work' = [slot |-> "own", step |-> "avatar", file |-> file]
        /\ UNCHANGED requests
  /\ ServerOnly /\ UNCHANGED <<users, profiles, tx, behind>>

(* ... then the row that names it.                                           *)
UploadNames ==
  LET s == work.slot  r == requests[work.slot] IN
  /\ work.step = "avatar"
  /\ work' = Idle
  /\ \/ Answer(s, Error) /\ UNCHANGED <<profiles, behind>>
     \/ /\ SetRow(r.name, "avatar", work.file)
        /\ Changed(s, "avatar")
        /\ AnswerWith(s, [text |-> r.text, avatar |-> work.file])
  /\ ServerOnly /\ UNCHANGED <<users, tx, files, short>>

PartOf(kind) == IF kind = "update" THEN {"text"} ELSE IF kind = "upload" THEN {"avatar"} ELSE {}

(* What a request whose answer nobody hears has changed already *)
Unheard == IF requests["own"] # None /\ requests["own"].answer = Ok
             THEN PartOf(requests["own"].kind) ELSE {}

(* A crash loses the transaction and every connection. *)
ServerCrashes ==
  /\ up /\ up' = FALSE /\ tx' = {} /\ work' = Idle
  /\ requests' = [s \in Slots |->
       IF s = "own" /\ requests[s] # None THEN [requests[s] EXCEPT !.answer = Error] ELSE None]
  /\ behind' = behind \cup Unheard
  /\ UNCHANGED <<dbVars, files, short, screen, loginVars, session, dialog, pictureVars>>

ServerStarts ==
  /\ ~up /\ up' = TRUE
  /\ UNCHANGED <<dbVars, tx, files, short, work, requests, screen, loginVars, session,
                 dialog, pictureVars, behind>>

(* Nobody waits for the client's own request any more.  One that is being    *)
(* handled is carried on with; one that has not arrived yet may never arrive,*)
(* or is from now on like any request of the other client.                   *)
Abandon(left) ==
  IF work.slot = "own"
    THEN /\ requests' = [own |-> left, abandoned |-> requests["own"]]
         /\ work' = [work EXCEPT !.slot = "abandoned"]
         /\ UNCHANGED behind
    ELSE /\ requests' = [requests EXCEPT !["own"] = left]
         /\ behind' = behind \cup Unheard
         /\ UNCHANGED work

(* The connection fails: the request is lost, or its answer. *)
ConnectionFails ==
  /\ requests["own"] # None /\ requests["own"].answer # Error
  /\ Abandon([requests["own"] EXCEPT !.answer = Error])
  /\ UNCHANGED <<dbVars, tx, files, short, up, screen, loginVars, session, dialog,
                 pictureVars>>

-----------------------------------------------------------------------------
(* The other client: any request it can make, from being read to its answer  *)

CanUpload ==
  LET r == requests["own"]
      toStore == r # None /\ r.kind = "upload" /\ r.answer = Waiting /\ work.slot # "own"
  IN  Cardinality(files) + (IF toStore THEN 1 ELSE 0) < MaxFiles

OtherClient ==
  /\ up /\ work = Idle
  /\ UNCHANGED <<locked, tx, work, up, requests, screen, loginVars, session, dialog,
                 pictureVars>>

OtherRegisters(n, p) ==
  /\ OtherClient /\ users[n] = None
  /\ users' = [users EXCEPT ![n] = p]
  /\ SetNew(n)
  /\ UNCHANGED <<files, short, behind>>

OtherUpdates(n, t) ==
  /\ OtherClient /\ users[n] # None
  /\ SetRow(n, "text", t)
  /\ behind' = behind \cup {"text"}
  /\ UNCHANGED <<users, files, short>>

OtherUploads(n) ==
  /\ OtherClient /\ users[n] # None /\ CanUpload
  /\ StoreFile(Cardinality(files) + 1)
  /\ SetRow(n, "avatar", Cardinality(files) + 1)
  /\ behind' = behind \cup {"avatar"}
  /\ UNCHANGED users

-----------------------------------------------------------------------------
(* The client: the pictures, which AvatarImageLoader fetches for a view.     *)
(* The views do not depend on each other.                                    *)

Load(url) == [url |-> url, retried |-> FALSE, late |-> FALSE]

AllLate(s) == [i \in DOMAIN s |-> [s[i] EXCEPT !.late = TRUE]]

LoadInto(views) ==
  /\ UNCHANGED view
  /\ IF view \in views
       THEN /\ Len(loads) < MaxLoads
            /\ loads' = Append(loads, Load(session.avatar))
       ELSE UNCHANGED loads

(* The view is destroyed, and the loads with it. *)
NoPictures == loads' = <<>> /\ shown' = Nothing /\ overtaken' = FALSE /\ UNCHANGED view

Show(i, picture) ==
  /\ shown' = picture
  /\ loads' = AllLate(SubSeq(loads, 1, i - 1)) \o SubSeq(loads, i + 1, Len(loads))
  /\ overtaken' = loads[i].late

(* A PNG that ends too early is no picture. *)
Served(url) == url \in (files \ short) \cup {Default}

(* A picture arrives, from the server or the disk cache, or its place is     *)
(* taken by the default one, once, or by none.  Answers keep no order.       *)
LoadAnswered(i) ==
  LET load == loads[i] IN
  /\ \/ Served(load.url) /\ Show(i, load.url)
     \/ /\ ~load.retried /\ load.url # Default
        /\ loads' = [loads EXCEPT ![i].url = Default, ![i].retried = TRUE]
        /\ UNCHANGED <<shown, overtaken>>
     \/ (load.retried \/ load.url = Default) /\ Show(i, Nothing)
  /\ UNCHANGED <<serverVars, requests, screen, loginVars, session, dialog, view, unsaved,
                 behind>>

-----------------------------------------------------------------------------
(* The client: the login window *)

Complete(lines) == lines.name # None /\ lines.password # None

ClientOnly == UNCHANGED <<dbVars, tx, files, short, up>>

Send(request) == requests' = [requests EXCEPT !["own"] = request]

FillIn(account) ==
  /\ typed' = [login |-> account, register |-> Lines]
  /\ auto' = Complete(account)

(* A stored account is filled in, and used at once. *)
ClientStarts ==
  /\ screen = "off" /\ screen' = "login"
  /\ FillIn(stored)
  /\ ClientOnly
  /\ UNCHANGED <<work, requests, stored, session, dialog, pictureVars, behind>>

InLogin ==
  /\ screen = "login"
  /\ ClientOnly /\ UNCHANGED <<work, dialog, behind>>

(* The lines stay enabled while a request is under way. *)
UserTypes(page) ==
  /\ InLogin
  /\ \E n \in Names, p \in Passwords : typed' = [typed EXCEPT ![page] = [name |-> n, password |-> p]]
  /\ UNCHANGED <<requests, screen, auto, stored, session, pictureVars>>

MayLogin == requests["own"] = None /\ Complete(typed["login"])

SendLogin == Send([Request("login", typed["login"].name) EXCEPT !.password = typed["login"].password])

Login ==
  /\ InLogin /\ MayLogin /\ SendLogin
  /\ UNCHANGED <<screen, loginVars, session, pictureVars>>

AutoLogin ==
  /\ InLogin /\ auto
  /\ auto' = FALSE
  /\ IF MayLogin THEN SendLogin ELSE UNCHANGED requests
  /\ UNCHANGED <<screen, typed, stored, session, pictureVars>>

Register ==
  LET lines == typed["register"] IN
  /\ InLogin /\ requests["own"] = None /\ Complete(lines)
  /\ Send([Request("register", lines.name) EXCEPT !.password = lines.password])
  /\ UNCHANGED <<screen, loginVars, session, pictureVars>>

Finished(kind) ==
  /\ requests["own"] # None /\ requests["own"].kind = kind /\ requests["own"].answer # Waiting

Succeeded == requests["own"].answer = Ok

(* UserSession *)
SetUser(r) == session' = [name |-> r.name, text |-> r.text, avatar |-> r.avatar]
SetAvatar(avatar) == session' = [session EXCEPT !.avatar = avatar]
(* Faulty: what the answer leaves out is reset. *)
UpdateProfileWhole(text) == session' = [session EXCEPT !.text = text, !.avatar = Default]
(* What an answer leaves out, as the avatar here, stays. *)
UpdateProfile(text) == session' = [session EXCEPT !.text = text]

OpenMainWindow(avatar) ==
  /\ screen' = "main"
  /\ loads' = IF view = "card" THEN <<Load(avatar)>> ELSE <<>>

(* What is in the lines by now is stored, and the main window is opened,     *)
(* which loads its card; with an error the window waits for the user.        *)
OnLoginFinished ==
  LET r == requests["own"] IN
  /\ InLogin /\ Finished("login")
  /\ Send(None)
  /\ IF Succeeded
       THEN /\ SetUser(r)
            /\ stored' \in {stored, typed["login"]}
            /\ typed' = NoLines /\ auto' = FALSE
            /\ OpenMainWindow(r.avatar)
       ELSE UNCHANGED <<session, screen, typed, auto, stored, loads>>
  /\ UNCHANGED <<view, shown, overtaken, unsaved>>

OnRegisterFinished ==
  /\ InLogin /\ Finished("register")
  /\ Send(None)
  /\ IF Succeeded
       THEN /\ typed' = [login |-> [Lines EXCEPT !.name = typed["register"].name],
                         register |-> [typed["register"] EXCEPT !.password = None]]
       ELSE UNCHANGED typed
  /\ UNCHANGED <<screen, auto, stored, session, pictureVars>>

(* A window is closed while it waits for an answer, or not. *)
Leave == IF requests["own"] = None THEN UNCHANGED <<requests, work, behind>> ELSE Abandon(None)

LoginCancelled ==
  /\ screen = "login" /\ screen' = "off"
  /\ auto' = FALSE /\ typed' = NoLines
  /\ Leave /\ ClientOnly
  /\ UNCHANGED <<stored, session, dialog, pictureVars>>

-----------------------------------------------------------------------------
(* The client: the main window, the profile page and its dialog *)

InMain ==
  /\ screen = "main"
  /\ ClientOnly /\ UNCHANGED <<loginVars>>

NoRequest == UNCHANGED <<requests, work, behind>>

OnUserCardClicked ==
  /\ InMain /\ ~dialog.open
  /\ LoadInto({"page"})
  /\ unsaved' = (unsaved /\ view # "page")
  /\ NoRequest /\ UNCHANGED <<screen, session, dialog, shown, overtaken>>

OnEditProfileClicked ==
  /\ InMain /\ ~dialog.open
  /\ dialog' = [open |-> TRUE, text |-> session.text, picked |-> FALSE]
  /\ LoadInto({"preview"})
  /\ NoRequest /\ UNCHANGED <<screen, session, shown, overtaken, unsaved>>

Editing == InMain /\ dialog.open /\ requests["own"] = None

UserEdits(t) ==
  /\ Editing /\ dialog.text # t
  /\ dialog' = [dialog EXCEPT !.text = t]
  /\ NoRequest /\ UNCHANGED <<screen, session, pictureVars>>

OnChangeAvatarClicked ==
  /\ Editing /\ ~dialog.picked
  /\ dialog' = [dialog EXCEPT !.picked = TRUE]
  /\ IF view = "preview"
       THEN shown' = Picked /\ loads' = AllLate(loads) /\ overtaken' = FALSE
       ELSE UNCHANGED <<shown, loads, overtaken>>
  /\ NoRequest /\ UNCHANGED <<screen, session, view, unsaved>>

ProfileUpdate == [Request("update", session.name) EXCEPT !.text = dialog.text]

OnSaveClicked ==
  /\ Editing
  /\ IF dialog.picked THEN CanUpload /\ Send(Request("upload", session.name))
     ELSE Send(ProfileUpdate)
  /\ UNCHANGED <<work, behind, screen, session, dialog, pictureVars>>

(* Faulty: an early way out does not mark the request as done. *)
OnAvatarUploadFinishedUncleared ==
  /\ InMain /\ Finished("upload")
  /\ IF Succeeded
       THEN /\ SetAvatar(requests["own"].avatar)
            /\ dialog' = [dialog EXCEPT !.picked = FALSE]
            /\ UNCHANGED <<unsaved, requests>>
       ELSE Send(None) /\ UNCHANGED <<session, dialog, unsaved>>
  /\ UNCHANGED <<work, behind, screen, view, loads, shown, overtaken>>

(* The upload is followed by the update of the rest. *)
OnAvatarUploadFinished ==
  /\ InMain /\ Finished("upload")
  /\ IF Succeeded
       THEN /\ SetAvatar(requests["own"].avatar)
            /\ dialog' = [dialog EXCEPT !.picked = FALSE]
            /\ unsaved' = TRUE
            /\ Send(ProfileUpdate)
       ELSE Send(None) /\ UNCHANGED <<session, dialog, unsaved>>
  /\ UNCHANGED <<work, behind, screen, view, loads, shown, overtaken>>

(* onProfileSaved: page and card *)
ProfileSaved ==
  /\ unsaved' = FALSE
  /\ LoadInto({"card", "page"}) /\ UNCHANGED <<shown, overtaken>>

(* The dialog is closed, and page and card load the avatar anew. *)
OnProfileUpdateFinished ==
  /\ InMain /\ Finished("update")
  /\ Send(None)
  /\ IF Succeeded
       THEN /\ UpdateProfile(requests["own"].text)
            /\ dialog' = Closed
            /\ IF view = "preview" THEN NoPictures /\ unsaved' = FALSE ELSE ProfileSaved
       ELSE UNCHANGED <<session, dialog, pictureVars>>
  /\ UNCHANGED <<work, behind, screen>>

(* Cancel, or Esc and the title bar while the dialog is busy *)
DialogClosed ==
  /\ InMain /\ dialog.open
  /\ dialog' = Closed
  /\ Leave
  /\ IF view = "preview" THEN NoPictures ELSE UNCHANGED <<view, loads, shown, overtaken>>
  /\ UNCHANGED <<screen, session, unsaved>>

(* The end of the program; the way out forgets the account first. *)
ClientEnds ==
  /\ screen = "main" /\ ~dialog.open
  /\ screen' = "off" /\ session' = None
  /\ stored' \in {stored, Lines}
  /\ NoPictures /\ unsaved' = FALSE
  /\ ClientOnly /\ NoRequest
  /\ UNCHANGED <<typed, auto, dialog>>

ServerHandles ==
  \/ HandleLogin
  \/ HandleUpdate
  \/ RegisterBegins
  \/ UploadStores

ServerGoesOn ==
  \/ RegisterInserts
  \/ RegisterCommits
  \/ UploadNames

ClientHears ==
  \/ OnLoginFinished
  \/ OnRegisterFinished
  \/ OnAvatarUploadFinished
  \/ OnProfileUpdateFinished

LoadEnds == \E i \in DOMAIN loads : LoadAnswered(i)

Next ==
  \/ ServerHandles
  \/ ServerGoesOn
  \/ ServerCrashes
  \/ ServerStarts
  \/ ConnectionFails
  \/ \E n \in Names, p \in Passwords : OtherRegisters(n, p)
  \/ \E n \in Names, t \in Texts : OtherUpdates(n, t)
  \/ \E n \in Names : OtherUploads(n)
  \/ LoadEnds
  \/ ClientStarts
  \/ \E page \in {"login", "register"} : UserTypes(page)
  \/ Login
  \/ AutoLogin
  \/ Register
  \/ ClientHears
  \/ LoginCancelled
  \/ OnUserCardClicked
  \/ OnEditProfileClicked
  \/ \E t \in Texts : UserEdits(t)
  \/ OnChangeAvatarClicked
  \/ OnSaveClicked
  \/ DialogClosed
  \/ ClientEnds

(* The server's one thread goes on with the request it has, takes up the     *)
(* client's own, and a server that is down is started again; a download      *)
(* ends, one way or the other; and the client's event loop runs.             *)
ServerRuns == ServerHandles \/ ServerGoesOn \/ ServerStarts

Fairness == WF_vars(ServerRuns) /\ WF_vars(LoadEnds) /\ WF_vars(ClientHears)

Spec == Init /\ [][Next]_vars /\ Fairness

-----------------------------------------------------------------------------
(* An account is never half there, whatever statement fails and wherever the *)
(* server crashes: who has a password has a profile, a profile and a session *)
(* name an avatar whose file is there, and a registration the client has     *)
(* been told of is one it can log in with.  (The file may be short: the      *)
(* server does not look whether all of it was written.)                      *)
AccountsAreWhole ==
  /\ \A n \in Names : (users[n] = None) <=> (profiles[n] = None)
  /\ \A n \in Names : profiles[n] # None => profiles[n].avatar \in files \cup {Default}
  /\ session # None => session.avatar \in files \cup {Default}
  /\ LET r == requests["own"] IN
       r # None /\ r.kind = "register" /\ r.answer = Ok => users[r.name] = r.password

(* What the client takes for its own profile is the profile, unless the      *)
(* login could not read it, another client has changed it since or the       *)
(* answer to a change was lost; failed and refused changes, of the avatar or *)
(* of the rest, leave both alone, and a change that was answered ends the    *)
(* difference in its part, also after a login with a blank profile.  And     *)
(* with no picture under way each view shows the session's avatar or a       *)
(* substitute, and the dialog the picture that will be uploaded: unless an   *)
(* older load was answered after a newer one, or a new avatar was uploaded   *)
(* and the rest not saved.                                                   *)
OwnProfileIsShown ==
  /\ screen = "main" /\ requests["own"] = None =>
       \A part \in {"text", "avatar"} \ behind : session[part] = profiles[session.name][part]
  /\ screen = "main" /\ view # "preview" /\ loads = <<>> /\ ~overtaken /\ ~unsaved
       => shown \in {session.avatar, Default, Nothing}
  /\ dialog.picked /\ view = "preview" /\ ~overtaken => shown = Picked

(* The buttons of the login window and of the dialog come back: a request is *)
(* answered or lost, however often the server crashes or others are served.  *)
RequestsEnd == []<>(requests["own"] = None)
=============================================================================
