--------------------------- MODULE AccountsProofs ---------------------------
(***************************************************************************)
(* Proofs about Accounts for any names, passwords, texts and number of     *)
(* avatars.  AccountsInv follows a request from the window that sends it   *)
(* through the server's statements to its answer, heard or not, and is     *)
(* inductive by itself; ProfileInv says of the client's copy of the        *)
(* profile, and PictureInv of the pictures under way, what they are behind *)
(* of, and both are inductive with it.                                     *)
(***************************************************************************)
EXTENDS Accounts, FiniteSetTheorems, SequenceTheorems, TLAPS

USE NoneIsNothing, NoneIsNoRecord, FreshIsAText

Registering == {"users", "profiles", "commit"}
LineSet == [name : Names \cup {None}, password : Passwords \cup {None}]
LoadSet == [url : Nat, retried : BOOLEAN, late : BOOLEAN]

ServerOK ==
  /\ users \in [Names -> Passwords \cup {None}]
  /\ profiles \in [Names -> Profile \cup {None}]
  /\ files \in SUBSET Nat /\ IsFiniteSet(files)
  /\ work \in [slot : Slots \cup {None}, step : Registering \cup {"idle", "avatar"}, file : Nat]
  /\ requests \in [Slots -> Requests \cup {None}]

ClientOK ==
  /\ screen \in {"off", "login", "main"}
  /\ typed \in [{"login", "register"} -> LineSet] /\ stored \in LineSet
  /\ session \in Session \cup {None}
  /\ dialog \in [open : BOOLEAN, text : Texts, picked : BOOLEAN]
  /\ view \in Views /\ loads \in Seq(LoadSet) /\ shown \in Int
  /\ overtaken \in BOOLEAN /\ unsaved \in BOOLEAN

TypeOK == ServerOK /\ ClientOK

-----------------------------------------------------------------------------
(* The accounts *)

HasAccount(n) == users[n] # None
StoredFiles == files \cup {Default}

TablesAgree ==
  \A n \in Names : /\ users[n] = None <=> profiles[n] = None
                   /\ profiles[n] # None => profiles[n].avatar \in StoredFiles

(* The request in the server's hands, and what its transaction has written.  *)
WorkOK ==
  /\ work.step = "idle" => work = Idle
  /\ work.step # "idle" => work.slot \in Slots /\ requests[work.slot] # None
  /\ work.step \in Registering => /\ requests[work.slot].kind = "register"
                                  /\ ~HasAccount(requests[work.slot].name)
  /\ work.step = "avatar" => requests[work.slot].kind = "upload" /\ work.file \in files
  /\ work.slot = "own" => requests["own"].answer = Waiting
  /\ tx = CASE work.step = "profiles" -> {"users"}
            [] work.step = "commit" -> {"users", "profiles"}
            [] OTHER -> {}

(* A request is about an account, and its answer tells of what is stored.    *)
RequestOK(r) ==
  /\ r.kind \in {"update", "upload"} => HasAccount(r.name)
  /\ r.kind = "update" => r.text \in Texts
  /\ r.kind = "register" => r.password # None
  /\ r.kind = "register" /\ r.answer = Ok => users[r.name] = r.password
  /\ r.kind \in {"login", "upload"} /\ r.answer = Ok => r.avatar \in StoredFiles
  /\ r.kind = "login" /\ r.answer = Ok => HasAccount(r.name) /\ r.text \in Texts

RequestsOK == \A s \in Slots : requests[s] # None => RequestOK(requests[s])

SessionOK ==
  /\ session # None <=> screen = "main"
  /\ session # None => HasAccount(session.name) /\ session.avatar \in StoredFiles

(* Each window waits for requests of its own. *)
WindowOK ==
  /\ dialog.open => screen = "main"
  /\ dialog.picked => dialog.open
  /\ requests["own"] # None =>
       \/ screen = "login" /\ requests["own"].kind \in {"login", "register"}
       \/ /\ dialog.open /\ requests["own"].kind \in {"update", "upload"}
          /\ requests["own"].name = session.name

AccountsInv ==
  /\ TypeOK
  /\ TablesAgree
  /\ WorkOK
  /\ RequestsOK
  /\ SessionOK
  /\ WindowOK

-----------------------------------------------------------------------------
(* The client's copy of the profile *)

Answered(kind) ==
  requests["own"] # None /\ requests["own"].kind = kind /\ requests["own"].answer = Ok

TextIs(text, name) == "text" \notin behind => text = profiles[name].text
AvatarIs(avatar, name) == "avatar" \notin behind => avatar = profiles[name].avatar

(* The copy is behind in what others have changed, and in what an answer     *)
(* tells that has not been heard yet.                                        *)
ProfileInv ==
  /\ screen = "main" => /\ ~Answered("update") => TextIs(session.text, session.name)
                        /\ ~Answered("upload") => AvatarIs(session.avatar, session.name)
  /\ Answered("login") => /\ TextIs(requests["own"].text, requests["own"].name)
                          /\ AvatarIs(requests["own"].avatar, requests["own"].name)
  /\ Answered("update") => TextIs(requests["own"].text, requests["own"].name)
  /\ Answered("upload") => AvatarIs(requests["own"].avatar, requests["own"].name)

(* The pictures: those overtaken come first, and when the newest one is not  *)
(* among them it is of the session's avatar.                                 *)
Newest == loads[Len(loads)]

LateFirst == \A i, j \in 1 .. Len(loads) : i < j /\ loads[j].late => loads[i].late

ShowsOwn ==
  IF loads # <<>> /\ ~Newest.late
    THEN Newest.url \in {session.avatar, Default}
    ELSE ~overtaken => shown \in {session.avatar, Default, Nothing}

ShowsPicked ==
  /\ \A i \in 1 .. Len(loads) : loads[i].late
  /\ ~overtaken => shown = Picked

PictureInv ==
  /\ screen # "main" => loads = <<>> /\ shown = Nothing /\ ~overtaken /\ ~unsaved
  /\ LateFirst
  /\ view # "preview" /\ ~unsaved /\ screen = "main" => ShowsOwn
  /\ view = "preview" /\ dialog.picked => ShowsPicked

-----------------------------------------------------------------------------
(* What an answer does to the requests                                       *)

Told(s, code) ==
  /\ requests' \in [Slots -> Requests \cup {None}]
  /\ \A z \in Slots : z # s => requests'[z] = requests[z]
  /\ s = "abandoned" => requests'[s] = None
  /\ s = "own" => /\ requests'[s] # None /\ requests'[s].answer = code
                  /\ requests'[s].kind = requests[s].kind
                  /\ requests'[s].name = requests[s].name
                  /\ requests'[s].password = requests[s].password

TellsOf(s, profile) ==
  s = "own" => requests'[s].text = profile.text /\ requests'[s].avatar = profile.avatar

LEMMA AnswerTells ==
  ASSUME requests \in [Slots -> Requests \cup {None}], NEW s \in Slots, requests[s] # None,
         NEW code \in {Ok, Error}, Answer(s, code)
  PROVE  Told(s, code) /\ TellsOf(s, requests[s])
<1> DEFINE r == requests[s]
<1>1. r \in Requests
  OBVIOUS
<1>2. [r EXCEPT !.answer = code] \in Requests
  BY <1>1 DEF Requests
<1>3. requests' = [requests EXCEPT ![s] = IF s = "own" THEN [r EXCEPT !.answer = code] ELSE None]
  BY DEF Answer
<1>4. /\ requests' \in [Slots -> Requests \cup {None}]
      /\ \A z \in Slots : z # s => requests'[z] = requests[z]
      /\ requests'[s] = IF s = "own" THEN [r EXCEPT !.answer = code] ELSE None
  BY <1>2, <1>3
<1>5. [r EXCEPT !.answer = code] # None
  BY <1>2
<1>6. QED
  BY <1>1, <1>4, <1>5 DEF Told, TellsOf, Requests

LEMMA AnswerWithTells ==
  ASSUME requests \in [Slots -> Requests \cup {None}], NEW s \in Slots, requests[s] # None,
         NEW profile \in [text : Texts \cup {None}, avatar : Nat], AnswerWith(s, profile)
  PROVE  Told(s, Ok) /\ TellsOf(s, profile)
<1> DEFINE r == requests[s]
           a == [r EXCEPT !.answer = Ok, !.text = profile.text, !.avatar = profile.avatar]
<1>1. r \in Requests
  OBVIOUS
<1>2. a \in Requests
  BY <1>1 DEF Requests
<1>3. requests' = [requests EXCEPT ![s] = IF s = "own" THEN a ELSE None]
  BY DEF AnswerWith
<1>4. /\ requests' \in [Slots -> Requests \cup {None}]
      /\ \A z \in Slots : z # s => requests'[z] = requests[z]
      /\ requests'[s] = IF s = "own" THEN a ELSE None
  BY <1>2, <1>3
<1>5. a # None
  BY <1>2
<1>6. QED
  BY <1>1, <1>4, <1>5 DEF Told, TellsOf, Requests

-----------------------------------------------------------------------------
(* The tables and the files only grow, and what is said of them stays true.  *)

Grows ==
  /\ \A n \in Names : HasAccount(n) => users'[n] = users[n]
  /\ files \subseteq files'

LEMMA SessionStays ==
  ASSUME SessionOK, ClientOK, Grows, UNCHANGED <<session, screen>>
  PROVE  SessionOK'
BY DEF SessionOK, ClientOK, Grows, HasAccount, StoredFiles, Session

(* A request stays as it is, in its slot or in the other one.                *)
LEMMA RequestStays ==
  ASSUME ServerOK, Grows, NEW s \in Slots, requests[s] # None, RequestOK(requests[s]),
         NEW z \in Slots, requests'[z] = requests[s]
  PROVE  RequestOK(requests[z])'
<1>1. requests[s].name \in Names
  BY DEF ServerOK, Requests
<1>2. QED
  BY <1>1 DEF RequestOK, Grows, HasAccount, StoredFiles

(* What an answer says is all there is to show of it.                        *)
LEMMA ToldIsOK ==
  ASSUME ServerOK, RequestsOK, Grows, NEW s \in Slots, requests[s] # None,
         NEW code \in {Ok, Error}, Told(s, code),
         s = "own" => RequestOK(requests["own"])'
  PROVE  RequestsOK'
<1> SUFFICES ASSUME NEW z \in Slots, requests'[z] # None PROVE RequestOK(requests[z])'
  BY DEF RequestsOK
<1>1. CASE z # s
  BY <1>1, RequestStays DEF Told, RequestsOK
<1>2. CASE z = s
  BY <1>2 DEF Told, Slots
<1>3. QED
  BY <1>1, <1>2

LEMMA ErrorIsOK ==
  ASSUME ServerOK, RequestsOK, Grows, NEW s \in Slots, requests[s] # None, Answer(s, Error)
  PROVE  RequestsOK' /\ Told(s, Error)
<1>1. Told(s, Error) /\ TellsOf(s, requests[s])
  BY AnswerTells DEF ServerOK
<1>2. s = "own" => RequestOK(requests["own"])'
  <2> SUFFICES ASSUME s = "own" PROVE RequestOK(requests["own"])'
    OBVIOUS
  <2>1. requests["own"].name \in Names /\ RequestOK(requests["own"])
    BY DEF ServerOK, Requests, RequestsOK
  <2>2. Error # Ok
    BY DEF Error, Ok
  <2>3. QED
    BY <1>1, <2>1, <2>2 DEF Told, TellsOf, RequestOK, Grows, HasAccount, StoredFiles
<1>3. QED
  BY <1>1, <1>2, ToldIsOK

(* The window looks at who waits for what, not at the answer.                *)
LEMMA WindowStays ==
  ASSUME WindowOK, NEW s \in Slots, requests[s] # None, NEW code \in {Ok, Error}, Told(s, code),
         UNCHANGED <<screen, dialog, session>>
  PROVE  WindowOK'
BY DEF WindowOK, Told, Slots

LEMMA ClientStays ==
  ASSUME ClientOK, ServerOnly
  PROVE  ClientOK' /\ UNCHANGED <<screen, dialog, session>>
BY DEF ClientOK, ServerOnly, loginVars, pictureVars

LEMMA RowText ==
  ASSUME ServerOK, NEW n \in Names, profiles[n] # None, NEW t \in Texts, SetRow(n, "text", t)
  PROVE  /\ profiles' \in [Names -> Profile \cup {None}]
         /\ \A m \in Names : m # n => profiles'[m] = profiles[m]
         /\ profiles'[n] # None
         /\ profiles'[n].text = t /\ profiles'[n].avatar = profiles[n].avatar
<1>1. profiles[n] \in Profile
  BY DEF ServerOK
<1>2. [profiles[n] EXCEPT !.text = t] \in Profile
  BY <1>1 DEF Profile
<1>3. profiles' = [profiles EXCEPT ![n] = [profiles[n] EXCEPT !.text = t]]
  BY DEF SetRow
<1>4. profiles'[n] = [profiles[n] EXCEPT !.text = t]
  BY <1>3 DEF ServerOK
<1>5. QED
  BY <1>1, <1>2, <1>3, <1>4 DEF ServerOK, Profile

LEMMA RowAvatar ==
  ASSUME ServerOK, NEW n \in Names, profiles[n] # None, NEW a \in Nat, SetRow(n, "avatar", a)
  PROVE  /\ profiles' \in [Names -> Profile \cup {None}]
         /\ \A m \in Names : m # n => profiles'[m] = profiles[m]
         /\ profiles'[n] # None
         /\ profiles'[n].avatar = a /\ profiles'[n].text = profiles[n].text
<1>1. profiles[n] \in Profile
  BY DEF ServerOK
<1>2. [profiles[n] EXCEPT !.avatar = a] \in Profile
  BY <1>1 DEF Profile
<1>3. profiles' = [profiles EXCEPT ![n] = [profiles[n] EXCEPT !.avatar = a]]
  BY DEF SetRow
<1>4. profiles'[n] = [profiles[n] EXCEPT !.avatar = a]
  BY <1>3 DEF ServerOK
<1>5. QED
  BY <1>1, <1>2, <1>3, <1>4 DEF ServerOK, Profile

LEMMA RowNew ==
  ASSUME ServerOK, NEW n \in Names, SetNew(n)
  PROVE  /\ profiles' \in [Names -> Profile \cup {None}]
         /\ \A m \in Names : m # n => profiles'[m] = profiles[m]
         /\ profiles'[n] # None /\ profiles'[n].avatar = Default
<1>1. [text |-> Fresh, avatar |-> Default] \in Profile
  BY DEF Profile, Default
<1>2. QED
  BY <1>1 DEF SetNew, ServerOK, Profile

-----------------------------------------------------------------------------
(* The server's actions                                                      *)

(* A handler begins when the server is free, on a request that waits.        *)
LEMMA WaitsFor ==
  ASSUME AccountsInv, NEW kind, Waits(kind)
  PROVE  /\ work = Idle /\ work.step = "idle" /\ work.slot = None /\ tx = {}
         /\ requests["own"] \in Requests /\ requests["own"].kind = kind
         /\ requests["own"].answer = Waiting /\ requests["own"] # None
         /\ RequestOK(requests["own"])
BY DEF Waits, AccountsInv, WorkOK, RequestsOK, TypeOK, ServerOK, Slots, Idle, Requests, Registering

(* What stays when a handler answers and ends.                               *)
LEMMA HandledKeeps ==
  ASSUME AccountsInv, NEW s \in Slots, requests[s] # None, NEW code \in {Ok, Error}, Told(s, code),
         ServerOnly, Grows, RequestsOK', TablesAgree',
         users' \in [Names -> Passwords \cup {None}],
         profiles' \in [Names -> Profile \cup {None}],
         files' \in SUBSET Nat, IsFiniteSet(files'),
         work' = Idle, tx' = {}
  PROVE  AccountsInv'
<1>1. ClientOK' /\ UNCHANGED <<screen, dialog, session>>
  BY ClientStays DEF AccountsInv, TypeOK
<1>2. ServerOK'
  BY DEF ServerOK, Told, Idle, Default
<1>3. WorkOK'
  BY DEF WorkOK, Idle, Registering, Slots
<1>4. SessionOK' /\ WindowOK'
  BY <1>1, SessionStays, WindowStays DEF AccountsInv, TypeOK
<1>5. QED
  BY <1>1, <1>2, <1>3, <1>4 DEF AccountsInv, TypeOK

(* An error changes no table.                                                *)
LEMMA RefusedKeeps ==
  ASSUME AccountsInv, NEW s \in Slots, requests[s] # None, Answer(s, Error), ServerOnly,
         UNCHANGED <<users, profiles, files>>, work' = Idle, tx' = {}
  PROVE  AccountsInv'
<1>1. Grows
  BY DEF Grows
<1>2. RequestsOK' /\ Told(s, Error)
  BY <1>1, ErrorIsOK DEF AccountsInv, TypeOK
<1>3. TablesAgree'
  BY DEF AccountsInv, TablesAgree, StoredFiles
<1>4. QED
  BY <1>1, <1>2, <1>3, HandledKeeps DEF AccountsInv, TypeOK, ServerOK

LEMMA LoginKeeps == AccountsInv /\ HandleLogin => AccountsInv'
<1> SUFFICES ASSUME AccountsInv, HandleLogin PROVE AccountsInv'
  OBVIOUS
<1> DEFINE r == requests["own"]
<1>1. /\ Waits("login") /\ ServerOnly /\ UNCHANGED <<users, profiles, tx, files, work>>
      /\ \/ Answer("own", Error)
         \/ \E p \in {profiles[r.name], BlankProfile} : HasCredential(r) /\ AnswerWith("own", p)
  BY DEF HandleLogin
<1>2. /\ work' = Idle /\ tx' = {} /\ "own" \in Slots /\ r # None /\ r \in Requests
      /\ r.kind = "login" /\ r.name \in Names
  BY <1>1, WaitsFor DEF Slots, Requests
<1>3. CASE Answer("own", Error)
  BY <1>1, <1>2, <1>3, RefusedKeeps
<1>4. CASE \E p \in {profiles[r.name], BlankProfile} : HasCredential(r) /\ AnswerWith("own", p)
  <2> PICK p \in {profiles[r.name], BlankProfile} : HasCredential(r) /\ AnswerWith("own", p)
    BY <1>4
  <2>1. users[r.name] # None /\ p \in Profile /\ p.avatar \in StoredFiles
    <3>1. BlankProfile \in Profile /\ BlankProfile.avatar \in StoredFiles
      BY DEF BlankProfile, Profile, StoredFiles, Default
    <3>2. users[r.name] # None /\ profiles[r.name] # None
      BY <1>2 DEF HasCredential, AccountsInv, TablesAgree
    <3>3. profiles[r.name] \in Profile /\ profiles[r.name].avatar \in StoredFiles
      BY <1>2, <3>2 DEF AccountsInv, TypeOK, ServerOK, TablesAgree
    <3>4. QED
      BY <3>1, <3>2, <3>3
  <2>2. Told("own", Ok) /\ TellsOf("own", p)
    <3>1. p \in [text : Texts \cup {None}, avatar : Nat]
      BY <2>1 DEF Profile
    <3>2. QED
      BY <1>2, <3>1, AnswerWithTells DEF AccountsInv, TypeOK, ServerOK
  <2>3. Grows
    BY <1>1 DEF Grows
  <2>4. RequestOK(requests["own"])'
    BY <1>1, <1>2, <2>1, <2>2 DEF RequestOK, Told, TellsOf, HasAccount, StoredFiles, Profile
  <2>5. RequestsOK'
    BY <1>2, <2>2, <2>3, <2>4, ToldIsOK DEF AccountsInv, TypeOK
  <2>6. TablesAgree'
    BY <1>1 DEF AccountsInv, TablesAgree, StoredFiles
  <2>7. QED
    BY <1>1, <1>2, <2>2, <2>3, <2>5, <2>6, HandledKeeps DEF AccountsInv, TypeOK, ServerOK
<1>5. QED
  BY <1>1, <1>3, <1>4

LEMMA UpdateKeeps == AccountsInv /\ HandleUpdate => AccountsInv'
<1> SUFFICES ASSUME AccountsInv, HandleUpdate PROVE AccountsInv'
  OBVIOUS
<1> DEFINE r == requests["own"]
<1>1. /\ Waits("update") /\ ServerOnly /\ UNCHANGED <<users, tx, files, work>>
      /\ \/ Answer("own", Error) /\ UNCHANGED profiles
         \/ SetRow(r.name, "text", r.text) /\ Answer("own", Ok)
  BY DEF HandleUpdate
<1>2. /\ work' = Idle /\ tx' = {} /\ "own" \in Slots /\ r # None /\ r \in Requests
      /\ r.kind = "update" /\ r.name \in Names /\ RequestOK(r)
  BY <1>1, WaitsFor DEF Slots, Requests
<1>3. CASE Answer("own", Error) /\ UNCHANGED profiles
  BY <1>1, <1>2, <1>3, RefusedKeeps
<1>4. CASE SetRow(r.name, "text", r.text) /\ Answer("own", Ok)
  <2>1. HasAccount(r.name) /\ r.text \in Texts /\ profiles[r.name] # None
    BY <1>2 DEF RequestOK, HasAccount, AccountsInv, TablesAgree
  <2>2. Told("own", Ok) /\ TellsOf("own", r)
    BY <1>2, <1>4, AnswerTells DEF AccountsInv, TypeOK, ServerOK
  <2>3. /\ profiles' \in [Names -> Profile \cup {None}]
        /\ \A m \in Names : m # r.name => profiles'[m] = profiles[m]
        /\ profiles'[r.name] # None /\ profiles'[r.name].avatar = profiles[r.name].avatar
    BY <1>2, <1>4, <2>1, RowText DEF AccountsInv, TypeOK
  <2>4. Grows
    BY <1>1 DEF Grows
  <2>5. RequestOK(requests["own"])'
    BY <1>1, <1>2, <2>1, <2>2 DEF RequestOK, Told, TellsOf, HasAccount
  <2>6. RequestsOK'
    BY <1>2, <2>2, <2>4, <2>5, ToldIsOK DEF AccountsInv, TypeOK
  <2>7. TablesAgree'
    BY <1>1, <1>2, <2>1, <2>3 DEF AccountsInv, TablesAgree, StoredFiles
  <2>8. QED
    BY <1>1, <1>2, <2>2, <2>3, <2>4, <2>6, <2>7, HandledKeeps DEF AccountsInv, TypeOK, ServerOK
<1>5. QED
  BY <1>1, <1>3, <1>4

(* What stays when a statement succeeds and the request goes on.             *)
LEMMA GoingOnKeeps ==
  ASSUME AccountsInv, ServerOnly, Grows, UNCHANGED <<users, profiles, requests>>,
         files' \in SUBSET Nat, IsFiniteSet(files'),
         work' \in [slot : Slots \cup {None}, step : Registering \cup {"idle", "avatar"}, file : Nat],
         WorkOK'
  PROVE  AccountsInv'
<1>1. ClientOK' /\ UNCHANGED <<screen, dialog, session>>
  BY ClientStays DEF AccountsInv, TypeOK
<1>2. ServerOK'
  BY DEF AccountsInv, TypeOK, ServerOK
<1>3. TablesAgree'
  BY DEF AccountsInv, TablesAgree, Grows, StoredFiles
<1>4. RequestsOK'
  BY RequestStays DEF AccountsInv, TypeOK, RequestsOK
<1>5. SessionOK'
  BY <1>1, SessionStays DEF AccountsInv, TypeOK
<1>6. WindowOK'
  BY <1>1 DEF AccountsInv, WindowOK
<1>7. QED
  BY <1>1, <1>2, <1>3, <1>4, <1>5, <1>6 DEF AccountsInv, TypeOK

LEMMA RegisterBeginsKeeps == AccountsInv /\ RegisterBegins => AccountsInv'
<1> SUFFICES ASSUME AccountsInv, RegisterBegins PROVE AccountsInv'
  OBVIOUS
<1> DEFINE r == requests["own"]
<1>1. /\ Waits("register") /\ ServerOnly /\ UNCHANGED <<users, profiles, tx, files>>
      /\ \/ Answer("own", Error) /\ UNCHANGED work
         \/ /\ users[r.name] = None /\ UNCHANGED requests
            /\ work' = [Idle EXCEPT !.slot = "own", !.step = "users"]
  BY DEF RegisterBegins
<1>2. /\ work = Idle /\ tx' = {} /\ "own" \in Slots /\ r # None /\ r.kind = "register"
      /\ r.answer = Waiting
  BY <1>1, WaitsFor DEF Slots
<1>3. CASE Answer("own", Error) /\ UNCHANGED work
  BY <1>1, <1>2, <1>3, RefusedKeeps
<1>4. CASE /\ users[r.name] = None /\ UNCHANGED requests
           /\ work' = [Idle EXCEPT !.slot = "own", !.step = "users"]
  <2>1. work' = [slot |-> "own", step |-> "users", file |-> Default]
    BY <1>4 DEF Idle
  <2>2. WorkOK'
    BY <1>1, <1>2, <1>4, <2>1 DEF WorkOK, Registering, HasAccount, Slots
  <2>3. Grows
    BY <1>1 DEF Grows
  <2>4. QED
    BY <1>1, <1>4, <2>1, <2>2, <2>3, GoingOnKeeps
       DEF AccountsInv, TypeOK, ServerOK, Registering, Slots, Default
<1>5. QED
  BY <1>1, <1>3, <1>4

(* The request of a registration that has begun                              *)
LEMMA RegisteringFor ==
  ASSUME AccountsInv, work.step \in Registering
  PROVE  /\ work.slot \in Slots /\ requests[work.slot] # None
         /\ requests[work.slot] \in Requests /\ requests[work.slot].name \in Names
         /\ requests[work.slot].kind = "register" /\ requests[work.slot].password \in Passwords
         /\ ~HasAccount(requests[work.slot].name)
         /\ work.slot = "own" => requests["own"].answer = Waiting
<1>1. work.step # "idle"
  BY DEF Registering
<1>2. work.slot \in Slots /\ requests[work.slot] # None /\ requests[work.slot].kind = "register"
  BY <1>1 DEF AccountsInv, WorkOK
<1>3. requests[work.slot] \in Requests /\ RequestOK(requests[work.slot])
  BY <1>2 DEF AccountsInv, TypeOK, ServerOK, RequestsOK
<1>4. QED
  BY <1>2, <1>3 DEF AccountsInv, WorkOK, RequestOK, Requests

LEMMA RegisterInsertsKeeps == AccountsInv /\ RegisterInserts => AccountsInv'
<1> SUFFICES ASSUME AccountsInv, RegisterInserts PROVE AccountsInv'
  OBVIOUS
<1>1. /\ work.step \in {"users", "profiles"} /\ ServerOnly /\ UNCHANGED <<users, profiles, files>>
      /\ \/ /\ tx' = tx \cup {work.step} /\ UNCHANGED requests
            /\ work' = [work EXCEPT !.step = IF @ = "users" THEN "profiles" ELSE "commit"]
         \/ tx' = {} /\ work' = Idle /\ Answer(work.slot, Error)
  BY DEF RegisterInserts
<1>2. /\ work.slot \in Slots /\ requests[work.slot] # None
      /\ requests[work.slot].kind = "register" /\ ~HasAccount(requests[work.slot].name)
      /\ work.slot = "own" => requests["own"].answer = Waiting
  BY <1>1, RegisteringFor DEF Registering
<1>3. CASE tx' = {} /\ work' = Idle /\ Answer(work.slot, Error)
  BY <1>1, <1>2, <1>3, RefusedKeeps
<1>4. CASE /\ tx' = tx \cup {work.step} /\ UNCHANGED requests
           /\ work' = [work EXCEPT !.step = IF @ = "users" THEN "profiles" ELSE "commit"]
  <2>1. /\ work' = [slot |-> work.slot, file |-> work.file,
                    step |-> IF work.step = "users" THEN "profiles" ELSE "commit"]
        /\ work.file \in Nat
    BY <1>4 DEF AccountsInv, TypeOK, ServerOK
  <2>2. tx = IF work.step = "users" THEN {} ELSE {"users"}
    BY <1>1 DEF AccountsInv, WorkOK
  <2>3. WorkOK'
    <3>1. work'.slot = work.slot /\ work'.step \in {"profiles", "commit"}
      BY <2>1
    <3>2. tx' = CASE work'.step = "profiles" -> {"users"}
                  [] work'.step = "commit" -> {"users", "profiles"}
                  [] OTHER -> {}
      BY <1>1, <1>4, <2>1, <2>2
    <3>3. QED
      BY <1>1, <1>2, <1>4, <3>1, <3>2 DEF WorkOK, Registering, HasAccount
  <2>4. Grows
    BY <1>1 DEF Grows
  <2>5. QED
    BY <1>1, <1>2, <1>4, <2>1, <2>3, <2>4, GoingOnKeeps
       DEF AccountsInv, TypeOK, ServerOK, Registering
<1>5. QED
  BY <1>1, <1>3, <1>4

LEMMA RegisterCommitsKeeps == AccountsInv /\ RegisterCommits => AccountsInv'
<1> SUFFICES ASSUME AccountsInv, RegisterCommits PROVE AccountsInv'
  OBVIOUS
<1> DEFINE s == work.slot
           r == requests[work.slot]
<1>1. /\ work.step = "commit" /\ ServerOnly /\ tx' = {} /\ work' = Idle /\ UNCHANGED files
      /\ \/ Answer(s, Error) /\ UNCHANGED <<users, profiles>>
         \/ NewAccount(r) /\ (Answer(s, Ok) \/ Answer(s, Error))
  BY DEF RegisterCommits
<1>2. /\ s \in Slots /\ r # None /\ r \in Requests /\ r.name \in Names /\ r.kind = "register"
      /\ r.password \in Passwords /\ ~HasAccount(r.name)
  BY <1>1, RegisteringFor DEF Registering
<1>3. CASE Answer(s, Error) /\ UNCHANGED <<users, profiles>>
  BY <1>1, <1>2, <1>3, RefusedKeeps
<1>4. CASE NewAccount(r) /\ (Answer(s, Ok) \/ Answer(s, Error))
  <2>1. tx = {"users", "profiles"}
    BY <1>1 DEF AccountsInv, WorkOK
  <2>2. users' = [users EXCEPT ![r.name] = r.password] /\ SetNew(r.name)
    BY <1>4, <2>1 DEF NewAccount
  <2>3. /\ users' \in [Names -> Passwords \cup {None}] /\ users'[r.name] = r.password
        /\ \A m \in Names : m # r.name => users'[m] = users[m]
    BY <1>2, <2>2 DEF AccountsInv, TypeOK, ServerOK
  <2>4. /\ profiles' \in [Names -> Profile \cup {None}]
        /\ \A m \in Names : m # r.name => profiles'[m] = profiles[m]
        /\ profiles'[r.name] # None /\ profiles'[r.name].avatar = Default
    BY <1>2, <2>2, RowNew DEF AccountsInv, TypeOK
  <2>5. Grows
    BY <1>1, <1>2, <2>3 DEF Grows, HasAccount
  <2>6. TablesAgree'
    BY <1>1, <1>2, <2>3, <2>4 DEF AccountsInv, TablesAgree, StoredFiles
  <2>7. CASE Answer(s, Error)
    <3>1. RequestsOK' /\ Told(s, Error)
      BY <1>2, <2>5, <2>7, ErrorIsOK DEF AccountsInv, TypeOK
    <3>2. QED
      BY <1>1, <1>2, <2>3, <2>4, <2>5, <2>6, <3>1, HandledKeeps DEF AccountsInv, TypeOK, ServerOK
  <2>8. CASE Answer(s, Ok)
    <3>1. Told(s, Ok)
      BY <1>2, <2>8, AnswerTells DEF AccountsInv, TypeOK, ServerOK
    <3>2. s = "own" => RequestOK(requests["own"])'
      BY <1>2, <2>3, <3>1 DEF RequestOK, Told
    <3>3. RequestsOK'
      BY <1>2, <2>5, <3>1, <3>2, ToldIsOK DEF AccountsInv, TypeOK
    <3>4. QED
      BY <1>1, <1>2, <2>3, <2>4, <2>5, <2>6, <3>1, <3>3, HandledKeeps
         DEF AccountsInv, TypeOK, ServerOK
  <2>9. QED
    BY <1>4, <2>7, <2>8
<1>5. QED
  BY <1>1, <1>3, <1>4

LEMMA UploadStoresKeeps == AccountsInv /\ UploadStores => AccountsInv'
<1> SUFFICES ASSUME AccountsInv, UploadStores PROVE AccountsInv'
  OBVIOUS
<1> DEFINE r == requests["own"]
           file == Cardinality(files) + 1
<1>1. /\ Waits("upload") /\ ServerOnly /\ UNCHANGED <<users, profiles, tx>>
      /\ \/ Answer("own", Error) /\ UNCHANGED <<files, work>>
         \/ /\ files' = files \cup {file} /\ UNCHANGED requests
            /\ work' = [slot |-> "own", step |-> "avatar", file |-> file]
  BY DEF UploadStores, StoreFile
<1>2. /\ work = Idle /\ tx' = {} /\ "own" \in Slots /\ r # None /\ r.kind = "upload"
      /\ r.answer = Waiting
  BY <1>1, WaitsFor DEF Slots
<1>3. CASE Answer("own", Error) /\ UNCHANGED <<files, work>>
  BY <1>1, <1>2, <1>3, RefusedKeeps
<1>4. CASE /\ files' = files \cup {file} /\ UNCHANGED requests
           /\ work' = [slot |-> "own", step |-> "avatar", file |-> file]
  <2>1. file \in Nat
    BY FS_CardinalityType DEF AccountsInv, TypeOK, ServerOK
  <2>2. files' \in SUBSET Nat /\ IsFiniteSet(files')
    <3>1. files \in SUBSET Nat /\ IsFiniteSet(files)
      BY DEF AccountsInv, TypeOK, ServerOK
    <3>2. IsFiniteSet(files \cup {file})
      BY <3>1, FS_AddElement, Zenon
    <3>3. QED
      BY <1>4, <2>1, <3>1, <3>2
  <2>3. WorkOK'
    BY <1>1, <1>2, <1>4 DEF WorkOK, Registering, Slots
  <2>4. Grows
    BY <1>1, <1>4 DEF Grows
  <2>5. QED
    BY <1>1, <1>4, <2>1, <2>2, <2>3, <2>4, GoingOnKeeps DEF Slots, Registering
<1>5. QED
  BY <1>1, <1>3, <1>4

LEMMA UploadNamesKeeps == AccountsInv /\ UploadNames => AccountsInv'
<1> SUFFICES ASSUME AccountsInv, UploadNames PROVE AccountsInv'
  OBVIOUS
<1> DEFINE s == work.slot
           r == requests[work.slot]
<1>1. /\ work.step = "avatar" /\ ServerOnly /\ work' = Idle /\ UNCHANGED <<users, tx, files>>
      /\ \/ Answer(s, Error) /\ UNCHANGED profiles
         \/ /\ SetRow(r.name, "avatar", work.file)
            /\ AnswerWith(s, [text |-> r.text, avatar |-> work.file])
  BY DEF UploadNames
<1>2. /\ s \in Slots /\ r # None /\ r.kind = "upload" /\ work.file \in files /\ tx' = {}
  BY <1>1 DEF AccountsInv, WorkOK
<1>3. r \in Requests /\ r.name \in Names /\ RequestOK(r)
  BY <1>2 DEF AccountsInv, TypeOK, ServerOK, RequestsOK, Requests
<1>4. CASE Answer(s, Error) /\ UNCHANGED profiles
  BY <1>1, <1>2, <1>4, RefusedKeeps
<1>5. CASE /\ SetRow(r.name, "avatar", work.file)
           /\ AnswerWith(s, [text |-> r.text, avatar |-> work.file])
  <2>1. HasAccount(r.name) /\ profiles[r.name] # None /\ work.file \in Nat
    BY <1>2, <1>3 DEF RequestOK, HasAccount, AccountsInv, TablesAgree, TypeOK, ServerOK
  <2>2. Told(s, Ok) /\ TellsOf(s, [text |-> r.text, avatar |-> work.file])
    <3>1. [text |-> r.text, avatar |-> work.file] \in [text : Texts \cup {None}, avatar : Nat]
      BY <1>3, <2>1 DEF Requests
    <3>2. QED
      BY <1>2, <1>5, <3>1, AnswerWithTells DEF AccountsInv, TypeOK, ServerOK
  <2>3. /\ profiles' \in [Names -> Profile \cup {None}]
        /\ \A m \in Names : m # r.name => profiles'[m] = profiles[m]
        /\ profiles'[r.name] # None /\ profiles'[r.name].avatar = work.file
    BY <1>3, <1>5, <2>1, RowAvatar DEF AccountsInv, TypeOK
  <2>4. Grows
    BY <1>1 DEF Grows
  <2>5. s = "own" => RequestOK(requests["own"])'
    BY <1>1, <1>2, <1>3, <2>1, <2>2 DEF RequestOK, Told, TellsOf, HasAccount, StoredFiles
  <2>6. RequestsOK'
    BY <1>2, <2>2, <2>4, <2>5, ToldIsOK DEF AccountsInv, TypeOK
  <2>7. TablesAgree'
    BY <1>1, <1>2, <1>3, <2>1, <2>3 DEF AccountsInv, TablesAgree, StoredFiles, HasAccount
  <2>8. QED
    BY <1>1, <1>2, <2>2, <2>3, <2>4, <2>6, <2>7, HandledKeeps DEF AccountsInv, TypeOK, ServerOK
<1>6. QED
  BY <1>1, <1>4, <1>5

-----------------------------------------------------------------------------
(* The client and its request                                                *)

(* What the client may do to the requests: nothing, ...                      *)
LEMMA NoRequestKeeps ==
  ASSUME AccountsInv, ClientOnly, UNCHANGED <<requests, work>>
  PROVE  RequestsOK' /\ WorkOK' /\ ServerOK'
BY DEF AccountsInv, TypeOK, RequestsOK, RequestOK, WorkOK, ServerOK, ClientOnly, dbVars, HasAccount,
   StoredFiles

(* ... send another one, or take note of an answer, ...                      *)
LEMMA SendKeeps ==
  ASSUME AccountsInv, ClientOnly, UNCHANGED work,
         requests["own"] # None => requests["own"].answer # Waiting,
         NEW request \in Requests \cup {None}, Send(request),
         request # None => RequestOK(request)
  PROVE  RequestsOK' /\ WorkOK' /\ ServerOK' /\ requests'["own"] = request
<1>1. /\ requests' \in [Slots -> Requests \cup {None}] /\ requests'["own"] = request
      /\ \A z \in Slots : z # "own" => requests'[z] = requests[z]
  BY DEF Send, AccountsInv, TypeOK, ServerOK, Slots
<1>2. work.slot # "own"
  BY DEF AccountsInv, WorkOK, Idle, Slots
<1>3. WorkOK'
  BY <1>1, <1>2 DEF WorkOK, AccountsInv, ClientOnly, dbVars, HasAccount, Registering
<1>4. ServerOK'
  BY <1>1 DEF ServerOK, AccountsInv, TypeOK, ClientOnly, dbVars
<1>5. RequestsOK'
  <2> SUFFICES ASSUME NEW z \in Slots, requests'[z] # None PROVE RequestOK(requests[z])'
    BY DEF RequestsOK
  <2>1. CASE z = "own"
    BY <1>1, <2>1 DEF RequestOK, HasAccount, StoredFiles, ClientOnly, dbVars
  <2>2. CASE z # "own"
    BY <1>1, <2>2 DEF AccountsInv, RequestsOK, RequestOK, HasAccount, StoredFiles, ClientOnly, dbVars
  <2>3. QED
    BY <2>1, <2>2
<1>6. QED
  BY <1>1, <1>3, <1>4, <1>5

(* ... or leave it.                                                          *)
LEMMA AbandonKeeps ==
  ASSUME AccountsInv, ClientOnly, requests["own"] # None,
         NEW left \in Requests \cup {None}, Abandon(left),
         left # None => RequestOK(left)
  PROVE  RequestsOK' /\ WorkOK' /\ ServerOK' /\ requests'["own"] = left
<1> USE DEF Slots
<1>1. ServerOK
  BY DEF AccountsInv, TypeOK
<1>2. CASE work.slot = "own"
  <2>1. /\ requests' = [own |-> left, abandoned |-> requests["own"]]
        /\ work' = [work EXCEPT !.slot = "abandoned"]
    BY <1>2 DEF Abandon
  <2>2. requests' \in [Slots -> Requests \cup {None}]
    BY <1>1, <2>1 DEF ServerOK
  <2>3. work' = [slot |-> "abandoned", step |-> work.step, file |-> work.file]
    BY <1>1, <2>1 DEF ServerOK
  <2>4. work.step # "idle"
    BY <1>2 DEF AccountsInv, WorkOK, Idle
  <2>5. WorkOK'
    BY <1>2, <2>1, <2>3, <2>4 DEF AccountsInv, WorkOK, Registering, HasAccount, ClientOnly, dbVars
  <2>6. RequestsOK'
    BY <2>1 DEF AccountsInv, RequestsOK, RequestOK, HasAccount, StoredFiles, ClientOnly, dbVars
  <2>7. ServerOK'
    BY <1>1, <2>2, <2>3 DEF ServerOK, ClientOnly, dbVars
  <2>8. QED
    BY <2>1, <2>5, <2>6, <2>7
<1>3. CASE work.slot # "own"
  <2>1. requests' = [requests EXCEPT !["own"] = left] /\ work' = work
    BY <1>3 DEF Abandon
  <2>2. /\ requests' \in [Slots -> Requests \cup {None}] /\ requests'["own"] = left
        /\ requests'["abandoned"] = requests["abandoned"]
    BY <1>1, <2>1 DEF ServerOK
  <2>3. WorkOK'
    BY <1>3, <2>1, <2>2 DEF WorkOK, AccountsInv, ClientOnly, dbVars, HasAccount, Registering
  <2>4. RequestsOK'
    BY <2>2 DEF AccountsInv, RequestsOK, RequestOK, HasAccount, StoredFiles, ClientOnly, dbVars
  <2>5. ServerOK'
    BY <1>1, <2>1, <2>2 DEF ServerOK, ClientOnly, dbVars
  <2>6. QED
    BY <2>2, <2>3, <2>4, <2>5
<1>4. QED
  BY <1>2, <1>3

LEMMA LeaveKeeps ==
  ASSUME AccountsInv, ClientOnly, Leave
  PROVE  RequestsOK' /\ WorkOK' /\ ServerOK' /\ requests'["own"] = None
<1>1. CASE requests["own"] = None
  BY <1>1, NoRequestKeeps DEF Leave
<1>2. CASE requests["own"] # None
  BY <1>2, AbandonKeeps DEF Leave
<1>3. QED
  BY <1>1, <1>2

(* The tables and the files are out of the client's reach.                   *)
LEMMA ClientKeeps ==
  ASSUME AccountsInv, ClientOnly, ClientOK', SessionOK', WindowOK', ServerOK', RequestsOK', WorkOK'
  PROVE  AccountsInv'
BY DEF AccountsInv, TypeOK, ClientOnly, dbVars, TablesAgree, StoredFiles

(* The session stays, or follows what a request told.                        *)
LEMMA SameSession ==
  ASSUME AccountsInv, ClientOnly, UNCHANGED <<session, screen>>
  PROVE  SessionOK'
BY DEF AccountsInv, SessionOK, HasAccount, StoredFiles, ClientOnly, dbVars

-----------------------------------------------------------------------------
(* Crashes and connections that fail                                         *)

LEMMA CrashKeeps == AccountsInv /\ ServerCrashes => AccountsInv'
<1> SUFFICES ASSUME AccountsInv, ServerCrashes PROVE AccountsInv'
  OBVIOUS
<1> DEFINE r == requests["own"]
           e == [r EXCEPT !.answer = Error]
<1>1. /\ tx' = {} /\ work' = Idle /\ UNCHANGED <<users, profiles, files>>
      /\ UNCHANGED <<screen, typed, stored, session, dialog, view, loads, shown, overtaken, unsaved>>
      /\ requests' = [s \in Slots |-> IF s = "own" /\ requests[s] # None
                                      THEN [requests[s] EXCEPT !.answer = Error] ELSE None]
  BY DEF ServerCrashes, dbVars, loginVars, pictureVars
<1>2. ClientOK'
  BY <1>1 DEF AccountsInv, TypeOK, ClientOK
<1>3. r # None => r \in Requests /\ e \in Requests /\ e # None
  <2>1. r # None => r \in Requests
    BY DEF AccountsInv, TypeOK, ServerOK, Slots
  <2>2. r \in Requests => e \in Requests
    BY DEF Requests
  <2>3. QED
    BY <2>1, <2>2
<1>4. /\ requests' \in [Slots -> Requests \cup {None}]
      /\ requests'["own"] = IF r # None THEN e ELSE None
      /\ requests'["abandoned"] = None
  BY <1>1, <1>3 DEF Slots
<1>5. ServerOK'
  BY <1>1, <1>4 DEF AccountsInv, TypeOK, ServerOK, Idle, Default
<1>6. WorkOK'
  BY <1>1 DEF WorkOK, Idle, Registering, Slots
<1>7. RequestsOK'
  <2>1. r # None => RequestOK(r)
    BY DEF AccountsInv, RequestsOK, Slots
  <2>2. r # None => /\ e.kind = r.kind /\ e.name = r.name /\ e.text = r.text /\ e.answer # Ok
                    /\ e.password = r.password
    BY <1>3 DEF Requests, Error, Ok
  <2>3. QED
    BY <1>1, <1>4, <2>1, <2>2 DEF RequestsOK, RequestOK, HasAccount, Slots
<1>8. SessionOK'
  BY <1>1 DEF AccountsInv, SessionOK, HasAccount, StoredFiles
<1>9. WindowOK'
  BY <1>1, <1>3, <1>4 DEF AccountsInv, WindowOK, Requests
<1>10. TablesAgree'
  BY <1>1 DEF AccountsInv, TablesAgree, StoredFiles
<1>11. QED
  BY <1>2, <1>5, <1>6, <1>7, <1>8, <1>9, <1>10 DEF AccountsInv, TypeOK

LEMMA StartKeeps == AccountsInv /\ ServerStarts => AccountsInv'
<1> SUFFICES ASSUME AccountsInv, ServerStarts PROVE AccountsInv'
  OBVIOUS
<1>1. /\ UNCHANGED <<users, profiles, tx, files, work, requests>>
      /\ UNCHANGED <<screen, typed, stored, session, dialog, view, loads, shown, overtaken, unsaved>>
  BY DEF ServerStarts, dbVars, loginVars, pictureVars
<1>2. TypeOK' /\ TablesAgree' /\ WorkOK'
  BY <1>1 DEF AccountsInv, TypeOK, ServerOK, ClientOK, TablesAgree, StoredFiles, WorkOK, HasAccount
<1>3. RequestsOK' /\ SessionOK' /\ WindowOK'
  BY <1>1 DEF AccountsInv, RequestsOK, RequestOK, SessionOK, WindowOK, HasAccount, StoredFiles
<1>4. QED
  BY <1>2, <1>3 DEF AccountsInv

LEMMA FailedKeeps == AccountsInv /\ ConnectionFails => AccountsInv'
<1> SUFFICES ASSUME AccountsInv, ConnectionFails PROVE AccountsInv'
  OBVIOUS
<1> DEFINE r == requests["own"]
           e == [r EXCEPT !.answer = Error]
<1>1. /\ r # None /\ Abandon(e) /\ ClientOnly
      /\ UNCHANGED <<screen, typed, stored, session, dialog, view, loads, shown, overtaken, unsaved>>
  BY DEF ConnectionFails, ClientOnly, loginVars, pictureVars
<1>2. r \in Requests /\ e \in Requests
  <2>1. r \in Requests
    BY <1>1 DEF AccountsInv, TypeOK, ServerOK, Slots
  <2>2. QED
    BY <2>1 DEF Requests
<1>3. /\ e.kind = r.kind /\ e.name = r.name /\ e.text = r.text /\ e.answer # Ok
      /\ e.password = r.password /\ e # None
  BY <1>2 DEF Requests, Error, Ok
<1>4. RequestOK(e)
  BY <1>1, <1>3 DEF AccountsInv, RequestsOK, RequestOK, Slots
<1>5. RequestsOK' /\ WorkOK' /\ ServerOK' /\ requests'["own"] = e
  BY <1>1, <1>2, <1>4, AbandonKeeps
<1>6. ClientOK' /\ SessionOK'
  BY <1>1, SameSession DEF AccountsInv, TypeOK, ClientOK
<1>7. WindowOK'
  BY <1>1, <1>3, <1>5 DEF AccountsInv, WindowOK
<1>8. QED
  BY <1>1, <1>5, <1>6, <1>7, ClientKeeps

-----------------------------------------------------------------------------
(* The other client                                                          *)

LEMMA OtherKeeps ==
  ASSUME AccountsInv, OtherClient, Grows, TablesAgree',
         users' \in [Names -> Passwords \cup {None}],
         profiles' \in [Names -> Profile \cup {None}],
         files' \in SUBSET Nat, IsFiniteSet(files')
  PROVE  AccountsInv'
<1>1. /\ work = Idle /\ UNCHANGED <<tx, work, requests>>
      /\ UNCHANGED <<screen, typed, stored, session, dialog, view, loads, shown, overtaken, unsaved>>
  BY DEF OtherClient, loginVars, pictureVars
<1>2. TypeOK'
  BY <1>1 DEF AccountsInv, TypeOK, ServerOK, ClientOK
<1>3. WorkOK'
  BY <1>1 DEF AccountsInv, WorkOK, Idle, Registering, Slots
<1>4. RequestsOK'
  BY <1>1, RequestStays DEF AccountsInv, TypeOK, RequestsOK
<1>5. SessionOK'
  BY <1>1, SessionStays DEF AccountsInv, TypeOK
<1>6. WindowOK'
  BY <1>1 DEF AccountsInv, WindowOK
<1>7. QED
  BY <1>2, <1>3, <1>4, <1>5, <1>6 DEF AccountsInv

LEMMA OtherRegistersKeeps ==
  ASSUME AccountsInv, NEW n \in Names, NEW p \in Passwords, OtherRegisters(n, p)
  PROVE  AccountsInv'
<1>1. /\ OtherClient /\ users[n] = None /\ users' = [users EXCEPT ![n] = p] /\ SetNew(n)
      /\ UNCHANGED files
  BY DEF OtherRegisters
<1>2. /\ users' \in [Names -> Passwords \cup {None}] /\ users'[n] = p
      /\ \A m \in Names : m # n => users'[m] = users[m]
  BY <1>1 DEF AccountsInv, TypeOK, ServerOK
<1>3. /\ profiles' \in [Names -> Profile \cup {None}]
      /\ \A m \in Names : m # n => profiles'[m] = profiles[m]
      /\ profiles'[n] # None /\ profiles'[n].avatar = Default
  BY <1>1, RowNew DEF AccountsInv, TypeOK
<1>4. Grows
  BY <1>1, <1>2 DEF Grows, HasAccount
<1>5. TablesAgree'
  BY <1>1, <1>2, <1>3 DEF AccountsInv, TablesAgree, StoredFiles
<1>6. QED
  BY <1>1, <1>2, <1>3, <1>4, <1>5, OtherKeeps DEF AccountsInv, TypeOK, ServerOK

LEMMA OtherUpdatesKeeps ==
  ASSUME AccountsInv, NEW n \in Names, NEW t \in Texts, OtherUpdates(n, t)
  PROVE  AccountsInv'
<1>1. /\ OtherClient /\ users[n] # None /\ SetRow(n, "text", t) /\ UNCHANGED <<users, files>>
  BY DEF OtherUpdates
<1>2. /\ profiles' \in [Names -> Profile \cup {None}]
      /\ \A m \in Names : m # n => profiles'[m] = profiles[m]
      /\ profiles'[n] # None /\ profiles'[n].avatar = profiles[n].avatar
  BY <1>1, RowText DEF AccountsInv, TypeOK, TablesAgree
<1>3. Grows
  BY <1>1 DEF Grows
<1>4. TablesAgree'
  BY <1>1, <1>2 DEF AccountsInv, TablesAgree, StoredFiles
<1>5. QED
  BY <1>1, <1>2, <1>3, <1>4, OtherKeeps DEF AccountsInv, TypeOK, ServerOK

LEMMA OtherUploadsKeeps ==
  ASSUME AccountsInv, NEW n \in Names, OtherUploads(n)
  PROVE  AccountsInv'
<1> DEFINE file == Cardinality(files) + 1
<1>1. /\ OtherClient /\ users[n] # None /\ files' = files \cup {file}
      /\ SetRow(n, "avatar", file) /\ UNCHANGED users
  BY DEF OtherUploads, StoreFile
<1>2. files \in SUBSET Nat /\ IsFiniteSet(files)
  BY DEF AccountsInv, TypeOK, ServerOK
<1>3. file \in Nat
  BY <1>2, FS_CardinalityType
<1>4. IsFiniteSet(files \cup {file})
  BY <1>2, FS_AddElement, Zenon
<1>5. files' \in SUBSET Nat /\ IsFiniteSet(files')
  BY <1>1, <1>2, <1>3, <1>4
<1>6. /\ profiles' \in [Names -> Profile \cup {None}]
      /\ \A m \in Names : m # n => profiles'[m] = profiles[m]
      /\ profiles'[n] # None /\ profiles'[n].avatar = file
  BY <1>1, <1>3, RowAvatar DEF AccountsInv, TypeOK, TablesAgree
<1>7. Grows
  BY <1>1 DEF Grows
<1>8. TablesAgree'
  BY <1>1, <1>6 DEF AccountsInv, TablesAgree, StoredFiles
<1>9. QED
  BY <1>1, <1>5, <1>6, <1>7, <1>8, OtherKeeps DEF AccountsInv, TypeOK, ServerOK

-----------------------------------------------------------------------------
(* The pictures                                                              *)

LEMMA LoadIsALoad ==
  \A url \in Nat : Load(url) \in LoadSet /\ Load(url).url = url /\ ~Load(url).late
BY DEF Load, LoadSet

LEMMA NoLoads == <<>> \in Seq(LoadSet) /\ Nothing \in Int /\ Picked \in Int
<1>1. <<>> \in Seq(LoadSet)
  BY EmptySeq
<1>2. QED
  BY <1>1, BoundsAreNaturals DEF Nothing, Picked

LEMMA LateLoad ==
  \A l \in LoadSet : /\ [l EXCEPT !.late = TRUE] \in LoadSet /\ [l EXCEPT !.late = TRUE].late
                     /\ [l EXCEPT !.late = TRUE].url = l.url
BY DEF LoadSet

LEMMA AllAreLate ==
  ASSUME NEW s \in Seq(LoadSet)
  PROVE  /\ AllLate(s) \in Seq(LoadSet) /\ Len(AllLate(s)) = Len(s)
         /\ \A i \in 1 .. Len(s) : AllLate(s)[i].late
<1> DEFINE late(l) == [l EXCEPT !.late = TRUE]
<1>1. Len(s) \in Nat /\ s \in [1 .. Len(s) -> LoadSet] /\ DOMAIN s = 1 .. Len(s)
  BY LenProperties
<1>2. \A l \in LoadSet : late(l) \in LoadSet /\ late(l).late
  BY LateLoad
<1>3. AllLate(s) = [i \in 1 .. Len(s) |-> late(s[i])]
  BY <1>1 DEF AllLate
<1> HIDE DEF late
<1>4. \A i \in 1 .. Len(s) : s[i] \in LoadSet
  BY <1>1
<1>5. AllLate(s) \in [1 .. Len(s) -> LoadSet]
  BY <1>2, <1>3, <1>4
<1>6. AllLate(s) \in Seq(LoadSet)
  BY <1>1, <1>5, SeqDef
<1>7. DOMAIN AllLate(s) = 1 .. Len(s)
  BY <1>5
<1>8. Len(AllLate(s)) = Len(s)
  <2>1. Len(AllLate(s)) \in Nat /\ DOMAIN AllLate(s) = 1 .. Len(AllLate(s))
    BY <1>6, LenProperties
  <2>2. QED
    BY <1>1, <1>7, <2>1
<1>9. QED
  BY <1>2, <1>3, <1>4, <1>6, <1>8

(* The answered load goes, and those before it have been overtaken.          *)
LEMMA ShowsLoads ==
  ASSUME loads \in Seq(LoadSet), NEW i \in 1 .. Len(loads), NEW picture, Show(i, picture)
  PROVE  /\ loads' \in Seq(LoadSet) /\ Len(loads') = Len(loads) - 1
         /\ \A j \in 1 .. Len(loads') : j < i => loads'[j].late
         /\ \A j \in 1 .. Len(loads') : j >= i => loads'[j] = loads[j + 1]
         /\ shown' = picture /\ overtaken' = loads[i].late
<1> DEFINE front == SubSeq(loads, 1, i - 1)
           back == SubSeq(loads, i + 1, Len(loads))
           late == AllLate(front)
<1>1. /\ front \in Seq(LoadSet) /\ Len(front) = i - 1
      /\ back \in Seq(LoadSet) /\ Len(back) = Len(loads) - i
      /\ \A j \in 1 .. Len(loads) - i : back[j] = loads[i + j]
  OBVIOUS
<1>2. loads' = late \o back /\ shown' = picture /\ overtaken' = loads[i].late
  BY DEF Show
<1> HIDE DEF front, back
<1>3. late \in Seq(LoadSet) /\ Len(late) = i - 1 /\ \A j \in 1 .. i - 1 : late[j].late
  BY <1>1, AllAreLate
<1> HIDE DEF late
<1>4. /\ loads' \in Seq(LoadSet) /\ Len(loads') = Len(loads) - 1
      /\ \A j \in 1 .. Len(loads) - 1 :
           loads'[j] = IF j <= i - 1 THEN late[j] ELSE back[j - (i - 1)]
  <2>1. /\ late \o back \in Seq(LoadSet) /\ Len(late \o back) = Len(late) + Len(back)
        /\ \A j \in 1 .. Len(late) + Len(back) :
             (late \o back)[j] = IF j <= Len(late) THEN late[j] ELSE back[j - Len(late)]
    <3>1. late \in Seq(LoadSet) /\ back \in Seq(LoadSet)
      BY <1>1, <1>3
    <3>2. /\ late \o back \in Seq(LoadSet)
          /\ Len(late \o back) = Len(late) + Len(back)
      BY <3>1
    <3>3. \A j \in 1 .. Len(late) + Len(back) :
             (late \o back)[j] = IF j <= Len(late) THEN late[j] ELSE back[j - Len(late)]
      BY <3>1
    <3>4. QED
      BY <3>2, <3>3
  <2>2. Len(late) = i - 1 /\ Len(late) + Len(back) = Len(loads) - 1
    BY <1>1, <1>3
  <2>3. QED
    BY <1>2, <2>1, <2>2
<1>5. \A j \in 1 .. Len(loads') : j < i => loads'[j].late
  BY <1>3, <1>4
<1>6. \A j \in 1 .. Len(loads') : j >= i => loads'[j] = loads[j + 1]
  BY <1>1, <1>4
<1>7. QED
  BY <1>2, <1>4, <1>5, <1>6

LEMMA LoadKeeps ==
  ASSUME AccountsInv, NEW i \in DOMAIN loads, LoadAnswered(i)
  PROVE  AccountsInv'
<1> DEFINE load == loads[i]
<1>1. /\ UNCHANGED <<users, profiles, tx, files, work, requests>>
      /\ UNCHANGED <<screen, typed, stored, session, dialog, view, unsaved>>
      /\ \/ Show(i, load.url) \/ Show(i, Nothing)
         \/ /\ loads' = [loads EXCEPT ![i].url = Default, ![i].retried = TRUE]
            /\ UNCHANGED <<shown, overtaken>>
  BY DEF LoadAnswered, serverVars, dbVars, loginVars
<1>2. loads \in Seq(LoadSet) /\ i \in 1 .. Len(loads) /\ load \in LoadSet
  BY DEF AccountsInv, TypeOK, ClientOK
<1>3. loads' \in Seq(LoadSet) /\ shown' \in Int /\ overtaken' \in BOOLEAN
  <2>1. CASE Show(i, load.url) \/ Show(i, Nothing)
    <3>1. load.url \in Int /\ Nothing \in Int /\ load.late \in BOOLEAN
      BY <1>2 DEF LoadSet, Nothing
    <3>2. QED
      BY <1>2, <2>1, <3>1, ShowsLoads
  <2>2. CASE /\ loads' = [loads EXCEPT ![i].url = Default, ![i].retried = TRUE]
             /\ UNCHANGED <<shown, overtaken>>
    <3>1. [load EXCEPT !.url = Default, !.retried = TRUE] \in LoadSet
      BY <1>2 DEF LoadSet, Default
    <3>2. loads' = [loads EXCEPT ![i] = [load EXCEPT !.url = Default, !.retried = TRUE]]
      BY <1>2, <2>2 DEF LoadSet
    <3>3. loads' \in Seq(LoadSet)
      BY <1>2, <3>1, <3>2, ExceptSeq
    <3>4. QED
      BY <2>2, <3>3 DEF AccountsInv, TypeOK, ClientOK
  <2>3. QED
    BY <1>1, <2>1, <2>2
<1>4. TypeOK'
  BY <1>1, <1>3 DEF AccountsInv, TypeOK, ServerOK, ClientOK
<1>5. TablesAgree' /\ WorkOK' /\ RequestsOK' /\ SessionOK' /\ WindowOK'
  BY <1>1 DEF AccountsInv, TablesAgree, StoredFiles, WorkOK, HasAccount, RequestsOK, RequestOK,
     SessionOK, WindowOK
<1>6. QED
  BY <1>4, <1>5 DEF AccountsInv

-----------------------------------------------------------------------------
(* The login window                                                          *)

LEMMA LinesAreLines ==
  /\ Lines \in LineSet /\ NoLines \in [{"login", "register"} -> LineSet]
  /\ \A l \in LineSet : [login |-> l, register |-> Lines] \in [{"login", "register"} -> LineSet]
  /\ \A l \in LineSet : Complete(l) => l.name \in Names /\ l.password \in Passwords
BY DEF Lines, NoLines, LineSet, Complete

(* What a window asks the server *)
LEMMA AsksFor ==
  \A kind \in Kinds, n \in Names, p \in Passwords :
    /\ [Request(kind, n) EXCEPT !.password = p] \in Requests
    /\ [Request(kind, n) EXCEPT !.password = p] # None
    /\ [Request(kind, n) EXCEPT !.password = p].kind = kind
    /\ [Request(kind, n) EXCEPT !.password = p].name = n
    /\ [Request(kind, n) EXCEPT !.password = p].answer = Waiting
    /\ [Request(kind, n) EXCEPT !.password = p].password = p
<1> SUFFICES ASSUME NEW kind \in Kinds, NEW n \in Names, NEW p \in Passwords
             PROVE  LET q == [Request(kind, n) EXCEPT !.password = p]
                    IN  /\ q \in Requests /\ q # None /\ q.kind = kind /\ q.name = n
                        /\ q.answer = Waiting /\ q.password = p
  OBVIOUS
<1>1. [Request(kind, n) EXCEPT !.password = p] \in Requests
  BY DEF Request, Requests, Ok, Waiting, Error, Default
<1>2. QED
  BY <1>1 DEF Request

LEMMA WaitingIsNotOk == Waiting # Ok /\ Error # Ok /\ Waiting # Error
BY DEF Waiting, Ok, Error

LEMMA StartsKeeps == AccountsInv /\ ClientStarts => AccountsInv'
<1> SUFFICES ASSUME AccountsInv, ClientStarts PROVE AccountsInv'
  OBVIOUS
<1>1. /\ screen = "off" /\ screen' = "login" /\ typed' = [login |-> stored, register |-> Lines]
      /\ ClientOnly
      /\ UNCHANGED <<work, requests, stored, session, dialog, view, loads, shown, overtaken, unsaved>>
  BY DEF ClientStarts, FillIn, pictureVars
<1>2. typed' \in [{"login", "register"} -> LineSet]
  BY <1>1, LinesAreLines DEF AccountsInv, TypeOK, ClientOK
<1>3. ClientOK'
  BY <1>1, <1>2 DEF AccountsInv, TypeOK, ClientOK
<1>4. SessionOK' /\ WindowOK'
  BY <1>1 DEF AccountsInv, SessionOK, WindowOK, HasAccount, StoredFiles, ClientOnly, dbVars
<1>5. QED
  BY <1>1, <1>3, <1>4, NoRequestKeeps, ClientKeeps

LEMMA TypesKeeps ==
  ASSUME AccountsInv, NEW page \in {"login", "register"}, UserTypes(page)
  PROVE  AccountsInv'
<1> PICK n \in Names, p \in Passwords : typed' = [typed EXCEPT ![page] = [name |-> n, password |-> p]]
  BY DEF UserTypes
<1>1. /\ ClientOnly
      /\ UNCHANGED <<work, requests, screen, stored, session, dialog, view, loads, shown,
                     overtaken, unsaved>>
  BY DEF UserTypes, InLogin, pictureVars
<1>2. typed' \in [{"login", "register"} -> LineSet]
  <2>1. [name |-> n, password |-> p] \in LineSet
    BY DEF LineSet
  <2>2. QED
    BY <2>1 DEF AccountsInv, TypeOK, ClientOK
<1>3. ClientOK'
  BY <1>1, <1>2 DEF AccountsInv, TypeOK, ClientOK
<1>4. SessionOK' /\ WindowOK'
  BY <1>1, SameSession DEF AccountsInv, WindowOK
<1>5. QED
  BY <1>1, <1>3, <1>4, NoRequestKeeps, ClientKeeps

(* The login page sends what is in its lines.                                *)
LEMMA SendLoginKeeps ==
  ASSUME AccountsInv, screen = "login", ClientOnly, MayLogin, SendLogin,
         UNCHANGED <<work, screen, typed, stored, session, dialog, view, loads, shown,
                     overtaken, unsaved>>
  PROVE  AccountsInv'
<1> DEFINE l == typed["login"]
           r == [Request("login", l.name) EXCEPT !.password = l.password]
<1>1. l \in LineSet
  BY DEF AccountsInv, TypeOK, ClientOK
<1>2. l.name \in Names /\ l.password \in Passwords /\ requests["own"] = None
  BY <1>1, LinesAreLines DEF MayLogin
<1>3. /\ r \in Requests /\ r # None /\ r.kind = "login" /\ r.answer = Waiting
  BY <1>2, AsksFor DEF Kinds
<1>4. RequestOK(r)
  BY <1>3, WaitingIsNotOk DEF RequestOK
<1>5. Send(r)
  BY DEF SendLogin
<1> HIDE DEF r
<1>6. RequestsOK' /\ WorkOK' /\ ServerOK' /\ requests'["own"] = r
  BY <1>2, <1>3, <1>4, <1>5, SendKeeps
<1>7. ClientOK' /\ SessionOK'
  BY SameSession DEF AccountsInv, TypeOK, ClientOK
<1>8. WindowOK'
  BY <1>3, <1>6 DEF AccountsInv, WindowOK
<1>9. QED
  BY <1>6, <1>7, <1>8, ClientKeeps

LEMMA LoginPageKeeps == AccountsInv /\ (Login \/ AutoLogin) => AccountsInv'
<1> SUFFICES ASSUME AccountsInv, Login \/ AutoLogin PROVE AccountsInv'
  OBVIOUS
<1>1. /\ screen = "login" /\ ClientOnly
      /\ UNCHANGED <<work, screen, typed, stored, session, dialog, view, loads, shown,
                     overtaken, unsaved>>
      /\ (MayLogin /\ SendLogin) \/ UNCHANGED requests
  BY DEF Login, AutoLogin, InLogin, loginVars, pictureVars
<1>2. CASE MayLogin /\ SendLogin
  BY <1>1, <1>2, SendLoginKeeps
<1>3. CASE UNCHANGED requests
  <2>1. ClientOK' /\ SessionOK' /\ WindowOK'
    BY <1>1, <1>3, SameSession DEF AccountsInv, TypeOK, ClientOK, WindowOK
  <2>2. QED
    BY <1>1, <1>3, <2>1, NoRequestKeeps, ClientKeeps
<1>4. QED
  BY <1>1, <1>2, <1>3

LEMMA RegisterPageKeeps == AccountsInv /\ Register => AccountsInv'
<1> SUFFICES ASSUME AccountsInv, Register PROVE AccountsInv'
  OBVIOUS
<1> DEFINE l == typed["register"]
           r == [Request("register", l.name) EXCEPT !.password = l.password]
<1>1. /\ screen = "login" /\ ClientOnly /\ requests["own"] = None /\ Complete(l) /\ Send(r)
      /\ UNCHANGED <<work, screen, typed, stored, session, dialog, view, loads, shown,
                     overtaken, unsaved>>
  BY DEF Register, InLogin, loginVars, pictureVars
<1>2. l \in LineSet
  BY DEF AccountsInv, TypeOK, ClientOK
<1>3. l.name \in Names /\ l.password \in Passwords
  BY <1>1, <1>2, LinesAreLines
<1>4. /\ r \in Requests /\ r # None /\ r.kind = "register" /\ r.answer = Waiting
      /\ r.password \in Passwords
  BY <1>3, AsksFor DEF Kinds
<1>5. RequestOK(r)
  BY <1>4, WaitingIsNotOk DEF RequestOK
<1> HIDE DEF r
<1>6. RequestsOK' /\ WorkOK' /\ ServerOK' /\ requests'["own"] = r
  BY <1>1, <1>4, <1>5, SendKeeps
<1>7. ClientOK' /\ SessionOK'
  BY <1>1, SameSession DEF AccountsInv, TypeOK, ClientOK
<1>8. WindowOK'
  BY <1>1, <1>4, <1>6 DEF AccountsInv, WindowOK
<1>9. QED
  BY <1>1, <1>6, <1>7, <1>8, ClientKeeps

(* The answer a window has waited for                                        *)
LEMMA HeardOf ==
  ASSUME AccountsInv, NEW kind, Finished(kind)
  PROVE  /\ requests["own"] # None /\ requests["own"] \in Requests
         /\ requests["own"].kind = kind /\ requests["own"].answer # Waiting
         /\ requests["own"].name \in Names /\ requests["own"].avatar \in Nat
         /\ RequestOK(requests["own"])
BY DEF Finished, AccountsInv, TypeOK, ServerOK, RequestsOK, Requests, Slots

LEMMA LoginFinishedKeeps == AccountsInv /\ OnLoginFinished => AccountsInv'
<1> SUFFICES ASSUME AccountsInv, OnLoginFinished PROVE AccountsInv'
  OBVIOUS
<1> DEFINE r == requests["own"]
<1>1. /\ screen = "login" /\ ClientOnly /\ Finished("login") /\ Send(None)
      /\ UNCHANGED <<work, dialog, view, shown, overtaken, unsaved>>
      /\ \/ /\ r.answer = Ok /\ SetUser(r) /\ stored' \in {stored, typed["login"]}
            /\ typed' = NoLines /\ OpenMainWindow(r.avatar)
         \/ UNCHANGED <<session, screen, typed, stored, loads>>
  BY DEF OnLoginFinished, InLogin, Succeeded
<1>2. /\ r # None /\ r \in Requests /\ r.kind = "login" /\ r.answer # Waiting
      /\ r.name \in Names /\ r.avatar \in Nat /\ RequestOK(r)
  BY <1>1, HeardOf
<1>3. RequestsOK' /\ WorkOK' /\ ServerOK' /\ requests'["own"] = None
  BY <1>1, <1>2, SendKeeps
<1>4. CASE UNCHANGED <<session, screen, typed, stored, loads>>
  <2>1. ClientOK' /\ SessionOK' /\ WindowOK'
    BY <1>1, <1>3, <1>4, SameSession DEF AccountsInv, TypeOK, ClientOK, WindowOK
  <2>2. QED
    BY <1>1, <1>3, <2>1, ClientKeeps
<1>5. CASE /\ r.answer = Ok /\ SetUser(r) /\ stored' \in {stored, typed["login"]}
           /\ typed' = NoLines /\ OpenMainWindow(r.avatar)
  <2>1. HasAccount(r.name) /\ r.avatar \in StoredFiles /\ r.text \in Texts
    BY <1>2, <1>5 DEF RequestOK
  <2>2. /\ session' = [name |-> r.name, text |-> r.text, avatar |-> r.avatar]
        /\ session' \in Session /\ session' # None
        /\ session'.name = r.name /\ session'.avatar = r.avatar
    BY <1>2, <1>5, <2>1 DEF SetUser, Session
  <2>3. screen' = "main" /\ loads' \in Seq(LoadSet)
    <3>1. Load(r.avatar) \in LoadSet
      BY <1>2, LoadIsALoad
    <3>2. QED
      BY <1>5, <3>1 DEF OpenMainWindow
  <2>4. typed' \in [{"login", "register"} -> LineSet] /\ stored' \in LineSet
    BY <1>5, LinesAreLines DEF AccountsInv, TypeOK, ClientOK
  <2>5. ClientOK'
    BY <1>1, <2>2, <2>3, <2>4 DEF AccountsInv, TypeOK, ClientOK
  <2>6. SessionOK'
    BY <1>1, <2>1, <2>2, <2>3 DEF SessionOK, HasAccount, StoredFiles, ClientOnly, dbVars
  <2>7. WindowOK'
    BY <1>1, <1>3, <2>3 DEF AccountsInv, WindowOK
  <2>8. QED
    BY <1>1, <1>3, <2>5, <2>6, <2>7, ClientKeeps
<1>6. QED
  BY <1>1, <1>4, <1>5

LEMMA RegisterFinishedKeeps == AccountsInv /\ OnRegisterFinished => AccountsInv'
<1> SUFFICES ASSUME AccountsInv, OnRegisterFinished PROVE AccountsInv'
  OBVIOUS
<1> DEFINE l == typed["register"]
<1>1. /\ ClientOnly /\ Finished("register") /\ Send(None)
      /\ UNCHANGED <<work, dialog, screen, stored, session, view, loads, shown, overtaken, unsaved>>
      /\ \/ typed' = [login |-> [Lines EXCEPT !.name = l.name],
                      register |-> [l EXCEPT !.password = None]]
         \/ UNCHANGED typed
  BY DEF OnRegisterFinished, InLogin, pictureVars
<1>2. requests["own"].answer # Waiting
  BY <1>1, HeardOf
<1>3. RequestsOK' /\ WorkOK' /\ ServerOK' /\ requests'["own"] = None
  BY <1>1, <1>2, SendKeeps
<1>4. typed' \in [{"login", "register"} -> LineSet]
  <2>1. l \in LineSet
    BY DEF AccountsInv, TypeOK, ClientOK
  <2>2. [Lines EXCEPT !.name = l.name] \in LineSet /\ [l EXCEPT !.password = None] \in LineSet
    BY <2>1 DEF Lines, LineSet
  <2>3. QED
    BY <1>1, <2>2 DEF AccountsInv, TypeOK, ClientOK
<1>5. ClientOK' /\ SessionOK' /\ WindowOK'
  BY <1>1, <1>3, <1>4, SameSession DEF AccountsInv, TypeOK, ClientOK, WindowOK
<1>6. QED
  BY <1>1, <1>3, <1>5, ClientKeeps

LEMMA CancelledKeeps == AccountsInv /\ LoginCancelled => AccountsInv'
<1> SUFFICES ASSUME AccountsInv, LoginCancelled PROVE AccountsInv'
  OBVIOUS
<1>1. /\ screen = "login" /\ screen' = "off" /\ typed' = NoLines /\ Leave /\ ClientOnly
      /\ UNCHANGED <<stored, session, dialog, view, loads, shown, overtaken, unsaved>>
  BY DEF LoginCancelled, pictureVars
<1>2. RequestsOK' /\ WorkOK' /\ ServerOK' /\ requests'["own"] = None
  BY <1>1, LeaveKeeps
<1>3. ClientOK'
  BY <1>1, LinesAreLines DEF AccountsInv, TypeOK, ClientOK
<1>4. SessionOK' /\ WindowOK'
  BY <1>1, <1>2 DEF AccountsInv, SessionOK, WindowOK, HasAccount, StoredFiles, ClientOnly, dbVars
<1>5. QED
  BY <1>1, <1>2, <1>3, <1>4, ClientKeeps

-----------------------------------------------------------------------------
(* The main window                                                           *)

LEMMA AsksToUpload ==
  \A n \in Names : LET q == Request("upload", n)
                   IN  /\ q \in Requests /\ q # None /\ q.kind = "upload" /\ q.name = n
                       /\ q.answer = Waiting
<1> SUFFICES ASSUME NEW n \in Names
             PROVE  LET q == Request("upload", n)
                    IN  /\ q \in Requests /\ q # None /\ q.kind = "upload" /\ q.name = n
                        /\ q.answer = Waiting
  OBVIOUS
<1>1. Request("upload", n) \in Requests
  BY DEF Request, Requests, Kinds, Ok, Waiting, Error, Default
<1>2. QED
  BY <1>1 DEF Request

LEMMA AsksToUpdate ==
  ASSUME AccountsInv, screen = "main"
  PROVE  /\ ProfileUpdate \in Requests /\ ProfileUpdate # None /\ ProfileUpdate.kind = "update"
         /\ ProfileUpdate.name = session.name /\ ProfileUpdate.answer = Waiting
         /\ ProfileUpdate.text = dialog.text /\ RequestOK(ProfileUpdate)
<1>1. session \in Session /\ dialog.text \in Texts
  BY DEF AccountsInv, TypeOK, ClientOK, SessionOK
<1>2. session.name \in Names /\ HasAccount(session.name)
  BY <1>1 DEF Session, AccountsInv, SessionOK
<1>3. ProfileUpdate \in Requests
  BY <1>1, <1>2 DEF ProfileUpdate, Request, Requests, Kinds, Ok, Waiting, Error, Default
<1>4. /\ ProfileUpdate.kind = "update" /\ ProfileUpdate.name = session.name
      /\ ProfileUpdate.answer = Waiting /\ ProfileUpdate.text = dialog.text
  BY DEF ProfileUpdate, Request
<1>5. QED
  BY <1>1, <1>2, <1>3, <1>4, WaitingIsNotOk DEF RequestOK

LEMMA LoadsInto ==
  ASSUME AccountsInv, session # None, NEW views, LoadInto(views)
  PROVE  /\ UNCHANGED view /\ loads' \in Seq(LoadSet)
         /\ loads' = IF view \in views THEN Append(loads, Load(session.avatar)) ELSE loads
<1>1. session.avatar \in Nat /\ loads \in Seq(LoadSet)
  BY DEF AccountsInv, TypeOK, ClientOK, Session
<1>2. Load(session.avatar) \in LoadSet
  BY <1>1, LoadIsALoad
<1>3. QED
  BY <1>1, <1>2 DEF LoadInto

(* What stays when the dialog opens, changes, or only pictures are loaded    *)
LEMMA MainKeeps ==
  ASSUME AccountsInv, screen = "main", ClientOnly, UNCHANGED <<requests, work, screen, session>>,
         UNCHANGED <<typed, stored, view>>,
         loads' \in Seq(LoadSet), shown' \in Int, overtaken' \in BOOLEAN, unsaved' \in BOOLEAN,
         dialog' \in [open : BOOLEAN, text : Texts, picked : BOOLEAN],
         dialog'.picked => dialog'.open,
         dialog.open => dialog'.open
  PROVE  AccountsInv'
<1>1. ClientOK' /\ SessionOK'
  BY SameSession DEF AccountsInv, TypeOK, ClientOK
<1>2. WindowOK'
  BY DEF AccountsInv, WindowOK
<1>3. QED
  BY <1>1, <1>2, NoRequestKeeps, ClientKeeps

LEMMA MainWindow ==
  ASSUME AccountsInv, screen = "main"
  PROVE  /\ session # None /\ session \in Session /\ session.name \in Names
         /\ HasAccount(session.name) /\ session.text \in Texts
         /\ dialog \in [open : BOOLEAN, text : Texts, picked : BOOLEAN]
         /\ loads \in Seq(LoadSet) /\ shown \in Int /\ overtaken \in BOOLEAN /\ unsaved \in BOOLEAN
BY DEF AccountsInv, TypeOK, ClientOK, SessionOK, Session

LEMMA PagesKeep ==
  AccountsInv /\ (\/ OnUserCardClicked \/ OnEditProfileClicked \/ OnChangeAvatarClicked
                  \/ \E t \in Texts : UserEdits(t))
     => AccountsInv'
<1> SUFFICES ASSUME AccountsInv,
                    \/ OnUserCardClicked \/ OnEditProfileClicked \/ OnChangeAvatarClicked
                    \/ \E t \in Texts : UserEdits(t)
             PROVE  AccountsInv'
  OBVIOUS
<1>1. /\ screen = "main" /\ ClientOnly /\ UNCHANGED <<requests, work, screen, session, typed, stored>>
  BY DEF OnUserCardClicked, OnEditProfileClicked, OnChangeAvatarClicked, UserEdits, Editing, InMain,
         NoRequest, loginVars
<1>2. /\ session # None /\ session.text \in Texts
      /\ dialog \in [open : BOOLEAN, text : Texts, picked : BOOLEAN]
      /\ loads \in Seq(LoadSet) /\ shown \in Int /\ overtaken \in BOOLEAN /\ unsaved \in BOOLEAN
  BY <1>1, MainWindow
<1>3. dialog.picked => dialog.open
  BY DEF AccountsInv, WindowOK
<1>4. CASE OnUserCardClicked
  <2>1. LoadInto({"page"}) /\ unsaved' \in BOOLEAN /\ UNCHANGED <<dialog, shown, overtaken>>
    BY <1>4 DEF OnUserCardClicked
  <2>2. loads' \in Seq(LoadSet) /\ UNCHANGED view
    BY <1>2, <2>1, LoadsInto
  <2>3. QED
    BY <1>1, <1>2, <1>3, <2>1, <2>2, MainKeeps
<1>5. CASE OnEditProfileClicked
  <2>1. /\ LoadInto({"preview"}) /\ UNCHANGED <<shown, overtaken, unsaved>>
        /\ dialog' = [open |-> TRUE, text |-> session.text, picked |-> FALSE]
    BY <1>5 DEF OnEditProfileClicked
  <2>2. loads' \in Seq(LoadSet) /\ UNCHANGED view
    BY <1>2, <2>1, LoadsInto
  <2>3. QED
    BY <1>1, <1>2, <2>1, <2>2, MainKeeps
<1>6. CASE OnChangeAvatarClicked
  <2>1. /\ dialog.open /\ dialog' = [dialog EXCEPT !.picked = TRUE] /\ UNCHANGED <<view, unsaved>>
        /\ \/ shown' = Picked /\ loads' = AllLate(loads) /\ overtaken' = FALSE
           \/ UNCHANGED <<shown, loads, overtaken>>
    BY <1>6 DEF OnChangeAvatarClicked, Editing
  <2>2. dialog' = [open |-> TRUE, text |-> dialog.text, picked |-> TRUE]
    BY <1>2, <2>1
  <2>3. loads' \in Seq(LoadSet) /\ shown' \in Int /\ overtaken' \in BOOLEAN
    BY <1>2, <2>1, AllAreLate, NoLoads
  <2>4. QED
    BY <1>1, <1>2, <2>1, <2>2, <2>3, MainKeeps
<1>7. CASE \E t \in Texts : UserEdits(t)
  <2>1. PICK t \in Texts : UserEdits(t)
    BY <1>7
  <2>2. /\ dialog.open /\ dialog' = [dialog EXCEPT !.text = t]
        /\ UNCHANGED <<view, loads, shown, overtaken, unsaved>>
    BY <2>1 DEF UserEdits, Editing, pictureVars
  <2>3. dialog' = [open |-> TRUE, text |-> t, picked |-> dialog.picked]
    BY <1>2, <2>2
  <2>4. QED
    BY <1>1, <1>2, <2>2, <2>3, MainKeeps
<1>8. QED
  BY <1>4, <1>5, <1>6, <1>7

LEMMA SaveKeeps == AccountsInv /\ OnSaveClicked => AccountsInv'
<1> SUFFICES ASSUME AccountsInv, OnSaveClicked PROVE AccountsInv'
  OBVIOUS
<1>1. /\ screen = "main" /\ dialog.open /\ requests["own"] = None /\ ClientOnly
      /\ UNCHANGED <<work, screen, typed, stored, session, dialog, view, loads, shown,
                     overtaken, unsaved>>
      /\ Send(Request("upload", session.name)) \/ Send(ProfileUpdate)
  BY DEF OnSaveClicked, Editing, InMain, loginVars, pictureVars
<1>2. session.name \in Names /\ HasAccount(session.name)
  BY <1>1, MainWindow
<1>3. PICK r \in {Request("upload", session.name), ProfileUpdate} : Send(r)
  BY <1>1
<1>4. /\ r \in Requests /\ r # None /\ r.kind \in {"upload", "update"} /\ r.name = session.name
      /\ RequestOK(r)
  <2>1. CASE r = ProfileUpdate
    BY <1>1, <2>1, AsksToUpdate
  <2>2. CASE r = Request("upload", session.name)
    BY <1>2, <2>2, AsksToUpload, WaitingIsNotOk DEF RequestOK
  <2>3. QED
    BY <2>1, <2>2
<1>5. RequestsOK' /\ WorkOK' /\ ServerOK' /\ requests'["own"] = r
  BY <1>1, <1>3, <1>4, SendKeeps
<1>6. ClientOK' /\ SessionOK'
  BY <1>1, SameSession DEF AccountsInv, TypeOK, ClientOK
<1>7. WindowOK'
  BY <1>1, <1>4, <1>5 DEF AccountsInv, WindowOK
<1>8. QED
  BY <1>1, <1>5, <1>6, <1>7, ClientKeeps

LEMMA UploadFinishedKeeps == AccountsInv /\ OnAvatarUploadFinished => AccountsInv'
<1> SUFFICES ASSUME AccountsInv, OnAvatarUploadFinished PROVE AccountsInv'
  OBVIOUS
<1> DEFINE r == requests["own"]
<1>1. /\ screen = "main" /\ ClientOnly /\ Finished("upload")
      /\ UNCHANGED <<work, screen, typed, stored, view, loads, shown, overtaken>>
      /\ \/ /\ r.answer = Ok /\ SetAvatar(r.avatar)
            /\ dialog' = [dialog EXCEPT !.picked = FALSE] /\ unsaved' = TRUE
            /\ Send([Request("update", session.name) EXCEPT !.text = dialog.text])
         \/ Send(None) /\ UNCHANGED <<session, dialog, unsaved>>
  BY DEF OnAvatarUploadFinished, InMain, Succeeded, ProfileUpdate, loginVars
<1>2. /\ r # None /\ r \in Requests /\ r.kind = "upload" /\ r.answer # Waiting
      /\ r.avatar \in Nat /\ RequestOK(r)
  BY <1>1, HeardOf
<1>3. CASE Send(None) /\ UNCHANGED <<session, dialog, unsaved>>
  <2>1. RequestsOK' /\ WorkOK' /\ ServerOK' /\ requests'["own"] = None
    BY <1>1, <1>2, <1>3, SendKeeps
  <2>2. ClientOK' /\ SessionOK' /\ WindowOK'
    BY <1>1, <1>3, <2>1, SameSession DEF AccountsInv, TypeOK, ClientOK, WindowOK
  <2>3. QED
    BY <1>1, <2>1, <2>2, ClientKeeps
<1>4. CASE /\ r.answer = Ok /\ SetAvatar(r.avatar)
           /\ dialog' = [dialog EXCEPT !.picked = FALSE] /\ unsaved' = TRUE
           /\ Send([Request("update", session.name) EXCEPT !.text = dialog.text])
  <2>1. Send(ProfileUpdate)
    BY <1>4 DEF ProfileUpdate
  <2>2. /\ ProfileUpdate \in Requests /\ ProfileUpdate # None /\ ProfileUpdate.kind = "update"
        /\ ProfileUpdate.name = session.name /\ RequestOK(ProfileUpdate)
    BY <1>1, AsksToUpdate
  <2>3. RequestsOK' /\ WorkOK' /\ ServerOK' /\ requests'["own"] = ProfileUpdate
    BY <1>1, <1>2, <2>1, <2>2, SendKeeps
  <2>4. /\ session # None /\ session \in Session /\ HasAccount(session.name)
        /\ dialog \in [open : BOOLEAN, text : Texts, picked : BOOLEAN]
    BY <1>1, MainWindow
  <2>5. /\ session' \in Session /\ session' # None /\ session'.name = session.name
        /\ session'.avatar = r.avatar
    <3>1. session' = [name |-> session.name, text |-> session.text, avatar |-> r.avatar]
      BY <1>4, <2>4 DEF SetAvatar, Session
    <3>2. QED
      BY <1>2, <2>4, <3>1 DEF Session
  <2>6. dialog' = [open |-> dialog.open, text |-> dialog.text, picked |-> FALSE]
    BY <1>4, <2>4
  <2>7. ClientOK'
    BY <1>1, <1>4, <2>4, <2>5, <2>6 DEF AccountsInv, TypeOK, ClientOK
  <2>8. r.avatar \in StoredFiles
    BY <1>2, <1>4 DEF RequestOK
  <2>9. SessionOK'
    BY <1>1, <2>4, <2>5, <2>8 DEF SessionOK, HasAccount, StoredFiles, ClientOnly, dbVars
  <2>10. WindowOK'
    BY <1>1, <1>2, <2>2, <2>3, <2>5, <2>6 DEF AccountsInv, WindowOK
  <2>11. QED
    BY <1>1, <2>3, <2>7, <2>9, <2>10, ClientKeeps
<1>5. QED
  BY <1>1, <1>3, <1>4

LEMMA UpdateFinishedKeeps == AccountsInv /\ OnProfileUpdateFinished => AccountsInv'
<1> SUFFICES ASSUME AccountsInv, OnProfileUpdateFinished PROVE AccountsInv'
  OBVIOUS
<1> DEFINE r == requests["own"]
<1>1. /\ screen = "main" /\ ClientOnly /\ Finished("update") /\ Send(None)
      /\ UNCHANGED <<work, screen, typed, stored>>
      /\ \/ /\ r.answer = Ok /\ UpdateProfile(r.text) /\ dialog' = Closed
            /\ IF view = "preview" THEN NoPictures /\ unsaved' = FALSE ELSE ProfileSaved
         \/ UNCHANGED <<session, dialog, view, loads, shown, overtaken, unsaved>>
  BY DEF OnProfileUpdateFinished, InMain, Succeeded, loginVars, pictureVars
<1>2. /\ r # None /\ r.kind = "update" /\ r.answer # Waiting /\ RequestOK(r)
  BY <1>1, HeardOf
<1>3. RequestsOK' /\ WorkOK' /\ ServerOK' /\ requests'["own"] = None
  BY <1>1, <1>2, SendKeeps
<1>4. CASE UNCHANGED <<session, dialog, view, loads, shown, overtaken, unsaved>>
  <2>1. ClientOK' /\ SessionOK' /\ WindowOK'
    BY <1>1, <1>3, <1>4, SameSession DEF AccountsInv, TypeOK, ClientOK, WindowOK
  <2>2. QED
    BY <1>1, <1>3, <2>1, ClientKeeps
<1>5. CASE /\ r.answer = Ok /\ UpdateProfile(r.text) /\ dialog' = Closed
           /\ IF view = "preview" THEN NoPictures /\ unsaved' = FALSE ELSE ProfileSaved
  <2>1. /\ session # None /\ session \in Session /\ HasAccount(session.name)
        /\ loads \in Seq(LoadSet) /\ shown \in Int /\ overtaken \in BOOLEAN
    BY <1>1, MainWindow
  <2>2. /\ session' \in Session /\ session' # None /\ session'.name = session.name
        /\ session'.avatar = session.avatar
    <3>1. session' = [name |-> session.name, text |-> r.text, avatar |-> session.avatar]
      BY <1>5, <2>1 DEF UpdateProfile, Session
    <3>2. QED
      BY <1>2, <2>1, <3>1 DEF Session, RequestOK
  <2>3. /\ view' = view /\ loads' \in Seq(LoadSet) /\ shown' \in Int
        /\ overtaken' \in BOOLEAN /\ unsaved' \in BOOLEAN
    <3>1. CASE NoPictures /\ unsaved' = FALSE
      BY <3>1, NoLoads DEF NoPictures
    <3>2. CASE ProfileSaved
      BY <2>1, <3>2, LoadsInto DEF ProfileSaved
    <3>3. QED
      BY <1>5, <3>1, <3>2
  <2>4. ClientOK'
    BY <1>1, <1>5, <2>2, <2>3 DEF AccountsInv, TypeOK, ClientOK, Closed
  <2>5. SessionOK'
    BY <1>1, <2>1, <2>2 DEF AccountsInv, SessionOK, HasAccount, StoredFiles, ClientOnly, dbVars
  <2>6. WindowOK'
    BY <1>1, <1>3, <1>5 DEF WindowOK, Closed
  <2>7. QED
    BY <1>1, <1>3, <2>4, <2>5, <2>6, ClientKeeps
<1>6. QED
  BY <1>1, <1>4, <1>5

LEMMA DialogClosedKeeps == AccountsInv /\ DialogClosed => AccountsInv'
<1> SUFFICES ASSUME AccountsInv, DialogClosed PROVE AccountsInv'
  OBVIOUS
<1>1. /\ screen = "main" /\ ClientOnly /\ dialog' = Closed /\ Leave
      /\ NoPictures \/ UNCHANGED <<view, loads, shown, overtaken>>
      /\ UNCHANGED <<screen, session, typed, stored, unsaved>>
  BY DEF DialogClosed, InMain, loginVars
<1>2. RequestsOK' /\ WorkOK' /\ ServerOK' /\ requests'["own"] = None
  BY <1>1, LeaveKeeps
<1>3. ClientOK'
  <2>1. dialog' \in [open : BOOLEAN, text : Texts, picked : BOOLEAN]
    BY <1>1 DEF Closed
  <2>2. /\ view' = view /\ loads' \in Seq(LoadSet) /\ shown' \in Int /\ overtaken' \in BOOLEAN
    BY <1>1, NoLoads DEF AccountsInv, TypeOK, ClientOK, NoPictures
  <2>3. QED
    BY <1>1, <2>1, <2>2 DEF AccountsInv, TypeOK, ClientOK
<1>4. SessionOK' /\ WindowOK'
  BY <1>1, <1>2, SameSession DEF WindowOK, Closed
<1>5. QED
  BY <1>1, <1>2, <1>3, <1>4, ClientKeeps

LEMMA EndsKeeps == AccountsInv /\ ClientEnds => AccountsInv'
<1> SUFFICES ASSUME AccountsInv, ClientEnds PROVE AccountsInv'
  OBVIOUS
<1>1. /\ screen = "main" /\ ~dialog.open /\ screen' = "off" /\ session' = None /\ ClientOnly
      /\ stored' \in {stored, Lines} /\ NoPictures /\ unsaved' = FALSE
      /\ UNCHANGED <<requests, work, typed, dialog>>
  BY DEF ClientEnds, NoRequest
<1>2. ClientOK'
  <2>1. stored' \in LineSet
    BY <1>1, LinesAreLines DEF AccountsInv, TypeOK, ClientOK
  <2>2. /\ view' = view /\ loads' \in Seq(LoadSet) /\ shown' \in Int /\ overtaken' \in BOOLEAN
    BY <1>1, NoLoads DEF NoPictures
  <2>3. QED
    BY <1>1, <2>1, <2>2 DEF AccountsInv, TypeOK, ClientOK
<1>3. SessionOK' /\ WindowOK'
  BY <1>1 DEF AccountsInv, SessionOK, WindowOK
<1>4. QED
  BY <1>1, <1>2, <1>3, NoRequestKeeps, ClientKeeps

-----------------------------------------------------------------------------
LEMMA InitIsInv == Init => AccountsInv
<1> SUFFICES ASSUME Init PROVE AccountsInv
  OBVIOUS
<1>1. /\ users \in [Names -> Passwords \cup {None}] /\ files = {} /\ work = Idle /\ tx = {}
      /\ profiles = [n \in Names |-> IF users[n] = None THEN None
                                     ELSE [text |-> Fresh, avatar |-> Default]]
      /\ requests = [s \in Slots |-> None]
      /\ screen = "off" /\ session = None /\ stored = Lines /\ typed = NoLines /\ dialog = Closed
      /\ view \in Views /\ loads = <<>> /\ shown = Nothing /\ overtaken = FALSE /\ unsaved = FALSE
  BY DEF Init
<1>2. [text |-> Fresh, avatar |-> Default] \in Profile
  BY DEF Profile, Default
<1>3. ServerOK
  <2>1. IsFiniteSet({})
    BY FS_EmptySet
  <2>2. Idle \in [slot : Slots \cup {None}, step : Registering \cup {"idle", "avatar"}, file : Nat]
    BY DEF Idle, Default
  <2>3. QED
    BY <1>1, <1>2, <2>1, <2>2 DEF ServerOK
<1>4. ClientOK
  <2>1. dialog \in [open : BOOLEAN, text : Texts, picked : BOOLEAN]
    BY <1>1 DEF Closed
  <2>2. loads \in Seq(LoadSet) /\ shown \in Int
    BY <1>1, NoLoads
  <2>3. QED
    BY <1>1, <2>1, <2>2, LinesAreLines DEF ClientOK
<1>5. TablesAgree
  BY <1>1, <1>2 DEF TablesAgree, StoredFiles
<1>6. WorkOK
  BY <1>1 DEF WorkOK, Idle, Registering, Slots
<1>7. RequestsOK /\ SessionOK /\ WindowOK
  BY <1>1 DEF RequestsOK, SessionOK, WindowOK, Closed, Slots
<1>8. QED
  BY <1>3, <1>4, <1>5, <1>6, <1>7 DEF AccountsInv, TypeOK

LEMMA StutterKeeps == AccountsInv /\ UNCHANGED vars => AccountsInv'
BY DEF AccountsInv, TypeOK, ServerOK, ClientOK, TablesAgree, StoredFiles, WorkOK, HasAccount,
       RequestsOK, RequestOK, SessionOK, WindowOK, vars, serverVars, dbVars, loginVars, pictureVars

LEMMA NextKeeps == AccountsInv /\ [Next]_vars => AccountsInv'
<1> SUFFICES ASSUME AccountsInv, [Next]_vars PROVE AccountsInv'
  OBVIOUS
<1>1. CASE ServerHandles
  BY <1>1, LoginKeeps, UpdateKeeps, RegisterBeginsKeeps, UploadStoresKeeps DEF ServerHandles
<1>2. CASE ServerGoesOn
  BY <1>2, RegisterInsertsKeeps, RegisterCommitsKeeps, UploadNamesKeeps DEF ServerGoesOn
<1>3. CASE ServerCrashes \/ ServerStarts \/ ConnectionFails
  BY <1>3, CrashKeeps, StartKeeps, FailedKeeps
<1>4. CASE \/ \E n \in Names, p \in Passwords : OtherRegisters(n, p)
           \/ \E n \in Names, t \in Texts : OtherUpdates(n, t)
           \/ \E n \in Names : OtherUploads(n)
  BY <1>4, OtherRegistersKeeps, OtherUpdatesKeeps, OtherUploadsKeeps
<1>5. CASE LoadEnds
  BY <1>5, LoadKeeps DEF LoadEnds
<1>6. CASE \/ ClientStarts \/ Login \/ AutoLogin \/ Register \/ LoginCancelled
           \/ \E page \in {"login", "register"} : UserTypes(page)
  BY <1>6, StartsKeeps, LoginPageKeeps, RegisterPageKeeps, CancelledKeeps, TypesKeeps
<1>7. CASE ClientHears
  BY <1>7, LoginFinishedKeeps, RegisterFinishedKeeps, UploadFinishedKeeps, UpdateFinishedKeeps
     DEF ClientHears
<1>8. CASE \/ OnUserCardClicked \/ OnEditProfileClicked \/ OnChangeAvatarClicked
           \/ \E t \in Texts : UserEdits(t)
  BY <1>8, PagesKeep
<1>9. CASE OnSaveClicked \/ DialogClosed \/ ClientEnds
  BY <1>9, SaveKeeps, DialogClosedKeeps, EndsKeeps
<1>10. CASE UNCHANGED vars
  BY <1>10, StutterKeeps
<1>11. QED
  BY <1>1, <1>2, <1>3, <1>4, <1>5, <1>6, <1>7, <1>8, <1>9, <1>10 DEF Next

THEOREM AccountsInvHolds == Spec => []AccountsInv
<1>1. Init => AccountsInv
  BY InitIsInv
<1>2. AccountsInv /\ [Next]_vars => AccountsInv'
  BY NextKeeps
<1>3. QED
  BY <1>1, <1>2, PTL DEF Spec

(* Whatever statement fails, wherever the server crashes and whoever hears   *)
(* of it, no account is half there.                                          *)
THEOREM AccountsWhole == Spec => []AccountsAreWhole
<1>1. AccountsInv => AccountsAreWhole
  BY DEF AccountsInv, TablesAgree, SessionOK, RequestsOK, RequestOK, AccountsAreWhole, StoredFiles,
         Slots
<1>2. QED
  BY <1>1, AccountsInvHolds, PTL

-----------------------------------------------------------------------------
(* The client's copy of the profile                                          *)

(* Whose profile it is.                                                      *)
LEMMA WhoseProfile ==
  ASSUME AccountsInv
  PROVE  /\ screen = "main" => session.name \in Names /\ HasAccount(session.name)
         /\ Answered("login") => requests["own"].name \in Names /\ HasAccount(requests["own"].name)
         /\ Answered("update") \/ Answered("upload") =>
              screen = "main" /\ requests["own"].name = session.name
<1>1. screen = "main" => session.name \in Names /\ HasAccount(session.name)
  BY MainWindow
<1>2. requests["own"] # None => requests["own"] \in Requests /\ RequestOK(requests["own"])
  BY DEF AccountsInv, TypeOK, ServerOK, RequestsOK, Slots
<1>3. QED
  BY <1>1, <1>2 DEF Answered, RequestOK, Requests, AccountsInv, WindowOK

RowStays(n) ==
  /\ "text" \notin behind' => profiles'[n].text = profiles[n].text
  /\ "avatar" \notin behind' => profiles'[n].avatar = profiles[n].avatar

(* An answer that nobody hears, and a change by another client, are what the *)
(* copy is from now on behind in.                                            *)
LEMMA ProfileStays ==
  ASSUME AccountsInv, ProfileInv, UNCHANGED <<session, screen>>,
         behind \cup Unheard \subseteq behind' \cup Unheard', behind \subseteq behind',
         requests'["own"] # None /\ requests'["own"].answer = Ok =>
           requests'["own"].kind = "register" \/ requests'["own"] = requests["own"],
         \A n \in Names : HasAccount(n) => RowStays(n)
  PROVE  ProfileInv'
<1> DEFINE r == requests["own"]
           a == requests'["own"]
<1>1. /\ screen = "main" => session.name \in Names /\ HasAccount(session.name)
      /\ Answered("login") => r.name \in Names /\ HasAccount(r.name)
      /\ Answered("update") \/ Answered("upload") => screen = "main" /\ r.name = session.name
  BY WhoseProfile
<1>2. /\ Answered("login")' => a = r /\ Answered("login")
      /\ Answered("update")' => a = r /\ Answered("update")
      /\ Answered("upload")' => a = r /\ Answered("upload")
  BY DEF Answered
<1>3. /\ Answered("update") => "text" \in Unheard
      /\ Answered("upload") => "avatar" \in Unheard
  BY DEF Answered, Unheard, PartOf
<1>4. /\ "text" \in Unheard' => Answered("update")'
      /\ "avatar" \in Unheard' => Answered("upload")'
  BY DEF Answered, Unheard, PartOf
<1>5. /\ ~Answered("update")' /\ "text" \notin behind' => "text" \notin behind /\ ~Answered("update")
      /\ ~Answered("upload")' /\ "avatar" \notin behind' =>
           "avatar" \notin behind /\ ~Answered("upload")
  BY <1>3, <1>4
<1>6. screen' = "main" => /\ ~Answered("update")' => TextIs(session.text, session.name)'
                          /\ ~Answered("upload")' => AvatarIs(session.avatar, session.name)'
  BY <1>1, <1>5 DEF ProfileInv, RowStays, TextIs, AvatarIs
<1>7. Answered("login")' => /\ TextIs(requests["own"].text, requests["own"].name)'
                            /\ AvatarIs(requests["own"].avatar, requests["own"].name)'
  BY <1>1, <1>2 DEF ProfileInv, RowStays, TextIs, AvatarIs
<1>8. Answered("update")' => TextIs(requests["own"].text, requests["own"].name)'
  BY <1>1, <1>2 DEF ProfileInv, RowStays, TextIs, AvatarIs
<1>9. Answered("upload")' => AvatarIs(requests["own"].avatar, requests["own"].name)'
  BY <1>1, <1>2 DEF ProfileInv, RowStays, TextIs, AvatarIs
<1>10. QED
  BY <1>6, <1>7, <1>8, <1>9 DEF ProfileInv

(* No request of the client has been answered, or it is not heard any more.  *)
LEMMA Unanswered ==
  ASSUME AccountsInv, ProfileInv, UNCHANGED <<session, screen, profiles>>,
         behind' = behind \cup Unheard,
         requests'["own"] # None => requests'["own"].answer # Ok
  PROVE  ProfileInv'
<1>1. \A n \in Names : RowStays(n)
  BY DEF RowStays
<1>2. QED
  BY <1>1, ProfileStays

(* Nobody is logged in, and nobody waits to be.                              *)
LEMMA NobodyThere ==
  ASSUME screen' # "main", requests'["own"] = None
  PROVE  ProfileInv'
BY DEF ProfileInv, Answered

LEMMA NothingHeard ==
  /\ requests["own"] = None => Unheard = {}
  /\ requests["own"] # None /\ requests["own"].answer # Ok => Unheard = {}
  /\ requests["own"] # None /\ requests["own"].kind \in {"login", "register"} => Unheard = {}
BY DEF Unheard, PartOf

LEMMA AbandonTells ==
  ASSUME AccountsInv, requests["own"] # None, NEW left \in Requests \cup {None}, Abandon(left)
  PROVE  requests'["own"] = left /\ behind' = behind \cup Unheard
<1>1. CASE work.slot = "own"
  <2>1. requests["own"].answer = Waiting
    BY <1>1 DEF AccountsInv, WorkOK
  <2>2. Unheard = {}
    BY <2>1, NothingHeard, WaitingIsNotOk
  <2>3. QED
    BY <1>1, <2>2 DEF Abandon
<1>2. CASE work.slot # "own"
  BY <1>2 DEF Abandon, AccountsInv, TypeOK, ServerOK, Slots
<1>3. QED
  BY <1>1, <1>2

LEMMA LeaveTells ==
  ASSUME AccountsInv, Leave
  PROVE  requests'["own"] = None /\ behind' = behind \cup Unheard
<1>1. CASE requests["own"] = None
  BY <1>1, NothingHeard DEF Leave
<1>2. CASE requests["own"] # None
  BY <1>2, AbandonTells DEF Leave
<1>3. QED
  BY <1>1, <1>2

LEMMA NothingNew ==
  ASSUME AccountsInv, ProfileInv, UNCHANGED <<session, screen, profiles, behind>>,
         requests'["own"] = requests["own"]
  PROVE  ProfileInv'
<1>1. Unheard' = Unheard
  BY DEF Unheard
<1>2. \A n \in Names : RowStays(n)
  BY DEF RowStays
<1>3. QED
  BY <1>1, <1>2, ProfileStays

LEMMA SessionAndScreen == ServerOnly => UNCHANGED <<session, screen>>
BY DEF ServerOnly

LEMMA RefusedTells ==
  ASSUME AccountsInv, ProfileInv, NEW s \in Slots, requests[s] # None, Answer(s, Error),
         s = "own" => requests["own"].answer = Waiting,
         ServerOnly, UNCHANGED <<profiles, behind>>
  PROVE  ProfileInv'
<1>1. Told(s, Error)
  BY AnswerTells DEF AccountsInv, TypeOK, ServerOK
<1>2. CASE s = "own"
  <2>1. Unheard = {}
    BY <1>2, NothingHeard, WaitingIsNotOk
  <2>2. requests'["own"].answer # Ok
    BY <1>1, <1>2, WaitingIsNotOk DEF Told
  <2>3. QED
    BY <2>1, <2>2, SessionAndScreen, Unanswered
<1>3. CASE s # "own"
  <2>1. requests'["own"] = requests["own"]
    BY <1>1, <1>3 DEF Told, Slots
  <2>2. QED
    BY <2>1, SessionAndScreen, NothingNew
<1>4. QED
  BY <1>2, <1>3

LEMMA LoginTells == AccountsInv /\ ProfileInv /\ HandleLogin => ProfileInv'
<1> SUFFICES ASSUME AccountsInv, ProfileInv, HandleLogin PROVE ProfileInv'
  OBVIOUS
<1> DEFINE r == requests["own"]
<1>1. /\ Waits("login") /\ ServerOnly /\ UNCHANGED profiles
      /\ \/ Answer("own", Error) /\ UNCHANGED behind
         \/ HasCredential(r) /\ AnswerWith("own", profiles[r.name]) /\ behind' = {}
         \/ AnswerWith("own", BlankProfile) /\ behind' = {"text", "avatar"}
  BY DEF HandleLogin
<1>2. /\ "own" \in Slots /\ r # None /\ r \in Requests /\ r.kind = "login" /\ r.answer = Waiting
      /\ r.name \in Names
  BY <1>1, WaitsFor DEF Slots, Requests
<1>3. CASE Answer("own", Error) /\ UNCHANGED behind
  BY <1>1, <1>2, <1>3, RefusedTells
<1>4. CASE HasCredential(r) /\ AnswerWith("own", profiles[r.name]) /\ behind' = {}
  <2>1. profiles[r.name] \in Profile
    BY <1>2, <1>4 DEF HasCredential, AccountsInv, TypeOK, ServerOK, TablesAgree
  <2>2. profiles[r.name] \in [text : Texts \cup {None}, avatar : Nat]
    BY <2>1 DEF Profile
  <2>3. Told("own", Ok) /\ TellsOf("own", profiles[r.name])
    BY <1>2, <1>4, <2>2, AnswerWithTells DEF AccountsInv, TypeOK, ServerOK
  <2>4. screen' # "main"
    BY <1>1, <1>2, SessionAndScreen DEF AccountsInv, WindowOK
  <2>5. QED
    BY <1>1, <1>2, <2>3, <2>4 DEF ProfileInv, Answered, Told, TellsOf, TextIs, AvatarIs
(* The copy is behind in all of the profile when the login has read none.    *)
<1>5. CASE AnswerWith("own", BlankProfile) /\ behind' = {"text", "avatar"}
  <2>1. BlankProfile \in [text : Texts \cup {None}, avatar : Nat]
    BY DEF BlankProfile, Default
  <2>2. Told("own", Ok)
    BY <1>2, <1>5, <2>1, AnswerWithTells DEF AccountsInv, TypeOK, ServerOK
  <2>3. QED
    BY <1>2, <1>5, <2>2 DEF ProfileInv, Answered, Told, TextIs, AvatarIs
<1>6. QED
  BY <1>1, <1>3, <1>4, <1>5

LEMMA UpdateTells == AccountsInv /\ ProfileInv /\ HandleUpdate => ProfileInv'
<1> SUFFICES ASSUME AccountsInv, ProfileInv, HandleUpdate PROVE ProfileInv'
  OBVIOUS
<1> DEFINE r == requests["own"]
<1>1. /\ Waits("update") /\ ServerOnly
      /\ \/ Answer("own", Error) /\ UNCHANGED <<profiles, behind>>
         \/ /\ SetRow(r.name, "text", r.text) /\ Answer("own", Ok)
            /\ behind' = behind \ {"text"}
  BY DEF HandleUpdate, Changed
<1>2. /\ "own" \in Slots /\ r # None /\ r \in Requests /\ r.kind = "update" /\ r.answer = Waiting
      /\ r.name \in Names /\ RequestOK(r)
  BY <1>1, WaitsFor DEF Slots, Requests
<1>3. CASE Answer("own", Error) /\ UNCHANGED <<profiles, behind>>
  BY <1>1, <1>2, <1>3, RefusedTells
<1>4. CASE /\ SetRow(r.name, "text", r.text) /\ Answer("own", Ok)
           /\ behind' = behind \ {"text"}
  <2>1. HasAccount(r.name) /\ r.text \in Texts /\ profiles[r.name] # None
    BY <1>2 DEF RequestOK, HasAccount, AccountsInv, TablesAgree
  <2>2. Told("own", Ok) /\ TellsOf("own", r)
    BY <1>2, <1>4, AnswerTells DEF AccountsInv, TypeOK, ServerOK
  <2>3. profiles'[r.name].text = r.text /\ profiles'[r.name].avatar = profiles[r.name].avatar
    BY <1>2, <1>4, <2>1, RowText DEF AccountsInv, TypeOK
  <2>4. screen = "main" /\ r.name = session.name
    BY <1>2 DEF AccountsInv, WindowOK
  <2>5. UNCHANGED <<session, screen>> /\ ~Answered("upload")
    BY <1>1, <1>2, SessionAndScreen DEF Answered
  <2>6. Answered("update")' /\ ~Answered("upload")' /\ ~Answered("login")'
    BY <1>2, <2>2 DEF Answered, Told
  <2>7. AvatarIs(session.avatar, session.name)'
    BY <1>4, <2>3, <2>4, <2>5 DEF ProfileInv, AvatarIs
  <2>8. TextIs(requests["own"].text, requests["own"].name)'
    BY <1>2, <2>2, <2>3 DEF Told, TellsOf, TextIs
  <2>9. QED
    BY <2>6, <2>7, <2>8 DEF ProfileInv
<1>5. QED
  BY <1>1, <1>3, <1>4

LEMMA RegisterTells ==
  AccountsInv /\ ProfileInv /\ (RegisterBegins \/ RegisterInserts \/ RegisterCommits) => ProfileInv'
<1> SUFFICES ASSUME AccountsInv, ProfileInv, RegisterBegins \/ RegisterInserts \/ RegisterCommits
             PROVE  ProfileInv'
  OBVIOUS
<1> DEFINE s == work.slot
           r == requests[work.slot]
<1>1. CASE RegisterBegins
  <2>1. /\ ServerOnly /\ UNCHANGED <<profiles, behind>> /\ Waits("register")
        /\ Answer("own", Error) \/ UNCHANGED requests
    BY <1>1 DEF RegisterBegins
  <2>2. "own" \in Slots /\ requests["own"] # None /\ requests["own"].answer = Waiting
    BY <2>1, WaitsFor DEF Slots
  <2>3. QED
    BY <2>1, <2>2, RefusedTells, NothingNew, SessionAndScreen
<1>2. CASE RegisterInserts
  <2>1. /\ ServerOnly /\ UNCHANGED <<profiles, behind>> /\ work.step \in Registering
        /\ Answer(s, Error) \/ UNCHANGED requests
    BY <1>2 DEF RegisterInserts, Registering
  <2>2. s \in Slots /\ r # None /\ (s = "own" => requests["own"].answer = Waiting)
    BY <2>1, RegisteringFor
  <2>3. QED
    BY <2>1, <2>2, RefusedTells, NothingNew, SessionAndScreen
<1>3. CASE RegisterCommits
  <2>1. /\ ServerOnly /\ UNCHANGED behind /\ work.step = "commit"
        /\ \/ Answer(s, Error) /\ UNCHANGED profiles
           \/ NewAccount(r) /\ (Answer(s, Ok) \/ Answer(s, Error))
    BY <1>3 DEF RegisterCommits
  <2>2. /\ s \in Slots /\ r # None /\ (s = "own" => requests["own"].answer = Waiting)
        /\ r.name \in Names /\ ~HasAccount(r.name) /\ r.kind = "register"
    BY <2>1, RegisteringFor DEF Registering
  <2>3. CASE Answer(s, Error) /\ UNCHANGED profiles
    BY <2>1, <2>2, <2>3, RefusedTells
  <2>4. CASE NewAccount(r) /\ (Answer(s, Ok) \/ Answer(s, Error))
    <3>1. PICK code \in {Ok, Error} : Answer(s, code)
      BY <2>4
    <3>2. Told(s, code)
      BY <2>2, <3>1, AnswerTells DEF AccountsInv, TypeOK, ServerOK
    <3>3. SetNew(r.name) \/ UNCHANGED profiles
      BY <2>4 DEF NewAccount
    <3>4. \A n \in Names : HasAccount(n) => RowStays(n)
      BY <2>2, <3>3, RowNew DEF RowStays, AccountsInv, TypeOK
    <3>5. CASE s = "own"
      <4>1. Unheard = {}
        BY <2>2, <3>5, NothingHeard, WaitingIsNotOk
      <4>2. requests'["own"].kind = "register"
        BY <2>2, <3>2, <3>5 DEF Told
      <4>3. QED
        BY <2>1, <3>4, <4>1, <4>2, SessionAndScreen, ProfileStays
    <3>6. CASE s # "own"
      <4>1. requests'["own"] = requests["own"]
        BY <3>2, <3>6 DEF Told, Slots
      <4>2. Unheard' = Unheard
        BY <4>1 DEF Unheard
      <4>3. QED
        BY <2>1, <3>4, <4>1, <4>2, SessionAndScreen, ProfileStays
    <3>7. QED
      BY <3>5, <3>6
  <2>5. QED
    BY <2>1, <2>3, <2>4
<1>4. QED
  BY <1>1, <1>2, <1>3

LEMMA UploadTells ==
  AccountsInv /\ ProfileInv /\ (UploadStores \/ UploadNames) => ProfileInv'
<1> SUFFICES ASSUME AccountsInv, ProfileInv, UploadStores \/ UploadNames PROVE ProfileInv'
  OBVIOUS
<1> DEFINE s == work.slot
           r == requests[work.slot]
<1>1. CASE UploadStores
  <2>1. /\ ServerOnly /\ UNCHANGED <<profiles, behind>> /\ Waits("upload")
        /\ Answer("own", Error) \/ UNCHANGED requests
    BY <1>1 DEF UploadStores
  <2>2. "own" \in Slots /\ requests["own"] # None /\ requests["own"].answer = Waiting
    BY <2>1, WaitsFor DEF Slots
  <2>3. QED
    BY <2>1, <2>2, RefusedTells, NothingNew, SessionAndScreen
<1>2. CASE UploadNames
  <2>1. /\ ServerOnly /\ work.step = "avatar"
        /\ \/ Answer(s, Error) /\ UNCHANGED <<profiles, behind>>
           \/ /\ SetRow(r.name, "avatar", work.file) /\ Changed(s, "avatar")
              /\ AnswerWith(s, [text |-> r.text, avatar |-> work.file])
    BY <1>2 DEF UploadNames
  <2>2. /\ s \in Slots /\ r # None /\ r.kind = "upload" /\ work.file \in files
        /\ s = "own" => requests["own"].answer = Waiting
    BY <2>1 DEF AccountsInv, WorkOK
  <2>3. /\ r \in Requests /\ r.name \in Names /\ HasAccount(r.name) /\ profiles[r.name] # None
        /\ work.file \in Nat
    BY <2>2 DEF AccountsInv, TypeOK, ServerOK, RequestsOK, RequestOK, Requests, TablesAgree, HasAccount
  <2>4. CASE Answer(s, Error) /\ UNCHANGED <<profiles, behind>>
    BY <2>1, <2>2, <2>4, RefusedTells
  <2>5. CASE /\ SetRow(r.name, "avatar", work.file) /\ Changed(s, "avatar")
             /\ AnswerWith(s, [text |-> r.text, avatar |-> work.file])
    <3>1. Told(s, Ok) /\ TellsOf(s, [text |-> r.text, avatar |-> work.file])
      <4>1. [text |-> r.text, avatar |-> work.file] \in [text : Texts \cup {None}, avatar : Nat]
        BY <2>3 DEF Requests
      <4>2. QED
        BY <2>2, <2>5, <4>1, AnswerWithTells DEF AccountsInv, TypeOK, ServerOK
    <3>2. /\ \A m \in Names : m # r.name => profiles'[m] = profiles[m]
          /\ profiles'[r.name].avatar = work.file /\ profiles'[r.name].text = profiles[r.name].text
      BY <2>3, <2>5, RowAvatar DEF AccountsInv, TypeOK
    <3>3. CASE s = "own"
      <4>1. screen = "main" /\ r.name = session.name
        BY <2>2, <3>3 DEF AccountsInv, WindowOK
      <4>2. UNCHANGED <<session, screen>> /\ ~Answered("update") /\ behind' = behind \ {"avatar"}
        BY <2>1, <2>2, <2>5, <3>3, SessionAndScreen DEF Answered, Changed
      <4>3. Answered("upload")' /\ ~Answered("update")' /\ ~Answered("login")'
        BY <2>2, <3>1, <3>3 DEF Answered, Told
      <4>4. TextIs(session.text, session.name)'
        BY <3>2, <4>1, <4>2 DEF ProfileInv, TextIs
      <4>5. AvatarIs(requests["own"].avatar, requests["own"].name)'
        BY <3>1, <3>2, <3>3 DEF Told, TellsOf, AvatarIs
      <4>6. QED
        BY <4>3, <4>4, <4>5 DEF ProfileInv
    <3>4. CASE s # "own"
      <4>1. requests'["own"] = requests["own"] /\ behind' = behind \cup {"avatar"}
        BY <2>2, <2>5, <3>1, <3>4 DEF Told, Slots, Changed
      <4>2. Unheard' = Unheard
        BY <4>1 DEF Unheard
      <4>3. \A n \in Names : RowStays(n)
        BY <3>2, <4>1 DEF RowStays
      <4>4. QED
        BY <2>1, <4>1, <4>2, <4>3, SessionAndScreen, ProfileStays
    <3>5. QED
      BY <3>3, <3>4
  <2>6. QED
    BY <2>1, <2>4, <2>5
<1>3. QED
  BY <1>1, <1>2

LEMMA CrashTells == AccountsInv /\ ProfileInv /\ ServerCrashes => ProfileInv'
<1> SUFFICES ASSUME AccountsInv, ProfileInv, ServerCrashes PROVE ProfileInv'
  OBVIOUS
<1> DEFINE r == requests["own"]
           e == [r EXCEPT !.answer = Error]
<1>1. /\ UNCHANGED <<session, screen, profiles>> /\ behind' = behind \cup Unheard
      /\ requests' = [s \in Slots |-> IF s = "own" /\ requests[s] # None
                                      THEN [requests[s] EXCEPT !.answer = Error] ELSE None]
  BY DEF ServerCrashes, dbVars
<1>2. r # None => e.answer = Error
  BY DEF AccountsInv, TypeOK, ServerOK, Slots, Requests
<1>3. requests'["own"] # None => requests'["own"].answer = Error
  BY <1>1, <1>2 DEF Slots
<1>4. QED
  BY <1>1, <1>3, Unanswered, WaitingIsNotOk

LEMMA FailedTells == AccountsInv /\ ProfileInv /\ ConnectionFails => ProfileInv'
<1> SUFFICES ASSUME AccountsInv, ProfileInv, ConnectionFails PROVE ProfileInv'
  OBVIOUS
<1> DEFINE r == requests["own"]
           e == [r EXCEPT !.answer = Error]
<1>1. r # None /\ Abandon(e) /\ UNCHANGED <<session, screen, profiles>>
  BY DEF ConnectionFails, dbVars
<1>2. r \in Requests
  BY <1>1 DEF AccountsInv, TypeOK, ServerOK, Slots
<1>3. e \in Requests /\ e.answer = Error
  BY <1>2 DEF Requests
<1>4. requests'["own"] = e /\ behind' = behind \cup Unheard
  BY <1>1, <1>3, AbandonTells
<1>5. QED
  BY <1>1, <1>3, <1>4, Unanswered, WaitingIsNotOk

LEMMA OthersTell ==
  AccountsInv /\ ProfileInv
    /\ (\/ \E n \in Names, p \in Passwords : OtherRegisters(n, p)
        \/ \E n \in Names, t \in Texts : OtherUpdates(n, t)
        \/ \E n \in Names : OtherUploads(n))
    => ProfileInv'
<1> SUFFICES ASSUME AccountsInv, ProfileInv,
                    \/ \E n \in Names, p \in Passwords : OtherRegisters(n, p)
                    \/ \E n \in Names, t \in Texts : OtherUpdates(n, t)
                    \/ \E n \in Names : OtherUploads(n)
             PROVE  ProfileInv'
  OBVIOUS
<1>1. OtherClient /\ UNCHANGED <<session, screen, requests>>
  BY DEF OtherRegisters, OtherUpdates, OtherUploads, OtherClient
<1>2. Unheard' = Unheard
  BY <1>1 DEF Unheard
<1>3. ServerOK /\ \A n \in Names : users[n] # None => profiles[n] # None
  BY DEF AccountsInv, TypeOK, TablesAgree
<1>4. CASE \E n \in Names, p \in Passwords : OtherRegisters(n, p)
  <2>1. PICK n \in Names : users[n] = None /\ SetNew(n) /\ UNCHANGED behind
    BY <1>4 DEF OtherRegisters
  <2>2. \A m \in Names : HasAccount(m) => RowStays(m)
    BY <1>3, <2>1, RowNew DEF RowStays, HasAccount
  <2>3. QED
    BY <1>1, <1>2, <2>1, <2>2, ProfileStays
<1>5. CASE \E n \in Names, t \in Texts : OtherUpdates(n, t)
  <2>1. PICK n \in Names, t \in Texts :
          users[n] # None /\ SetRow(n, "text", t) /\ behind' = behind \cup {"text"}
    BY <1>5 DEF OtherUpdates
  <2>2. \A m \in Names : RowStays(m)
    BY <1>3, <2>1, RowText DEF RowStays
  <2>3. QED
    BY <1>1, <1>2, <2>1, <2>2, ProfileStays
<1>6. CASE \E n \in Names : OtherUploads(n)
  <2>1. PICK n \in Names :
          /\ users[n] # None /\ SetRow(n, "avatar", Cardinality(files) + 1)
          /\ behind' = behind \cup {"avatar"}
    BY <1>6 DEF OtherUploads
  <2>2. Cardinality(files) + 1 \in Nat
    BY FS_CardinalityType DEF AccountsInv, TypeOK, ServerOK
  <2>3. \A m \in Names : RowStays(m)
    BY <1>3, <2>1, <2>2, RowAvatar DEF RowStays
  <2>4. QED
    BY <1>1, <1>2, <2>1, <2>3, ProfileStays
<1>7. QED
  BY <1>4, <1>5, <1>6

(* What the client sends has no answer yet.                                  *)
LEMMA SentTells ==
  ASSUME AccountsInv, ProfileInv, UNCHANGED <<session, screen, profiles, behind>>, Unheard = {},
         NEW request \in Requests \cup {None}, Send(request), request # None => request.answer = Waiting
  PROVE  ProfileInv'
<1>1. requests'["own"] = request
  BY DEF Send, AccountsInv, TypeOK, ServerOK, Slots
<1>2. QED
  BY <1>1, Unanswered, WaitingIsNotOk

LEMMA LoginWindowTells ==
  AccountsInv /\ ProfileInv
    /\ (\/ ClientStarts \/ Login \/ AutoLogin \/ Register \/ LoginCancelled
        \/ \E page \in {"login", "register"} : UserTypes(page))
    => ProfileInv'
<1> SUFFICES ASSUME AccountsInv, ProfileInv,
                    \/ ClientStarts \/ Login \/ AutoLogin \/ Register \/ LoginCancelled
                    \/ \E page \in {"login", "register"} : UserTypes(page)
             PROVE  ProfileInv'
  OBVIOUS
<1>1. CASE ClientStarts \/ LoginCancelled
  <2>1. CASE ClientStarts
    <3>1. screen = "off" /\ screen' = "login" /\ UNCHANGED requests
      BY <2>1 DEF ClientStarts
    <3>2. QED
      BY <3>1, NobodyThere DEF AccountsInv, WindowOK
  <2>2. CASE LoginCancelled
    BY <2>2, LeaveTells, NobodyThere DEF LoginCancelled
  <2>3. QED
    BY <1>1, <2>1, <2>2
<1>2. CASE \/ Login \/ AutoLogin \/ Register
           \/ \E page \in {"login", "register"} : UserTypes(page)
  <2>1. /\ UNCHANGED <<session, screen, profiles, behind>>
        /\ \/ UNCHANGED requests
           \/ MayLogin /\ SendLogin
           \/ /\ requests["own"] = None /\ Complete(typed["register"])
              /\ Send([Request("register", typed["register"].name)
                         EXCEPT !.password = typed["register"].password])
    BY <1>2 DEF Login, AutoLogin, Register, UserTypes, InLogin, ClientOnly, dbVars
  <2>2. typed["login"] \in LineSet /\ typed["register"] \in LineSet
    BY DEF AccountsInv, TypeOK, ClientOK
  <2>3. CASE UNCHANGED requests
    BY <2>1, <2>3, NothingNew
  <2>4. CASE MayLogin /\ SendLogin
    <3> DEFINE q == [Request("login", typed["login"].name) EXCEPT !.password = typed["login"].password]
    <3>1. Unheard = {} /\ Complete(typed["login"]) /\ Send(q)
      BY <2>4, NothingHeard DEF MayLogin, SendLogin
    <3>2. q \in Requests /\ q.answer = Waiting
      BY <2>2, <3>1, LinesAreLines, AsksFor DEF Kinds
    <3> HIDE DEF q
    <3>3. QED
      BY <2>1, <3>1, <3>2, SentTells
  <2>5. CASE /\ requests["own"] = None /\ Complete(typed["register"])
             /\ Send([Request("register", typed["register"].name)
                        EXCEPT !.password = typed["register"].password])
    <3> DEFINE q == [Request("register", typed["register"].name)
                       EXCEPT !.password = typed["register"].password]
    <3>1. Unheard = {} /\ Send(q)
      BY <2>5, NothingHeard
    <3>2. q \in Requests /\ q.answer = Waiting
      BY <2>2, <2>5, LinesAreLines, AsksFor DEF Kinds
    <3> HIDE DEF q
    <3>3. QED
      BY <2>1, <3>1, <3>2, SentTells
  <2>6. QED
    BY <2>1, <2>3, <2>4, <2>5
<1>3. QED
  BY <1>1, <1>2

LEMMA LoginHeardTells == AccountsInv /\ ProfileInv /\ OnLoginFinished => ProfileInv'
<1> SUFFICES ASSUME AccountsInv, ProfileInv, OnLoginFinished PROVE ProfileInv'
  OBVIOUS
<1> DEFINE r == requests["own"]
<1>1. /\ Finished("login") /\ Send(None) /\ UNCHANGED <<profiles, behind>>
      /\ \/ r.answer = Ok /\ SetUser(r)
         \/ r.answer # Ok /\ UNCHANGED <<session, screen>>
  BY DEF OnLoginFinished, InLogin, Succeeded, ClientOnly, dbVars
<1>2. r # None /\ r \in Requests /\ r.kind = "login" /\ r.name \in Names
  BY <1>1, HeardOf
<1>3. CASE r.answer # Ok /\ UNCHANGED <<session, screen>>
  BY <1>1, <1>2, <1>3, NothingHeard, SentTells
<1>4. CASE r.answer = Ok /\ SetUser(r)
  <2>1. /\ Answered("login") /\ requests'["own"] = None
    BY <1>1, <1>2, <1>4 DEF Answered, Send, AccountsInv, TypeOK, ServerOK, Slots
  <2>2. session'.name = r.name /\ session'.text = r.text /\ session'.avatar = r.avatar
    BY <1>4 DEF SetUser
  <2>3. TextIs(r.text, r.name) /\ AvatarIs(r.avatar, r.name)
    BY <2>1 DEF ProfileInv
  <2>4. TextIs(session.text, session.name)' /\ AvatarIs(session.avatar, session.name)'
    BY <1>1, <2>2, <2>3 DEF TextIs, AvatarIs
  <2>5. QED
    BY <2>1, <2>4 DEF ProfileInv, Answered
<1>5. QED
  BY <1>1, <1>3, <1>4

LEMMA RegisterHeardTells == AccountsInv /\ ProfileInv /\ OnRegisterFinished => ProfileInv'
<1> SUFFICES ASSUME AccountsInv, ProfileInv, OnRegisterFinished PROVE ProfileInv'
  OBVIOUS
<1>1. Finished("register") /\ Send(None) /\ UNCHANGED <<session, screen, profiles, behind>>
  BY DEF OnRegisterFinished, InLogin, ClientOnly, dbVars
<1>2. requests["own"] # None /\ requests["own"].kind = "register"
  BY <1>1, HeardOf
<1>3. QED
  BY <1>1, <1>2, NothingHeard, SentTells

LEMMA UploadHeardTells == AccountsInv /\ ProfileInv /\ OnAvatarUploadFinished => ProfileInv'
<1> SUFFICES ASSUME AccountsInv, ProfileInv, OnAvatarUploadFinished PROVE ProfileInv'
  OBVIOUS
<1> DEFINE r == requests["own"]
<1>1. /\ Finished("upload") /\ screen = "main" /\ UNCHANGED <<screen, profiles, behind>>
      /\ \/ r.answer = Ok /\ SetAvatar(r.avatar) /\ Send(ProfileUpdate)
         \/ r.answer # Ok /\ Send(None) /\ UNCHANGED session
  BY DEF OnAvatarUploadFinished, InMain, Succeeded, ClientOnly, dbVars
<1>2. r # None /\ r \in Requests /\ r.kind = "upload" /\ r.avatar \in Nat
  BY <1>1, HeardOf
<1>3. CASE r.answer # Ok /\ Send(None) /\ UNCHANGED session
  BY <1>1, <1>2, <1>3, NothingHeard, SentTells
<1>4. CASE r.answer = Ok /\ SetAvatar(r.avatar) /\ Send(ProfileUpdate)
  <2>1. /\ Answered("upload") /\ ~Answered("update") /\ r.name = session.name
        /\ session \in Session
    BY <1>1, <1>2, <1>4, WhoseProfile, MainWindow DEF Answered
  <2>2. requests'["own"] = ProfileUpdate /\ ProfileUpdate.answer = Waiting
    BY <1>1, <1>4, AsksToUpdate DEF Send, AccountsInv, TypeOK, ServerOK, Slots
  <2>3. session' = [name |-> session.name, text |-> session.text, avatar |-> r.avatar]
    BY <1>4, <2>1 DEF SetAvatar, Session
  <2>4. TextIs(session.text, session.name) /\ AvatarIs(r.avatar, session.name)
    BY <1>1, <2>1 DEF ProfileInv
  <2>5. TextIs(session.text, session.name)' /\ AvatarIs(session.avatar, session.name)'
    BY <1>1, <2>3, <2>4 DEF TextIs, AvatarIs
  <2>6. QED
    BY <2>2, <2>5, WaitingIsNotOk DEF ProfileInv, Answered
<1>5. QED
  BY <1>1, <1>3, <1>4

LEMMA UpdateHeardTells == AccountsInv /\ ProfileInv /\ OnProfileUpdateFinished => ProfileInv'
<1> SUFFICES ASSUME AccountsInv, ProfileInv, OnProfileUpdateFinished PROVE ProfileInv'
  OBVIOUS
<1> DEFINE r == requests["own"]
<1>1. /\ Finished("update") /\ screen = "main" /\ UNCHANGED <<screen, profiles, behind>>
      /\ Send(None)
      /\ \/ r.answer = Ok /\ UpdateProfile(r.text)
         \/ r.answer # Ok /\ UNCHANGED session
  BY DEF OnProfileUpdateFinished, InMain, Succeeded, ClientOnly, dbVars
<1>2. r # None /\ r \in Requests /\ r.kind = "update"
  BY <1>1, HeardOf
<1>3. CASE r.answer # Ok /\ UNCHANGED session
  BY <1>1, <1>2, <1>3, NothingHeard, SentTells
<1>4. CASE r.answer = Ok /\ UpdateProfile(r.text)
  <2>1. /\ Answered("update") /\ ~Answered("upload") /\ r.name = session.name
        /\ session \in Session
    BY <1>1, <1>2, <1>4, WhoseProfile, MainWindow DEF Answered
  <2>2. requests'["own"] = None
    BY <1>1 DEF Send, AccountsInv, TypeOK, ServerOK, Slots
  <2>3. session' = [name |-> session.name, text |-> r.text, avatar |-> session.avatar]
    BY <1>4, <2>1 DEF UpdateProfile, Session
  <2>4. TextIs(r.text, session.name) /\ AvatarIs(session.avatar, session.name)
    BY <1>1, <2>1 DEF ProfileInv
  <2>5. TextIs(session.text, session.name)' /\ AvatarIs(session.avatar, session.name)'
    BY <1>1, <2>3, <2>4 DEF TextIs, AvatarIs
  <2>6. QED
    BY <2>2, <2>5 DEF ProfileInv, Answered
<1>5. QED
  BY <1>1, <1>3, <1>4

LEMMA MainWindowTells ==
  AccountsInv /\ ProfileInv
    /\ (\/ OnUserCardClicked \/ OnEditProfileClicked \/ OnChangeAvatarClicked
        \/ \E t \in Texts : UserEdits(t)
        \/ OnSaveClicked \/ DialogClosed \/ ClientEnds)
    => ProfileInv'
<1> SUFFICES ASSUME AccountsInv, ProfileInv,
                    \/ OnUserCardClicked \/ OnEditProfileClicked \/ OnChangeAvatarClicked
                    \/ \E t \in Texts : UserEdits(t)
                    \/ OnSaveClicked \/ DialogClosed \/ ClientEnds
             PROVE  ProfileInv'
  OBVIOUS
<1>1. CASE \/ OnUserCardClicked \/ OnEditProfileClicked \/ OnChangeAvatarClicked
           \/ \E t \in Texts : UserEdits(t)
  <2>1. UNCHANGED <<session, screen, profiles, behind, requests>>
    BY <1>1 DEF OnUserCardClicked, OnEditProfileClicked, OnChangeAvatarClicked, UserEdits, Editing,
       InMain, NoRequest, ClientOnly, dbVars
  <2>2. QED
    BY <2>1, NothingNew
<1>2. CASE OnSaveClicked
  <2>1. /\ screen = "main" /\ requests["own"] = None /\ UNCHANGED <<session, screen, profiles, behind>>
        /\ Send(Request("upload", session.name)) \/ Send(ProfileUpdate)
    BY <1>2 DEF OnSaveClicked, Editing, InMain, ClientOnly, dbVars
  <2>2. PICK q \in {Request("upload", session.name), ProfileUpdate} : Send(q)
    BY <2>1
  <2>3. q \in Requests /\ q.answer = Waiting
    BY <2>1, <2>2, MainWindow, AsksToUpdate, AsksToUpload
  <2>4. QED
    BY <2>1, <2>2, <2>3, NothingHeard, SentTells
<1>3. CASE DialogClosed
  <2>1. Leave /\ UNCHANGED <<session, screen, profiles>>
    BY <1>3 DEF DialogClosed, InMain, ClientOnly, dbVars
  <2>2. QED
    BY <2>1, LeaveTells, Unanswered
<1>4. CASE ClientEnds
  <2>1. screen = "main" /\ ~dialog.open /\ screen' = "off" /\ UNCHANGED requests
    BY <1>4 DEF ClientEnds, NoRequest
  <2>2. QED
    BY <2>1, NobodyThere DEF AccountsInv, WindowOK
<1>5. QED
  BY <1>1, <1>2, <1>3, <1>4

LEMMA ProfileTells == AccountsInv /\ ProfileInv /\ [Next]_vars => ProfileInv'
<1> SUFFICES ASSUME AccountsInv, ProfileInv, [Next]_vars PROVE ProfileInv'
  OBVIOUS
<1>1. CASE ServerHandles
  BY <1>1, LoginTells, UpdateTells, RegisterTells, UploadTells DEF ServerHandles
<1>2. CASE ServerGoesOn
  BY <1>2, RegisterTells, UploadTells DEF ServerGoesOn
<1>3. CASE ServerCrashes \/ ConnectionFails
  BY <1>3, CrashTells, FailedTells
<1>4. CASE ServerStarts \/ LoadEnds \/ UNCHANGED vars
  <2>1. UNCHANGED <<session, screen, profiles, behind, requests>>
    BY <1>4 DEF ServerStarts, LoadEnds, LoadAnswered, vars, serverVars, dbVars
  <2>2. QED
    BY <2>1, NothingNew
<1>5. CASE \/ \E n \in Names, p \in Passwords : OtherRegisters(n, p)
           \/ \E n \in Names, t \in Texts : OtherUpdates(n, t)
           \/ \E n \in Names : OtherUploads(n)
  BY <1>5, OthersTell
<1>6. CASE \/ ClientStarts \/ Login \/ AutoLogin \/ Register \/ LoginCancelled
           \/ \E page \in {"login", "register"} : UserTypes(page)
  BY <1>6, LoginWindowTells
<1>7. CASE ClientHears
  BY <1>7, LoginHeardTells, RegisterHeardTells, UploadHeardTells, UpdateHeardTells DEF ClientHears
<1>8. CASE \/ OnUserCardClicked \/ OnEditProfileClicked \/ OnChangeAvatarClicked
           \/ \E t \in Texts : UserEdits(t)
           \/ OnSaveClicked \/ DialogClosed \/ ClientEnds
  BY <1>8, MainWindowTells
<1>9. QED
  BY <1>1, <1>2, <1>3, <1>4, <1>5, <1>6, <1>7, <1>8 DEF Next

-----------------------------------------------------------------------------
(* The pictures of the views                                                 *)

LEMMA PictureStays ==
  ASSUME PictureInv, UNCHANGED <<view, loads, shown, overtaken, unsaved>>,
         screen' = "main" => screen = "main" /\ session'.avatar = session.avatar,
         screen = "main" => screen' = "main",
         dialog'.picked => dialog.picked
  PROVE  PictureInv'
BY DEF PictureInv, LateFirst, ShowsOwn, ShowsPicked, Newest

LEMMA ServerShows == PictureInv /\ (ServerHandles \/ ServerGoesOn) => PictureInv'
<1> SUFFICES ASSUME PictureInv, ServerHandles \/ ServerGoesOn PROVE PictureInv'
  OBVIOUS
<1>1. ServerOnly
  BY DEF ServerHandles, ServerGoesOn, HandleLogin, HandleUpdate, RegisterBegins, UploadStores,
         RegisterInserts, RegisterCommits, UploadNames
<1>2. UNCHANGED <<view, loads, shown, overtaken, unsaved, screen, session, dialog>>
  BY <1>1 DEF ServerOnly, pictureVars
<1>3. QED
  BY <1>2, PictureStays

LEMMA OthersShow ==
  PictureInv
    /\ (\/ ServerCrashes \/ ServerStarts \/ ConnectionFails
        \/ \E n \in Names, p \in Passwords : OtherRegisters(n, p)
        \/ \E n \in Names, t \in Texts : OtherUpdates(n, t)
        \/ \E n \in Names : OtherUploads(n)
        \/ UNCHANGED vars)
    => PictureInv'
<1> SUFFICES ASSUME PictureInv,
                    \/ ServerCrashes \/ ServerStarts \/ ConnectionFails
                    \/ \E n \in Names, p \in Passwords : OtherRegisters(n, p)
                    \/ \E n \in Names, t \in Texts : OtherUpdates(n, t)
                    \/ \E n \in Names : OtherUploads(n)
                    \/ UNCHANGED vars
             PROVE  PictureInv'
  OBVIOUS
<1>1. UNCHANGED <<view, loads, shown, overtaken, unsaved, screen, session, dialog>>
  BY DEF ServerCrashes, ServerStarts, ConnectionFails, OtherRegisters, OtherUpdates, OtherUploads,
         OtherClient, pictureVars, vars
<1>2. QED
  BY <1>1, PictureStays

LEMMA LoginWindowShows ==
  AccountsInv /\ PictureInv
    /\ (\/ ClientStarts \/ Login \/ AutoLogin \/ Register \/ LoginCancelled \/ OnRegisterFinished
        \/ \E page \in {"login", "register"} : UserTypes(page))
    => PictureInv'
<1> SUFFICES ASSUME AccountsInv, PictureInv,
                    \/ ClientStarts \/ Login \/ AutoLogin \/ Register \/ LoginCancelled
                    \/ OnRegisterFinished
                    \/ \E page \in {"login", "register"} : UserTypes(page)
             PROVE  PictureInv'
  OBVIOUS
<1>1. /\ UNCHANGED <<view, loads, shown, overtaken, unsaved, session, dialog>>
      /\ screen # "main" /\ screen' # "main"
  BY DEF ClientStarts, Login, AutoLogin, Register, LoginCancelled, OnRegisterFinished, UserTypes,
         InLogin, pictureVars
<1>2. QED
  BY <1>1, PictureStays

(* The card is loaded as soon as there is a session.                         *)
LEMMA LoginHeardShows == AccountsInv /\ PictureInv /\ OnLoginFinished => PictureInv'
<1> SUFFICES ASSUME AccountsInv, PictureInv, OnLoginFinished PROVE PictureInv'
  OBVIOUS
<1> DEFINE r == requests["own"]
<1>1. /\ screen = "login" /\ Finished("login") /\ UNCHANGED <<dialog, view, shown, overtaken, unsaved>>
      /\ \/ r.answer = Ok /\ SetUser(r) /\ OpenMainWindow(r.avatar)
         \/ UNCHANGED <<session, screen, loads>>
  BY DEF OnLoginFinished, InLogin, Succeeded
<1>2. CASE UNCHANGED <<session, screen, loads>>
  BY <1>1, <1>2, PictureStays
<1>3. CASE r.answer = Ok /\ SetUser(r) /\ OpenMainWindow(r.avatar)
  <2>1. /\ screen' = "main" /\ session'.avatar = r.avatar
        /\ loads' = IF view = "card" THEN <<Load(r.avatar)>> ELSE <<>>
    BY <1>3 DEF OpenMainWindow, SetUser
  <2>2. ~dialog.picked /\ shown = Nothing
    BY <1>1 DEF AccountsInv, WindowOK, PictureInv
  <2>3. Load(r.avatar).url = r.avatar /\ ~Load(r.avatar).late
    BY DEF Load
  <2>4. LateFirst'
    BY <2>1, <2>3 DEF LateFirst
  <2>5. ShowsOwn'
    <3>1. CASE view = "card"
      <4>1. loads' = <<Load(r.avatar)>>
        BY <2>1, <3>1
      <4>2. loads' # <<>> /\ loads'[Len(loads')] = Load(r.avatar)
        BY <4>1
      <4>3. QED
        BY <2>1, <2>3, <4>2 DEF ShowsOwn, Newest
    <3>2. CASE view # "card"
      BY <1>1, <2>1, <2>2, <3>2 DEF ShowsOwn
    <3>3. QED
      BY <3>1, <3>2
  <2>6. QED
    BY <1>1, <2>1, <2>2, <2>4, <2>5 DEF PictureInv
<1>4. QED
  BY <1>1, <1>2, <1>3

(* A load begun is the newest, and of the session's avatar.                  *)
LEMMA BegunLoad ==
  ASSUME AccountsInv, PictureInv, session # None, NEW views, LoadInto(views), view \in views
  PROVE  LateFirst' /\ loads' # <<>> /\ ~Newest'.late /\ Newest'.url = session.avatar
<1> DEFINE load == Load(session.avatar)
<1>1. session.avatar \in Nat /\ loads \in Seq(LoadSet)
  BY DEF AccountsInv, TypeOK, ClientOK, Session
<1>2. load \in LoadSet /\ load.url = session.avatar /\ ~load.late
  BY <1>1, LoadIsALoad
<1>3. loads' = Append(loads, load)
  BY DEF LoadInto
<1> HIDE DEF load
<1>4. /\ Len(loads') = Len(loads) + 1 /\ loads'[Len(loads) + 1] = load
      /\ \A j \in 1 .. Len(loads) : loads'[j] = loads[j]
      /\ Len(loads) \in Nat
  BY <1>1, <1>2, <1>3
<1>5. loads' # <<>> /\ Newest' = load
  BY <1>4 DEF Newest
<1>6. LateFirst'
  <2> SUFFICES ASSUME NEW i \in 1 .. Len(loads'), NEW j \in 1 .. Len(loads'), i < j, loads'[j].late
               PROVE  loads'[i].late
    BY DEF LateFirst
  <2>1. j # Len(loads) + 1
    BY <1>2, <1>4
  <2>2. i \in 1 .. Len(loads) /\ j \in 1 .. Len(loads)
    BY <1>4, <2>1
  <2>3. QED
    BY <1>4, <2>2 DEF PictureInv, LateFirst
<1>7. QED
  BY <1>2, <1>5, <1>6

(* A picture that is shown: the newest is of the session's avatar, any other *)
(* one has been overtaken when the newest has.                               *)
LEMMA ArrivedShows ==
  ASSUME AccountsInv, PictureInv, NEW i \in 1 .. Len(loads),
         NEW picture \in {loads[i].url, Nothing}, Show(i, picture),
         UNCHANGED <<screen, session, dialog, view, unsaved>>
  PROVE  PictureInv'
<1>1. loads \in Seq(LoadSet) /\ loads[i] \in LoadSet /\ Len(loads) \in Nat
  BY DEF AccountsInv, TypeOK, ClientOK
<1>2. /\ loads' \in Seq(LoadSet) /\ Len(loads') = Len(loads) - 1
      /\ \A j \in 1 .. Len(loads') : j < i => loads'[j].late
      /\ \A j \in 1 .. Len(loads') : j >= i => loads'[j] = loads[j + 1]
      /\ shown' = picture /\ overtaken' = loads[i].late
  BY <1>1, ShowsLoads
<1>3. LateFirst
  BY DEF PictureInv
<1>4. screen = "main"
  BY <1>1 DEF PictureInv
<1>5. LateFirst'
  <2> SUFFICES ASSUME NEW a \in 1 .. Len(loads'), NEW b \in 1 .. Len(loads'), a < b, loads'[b].late
               PROVE  loads'[a].late
    BY DEF LateFirst
  <2>1. CASE a < i
    BY <1>2, <2>1
  <2>2. CASE a >= i
    <3>1. loads'[a] = loads[a + 1] /\ loads'[b] = loads[b + 1]
      BY <1>2, <2>2
    <3>2. a + 1 \in 1 .. Len(loads) /\ b + 1 \in 1 .. Len(loads) /\ a + 1 < b + 1
      BY <1>1, <1>2
    <3>3. QED
      BY <1>3, <3>1, <3>2 DEF LateFirst
  <2>3. QED
    BY <2>1, <2>2
<1>6. view # "preview" /\ ~unsaved => ShowsOwn'
  <2> SUFFICES ASSUME view # "preview", ~unsaved PROVE ShowsOwn'
    OBVIOUS
  <2>1. ShowsOwn
    BY <1>4 DEF PictureInv
  <2>2. CASE i = Len(loads)
    <3>1. loads' = <<>> \/ Newest'.late
      <4>1. CASE Len(loads) = 1
        BY <1>2, <4>1
      <4>2. CASE Len(loads) # 1
        BY <1>1, <1>2, <2>2, <4>2 DEF Newest
      <4>3. QED
        BY <4>1, <4>2
    <3>2. ~loads[i].late => loads[i].url \in {session.avatar, Default}
      BY <1>1, <2>1, <2>2 DEF ShowsOwn, Newest
    <3>3. QED
      BY <1>2, <3>1, <3>2 DEF ShowsOwn
  <2>3. CASE i # Len(loads)
    <3>1. i < Len(loads) /\ Len(loads') \in 1 .. Len(loads') /\ Len(loads') >= i
      BY <1>1, <1>2, <2>3
    <3>2. loads' # <<>> /\ Newest' = Newest
      BY <1>1, <1>2, <3>1 DEF Newest
    <3>3. Newest.late => loads[i].late
      BY <1>1, <1>3, <3>1 DEF LateFirst, Newest
    <3>4. loads # <<>>
      BY <1>1
    <3>5. QED
      BY <1>2, <2>1, <3>2, <3>3, <3>4 DEF ShowsOwn
  <2>4. QED
    BY <2>2, <2>3
<1>7. ShowsPicked => ShowsPicked'
  <2> SUFFICES ASSUME ShowsPicked PROVE ShowsPicked'
    OBVIOUS
  <2>1. \A j \in 1 .. Len(loads) : loads[j].late
    BY DEF ShowsPicked
  <2>2. overtaken'
    BY <1>2, <2>1
  <2>3. ASSUME NEW j \in 1 .. Len(loads') PROVE loads'[j].late
    <3>1. CASE j < i
      BY <1>2, <3>1
    <3>2. CASE j >= i
      BY <1>1, <1>2, <2>1, <3>2
    <3>3. QED
      BY <3>1, <3>2
  <2>4. QED
    BY <2>2, <2>3 DEF ShowsPicked
<1>8. QED
  BY <1>4, <1>5, <1>6, <1>7 DEF PictureInv

(* A picture whose place the default one is to take stays where it was.      *)
LEMMA RetriedShows ==
  ASSUME AccountsInv, PictureInv, NEW i \in 1 .. Len(loads),
         loads' = [loads EXCEPT ![i].url = Default, ![i].retried = TRUE],
         UNCHANGED <<shown, overtaken, screen, session, dialog, view, unsaved>>
  PROVE  PictureInv'
<1> DEFINE again == [loads[i] EXCEPT !.url = Default, !.retried = TRUE]
<1>1. loads \in Seq(LoadSet) /\ loads[i] \in LoadSet /\ Len(loads) \in Nat
  BY DEF AccountsInv, TypeOK, ClientOK
<1>2. again \in LoadSet /\ again.url = Default /\ again.late = loads[i].late
  BY <1>1 DEF LoadSet, Default
<1>3. loads' = [loads EXCEPT ![i] = again]
  BY <1>1 DEF LoadSet
<1> HIDE DEF again
<1>4. Len(loads') = Len(loads) /\ \A j \in 1 .. Len(loads) : loads'[j] = IF j = i THEN again ELSE loads[j]
  <2>1. /\ Len([loads EXCEPT ![i] = again]) = Len(loads)
        /\ \A j \in 1 .. Len(loads) :
             [loads EXCEPT ![i] = again][j] = IF j = i THEN again ELSE loads[j]
    BY <1>1, <1>2
  <2>2. QED
    BY <1>3, <2>1
<1>5. \A j \in 1 .. Len(loads) : loads'[j].late = loads[j].late
  BY <1>2, <1>4
<1>6. LateFirst'
  BY <1>4, <1>5 DEF PictureInv, LateFirst
<1>7. /\ loads # <<>> /\ loads' # <<>> /\ Newest'.late = Newest.late
      /\ Newest'.url \in {Newest.url, Default}
  <2>1. Len(loads) \in 1 .. Len(loads)
    BY <1>1
  <2>2. QED
    BY <1>1, <1>2, <1>4, <1>5, <2>1 DEF Newest
<1>8. ShowsOwn => ShowsOwn'
  BY <1>7 DEF ShowsOwn
<1>9. ShowsPicked => ShowsPicked'
  BY <1>4, <1>5 DEF ShowsPicked
<1>10. screen = "main"
  BY <1>7 DEF PictureInv
<1>11. QED
  BY <1>6, <1>8, <1>9, <1>10 DEF PictureInv

LEMMA LoadShows == AccountsInv /\ PictureInv /\ LoadEnds => PictureInv'
<1> SUFFICES ASSUME AccountsInv, PictureInv, NEW i \in DOMAIN loads, LoadAnswered(i)
             PROVE  PictureInv'
  BY DEF LoadEnds
<1>1. i \in 1 .. Len(loads)
  BY DEF AccountsInv, TypeOK, ClientOK
<1>2. UNCHANGED <<screen, session, dialog, view, unsaved>>
  BY DEF LoadAnswered
<1>3. \/ Show(i, loads[i].url) \/ Show(i, Nothing)
      \/ /\ loads' = [loads EXCEPT ![i].url = Default, ![i].retried = TRUE]
         /\ UNCHANGED <<shown, overtaken>>
  BY DEF LoadAnswered
<1>4. QED
  BY <1>1, <1>2, <1>3, ArrivedShows, RetriedShows

LEMMA UploadHeardShows == AccountsInv /\ PictureInv /\ OnAvatarUploadFinished => PictureInv'
<1> SUFFICES ASSUME AccountsInv, PictureInv, OnAvatarUploadFinished PROVE PictureInv'
  OBVIOUS
<1>1. /\ screen = "main" /\ UNCHANGED <<screen, view, loads, shown, overtaken>>
      /\ \/ dialog' = [dialog EXCEPT !.picked = FALSE] /\ unsaved' = TRUE
         \/ UNCHANGED <<session, dialog, unsaved>>
  BY DEF OnAvatarUploadFinished, InMain
<1>2. CASE UNCHANGED <<session, dialog, unsaved>>
  BY <1>1, <1>2, PictureStays
<1>3. CASE dialog' = [dialog EXCEPT !.picked = FALSE] /\ unsaved' = TRUE
  <2>1. ~dialog'.picked
    BY <1>1, <1>3, MainWindow
  <2>2. QED
    BY <1>1, <1>3, <2>1 DEF PictureInv, LateFirst
<1>4. QED
  BY <1>1, <1>2, <1>3

LEMMA UpdateHeardShows == AccountsInv /\ PictureInv /\ OnProfileUpdateFinished => PictureInv'
<1> SUFFICES ASSUME AccountsInv, PictureInv, OnProfileUpdateFinished PROVE PictureInv'
  OBVIOUS
<1> DEFINE r == requests["own"]
<1>1. /\ screen = "main" /\ UNCHANGED screen
      /\ \/ /\ UpdateProfile(r.text) /\ dialog' = Closed
            /\ IF view = "preview" THEN NoPictures /\ unsaved' = FALSE ELSE ProfileSaved
         \/ UNCHANGED <<session, dialog, view, loads, shown, overtaken, unsaved>>
  BY DEF OnProfileUpdateFinished, InMain, pictureVars
<1>2. CASE UNCHANGED <<session, dialog, view, loads, shown, overtaken, unsaved>>
  BY <1>1, <1>2, PictureStays
<1>3. CASE /\ UpdateProfile(r.text) /\ dialog' = Closed
           /\ IF view = "preview" THEN NoPictures /\ unsaved' = FALSE ELSE ProfileSaved
  <2>1. ~dialog'.picked
    BY <1>3 DEF Closed
  <2>2. CASE view = "preview"
    BY <1>1, <1>3, <2>1, <2>2 DEF NoPictures, PictureInv, LateFirst
  <2>3. CASE view # "preview"
    <3>1. session # None /\ session \in Session /\ view \in {"card", "page"}
      BY <1>1, <2>3, MainWindow DEF AccountsInv, TypeOK, ClientOK, Views
    <3>2. session'.avatar = session.avatar
      BY <1>3, <3>1 DEF UpdateProfile, Session
    <3>3. LoadInto({"card", "page"}) /\ UNCHANGED view
      BY <1>3, <2>3 DEF ProfileSaved, LoadInto
    <3>4. LateFirst' /\ loads' # <<>> /\ ~Newest'.late /\ Newest'.url = session.avatar
      BY <3>1, <3>3, BegunLoad
    <3>5. ShowsOwn'
      BY <3>2, <3>4 DEF ShowsOwn
    <3>6. QED
      BY <1>1, <2>1, <3>4, <3>5 DEF PictureInv
  <2>4. QED
    BY <2>2, <2>3
<1>4. QED
  BY <1>1, <1>2, <1>3

LEMMA MainWindowShows ==
  AccountsInv /\ PictureInv
    /\ (\/ OnUserCardClicked \/ OnEditProfileClicked \/ OnChangeAvatarClicked
        \/ \E t \in Texts : UserEdits(t)
        \/ OnSaveClicked \/ DialogClosed \/ ClientEnds)
    => PictureInv'
<1> SUFFICES ASSUME AccountsInv, PictureInv,
                    \/ OnUserCardClicked \/ OnEditProfileClicked \/ OnChangeAvatarClicked
                    \/ \E t \in Texts : UserEdits(t)
                    \/ OnSaveClicked \/ DialogClosed \/ ClientEnds
             PROVE  PictureInv'
  OBVIOUS
<1>1. screen = "main"
  BY DEF OnUserCardClicked, OnEditProfileClicked, OnChangeAvatarClicked, UserEdits, Editing,
         OnSaveClicked, DialogClosed, ClientEnds, InMain
<1>2. /\ session # None /\ dialog \in [open : BOOLEAN, text : Texts, picked : BOOLEAN]
      /\ loads \in Seq(LoadSet) /\ (dialog.picked => dialog.open)
  BY <1>1, MainWindow DEF AccountsInv, WindowOK
<1>3. CASE OnUserCardClicked
  <2>1. /\ ~dialog.open /\ LoadInto({"page"}) /\ unsaved' = (unsaved /\ view # "page")
        /\ UNCHANGED <<screen, session, dialog, shown, overtaken>>
    BY <1>3 DEF OnUserCardClicked
  <2>2. CASE view = "page"
    <3>1. LateFirst' /\ loads' # <<>> /\ ~Newest'.late /\ Newest'.url = session.avatar
      BY <1>2, <2>1, <2>2, BegunLoad
    <3>2. ShowsOwn'
      BY <2>1, <3>1 DEF ShowsOwn
    <3>3. QED
      BY <1>1, <1>2, <2>1, <3>1, <3>2 DEF PictureInv
  <2>3. CASE view # "page"
    <3>1. UNCHANGED <<view, loads>> /\ (unsaved' <=> unsaved)
      BY <2>1, <2>3 DEF LoadInto
    <3>2. unsaved' = unsaved
      BY <1>1, <2>1, <2>3, MainWindow
    <3>3. QED
      BY <2>1, <3>1, <3>2, PictureStays
  <2>4. QED
    BY <2>2, <2>3
<1>4. CASE OnEditProfileClicked
  <2>1. /\ LoadInto({"preview"}) /\ dialog' = [open |-> TRUE, text |-> session.text, picked |-> FALSE]
        /\ UNCHANGED <<screen, session, shown, overtaken, unsaved>>
    BY <1>4 DEF OnEditProfileClicked
  <2>2. UNCHANGED view /\ ~dialog'.picked
    BY <2>1 DEF LoadInto
  <2>3. CASE view = "preview"
    <3>1. LateFirst'
      BY <1>2, <2>1, <2>3, BegunLoad
    <3>2. QED
      BY <1>1, <2>1, <2>2, <2>3, <3>1 DEF PictureInv
  <2>4. CASE view # "preview"
    <3>1. UNCHANGED loads
      BY <2>1, <2>4 DEF LoadInto
    <3>2. QED
      BY <2>1, <2>2, <3>1, PictureStays
  <2>5. QED
    BY <2>3, <2>4
<1>5. CASE OnChangeAvatarClicked
  <2>1. /\ UNCHANGED <<screen, session, view, unsaved>>
        /\ IF view = "preview"
             THEN shown' = Picked /\ loads' = AllLate(loads) /\ overtaken' = FALSE
             ELSE UNCHANGED <<shown, loads, overtaken>>
    BY <1>5 DEF OnChangeAvatarClicked
  <2>2. CASE view = "preview"
    <3>1. Len(loads') = Len(loads) /\ \A i \in 1 .. Len(loads) : loads'[i].late
      BY <1>2, <2>1, <2>2, AllAreLate
    <3>2. LateFirst' /\ ShowsPicked'
      BY <2>1, <2>2, <3>1 DEF LateFirst, ShowsPicked
    <3>3. QED
      BY <1>1, <2>1, <2>2, <3>2 DEF PictureInv
  <2>3. CASE view # "preview"
    BY <1>1, <2>1, <2>3 DEF PictureInv, LateFirst, ShowsOwn, Newest
  <2>4. QED
    BY <2>2, <2>3
<1>6. CASE \/ \E t \in Texts : UserEdits(t)
           \/ OnSaveClicked
  <2>1. /\ UNCHANGED <<screen, session, view, loads, shown, overtaken, unsaved>>
        /\ UNCHANGED dialog \/ \E t \in Texts : dialog' = [dialog EXCEPT !.text = t]
    BY <1>6 DEF UserEdits, OnSaveClicked, pictureVars
  <2>2. dialog'.picked = dialog.picked
    BY <1>2, <2>1
  <2>3. QED
    BY <2>1, <2>2, PictureStays
<1>7. CASE DialogClosed
  <2>1. /\ dialog' = Closed /\ UNCHANGED <<screen, session, unsaved>>
        /\ IF view = "preview" THEN NoPictures ELSE UNCHANGED <<view, loads, shown, overtaken>>
    BY <1>7 DEF DialogClosed
  <2>2. ~dialog'.picked
    BY <2>1 DEF Closed
  <2>3. CASE view = "preview"
    BY <1>1, <2>1, <2>2, <2>3 DEF NoPictures, PictureInv, LateFirst
  <2>4. CASE view # "preview"
    BY <2>1, <2>2, <2>4, PictureStays
  <2>5. QED
    BY <2>3, <2>4
<1>8. CASE ClientEnds
  <2>1. ~dialog.open /\ NoPictures /\ unsaved' = FALSE /\ screen' = "off" /\ UNCHANGED dialog
    BY <1>8 DEF ClientEnds
  <2>2. QED
    BY <1>2, <2>1 DEF NoPictures, PictureInv, LateFirst
<1>9. QED
  BY <1>3, <1>4, <1>5, <1>6, <1>7, <1>8

LEMMA NextShows == AccountsInv /\ PictureInv /\ [Next]_vars => PictureInv'
<1> SUFFICES ASSUME AccountsInv, PictureInv, [Next]_vars PROVE PictureInv'
  OBVIOUS
<1>1. CASE ServerHandles \/ ServerGoesOn
  BY <1>1, ServerShows
<1>2. CASE \/ ServerCrashes \/ ServerStarts \/ ConnectionFails
           \/ \E n \in Names, p \in Passwords : OtherRegisters(n, p)
           \/ \E n \in Names, t \in Texts : OtherUpdates(n, t)
           \/ \E n \in Names : OtherUploads(n)
           \/ UNCHANGED vars
  BY <1>2, OthersShow
<1>3. CASE LoadEnds
  BY <1>3, LoadShows
<1>4. CASE \/ ClientStarts \/ Login \/ AutoLogin \/ Register \/ LoginCancelled
           \/ \E page \in {"login", "register"} : UserTypes(page)
  BY <1>4, LoginWindowShows
<1>5. CASE ClientHears
  BY <1>5, LoginHeardShows, LoginWindowShows, UploadHeardShows, UpdateHeardShows DEF ClientHears
<1>6. CASE \/ OnUserCardClicked \/ OnEditProfileClicked \/ OnChangeAvatarClicked
           \/ \E t \in Texts : UserEdits(t)
           \/ OnSaveClicked \/ DialogClosed \/ ClientEnds
  BY <1>6, MainWindowShows
<1>7. QED
  BY <1>1, <1>2, <1>3, <1>4, <1>5, <1>6 DEF Next

(* What the client takes for its own profile is the profile, but for what    *)
(* others have changed or an answer got lost of, and its pictures are of it. *)
THEOREM OwnProfile == Spec => []OwnProfileIsShown
<1>1. Init => ProfileInv /\ PictureInv
  <2> SUFFICES ASSUME Init PROVE ProfileInv /\ PictureInv
    OBVIOUS
  <2>1. /\ screen = "off" /\ requests = [s \in Slots |-> None] /\ dialog = Closed
        /\ loads = <<>> /\ shown = Nothing /\ overtaken = FALSE /\ unsaved = FALSE
    BY DEF Init
  <2>2. requests["own"] = None /\ ~dialog.picked
    BY <2>1 DEF Slots, Closed
  <2>3. ProfileInv
    BY <2>1, <2>2 DEF ProfileInv, Answered
  <2>4. PictureInv
    BY <2>1, <2>2 DEF PictureInv, LateFirst
  <2>5. QED
    BY <2>3, <2>4
<1>2. AccountsInv /\ ProfileInv /\ PictureInv => OwnProfileIsShown
  <2> SUFFICES ASSUME AccountsInv, ProfileInv, PictureInv PROVE OwnProfileIsShown
    OBVIOUS
  <2>1. screen = "main" /\ requests["own"] = None =>
          \A part \in {"text", "avatar"} \ behind : session[part] = profiles[session.name][part]
    BY DEF ProfileInv, Answered, TextIs, AvatarIs
  <2>2. screen = "main" /\ view # "preview" /\ loads = <<>> /\ ~overtaken /\ ~unsaved
          => shown \in {session.avatar, Default, Nothing}
    BY DEF PictureInv, ShowsOwn
  <2>3. dialog.picked /\ view = "preview" /\ ~overtaken => shown = Picked
    BY DEF PictureInv, ShowsPicked
  <2>4. QED
    BY <2>1, <2>2, <2>3 DEF OwnProfileIsShown
<1>3. QED
  BY <1>1, <1>2, InitIsInv, NextKeeps, ProfileTells, NextShows, PTL DEF Spec

=============================================================================
