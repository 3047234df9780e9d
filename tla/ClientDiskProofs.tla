-------------------------- MODULE ClientDiskProofs --------------------------
(***************************************************************************)
(* Proofs about what the client keeps on disk.                             *)
(*                                                                         *)
(* LocalStore, for any number of accounts, starts, meetings and records    *)
(* kept: the account, the history and its import survive every crash.  The *)
(* invariant has three parts: what becomes of an old account until it is   *)
(* dropped (AccountInv); which records are where at each stage of the      *)
(* import (WholeInv), and what keeps one from being imported twice         *)
(* (OnceInv); and why the latest open record is the present meeting's      *)
(* (OwnRecordIsFirst).                                                     *)
(*                                                                         *)
(* Recorder, and Recordings, which composes it with the files and the      *)
(* table, for any number of takes, restarts and changes of the folder.     *)
(* FilingInv is what the recorder itself keeps.  LibraryInv follows a take *)
(* from its path to its file, its sidecar and its row.                     *)
(***************************************************************************)
EXTENDS LocalStore, Recordings, FiniteSetTheorems, SequenceTheorems, TLAPS

(***************************************************************************)
(* The meeting history and the stored account                              *)
(***************************************************************************)
-----------------------------------------------------------------------------
(* The invariant *)

Rows == [meeting : Nat \ {0}, open : BOOLEAN, length : Nat]
Stored == Accounts \cup {NoAccount}

RecordTypes ==
  /\ table \in Seq(Rows) /\ json \in Seq(Rows) /\ toImport \in Seq(Rows) /\ view \in Seq(Rows)
  /\ marked \in BOOLEAN /\ backup \in BOOLEAN /\ open \in BOOLEAN /\ astray \in BOOLEAN
  /\ imported \in BOOLEAN /\ cut \in BOOLEAN /\ botched \in BOOLEAN
  /\ stage \in Stages
  /\ meeting \in Nat /\ meetings \in Nat /\ runs \in Nat

AccountTypes ==
  /\ creds \in Stored /\ oldCreds \in Stored /\ registry \in Stored /\ remembered \in Stored
  /\ loggedOut \in {"no", "database", "registry"}

StoreTypeOK == RecordTypes /\ AccountTypes

(* Only a start that has opened the database moves, drops, renames, marks.   *)
StagesOfDatabase == stage \in {"move", "drop", "rename", "mark"} => open

(* Until it is dropped, the old account is the one to remember.              *)
AccountInv ==
  ~botched =>
    /\ creds = remembered \/ (creds = NoAccount /\ oldCreds = remembered)
    /\ oldCreds # NoAccount => remembered = oldCreds
    /\ stage = "drop" => creds = remembered
    /\ open /\ stage \notin {"off", "move", "drop"} => oldCreds = NoAccount /\ creds = remembered
    /\ loggedOut = "database" => creds = NoAccount /\ oldCreds = NoAccount
    /\ loggedOut = "registry" => registry = NoAccount

OnceEach(s) == \A i, j \in DOMAIN s : s[i].meeting = s[j].meeting => i = j
Distinct(s, t) == MeetingsIn(s) \cap MeetingsIn(t) = {}

Importing == stage = "import" /\ open /\ ~marked

(* The meeting under way is the latest, and its record, if it is still       *)
(* there, is the first one and open.                                         *)
OwnRecordIsFirst ==
  meeting # 0 =>
    /\ stage = "running" /\ meeting = meetings
    /\ \A i \in DOMAIN Store : Store[i].meeting = meeting => i = 1 /\ Store[i].open

NumbersInv ==
  /\ \A m \in MeetingsIn(table) \cup MeetingsIn(json) \cup MeetingsIn(toImport) : m <= meetings
  /\ toImport # <<>> \/ (stage = "import" /\ imported) => Importing
  /\ stage = "running" /\ ~astray => view = Store

WholeInv ==
  ~botched =>
    /\ 1..meetings \subseteq MeetingsIn(table) \cup MeetingsIn(json) \cup gone
    /\ Importing => MeetingsIn(json) \subseteq MeetingsIn(table) \cup MeetingsIn(toImport)
    /\ stage = "rename" => MeetingsIn(json) \subseteq MeetingsIn(table)
    /\ stage = "running" /\ open => marked

OnceInv ==
  ~botched /\ ~cut =>
    /\ OnceEach(table) /\ OnceEach(json) /\ OnceEach(toImport)
    /\ Distinct(toImport, table)
    /\ ~marked /\ (stage \notin {"import", "rename", "mark"} \/ ~imported) => Distinct(json, table)
    /\ Importing /\ ~imported => toImport = json

StoreInv ==
  /\ StoreTypeOK /\ StagesOfDatabase /\ AccountInv
  /\ OwnRecordIsFirst /\ NumbersInv /\ WholeInv /\ OnceInv

-----------------------------------------------------------------------------
(* The operations on the records *)

LEMMA RowsOf ==
  ASSUME NEW s \in Seq(Rows)
  PROVE  /\ DOMAIN s = 1..Len(s) /\ Len(s) \in Nat
         /\ \A i \in DOMAIN s : s[i] \in Rows /\ s[i].meeting \in Nat \ {0}
         /\ MeetingsIn(s) \subseteq Nat \ {0}
<1>1. DOMAIN s = 1..Len(s) /\ Len(s) \in Nat /\ \A i \in DOMAIN s : s[i] \in Rows
  OBVIOUS
<1>2. QED
  BY <1>1 DEF Rows, MeetingsIn

LEMMA NoRows ==
  /\ <<>> \in Seq(Rows) /\ DOMAIN <<>> = {} /\ Len(<<>>) = 0
  /\ MeetingsIn(<<>>) = {} /\ OnceEach(<<>>)
BY DEF MeetingsIn, OnceEach

LEMMA SameRowsOnce ==
  ASSUME NEW s \in Seq(Rows), OnceEach(s)
  PROVE  Cardinality(MeetingsIn(s)) = Len(s)
<1> DEFINE f == [i \in 1..Len(s) |-> s[i].meeting]
<1>1. DOMAIN s = 1..Len(s) /\ Len(s) \in Nat
  BY RowsOf
<1>2. f \in Bijection(1..Len(s), MeetingsIn(s))
  <2>1. f \in [1..Len(s) -> MeetingsIn(s)]
    BY <1>1 DEF MeetingsIn
  <2>2. \A i, j \in 1..Len(s) : f[i] = f[j] => i = j
    BY <1>1 DEF OnceEach
  <2>3. \A m \in MeetingsIn(s) : \E i \in 1..Len(s) : f[i] = m
    BY <1>1 DEF MeetingsIn
  <2> HIDE DEF f
  <2>4. QED
    BY <2>1, <2>2, <2>3 DEF Bijection, Injection, Surjection, IsInjective
<1>3. Cardinality(MeetingsIn(s)) = Cardinality(1..Len(s))
  <2>1. IsFiniteSet(1..Len(s))
    BY <1>1, FS_Interval
  <2> HIDE DEF f
  <2>2. QED
    BY <1>2, <2>1, FS_Bijection DEF ExistsBijection
<1>4. QED
  BY <1>1, <1>3, FS_Interval

(* t keeps records of s, each at most once, as they are.                     *)
LEMMA SplitSeq ==
  ASSUME NEW S, NEW s \in Seq(S), NEW n \in Nat, n = Len(s), NEW k \in 0..n
  PROVE  /\ SubSeq(s, 1, k) \in Seq(S) /\ Len(SubSeq(s, 1, k)) = k
         /\ \A i \in 1..k : SubSeq(s, 1, k)[i] = s[i]
         /\ SubSeq(s, k + 1, n) \in Seq(S) /\ Len(SubSeq(s, k + 1, n)) = n - k
         /\ \A i \in 1..(n - k) : SubSeq(s, k + 1, n)[i] = s[k + i]
<1>1. \A i \in 1..n : s[i] \in S
  BY ElementOfSeq
<1>2. /\ SubSeq(s, 1, k) \in Seq(S) /\ Len(SubSeq(s, 1, k)) = k
      /\ \A i \in 1..k : SubSeq(s, 1, k)[i] = s[i]
  <2>1. \A i \in 1..k : s[i] \in S
    BY <1>1
  <2> DEFINE t == SubSeq(s, 1, k)
  <2>2. /\ t \in Seq(S) /\ Len(t) = IF 1 <= k THEN k - 1 + 1 ELSE 0
        /\ \A i \in 1..(k - 1 + 1) : t[i] = s[1 + i - 1]
    BY <2>1, SubSeqProperties
  <2> HIDE DEF t
  <2>3. /\ (IF 1 <= k THEN k - 1 + 1 ELSE 0) = k /\ k - 1 + 1 = k
        /\ \A i \in 1..k : 1 + i - 1 = i
    OBVIOUS
  <2>4. t \in Seq(S) /\ Len(t) = k /\ \A i \in 1..k : t[i] = s[i]
    BY <2>2, <2>3
  <2>5. QED
    BY <2>4 DEF t
<1>3. /\ SubSeq(s, k + 1, n) \in Seq(S) /\ Len(SubSeq(s, k + 1, n)) = n - k
      /\ \A i \in 1..(n - k) : SubSeq(s, k + 1, n)[i] = s[k + i]
  <2>1. \A i \in (k + 1)..n : s[i] \in S
    BY <1>1
  <2> DEFINE t == SubSeq(s, k + 1, n)
  <2>2. /\ t \in Seq(S) /\ Len(t) = IF k + 1 <= n THEN n - (k + 1) + 1 ELSE 0
        /\ \A i \in 1..(n - (k + 1) + 1) : t[i] = s[(k + 1) + i - 1]
    BY <2>1, SubSeqProperties
  <2> HIDE DEF t
  <2>3. /\ (IF k + 1 <= n THEN n - (k + 1) + 1 ELSE 0) = n - k /\ n - (k + 1) + 1 = n - k
        /\ \A i \in 1..(n - k) : (k + 1) + i - 1 = k + i
    OBVIOUS
  <2>4. t \in Seq(S) /\ Len(t) = n - k /\ \A i \in 1..(n - k) : t[i] = s[k + i]
    BY <2>2, <2>3
  <2>5. QED
    BY <2>4 DEF t
<1>4. QED
  BY <1>2, <1>3

(* Putting r behind the first k, and taking out the one behind them.         *)
IsPutIn(t, s, r, n, k) ==
  /\ t \in Seq(Rows) /\ DOMAIN t = 1..(n + 1)
  /\ \A i \in 1..k : t[i] = s[i]
  /\ t[k + 1] = r
  /\ \A i \in (k + 1)..n : t[i + 1] = s[i]

LEMMA PutIn ==
  ASSUME NEW s \in Seq(Rows), NEW r \in Rows, NEW n \in Nat, n = Len(s), NEW k \in 0..n
  PROVE  IsPutIn(SubSeq(s, 1, k) \o <<r>> \o SubSeq(s, k + 1, n), s, r, n, k)
<1> DEFINE a == SubSeq(s, 1, k)
           b == SubSeq(s, k + 1, n)
           c == a \o <<r>>
           t == c \o b
<1>1. /\ a \in Seq(Rows) /\ Len(a) = k /\ \A i \in 1..k : a[i] = s[i]
      /\ b \in Seq(Rows) /\ Len(b) = n - k /\ \A i \in 1..(n - k) : b[i] = s[k + i]
  <2>1. a \in Seq(Rows) /\ Len(a) = k /\ \A i \in 1..k : a[i] = s[i]
    BY SplitSeq
  <2>2. b \in Seq(Rows) /\ Len(b) = n - k
    BY SplitSeq
  <2>3. \A i \in 1..(n - k) : b[i] = s[k + i]
    BY SplitSeq
  <2> HIDE DEF a, b, c, t
  <2>4. QED
    BY <2>1, <2>2, <2>3
<1>2. t = c \o b
  OBVIOUS
<1> HIDE DEF a, b, t
<1>3. <<r>> \in Seq(Rows) /\ Len(<<r>>) = 1 /\ <<r>>[1] = r
  OBVIOUS
<1>4. /\ c \in Seq(Rows) /\ Len(c) = k + 1
      /\ \A i \in 1..(k + 1) : c[i] = IF i <= k THEN a[i] ELSE <<r>>[i - k]
  BY <1>1, <1>3, ConcatProperties
<1>5. /\ \A i \in 1..k : c[i] = s[i]
      /\ c[k + 1] = r
  <2>1. \A i \in 1..k : i \in 1..(k + 1) /\ i <= k
    OBVIOUS
  <2>2. k + 1 \in 1..(k + 1) /\ ~(k + 1 <= k) /\ k + 1 - k = 1
    OBVIOUS
  <2>3. QED
    BY <1>1, <1>3, <1>4, <2>1, <2>2
<1> HIDE DEF c
<1>6. Len(c) + Len(b) = n + 1
  BY <1>1, <1>4
<1>7. /\ t \in Seq(Rows) /\ Len(t) = n + 1
      /\ \A i \in 1..(n + 1) : t[i] = IF i <= k + 1 THEN c[i] ELSE b[i - (k + 1)]
  <2>1. c \in Seq(Rows) /\ b \in Seq(Rows)
    BY <1>1, <1>4
  <2>2. /\ t \in Seq(Rows) /\ Len(t) = Len(c) + Len(b)
        /\ \A i \in 1..(Len(c) + Len(b)) :
              t[i] = IF i <= Len(c) THEN c[i] ELSE b[i - Len(c)]
    BY <1>2, <2>1, ConcatProperties
  <2>3. QED
    BY <1>4, <1>6, <2>2
<1>8. \A i \in (k + 1)..n : t[i + 1] = s[i]
  <2> TAKE i \in (k + 1)..n
  <2>1. /\ i + 1 \in 1..(n + 1) /\ ~(i + 1 <= k + 1) /\ (i + 1) - (k + 1) \in 1..(n - k)
        /\ k + ((i + 1) - (k + 1)) = i
    OBVIOUS
  <2>2. t[i + 1] = b[(i + 1) - (k + 1)]
    BY <1>7, <2>1
  <2>3. b[(i + 1) - (k + 1)] = s[k + ((i + 1) - (k + 1))]
    BY <1>1, <2>1
  <2>4. QED
    BY <2>1, <2>2, <2>3
<1>9. \A i \in 1..(k + 1) : i \in 1..(n + 1) /\ i <= k + 1
  OBVIOUS
<1>10. (\A i \in 1..k : i \in 1..(k + 1)) /\ k + 1 \in 1..(k + 1)
  OBVIOUS
<1>11. IsPutIn(t, s, r, n, k)
  BY <1>5, <1>7, <1>8, <1>9, <1>10, LenProperties DEF IsPutIn
<1>12. t = SubSeq(s, 1, k) \o <<r>> \o SubSeq(s, k + 1, n)
  BY DEF t, c, a, b
<1>13. QED
  BY <1>11, <1>12

IsTakenOut(t, s, n, i) ==
  /\ t \in Seq(Rows) /\ Len(t) = n - 1 /\ DOMAIN t = 1..(n - 1)
  /\ \A j \in 1..(i - 1) : t[j] = s[j]
  /\ \A j \in i..(n - 1) : t[j] = s[j + 1]

LEMMA TakeOut ==
  ASSUME NEW s \in Seq(Rows), NEW n \in Nat, n = Len(s), NEW i \in 1..n
  PROVE  IsTakenOut(SubSeq(s, 1, i - 1) \o SubSeq(s, i + 1, n), s, n, i)
<1> DEFINE a == SubSeq(s, 1, i - 1)
           b == SubSeq(s, i + 1, n)
           t == a \o b
<1>1. i - 1 \in 0..n /\ i \in 0..n
  OBVIOUS
<1>2. /\ a \in Seq(Rows) /\ Len(a) = i - 1 /\ \A j \in 1..(i - 1) : a[j] = s[j]
      /\ b \in Seq(Rows) /\ Len(b) = n - i /\ \A j \in 1..(n - i) : b[j] = s[i + j]
  <2>1. a \in Seq(Rows) /\ Len(a) = i - 1 /\ \A j \in 1..(i - 1) : a[j] = s[j]
    BY <1>1, SplitSeq
  <2>2. b \in Seq(Rows) /\ Len(b) = n - i /\ \A j \in 1..(n - i) : b[j] = s[i + j]
    BY <1>1, SplitSeq
  <2>3. QED
    BY <2>1, <2>2
<1>3. t = a \o b
  OBVIOUS
<1> HIDE DEF a, b, t
<1>4. Len(a) + Len(b) = n - 1
  BY <1>2
<1>5. /\ t \in Seq(Rows) /\ Len(t) = n - 1
      /\ \A j \in 1..(n - 1) : t[j] = IF j <= i - 1 THEN a[j] ELSE b[j - (i - 1)]
  <2>1. a \in Seq(Rows) /\ b \in Seq(Rows)
    BY <1>2
  <2>2. /\ t \in Seq(Rows) /\ Len(t) = Len(a) + Len(b)
        /\ \A j \in 1..(Len(a) + Len(b)) :
              t[j] = IF j <= Len(a) THEN a[j] ELSE b[j - Len(a)]
    BY <1>3, <2>1, ConcatProperties
  <2>3. QED
    BY <1>2, <1>4, <2>2
<1>6. \A j \in i..(n - 1) : t[j] = s[j + 1]
  <2> TAKE j \in i..(n - 1)
  <2>1. /\ j \in 1..(n - 1) /\ ~(j <= i - 1) /\ j - (i - 1) \in 1..(n - i)
        /\ i + (j - (i - 1)) = j + 1
    OBVIOUS
  <2>2. QED
    BY <1>2, <1>5, <2>1
<1>7. \A j \in 1..(i - 1) : j \in 1..(n - 1) /\ j <= i - 1
  OBVIOUS
<1>8. IsTakenOut(t, s, n, i)
  BY <1>2, <1>5, <1>6, <1>7, LenProperties DEF IsTakenOut
<1>9. QED
  BY <1>8 DEF t, a, b

LEMMA InsertRows ==
  ASSUME NEW s \in Seq(Rows), NEW r \in Rows
  PROVE  /\ Insert(s, r) \in Seq(Rows)
         /\ MeetingsIn(Insert(s, r)) = MeetingsIn(s) \cup {r.meeting}
         /\ OnceEach(s) /\ r.meeting \notin MeetingsIn(s) => OnceEach(Insert(s, r))
         /\ (\A m \in MeetingsIn(s) : m < r.meeting)
              => /\ Insert(s, r)[1] = r
                 /\ \A i \in DOMAIN Insert(s, r) :
                      i # 1 => Insert(s, r)[i].meeting \in MeetingsIn(s)
<1> DEFINE N == {i \in DOMAIN s : s[i].meeting >= r.meeting}
<1>1. PICK n \in Nat : n = Len(s) /\ DOMAIN s = 1..n
  BY RowsOf
<1>2. r.meeting \in Nat /\ \A i \in 1..n : s[i].meeting \in Nat
  BY <1>1, RowsOf DEF Rows
<1>3. Cardinality(N) \in 0..n
  <2>1. IsFiniteSet(1..n) /\ Cardinality(1..n) = n
    BY FS_Interval
  <2>2. N \subseteq 1..n
    BY <1>1
  <2>3. IsFiniteSet(N) /\ Cardinality(N) <= n /\ Cardinality(N) \in Nat
    BY <2>1, <2>2, FS_Subset, FS_CardinalityType
  <2>4. QED
    BY <2>3
<1>4. (\A m \in MeetingsIn(s) : m < r.meeting) => Cardinality(N) = 0
  <2> SUFFICES ASSUME \A m \in MeetingsIn(s) : m < r.meeting PROVE N = {}
    BY FS_EmptySet
  <2> SUFFICES ASSUME NEW i \in N PROVE FALSE
    OBVIOUS
  <2>1. s[i].meeting \in MeetingsIn(s) /\ s[i].meeting >= r.meeting
    BY DEF MeetingsIn
  <2>2. s[i].meeting \in Nat /\ r.meeting \in Nat /\ s[i].meeting < r.meeting
    BY <1>1, <1>2, <2>1
  <2>3. QED
    BY <2>1, <2>2
<1>5. PICK k \in 0..n : k = Cardinality(N)
  BY <1>3
<1>6. Insert(s, r) = SubSeq(s, 1, k) \o <<r>> \o SubSeq(s, k + 1, n)
  BY <1>1, <1>5 DEF Insert
<1> DEFINE t == Insert(s, r)
<1> HIDE DEF N, t
<1>7. /\ t \in Seq(Rows) /\ DOMAIN t = 1..(n + 1)
      /\ \A i \in 1..k : t[i] = s[i]
      /\ t[k + 1] = r
      /\ \A i \in (k + 1)..n : t[i + 1] = s[i]
  <2>1. n = Len(s)
    BY <1>1
  <2>2. IsPutIn(SubSeq(s, 1, k) \o <<r>> \o SubSeq(s, k + 1, n), s, r, n, k)
    BY <2>1, PutIn
  <2>3. QED
    BY <1>6, <2>2 DEF t, IsPutIn
<1> DEFINE From(i) == IF i <= k THEN i ELSE i - 1
<1>8. \A i \in 1..(n + 1) : i # k + 1 => From(i) \in 1..n /\ t[i] = s[From(i)]
  <2> TAKE i \in 1..(n + 1)
  <2> HAVE i # k + 1
  <2>1. CASE i <= k
    BY <1>7, <2>1
  <2>2. CASE i > k
    <3>1. i - 1 \in (k + 1)..n /\ (i - 1) + 1 = i
      BY <2>2
    <3>2. t[i] = s[i - 1]
      BY <1>7, <3>1
    <3>3. QED
      BY <2>2, <3>1, <3>2
  <2>3. QED
    BY <2>1, <2>2
<1>9. \A i, j \in 1..(n + 1) : i # k + 1 /\ j # k + 1 /\ From(i) = From(j) => i = j
  OBVIOUS
<1>10. k + 1 \in 1..(n + 1)
  OBVIOUS
<1> HIDE DEF From
<1>11. \A i \in 1..(n + 1) : i # k + 1 => t[i].meeting \in MeetingsIn(s)
  BY <1>1, <1>8 DEF MeetingsIn
<1>12. MeetingsIn(s) \subseteq MeetingsIn(t)
  <2> SUFFICES ASSUME NEW i \in 1..n PROVE \E j \in 1..(n + 1) : t[j] = s[i]
    <3>1. MeetingsIn(s) = {s[i].meeting : i \in 1..n}
      BY <1>1 DEF MeetingsIn
    <3>2. MeetingsIn(t) = {t[i].meeting : i \in 1..(n + 1)}
      BY <1>7 DEF MeetingsIn
    <3>3. QED
      BY <3>1, <3>2
  <2>1. CASE i <= k
    BY <1>7, <2>1
  <2>2. CASE i > k
    <3>1. i \in (k + 1)..n /\ i + 1 \in 1..(n + 1)
      BY <2>2
    <3>2. QED
      BY <1>7, <3>1
  <2>3. QED
    BY <2>1, <2>2
<1>13. MeetingsIn(t) = MeetingsIn(s) \cup {r.meeting}
  BY <1>7, <1>10, <1>11, <1>12 DEF MeetingsIn
<1>14. ASSUME OnceEach(s), r.meeting \notin MeetingsIn(s)
       PROVE  OnceEach(t)
  <2> SUFFICES ASSUME NEW i \in 1..(n + 1), NEW j \in 1..(n + 1), t[i].meeting = t[j].meeting
               PROVE  i = j
    BY <1>7 DEF OnceEach
  <2>1. i = k + 1 <=> j = k + 1
    BY <1>7, <1>11, <1>14
  <2>2. CASE i # k + 1
    <3>1. s[From(i)].meeting = s[From(j)].meeting /\ From(i) \in DOMAIN s /\ From(j) \in DOMAIN s
      BY <1>1, <1>8, <2>1, <2>2
    <3>2. From(i) = From(j)
      BY <1>14, <3>1 DEF OnceEach
    <3>3. QED
      BY <1>9, <2>1, <2>2, <3>2
  <2>3. QED
    BY <2>1, <2>2
<1>15. (\A m \in MeetingsIn(s) : m < r.meeting) => k = 0
  BY <1>4, <1>5
<1>16. k = 0 => t[1] = r /\ \A i \in 1..(n + 1) : i # 1 => t[i].meeting \in MeetingsIn(s)
  BY <1>7, <1>11
<1>17. QED
  BY <1>7, <1>13, <1>14, <1>15, <1>16 DEF t

LEMMA TrimRows ==
  ASSUME NEW s \in Seq(Rows)
  PROVE  /\ Trim(s) \in Seq(Rows)
         /\ DOMAIN Trim(s) \subseteq DOMAIN s /\ \A i \in DOMAIN Trim(s) : Trim(s)[i] = s[i]
         /\ s # <<>> => 1 \in DOMAIN Trim(s)
         /\ MeetingsIn(Trim(s)) \subseteq MeetingsIn(s)
         /\ OnceEach(s) => OnceEach(Trim(s))
<1>1. DOMAIN s = 1..Len(s) /\ Len(s) \in Nat /\ MaxRecords \in Nat \ {0}
  BY RowsOf, LimitsAreNaturals
<1>2. /\ Trim(s) \in Seq(Rows)
      /\ DOMAIN Trim(s) \subseteq DOMAIN s /\ \A i \in DOMAIN Trim(s) : Trim(s)[i] = s[i]
      /\ s # <<>> => 1 \in DOMAIN Trim(s)
  <2>1. CASE Len(s) <= MaxRecords
    BY <1>1, <2>1 DEF Trim
  <2>2. CASE Len(s) > MaxRecords
    <3> DEFINE t == SubSeq(s, 1, MaxRecords)
    <3>1. t \in Seq(Rows) /\ Len(t) = MaxRecords /\ \A i \in 1..MaxRecords : t[i] = s[i]
      BY <1>1, <2>2
    <3>2. Trim(s) = t
      BY <1>1, <2>2 DEF Trim
    <3> HIDE DEF t
    <3>3. DOMAIN t = 1..MaxRecords
      BY <1>1, <3>1
    <3>4. QED
      BY <1>1, <2>2, <3>1, <3>2, <3>3
  <2>3. QED
    BY <1>1, <2>1, <2>2
<1>3. QED
  BY <1>2 DEF MeetingsIn, OnceEach

LEMMA FinishRows ==
  ASSUME NEW s \in Seq(Rows), NEW m \in Nat
  PROVE  /\ Finish(s, m) \in Seq(Rows) /\ Len(Finish(s, m)) = Len(s)
         /\ DOMAIN Finish(s, m) = DOMAIN s
         /\ \A i \in DOMAIN s : /\ Finish(s, m)[i].meeting = s[i].meeting
                                /\ IsLatestOpen(s, i) => Finish(s, m)[i].length = m
                                /\ ~IsLatestOpen(s, i) => Finish(s, m)[i] = s[i]
         /\ MeetingsIn(Finish(s, m)) = MeetingsIn(s)
         /\ OnceEach(s) => OnceEach(Finish(s, m))
<1> DEFINE row(i) == IF IsLatestOpen(s, i) THEN [s[i] EXCEPT !.open = FALSE, !.length = m] ELSE s[i]
<1>1. DOMAIN s = 1..Len(s) /\ Len(s) \in Nat /\ \A i \in 1..Len(s) : s[i] \in Rows
  BY RowsOf
<1>2. \A i \in 1..Len(s) : row(i) \in Rows /\ row(i).meeting = s[i].meeting
  BY <1>1 DEF Rows
<1>3. \A i \in 1..Len(s) : IsLatestOpen(s, i) => row(i).length = m
  BY <1>1 DEF Rows
<1>4. Finish(s, m) = [i \in 1..Len(s) |-> row(i)]
  BY <1>1 DEF Finish
<1> HIDE DEF row
<1>5. Finish(s, m) \in Seq(Rows) /\ Len(Finish(s, m)) = Len(s) /\ DOMAIN Finish(s, m) = 1..Len(s)
  BY <1>1, <1>2, <1>4
<1>6. \A i \in 1..Len(s) : Finish(s, m)[i] = row(i)
  BY <1>4
<1>7. \A i \in 1..Len(s) : ~IsLatestOpen(s, i) => row(i) = s[i]
  BY DEF row
<1>8. QED
  BY <1>1, <1>2, <1>3, <1>5, <1>6, <1>7 DEF MeetingsIn, OnceEach

LEMMA WithoutRowRows ==
  ASSUME NEW s \in Seq(Rows), NEW i \in DOMAIN s
  PROVE  /\ WithoutRow(s, i) \in Seq(Rows) /\ Len(WithoutRow(s, i)) # Len(s)
         /\ \A j \in DOMAIN WithoutRow(s, i) : \E k \in DOMAIN s :
              WithoutRow(s, i)[j] = s[k] /\ k # i /\ (k = 1 => j = 1)
         /\ MeetingsIn(WithoutRow(s, i)) \subseteq MeetingsIn(s)
         /\ MeetingsIn(s) \subseteq MeetingsIn(WithoutRow(s, i)) \cup {s[i].meeting}
         /\ OnceEach(s) => OnceEach(WithoutRow(s, i))
<1>1. PICK n \in Nat : n = Len(s) /\ DOMAIN s = 1..n
  BY RowsOf
<1>2. i \in 1..n
  BY <1>1
<1> DEFINE t == WithoutRow(s, i)
<1>3. /\ t \in Seq(Rows) /\ Len(t) = n - 1 /\ DOMAIN t = 1..(n - 1)
      /\ \A j \in 1..(i - 1) : t[j] = s[j]
      /\ \A j \in i..(n - 1) : t[j] = s[j + 1]
  <2>1. t = SubSeq(s, 1, i - 1) \o SubSeq(s, i + 1, n)
    BY <1>1 DEF WithoutRow
  <2> HIDE DEF t
  <2>2. n = Len(s)
    BY <1>1
  <2>3. IsTakenOut(SubSeq(s, 1, i - 1) \o SubSeq(s, i + 1, n), s, n, i)
    BY <1>2, <2>2, TakeOut
  <2>4. QED
    BY <2>1, <2>3 DEF IsTakenOut
<1> HIDE DEF t
<1> DEFINE From(j) == IF j < i THEN j ELSE j + 1
<1>4. \A j \in 1..(n - 1) : From(j) \in 1..n /\ From(j) # i /\ t[j] = s[From(j)]
  <2> TAKE j \in 1..(n - 1)
  <2>1. CASE j < i
    <3>1. j \in 1..(i - 1)
      BY <1>2, <2>1
    <3>2. t[j] = s[j]
      BY <1>3, <3>1
    <3>3. QED
      BY <1>2, <2>1, <3>2
  <2>2. CASE j >= i
    <3>1. j \in i..(n - 1)
      BY <1>2, <2>2
    <3>2. t[j] = s[j + 1]
      BY <1>3, <3>1
    <3>3. QED
      BY <1>2, <2>2, <3>2
  <2>3. QED
    BY <1>2, <2>1, <2>2
<1>5. \A j, k \in 1..(n - 1) : From(j) = From(k) => j = k
  BY <1>2
<1>6. \A j \in 1..(n - 1) : From(j) = 1 => j = 1
  BY <1>2
<1>7. \A j \in 1..n : j # i => \E k \in 1..(n - 1) : t[k] = s[j]
  <2> TAKE j \in 1..n
  <2> HAVE j # i
  <2>1. CASE j < i
    <3>1. j \in 1..(i - 1) /\ j \in 1..(n - 1)
      BY <1>2, <2>1
    <3>2. QED
      BY <1>3, <3>1
  <2>2. CASE j > i
    <3>1. j - 1 \in i..(n - 1) /\ j - 1 \in 1..(n - 1) /\ (j - 1) + 1 = j
      BY <1>2, <2>2
    <3>2. QED
      BY <1>3, <3>1
  <2>3. QED
    BY <1>2, <2>1, <2>2
<1> HIDE DEF From
<1>8. MeetingsIn(t) \subseteq MeetingsIn(s)
  BY <1>1, <1>3, <1>4 DEF MeetingsIn
<1>9. MeetingsIn(s) \subseteq MeetingsIn(t) \cup {s[i].meeting}
  <2>1. MeetingsIn(s) = {s[j].meeting : j \in 1..n}
    BY <1>1 DEF MeetingsIn
  <2>2. MeetingsIn(t) = {t[j].meeting : j \in 1..(n - 1)}
    BY <1>3 DEF MeetingsIn
  <2>3. QED
    BY <1>7, <2>1, <2>2
<1>10. ASSUME OnceEach(s) PROVE OnceEach(t)
  <2> SUFFICES ASSUME NEW j \in 1..(n - 1), NEW k \in 1..(n - 1), t[j].meeting = t[k].meeting
               PROVE  j = k
    BY <1>3 DEF OnceEach
  <2>1. From(j) = From(k)
    BY <1>1, <1>4, <1>10 DEF OnceEach
  <2>2. QED
    BY <1>5, <2>1
<1>11. \A j \in DOMAIN t : \E k \in DOMAIN s : t[j] = s[k] /\ k # i /\ (k = 1 => j = 1)
  BY <1>1, <1>3, <1>4, <1>6
<1>12. n - 1 # n
  OBVIOUS
<1>13. QED
  BY <1>1, <1>3, <1>8, <1>9, <1>10, <1>11, <1>12 DEF t

-----------------------------------------------------------------------------
(* The account *)

AccountStart == StoreTypeOK /\ StagesOfDatabase /\ AccountInv

(* A change of the records, whether or not it works, leaves a failure noted. *)
LEMMA ChangeNotes ==
  ASSUME NEW s, NEW dropped, StoreTypeOK, Change(s, dropped)
  PROVE  botched' \in BOOLEAN /\ (botched => botched')
BY DEF Change, WriteFails, StoreTypeOK, RecordTypes, AccountTypes

LEMMA SaveKeepsAccount ==
  ASSUME AccountStart, NEW a \in Accounts, LoginSucceeds(a)
  PROVE  AccountInv'
<1>1. stage = "login" /\ stage' = "import" /\ open' = open /\ oldCreds' = oldCreds
  BY DEF LoginSucceeds, AtStage
<1>2. loggedOut' = "no"
  BY DEF LoginSucceeds
<1>3. CASE open
  BY <1>1, <1>2, <1>3 DEF LoginSucceeds, SaveAccount, Try, AccountStart, AccountInv, StoreTypeOK,
     RecordTypes, AccountTypes
<1>4. CASE ~open
  BY <1>1, <1>2, <1>4 DEF LoginSucceeds, SaveAccount, AccountStart, AccountInv, StoreTypeOK,
     RecordTypes, AccountTypes
<1>5. QED
  BY <1>3, <1>4

LEMMA LogoutKeepsAccount ==
  ASSUME AccountStart, Logout
  PROVE  AccountInv'
<1>1. /\ stage = "running" /\ stage' = "off" /\ open' = open /\ oldCreds' = oldCreds
      /\ loggedOut' = IF open THEN "database" ELSE "registry"
  BY DEF Logout, Closes, StoreKind
<1>2. botched => botched'
  <2>1. (\E s, dropped : Change(s, dropped)) \/ UNCHANGED botched
    BY DEF Logout, Closes
  <2>2. QED
    BY <2>1, ChangeNotes DEF AccountStart
<1>3. CASE open
  BY <1>1, <1>2, <1>3 DEF Logout, ClearAccount, AccountStart, AccountInv, StoreTypeOK,
     RecordTypes, AccountTypes
<1>4. CASE ~open
  BY <1>1, <1>2, <1>4 DEF Logout, ClearAccount, AccountStart, AccountInv, StoreTypeOK,
     RecordTypes, AccountTypes
<1>5. QED
  BY <1>3, <1>4

LEMMA AccountStep == AccountStart /\ [StoreNext]_storeVars => AccountInv'
<1> SUFFICES ASSUME AccountStart, [StoreNext]_storeVars PROVE AccountInv'
  OBVIOUS
<1> USE DEF AccountStart
<1>1. CASE Start
  BY <1>1 DEF Start, StoreTypeOK, RecordTypes, AccountTypes, AccountInv, credVars
<1>2. CASE MoveCredentials
  <2>1. stage = "move" /\ stage' = "drop" /\ open' = open /\ open
    BY <1>2 DEF MoveCredentials, AtStage, StagesOfDatabase
  <2>2. UNCHANGED <<oldCreds, registry, remembered, loggedOut>>
    BY <1>2 DEF MoveCredentials
  <2>3. CASE creds = NoAccount /\ oldCreds # NoAccount
    BY <1>2, <2>1, <2>2, <2>3 DEF MoveCredentials, Try, StoreTypeOK, AccountInv
  <2>4. CASE ~(creds = NoAccount /\ oldCreds # NoAccount)
    BY <1>2, <2>1, <2>2, <2>4 DEF MoveCredentials, StoreTypeOK, AccountInv
  <2>5. QED
    BY <2>3, <2>4
<1>3. CASE DropOldCredentials
  BY <1>3 DEF DropOldCredentials, AtStage, Try, StoreTypeOK, RecordTypes, AccountTypes, AccountInv
<1>4. CASE \E a \in Accounts : LoginSucceeds(a)
  BY <1>4, SaveKeepsAccount
<1>5. ASSUME UNCHANGED credVars, open' = open, botched => botched', stage # "drop",
             stage' # "drop", stage' = "off" \/ stage \notin {"off", "move", "drop"}
      PROVE  AccountInv'
  BY <1>5 DEF AccountInv, credVars
<1>6. CASE LoginCancelled \/ ImportEnds \/ RenameFile
  <2>1. UNCHANGED credVars /\ open' = open /\ botched' = botched
    BY <1>6 DEF LoginCancelled, ImportEnds, RenameFile, AtStage
  <2>2. /\ stage \in {"login", "import", "rename"}
        /\ stage' \in {"off", "running", "rename", "mark"}
    BY <1>6 DEF LoginCancelled, ImportEnds, RenameFile, AtStage
  <2>3. QED
    BY <1>5, <2>1, <2>2
<1>7. CASE ImportRecord
  BY <1>5, <1>7 DEF ImportRecord
<1>8. CASE MarkImported
  BY <1>5, <1>8 DEF MarkImported, AtStage, Try
<1>9. CASE \/ MeetingConfirmed \/ MeetingClosed \/ ClearHistory
           \/ ShowHistory \/ \E i \in DOMAIN view : DeleteRow(i)
  <2>1. /\ stage = "running" /\ UNCHANGED <<credVars, open>>
        /\ (\E s, dropped : Change(s, dropped)) \/ botched' \in {botched, TRUE}
    BY <1>9 DEF MeetingConfirmed, MeetingClosed, ClearHistory, DeleteRow, ShowHistory, Runs
  <2>2. stage' = stage
    BY <1>9 DEF MeetingConfirmed, MeetingClosed, ClearHistory, DeleteRow, ShowHistory
  <2>3. QED
    BY <1>5, <2>1, <2>2, ChangeNotes DEF credVars
<1>10. CASE Quit
  <2>1. (\E s, dropped : Change(s, dropped)) \/ UNCHANGED botched
    BY <1>10 DEF Quit, Closes
  <2>2. UNCHANGED credVars /\ open' = open /\ stage = "running" /\ stage' = "off"
    BY <1>10 DEF Quit, Closes
  <2>3. QED
    BY <1>5, <2>1, <2>2, ChangeNotes
<1>11. CASE Logout
  BY <1>11, LogoutKeepsAccount
<1>12. CASE Crash \/ CrashWhileSaving
  BY <1>12 DEF Crash, CrashWhileSaving, AccountInv, credVars
<1>13. CASE UNCHANGED storeVars
  BY <1>13 DEF storeVars, credVars, AccountInv
<1>14. QED
  BY <1>1, <1>2, <1>3, <1>4, <1>6, <1>7, <1>8, <1>9, <1>10, <1>11, <1>12, <1>13 DEF StoreNext

LEMMA AccountTypesStep == StoreTypeOK /\ [StoreNext]_storeVars => AccountTypes'
<1> SUFFICES ASSUME StoreTypeOK, [StoreNext]_storeVars PROVE AccountTypes'
  OBVIOUS
<1> USE DEF StoreTypeOK
<1>1. CASE MoveCredentials
  BY <1>1 DEF MoveCredentials, Try, AccountTypes
<1>2. CASE DropOldCredentials
  BY <1>2 DEF DropOldCredentials, Try, AccountTypes, Stored
<1>3. CASE \E a \in Accounts : LoginSucceeds(a)
  <2>1. PICK a \in Accounts : LoginSucceeds(a)
    BY <1>3
  <2>2. a \in Stored /\ loggedOut' = "no" /\ oldCreds' = oldCreds /\ SaveAccount(a)
    BY <2>1 DEF LoginSucceeds, Stored
  <2>3. QED
    BY <2>2 DEF SaveAccount, Try, AccountTypes
<1>4. CASE Logout
  <2>1. loggedOut' \in {"database", "registry"} /\ oldCreds' = oldCreds /\ ClearAccount
    BY <1>4 DEF Logout, StoreKind
  <2>2. QED
    BY <2>1 DEF ClearAccount, AccountTypes, Stored
<1>5. CASE UNCHANGED credVars
  BY <1>5 DEF credVars, AccountTypes
<1>6. CASE \/ Start \/ LoginCancelled \/ ImportRecord \/ ImportEnds \/ RenameFile \/ MarkImported
           \/ Quit \/ Crash \/ CrashWhileSaving
  BY <1>5, <1>6 DEF Start, LoginCancelled, ImportRecord, ImportEnds, RenameFile, MarkImported,
     Quit, Crash, CrashWhileSaving
<1>7. CASE \/ MeetingConfirmed \/ MeetingClosed \/ ClearHistory
           \/ ShowHistory \/ \E i \in DOMAIN view : DeleteRow(i)
  BY <1>5, <1>7 DEF MeetingConfirmed, MeetingClosed, ClearHistory, DeleteRow, ShowHistory, Runs
<1>8. CASE UNCHANGED storeVars
  BY <1>5, <1>8 DEF storeVars
<1>9. QED
  BY <1>1, <1>2, <1>3, <1>4, <1>6, <1>7, <1>8 DEF StoreNext

-----------------------------------------------------------------------------
(* The records *)

HistoryInv ==
  RecordTypes /\ StagesOfDatabase /\ OwnRecordIsFirst /\ NumbersInv /\ WholeInv /\ OnceInv

LEMMA StoreIsRows ==
  ASSUME RecordTypes
  PROVE  Store \in Seq(Rows) /\ MeetingsIn(Store) \subseteq MeetingsIn(table) \cup MeetingsIn(json)
BY DEF RecordTypes, Store

(* What a step of the main window may do to the records, a new meeting       *)
(* counted or not: lose none but those meant to go, and add no other.        *)
Alters(s, dropped) ==
  /\ s \in Seq(Rows)
  /\ MeetingsIn(s) \subseteq MeetingsIn(Store) \cup ((meetings + 1)..meetings')
  /\ MeetingsIn(Store) \cup ((meetings + 1)..meetings') \subseteq MeetingsIn(s) \cup dropped
  /\ OnceEach(Store) => OnceEach(s)

LEMMA AlteredRecords ==
  ASSUME HistoryInv, stage = "running", NEW s, NEW dropped, Change(s, dropped), Alters(s, dropped),
         UNCHANGED <<importVars, open>>, meetings' \in {meetings, meetings + 1},
         stage' \in {"running", "off"}
  PROVE  /\ table' \in Seq(Rows) /\ json' \in Seq(Rows) /\ toImport' = <<>>
         /\ marked' = marked /\ backup' = backup /\ botched' \in BOOLEAN
         /\ \A m \in MeetingsIn(table') \cup MeetingsIn(json') \cup MeetingsIn(toImport') :
              m <= meetings'
         /\ WholeInv' /\ OnceInv'
         /\ Store' \in {s, Store, <<>>}
<1>1. toImport = <<>> /\ toImport' = <<>>
  BY DEF HistoryInv, NumbersInv, Importing, importVars
<1>2. meetings \in Nat /\ meetings' \in Nat /\ meetings <= meetings'
  BY DEF HistoryInv, RecordTypes
<1>3. MeetingsIn(table) \cup MeetingsIn(json) \subseteq 1..meetings
  <2>1. MeetingsIn(table) \subseteq Nat \ {0} /\ MeetingsIn(json) \subseteq Nat \ {0}
    BY RowsOf DEF HistoryInv, RecordTypes
  <2>2. \A m \in MeetingsIn(table) \cup MeetingsIn(json) : m <= meetings
    BY DEF HistoryInv, NumbersInv
  <2>3. QED
    BY <1>2, <2>1, <2>2
<1>4. MeetingsIn(Store) \subseteq 1..meetings
  BY <1>3, StoreIsRows DEF HistoryInv
<1>5. MeetingsIn(s) \subseteq 1..meetings'
  BY <1>2, <1>4 DEF Alters
<1>6. /\ marked' = marked /\ backup' = backup /\ botched' \in BOOLEAN
      /\ open' = open /\ imported' = imported /\ cut' = cut
  BY DEF Change, Write, WriteFails, HistoryInv, RecordTypes, importVars
<1>7. ~Importing' /\ stage' \notin {"import", "rename", "mark"}
  BY DEF Importing
<1>8. \A m \in MeetingsIn(<<>>) : FALSE
  BY NoRows
<1>9. CASE WriteFails
  <2>1. /\ table' = table /\ json' \in {json, <<>>} /\ botched' = TRUE
        /\ open => json' = json
    BY <1>9 DEF WriteFails
  <2>2. MeetingsIn(table') \cup MeetingsIn(json') \subseteq MeetingsIn(table) \cup MeetingsIn(json)
    BY <1>8, <2>1
  <2>3. \A m \in MeetingsIn(table') \cup MeetingsIn(json') \cup MeetingsIn(toImport') :
          m <= meetings'
    <3>1. \A m \in MeetingsIn(table) \cup MeetingsIn(json) : m \in 1..meetings'
      BY <1>2, <1>3
    <3>2. QED
      BY <1>1, <1>2, <1>8, <2>2, <3>1
  <2>4. WholeInv' /\ OnceInv'
    BY <2>1 DEF WholeInv, OnceInv
  <2>5. Store' \in {Store, <<>>}
    BY <1>6, <2>1 DEF Store
  <2>6. table' \in Seq(Rows) /\ json' \in Seq(Rows)
    BY <2>1, NoRows DEF HistoryInv, RecordTypes
  <2>7. QED
    BY <1>1, <1>6, <2>3, <2>4, <2>5, <2>6
<1>10. CASE /\ IF open THEN table' = s /\ UNCHANGED json ELSE json' = s /\ UNCHANGED table
            /\ gone' = gone \cup dropped
            /\ UNCHANGED botched
  <2>1. table' \in Seq(Rows) /\ json' \in Seq(Rows) /\ Store' = s
    BY <1>6, <1>10 DEF Alters, Store, HistoryInv, RecordTypes
  <2>2. MeetingsIn(table') \cup MeetingsIn(json') \subseteq 1..meetings'
    <3>1. MeetingsIn(table) \cup MeetingsIn(json) \subseteq 1..meetings'
      BY <1>2, <1>3
    <3>2. QED
      BY <1>5, <1>10, <3>1
  <2>3. \A m \in MeetingsIn(table') \cup MeetingsIn(json') \cup MeetingsIn(toImport') :
          m <= meetings'
    BY <1>1, <1>2, <1>8, <2>2
  <2>4. ASSUME ~botched'
        PROVE  1..meetings' \subseteq MeetingsIn(table') \cup MeetingsIn(json') \cup gone'
    <3>1. 1..meetings \subseteq MeetingsIn(table) \cup MeetingsIn(json) \cup gone
      BY <1>10, <2>4 DEF HistoryInv, WholeInv
    <3>2. 1..meetings' = (1..meetings) \cup ((meetings + 1)..meetings')
      BY <1>2
    <3>3. QED
      BY <1>10, <3>1, <3>2 DEF Alters, Store
  <2>5. WholeInv'
    BY <1>6, <1>7, <1>10, <2>4 DEF HistoryInv, WholeInv
  <2>6. ASSUME ~botched', ~cut'
        PROVE  /\ OnceEach(table') /\ OnceEach(json')
               /\ ~marked' => Distinct(json', table')
    <3>1. /\ ~botched /\ ~cut /\ OnceEach(table) /\ OnceEach(json)
          /\ ~marked => Distinct(json, table)
          /\ open => marked
      BY <1>6, <1>10, <2>6 DEF HistoryInv, OnceInv, WholeInv
    <3>2. OnceEach(s)
      BY <3>1 DEF Alters, Store
    <3>3. ASSUME ~marked
          PROVE  MeetingsIn(json') \cap MeetingsIn(table') = {}
      <4>1. ~open /\ json' = s /\ table' = table
        BY <1>10, <3>1, <3>3
      <4>2. MeetingsIn(s) \subseteq MeetingsIn(json) \cup ((meetings + 1)..meetings')
        BY <4>1 DEF Alters, Store
      <4>3. \A m \in (meetings + 1)..meetings' : m \notin 1..meetings
        BY <1>2
      <4>4. QED
        BY <1>3, <3>1, <3>3, <4>1, <4>2, <4>3 DEF Distinct
    <3>4. QED
      BY <1>6, <1>10, <3>1, <3>2, <3>3 DEF Distinct
  <2>7. OnceInv'
    <3>1. OnceEach(toImport') /\ Distinct(toImport', table')
      BY <1>1, NoRows DEF Distinct
    <3>2. QED
      BY <1>7, <2>6, <3>1 DEF OnceInv
  <2>8. QED
    BY <1>1, <1>6, <2>1, <2>3, <2>5, <2>7
<1>11. QED
  BY <1>9, <1>10 DEF Change, Write

-----------------------------------------------------------------------------
(* The main window *)

LEMMA PageReloaded ==
  ASSUME ReloadPage, table' \in Seq(Rows), json' \in Seq(Rows), open' = open
  PROVE  /\ view' \in Seq(Rows) /\ astray' \in BOOLEAN
         /\ ~astray' => view' = Store'
<1>1. CASE view' = (IF open THEN table' ELSE json') /\ astray' = FALSE
  BY <1>1 DEF Store
<1>2. ASSUME astray' = TRUE, view' = json' \/ view' = <<>>
      PROVE  view' \in Seq(Rows)
  BY <1>2, NoRows
<1>3. ASSUME astray' = TRUE, NEW n \in 0..(Len(table') - 1), view' = SubSeq(table', 1, n)
      PROVE  view' \in Seq(Rows)
  BY <1>3
<1>4. QED
  BY <1>1, <1>2, <1>3 DEF ReloadPage

LEMMA EnterKeepsHistory ==
  ASSUME HistoryInv, MeetingConfirmed
  PROVE  HistoryInv'
<1> DEFINE r == Opened(meetings')
           s == Insert(Store, r)
           t == Trim(s)
           dropped == MeetingsIn(Store) \ MeetingsIn(t)
<1>1. /\ stage = "running" /\ stage' = stage /\ meeting = 0 /\ meeting' = meetings'
      /\ meetings' = meetings + 1 /\ meetings \in Nat /\ runs' = runs
      /\ UNCHANGED <<importVars, open>>
  BY DEF MeetingConfirmed, Runs, HistoryInv, RecordTypes
<1>2. /\ \/ Change(t, dropped) \/ Change(s, {})
         \/ ~open /\ Write(<<r>>) /\ botched' = TRUE /\ UNCHANGED gone
      /\ ReloadPage
  BY DEF MeetingConfirmed, Change
<1>3. /\ Store \in Seq(Rows) /\ r \in Rows /\ r.meeting = meetings' /\ r.open
      /\ \A m \in MeetingsIn(Store) : m <= meetings
  BY <1>1, StoreIsRows DEF HistoryInv, NumbersInv, Opened, Rows
<1> HIDE DEF r
<1>4. \A m \in MeetingsIn(Store) : m < r.meeting
  <2>1. MeetingsIn(Store) \subseteq Nat
    BY <1>3, RowsOf
  <2>2. QED
    BY <1>1, <1>3, <2>1
<1>5. r.meeting \notin MeetingsIn(Store)
  BY <1>1, <1>3, <1>4
<1>6. /\ s \in Seq(Rows) /\ MeetingsIn(s) = MeetingsIn(Store) \cup {r.meeting}
      /\ OnceEach(Store) => OnceEach(s)
      /\ s[1] = r
      /\ \A i \in DOMAIN s : i # 1 => s[i].meeting \in MeetingsIn(Store)
  BY <1>3, <1>4, <1>5, InsertRows
<1> HIDE DEF s
<1>7. s # <<>>
  BY <1>6, NoRows
<1>8. /\ t \in Seq(Rows) /\ 1 \in DOMAIN t
      /\ DOMAIN t \subseteq DOMAIN s /\ \A i \in DOMAIN t : t[i] = s[i]
      /\ MeetingsIn(t) \subseteq MeetingsIn(s)
      /\ OnceEach(s) => OnceEach(t)
  BY <1>6, <1>7, TrimRows
<1> HIDE DEF t
<1>9. r.meeting \in MeetingsIn(t)
  BY <1>6, <1>8 DEF MeetingsIn
<1>10. Alters(t, dropped) /\ Alters(s, {})
  <2>1. (meetings + 1)..meetings' = {r.meeting}
    BY <1>1, <1>3
  <2>2. QED
    BY <1>6, <1>8, <1>9, <2>1 DEF Alters
<1> DEFINE one == <<r>>
<1>11. /\ one \in Seq(Rows) /\ MeetingsIn(one) = {meetings'} /\ DOMAIN one = {1} /\ one[1] = r
  BY <1>3 DEF MeetingsIn
<1> HIDE DEF one
<1>12. /\ table' \in Seq(Rows) /\ json' \in Seq(Rows) /\ toImport' = <<>>
       /\ marked' = marked /\ backup' = backup /\ botched' \in BOOLEAN
       /\ \A m \in MeetingsIn(table') \cup MeetingsIn(json') \cup MeetingsIn(toImport') :
            m <= meetings'
       /\ WholeInv' /\ OnceInv'
       /\ Store' \in {s, t, one, Store, <<>>}
  <2> HIDE DEF dropped
  <2>1. meetings' \in {meetings, meetings + 1} /\ stage' \in {"running", "off"}
    BY <1>1
  <2>2. CASE Change(t, dropped)
    BY <1>1, <1>10, <2>1, <2>2, AlteredRecords
  <2>3. CASE Change(s, {})
    BY <1>1, <1>10, <2>1, <2>3, AlteredRecords
  <2>4. CASE ~open /\ Write(one) /\ botched' = TRUE /\ UNCHANGED gone
    <3>1. json' = one /\ UNCHANGED <<table, marked, backup>> /\ botched' = TRUE /\ Store' = one
      BY <1>1, <2>4 DEF Write, Store
    <3>2. toImport = <<>> /\ toImport' = <<>>
      BY <1>1 DEF HistoryInv, NumbersInv, Importing, importVars
    <3>3. WholeInv' /\ OnceInv'
      BY <3>1 DEF WholeInv, OnceInv
    <3>4. \A m \in MeetingsIn(table') \cup MeetingsIn(json') \cup MeetingsIn(toImport') :
            m <= meetings'
      <4>1. \A m \in MeetingsIn(table) : m \in Nat /\ m <= meetings
        BY RowsOf DEF HistoryInv, RecordTypes, NumbersInv
      <4>2. QED
        BY <1>1, <1>11, <3>1, <3>2, <4>1, NoRows
    <3>5. QED
      BY <1>11, <3>1, <3>2, <3>3, <3>4 DEF HistoryInv, RecordTypes
  <2>5. QED
    BY <1>2, <2>2, <2>3, <2>4 DEF one
<1>13. view' \in Seq(Rows) /\ astray' \in BOOLEAN /\ (~astray' => view' = Store')
  BY <1>1, <1>2, <1>12, PageReloaded
<1>14. RecordTypes' /\ NumbersInv' /\ StagesOfDatabase'
  BY <1>1, <1>12, <1>13 DEF HistoryInv, RecordTypes, NumbersInv, StagesOfDatabase, importVars
<1>15. OwnRecordIsFirst'
  <2>1. \A i \in DOMAIN s : s[i].meeting = meetings' => i = 1 /\ s[i].open
    BY <1>3, <1>5, <1>6
  <2>2. \A i \in DOMAIN t : t[i].meeting = meetings' => i = 1 /\ t[i].open
    BY <1>8, <2>1
  <2>3. \A i \in DOMAIN one : i = 1 /\ one[i].open
    BY <1>3, <1>11
  <2>4. \A i \in DOMAIN Store : Store[i].meeting # meetings'
    BY <1>3, <1>5 DEF MeetingsIn
  <2>5. \A i \in DOMAIN <<>> : FALSE
    BY NoRows
  <2>6. QED
    BY <1>1, <1>12, <2>1, <2>2, <2>3, <2>4, <2>5 DEF OwnRecordIsFirst
<1>16. QED
  BY <1>12, <1>14, <1>15 DEF HistoryInv

(* What else happens in the main window, with the meeting going on or ended. *)
LEMMA OtherwiseKept ==
  ASSUME HistoryInv, stage = "running", NEW s, NEW dropped, Change(s, dropped), Alters(s, dropped),
         UNCHANGED <<importVars, open, runs, meetings>>,
         \/ stage' = "running" /\ ReloadPage
         \/ stage' = "off" /\ EmptyPage,
         \/ meeting' = 0
         \/ /\ meeting' = meeting /\ stage' = "running"
            /\ \A i \in DOMAIN s : \E j \in DOMAIN Store : s[i] = Store[j] /\ (j = 1 => i = 1)
  PROVE  HistoryInv'
<1>1. meetings' \in {meetings, meetings + 1} /\ stage' \in {"running", "off"}
  OBVIOUS
<1>2. /\ table' \in Seq(Rows) /\ json' \in Seq(Rows) /\ toImport' = <<>>
      /\ marked' = marked /\ backup' = backup /\ botched' \in BOOLEAN
      /\ \A m \in MeetingsIn(table') \cup MeetingsIn(json') \cup MeetingsIn(toImport') :
           m <= meetings'
      /\ WholeInv' /\ OnceInv'
      /\ Store' \in {s, Store, <<>>}
  BY <1>1, AlteredRecords
<1>3. /\ view' \in Seq(Rows) /\ astray' \in BOOLEAN
      /\ stage' = "running" /\ ~astray' => view' = Store'
  BY <1>2, PageReloaded, NoRows DEF EmptyPage
<1>4. RecordTypes' /\ NumbersInv' /\ StagesOfDatabase'
  <2>1. meeting' \in Nat
    BY DEF HistoryInv, RecordTypes
  <2>2. QED
    BY <1>1, <1>2, <1>3, <2>1
       DEF HistoryInv, RecordTypes, Stages, NumbersInv, StagesOfDatabase, importVars
<1>5. OwnRecordIsFirst'
  <2>1. CASE meeting' = 0
    BY <2>1 DEF OwnRecordIsFirst
  <2>2. CASE /\ meeting' = meeting /\ stage' = "running"
             /\ \A i \in DOMAIN s : \E j \in DOMAIN Store : s[i] = Store[j] /\ (j = 1 => i = 1)
    BY <1>2, <2>2, NoRows DEF HistoryInv, OwnRecordIsFirst
  <2>3. QED
    BY <2>1, <2>2
<1>6. QED
  BY <1>2, <1>4, <1>5 DEF HistoryInv

LEMMA FinishAlters ==
  ASSUME HistoryInv, meetings' = meetings
  PROVE  Alters(Finish(Store, meeting), {})
<1>1. Store \in Seq(Rows) /\ meeting \in Nat /\ meetings \in Nat
  BY StoreIsRows DEF HistoryInv, RecordTypes
<1>2. (meetings + 1)..meetings' = {}
  BY <1>1
<1>3. QED
  BY <1>1, <1>2, FinishRows DEF Alters

LEMMA MainWindowKeepsHistory ==
  ASSUME HistoryInv,
         \/ MeetingConfirmed \/ MeetingClosed \/ ClearHistory
         \/ ShowHistory \/ \E i \in DOMAIN view : DeleteRow(i)
  PROVE  HistoryInv'
<1>1. Store \in Seq(Rows) /\ meetings \in Nat
  BY StoreIsRows DEF HistoryInv, RecordTypes
<1>2. ASSUME meetings' = meetings
      PROVE  (meetings + 1)..meetings' = {}
  BY <1>1, <1>2
<1>3. CASE MeetingConfirmed
  BY <1>3, EnterKeepsHistory
<1>4. CASE MeetingClosed
  <2>1. /\ stage = "running" /\ stage' = "running" /\ meeting' = 0
        /\ UNCHANGED <<importVars, open, runs, meetings>>
        /\ Change(Finish(Store, meeting), {}) /\ ReloadPage
    BY <1>4 DEF MeetingClosed, Runs
  <2>2. QED
    BY <2>1, FinishAlters, OtherwiseKept
<1>5. CASE ClearHistory
  <2>1. /\ stage = "running" /\ stage' = "running" /\ meeting' = meeting
        /\ UNCHANGED <<importVars, open, runs, meetings>>
        /\ Change(<<>>, MeetingsIn(Store)) /\ ReloadPage
    BY <1>5 DEF ClearHistory, Runs
  <2>2. Alters(<<>>, MeetingsIn(Store))
    BY <1>2, <2>1, NoRows DEF Alters
  <2>3. DOMAIN <<>> = {}
    BY NoRows
  <2>4. QED
    BY <2>1, <2>2, <2>3, OtherwiseKept
<1>6. ASSUME NEW i \in DOMAIN view, DeleteRow(i)
      PROVE  HistoryInv'
  <2> DEFINE s == IF i \in DOMAIN Store THEN WithoutRow(Store, i) ELSE Store
             dropped == IF astray THEN MeetingsIn(Store) \ MeetingsIn(s) ELSE {view[i].meeting}
  <2>1. /\ stage = "running" /\ stage' = "running" /\ meeting' = meeting
        /\ UNCHANGED <<importVars, open, runs, meetings>>
        /\ Change(s, dropped) /\ ReloadPage
    BY <1>6 DEF DeleteRow, Runs
  <2>2. /\ s \in Seq(Rows)
        /\ \A j \in DOMAIN s : \E k \in DOMAIN Store : s[j] = Store[k] /\ (k = 1 => j = 1)
        /\ MeetingsIn(s) \subseteq MeetingsIn(Store)
        /\ OnceEach(Store) => OnceEach(s)
    BY <1>1, WithoutRowRows
  <2>3. MeetingsIn(Store) \subseteq MeetingsIn(s) \cup dropped
    <3>1. CASE astray
      BY <3>1
    <3>2. CASE ~astray
      <4>1. view = Store /\ i \in DOMAIN Store
        BY <2>1, <3>2 DEF HistoryInv, NumbersInv
      <4>2. MeetingsIn(Store) \subseteq MeetingsIn(WithoutRow(Store, i)) \cup {Store[i].meeting}
        BY <1>1, <4>1, WithoutRowRows
      <4>3. QED
        BY <3>2, <4>1, <4>2
    <3>3. QED
      BY <3>1, <3>2
  <2> HIDE DEF s, dropped
  <2>4. Alters(s, dropped)
    BY <1>2, <2>1, <2>2, <2>3 DEF Alters
  <2>5. QED
    BY <2>1, <2>2, <2>4, OtherwiseKept
<1>7. CASE ShowHistory
  <2>1. /\ stage = "running" /\ UNCHANGED <<historyVars, importVars, stage, open, meeting, runs,
                                            meetings, gone, botched>>
        /\ table' \in Seq(Rows) /\ json' \in Seq(Rows) /\ ReloadPage
    BY <1>7 DEF ShowHistory, Runs, HistoryInv, RecordTypes, historyVars
  <2>2. view' \in Seq(Rows) /\ astray' \in BOOLEAN /\ (~astray' => view' = Store')
    BY <2>1, PageReloaded
  <2>3. RecordTypes' /\ StagesOfDatabase' /\ OwnRecordIsFirst' /\ NumbersInv'
    BY <2>1, <2>2 DEF HistoryInv, RecordTypes, StagesOfDatabase, OwnRecordIsFirst, NumbersInv,
       Importing, Store, historyVars, importVars
  <2>4. WholeInv' /\ OnceInv'
    BY <2>1 DEF HistoryInv, WholeInv, OnceInv, Importing, historyVars, importVars
  <2>5. QED
    BY <2>3, <2>4 DEF HistoryInv
<1>8. QED
  BY <1>3, <1>4, <1>5, <1>6, <1>7

-----------------------------------------------------------------------------
(* From the start to the main window, and the end *)

LEMMA ClosesKeepsHistory ==
  ASSUME HistoryInv, Closes
  PROVE  HistoryInv'
<1>1. /\ stage = "running" /\ stage' = "off" /\ meeting' = 0 /\ EmptyPage
      /\ UNCHANGED <<importVars, open, runs, meetings>>
  BY DEF Closes
<1>2. CASE meeting # 0
  <2>1. Change(Finish(Store, meeting), {})
    BY <1>2 DEF Closes
  <2>2. QED
    BY <1>1, <2>1, FinishAlters, OtherwiseKept
<1>3. CASE meeting = 0
  <2>1. UNCHANGED <<historyVars, gone, botched>>
    BY <1>3 DEF Closes
  <2>2. RecordTypes' /\ NumbersInv' /\ StagesOfDatabase' /\ OwnRecordIsFirst'
    BY <1>1, <2>1, NoRows DEF HistoryInv, RecordTypes, Stages, NumbersInv, Importing,
       StagesOfDatabase, OwnRecordIsFirst, importVars, historyVars, EmptyPage
  <2>3. WholeInv' /\ OnceInv'
    BY <1>1, <2>1 DEF HistoryInv, WholeInv, OnceInv, Importing, importVars, historyVars
  <2>4. QED
    BY <2>2, <2>3 DEF HistoryInv
<1>4. QED
  BY <1>2, <1>3

(* Outside the import and the main window the records are at rest.           *)
LEMMA RestKeepsHistory ==
  ASSUME HistoryInv, UNCHANGED <<historyVars, importVars, meeting, meetings, gone, pageVars>>,
         botched' \in BOOLEAN, botched => botched', open' \in BOOLEAN, runs' \in Nat,
         stage \in {"off", "move", "drop", "login"},
         stage' \in {"off", "move", "drop", "login"}, StagesOfDatabase'
  PROVE  HistoryInv'
<1>1. RecordTypes' /\ NumbersInv' /\ OwnRecordIsFirst'
  BY DEF HistoryInv, RecordTypes, Stages, NumbersInv, Importing, OwnRecordIsFirst, importVars,
     historyVars, pageVars
<1>2. WholeInv' /\ OnceInv'
  BY DEF HistoryInv, WholeInv, OnceInv, Importing, importVars, historyVars
<1>3. QED
  BY <1>1, <1>2 DEF HistoryInv

LEMMA StartUpKeepsHistory ==
  ASSUME HistoryInv, Start \/ MoveCredentials \/ DropOldCredentials \/ LoginCancelled
  PROVE  HistoryInv'
<1> USE DEF HistoryInv, RecordTypes
<1>1. CASE Start
  <2>1. /\ stage = "off" /\ runs' \in Nat
        /\ UNCHANGED <<historyVars, importVars, meeting, meetings, gone, pageVars, botched>>
    BY <1>1 DEF Start
  <2>2. stage' \in {"move", "login"} /\ open' \in BOOLEAN /\ StagesOfDatabase'
    BY <1>1 DEF Start, StagesOfDatabase
  <2>3. QED
    BY <2>1, <2>2, RestKeepsHistory
<1>2. CASE MoveCredentials
  BY <1>2, RestKeepsHistory DEF MoveCredentials, AtStage, Try, StagesOfDatabase
<1>3. CASE DropOldCredentials
  BY <1>3, RestKeepsHistory DEF DropOldCredentials, AtStage, Try, StagesOfDatabase
<1>4. CASE LoginCancelled
  BY <1>4, RestKeepsHistory DEF LoginCancelled, AtStage, StagesOfDatabase
<1>5. QED
  BY <1>1, <1>2, <1>3, <1>4

LEMMA LoginKeepsHistory ==
  ASSUME HistoryInv, NEW a \in Accounts, LoginSucceeds(a)
  PROVE  HistoryInv'
<1>1. /\ stage = "login" /\ stage' = "import"
      /\ UNCHANGED <<open, meeting, runs, meetings, historyVars, cut, view, astray, gone>>
      /\ toImport' = (IF open /\ ~marked THEN json ELSE <<>>) /\ imported' = FALSE
  BY DEF LoginSucceeds, AtStage, pageVars
<1>2. botched' \in BOOLEAN /\ (botched => botched')
  BY DEF LoginSucceeds, SaveAccount, Try, HistoryInv, RecordTypes
<1>3. RecordTypes' /\ StagesOfDatabase' /\ OwnRecordIsFirst'
  BY <1>1, <1>2, NoRows DEF HistoryInv, RecordTypes, Stages, StagesOfDatabase, OwnRecordIsFirst,
     historyVars
<1>4. NumbersInv'
  BY <1>1, NoRows DEF HistoryInv, NumbersInv, Importing, historyVars
<1>5. WholeInv'
  BY <1>1, <1>2 DEF HistoryInv, WholeInv, Importing, historyVars
<1>6. OnceInv'
  <2>1. OnceEach(<<>>) /\ Distinct(<<>>, table)
    BY NoRows DEF Distinct
  <2>2. QED
    BY <1>1, <1>2, <2>1 DEF HistoryInv, OnceInv, Importing, historyVars
<1>7. QED
  BY <1>3, <1>4, <1>5, <1>6 DEF HistoryInv

LEMMA ImportKeepsHistory ==
  ASSUME HistoryInv, ImportRecord
  PROVE  HistoryInv'
<1> DEFINE r == Head(toImport)
           rest == Tail(toImport)
<1>1. /\ stage = "import" /\ toImport # <<>> /\ toImport' = rest
      /\ UNCHANGED <<json, marked, backup, cut, stage, open, meeting, view, astray, runs, meetings,
                     gone>>
      /\ \/ table' = Insert(table, r) /\ imported' = TRUE /\ UNCHANGED botched
         \/ botched' = TRUE /\ UNCHANGED <<table, imported>>
  BY DEF ImportRecord, pageVars
<1>2. Importing /\ Importing'
  BY <1>1 DEF HistoryInv, NumbersInv, Importing
<1>3. /\ table \in Seq(Rows) /\ toImport \in Seq(Rows) /\ r \in Rows /\ rest \in Seq(Rows)
      /\ DOMAIN toImport = 1..Len(toImport) /\ Len(toImport) \in Nat \ {0} /\ r = toImport[1]
      /\ DOMAIN rest = 1..(Len(toImport) - 1)
      /\ \A i \in 1..(Len(toImport) - 1) : rest[i] = toImport[i + 1]
  BY <1>1 DEF HistoryInv, RecordTypes
<1> HIDE DEF r, rest
<1>4. PICK n \in Nat : n = Len(toImport) - 1
  <2>1. Len(toImport) - 1 \in Nat
    BY <1>3
  <2>2. QED
    BY <2>1
<1>5. /\ DOMAIN toImport = 1..(n + 1) /\ DOMAIN rest = 1..n
      /\ \A i \in 1..n : i + 1 \in 1..(n + 1) /\ i + 1 # 1 /\ rest[i] = toImport[i + 1]
  BY <1>3, <1>4
<1>6. MeetingsIn(toImport) = MeetingsIn(rest) \cup {r.meeting}
  <2>1. MeetingsIn(rest) \cup {r.meeting} \subseteq MeetingsIn(toImport)
    <3>1. 1 \in 1..(n + 1)
      OBVIOUS
    <3>2. r.meeting \in MeetingsIn(toImport)
      BY <1>3, <1>5, <3>1 DEF MeetingsIn
    <3>3. MeetingsIn(rest) \subseteq MeetingsIn(toImport)
      BY <1>5 DEF MeetingsIn
    <3>4. QED
      BY <3>2, <3>3
  <2>2. ASSUME NEW i \in 1..(n + 1)
        PROVE  toImport[i].meeting \in MeetingsIn(rest) \cup {r.meeting}
    <3>1. CASE i = 1
      BY <1>3, <3>1
    <3>2. CASE i # 1
      <4>1. i - 1 \in 1..n /\ (i - 1) + 1 = i
        BY <3>2
      <4>2. QED
        BY <1>5, <4>1 DEF MeetingsIn
    <3>3. QED
      BY <3>1, <3>2
  <2>3. QED
    BY <1>5, <2>1, <2>2 DEF MeetingsIn
<1>7. ASSUME OnceEach(toImport)
      PROVE  OnceEach(rest) /\ r.meeting \notin MeetingsIn(rest)
  <2>1. \A i, j \in 1..n : rest[i].meeting = rest[j].meeting => i + 1 = j + 1
    BY <1>5, <1>7 DEF OnceEach
  <2>2. \A i \in 1..n : rest[i].meeting # r.meeting
    <3>1. 1 \in 1..(n + 1)
      OBVIOUS
    <3>2. QED
      <4>1. r = toImport[1]
        BY <1>3
      <4>2. \A i \in 1..n : toImport[i + 1].meeting = toImport[1].meeting => i + 1 = 1
        BY <1>5, <1>7, <3>1 DEF OnceEach
      <4>3. QED
        BY <1>5, <4>1, <4>2
  <2>3. \A i, j \in 1..n : i + 1 = j + 1 => i = j
    OBVIOUS
  <2>4. QED
    BY <1>5, <2>1, <2>2, <2>3 DEF OnceEach, MeetingsIn
<1>8. /\ Insert(table, r) \in Seq(Rows)
      /\ MeetingsIn(Insert(table, r)) = MeetingsIn(table) \cup {r.meeting}
      /\ OnceEach(table) /\ r.meeting \notin MeetingsIn(table) => OnceEach(Insert(table, r))
  BY <1>3, InsertRows
<1>9. RecordTypes' /\ StagesOfDatabase'
  BY <1>1, <1>3, <1>8 DEF HistoryInv, RecordTypes, StagesOfDatabase
<1>10. OwnRecordIsFirst' /\ NumbersInv'
  <2>1. MeetingsIn(table') \subseteq MeetingsIn(table) \cup {r.meeting}
    BY <1>1, <1>8
  <2>2. meeting = 0
    BY <1>1 DEF HistoryInv, OwnRecordIsFirst
  <2>3. QED
    BY <1>1, <1>2, <1>6, <2>1, <2>2 DEF HistoryInv, OwnRecordIsFirst, NumbersInv
<1>11. CASE table' = Insert(table, r) /\ imported' = TRUE /\ UNCHANGED botched
  <2>1. WholeInv'
    BY <1>1, <1>2, <1>6, <1>8, <1>11 DEF HistoryInv, WholeInv
  <2>2. ASSUME ~botched, ~cut
        PROVE  /\ OnceEach(Insert(table, r)) /\ OnceEach(json) /\ OnceEach(rest)
               /\ Distinct(rest, Insert(table, r))
    <3>1. OnceEach(table) /\ OnceEach(json) /\ OnceEach(toImport) /\ Distinct(toImport, table)
      BY <2>2 DEF HistoryInv, OnceInv
    <3>2. r.meeting \notin MeetingsIn(table)
      BY <1>6, <3>1 DEF Distinct
    <3>3. QED
      BY <1>6, <1>7, <1>8, <3>1, <3>2 DEF Distinct
  <2>3. OnceInv'
    BY <1>1, <1>11, <2>2 DEF OnceInv
  <2>4. QED
    BY <1>9, <1>10, <2>1, <2>3 DEF HistoryInv
<1>12. CASE botched' = TRUE
  BY <1>9, <1>10, <1>12 DEF HistoryInv, WholeInv, OnceInv
<1>13. QED
  BY <1>1, <1>11, <1>12

LEMMA ImportEndKeepsHistory ==
  ASSUME HistoryInv, ImportEnds \/ RenameFile \/ MarkImported
  PROVE  HistoryInv'
<1>1. meeting = 0 /\ meeting' = 0
  BY DEF ImportEnds, RenameFile, MarkImported, AtStage, HistoryInv, OwnRecordIsFirst
<1>2. OwnRecordIsFirst'
  BY <1>1 DEF OwnRecordIsFirst
<1>3. CASE ImportEnds
  <2>1. /\ stage = "import" /\ toImport = <<>>
        /\ UNCHANGED <<open, meeting, runs, meetings, historyVars, importVars, gone, botched>>
    BY <1>3 DEF ImportEnds, AtStage
  <2>2. CASE ~open \/ marked
    <3>1. /\ stage' = "running" /\ table' \in Seq(Rows) /\ json' \in Seq(Rows)
          /\ open' = open /\ ReloadPage
      BY <1>3, <2>1, <2>2 DEF ImportEnds, AtStage, HistoryInv, RecordTypes, historyVars
    <3>2. RecordTypes' /\ StagesOfDatabase' /\ NumbersInv'
      BY <2>1, <3>1, PageReloaded DEF HistoryInv, RecordTypes, Stages, StagesOfDatabase,
         NumbersInv, Store, historyVars, importVars
    <3>3. WholeInv'
      BY <2>1, <2>2, <3>1 DEF HistoryInv, WholeInv, Importing, historyVars, importVars
    <3>4. OnceInv'
      <4>1. ~imported
        BY <2>1, <2>2 DEF HistoryInv, NumbersInv, Importing
      <4>2. QED
        BY <2>1, <2>2, <3>1, <4>1 DEF HistoryInv, OnceInv, Importing, historyVars, importVars
    <3>5. QED
      BY <1>2, <3>2, <3>3, <3>4 DEF HistoryInv
  <2>3. CASE open /\ ~marked
    <3>1. stage' = (IF imported THEN "rename" ELSE "mark") /\ UNCHANGED <<view, astray>>
      BY <1>3, <2>3 DEF ImportEnds, AtStage, pageVars
    <3>2. RecordTypes' /\ StagesOfDatabase' /\ NumbersInv'
      BY <2>1, <2>3, <3>1 DEF HistoryInv, RecordTypes, Stages, StagesOfDatabase,
         NumbersInv, historyVars, importVars
    <3>3. WholeInv'
      BY <2>1, <2>3, <3>1, NoRows DEF HistoryInv, WholeInv, Importing, historyVars, importVars
    <3>4. OnceInv'
      BY <2>1, <2>3, <3>1 DEF HistoryInv, OnceInv, Importing, historyVars, importVars
    <3>5. QED
      BY <1>2, <3>2, <3>3, <3>4 DEF HistoryInv
  <2>4. QED
    BY <2>2, <2>3 DEF HistoryInv, RecordTypes
<1>4. CASE RenameFile
  <2>1. /\ stage = "rename" /\ stage' = "mark" /\ backup' = TRUE
        /\ json' \in {json, <<>>}
        /\ UNCHANGED <<open, meeting, runs, meetings, table, marked, importVars, view, astray,
                       gone, botched>>
    BY <1>4 DEF RenameFile, AtStage, pageVars
  <2>2. toImport = <<>>
    BY <2>1 DEF HistoryInv, NumbersInv, Importing
  <2>3. RecordTypes' /\ StagesOfDatabase' /\ NumbersInv'
    BY <2>1, <2>2, NoRows DEF HistoryInv, RecordTypes, Stages, StagesOfDatabase, NumbersInv,
       importVars
  <2>4. WholeInv'
    BY <2>1, NoRows DEF HistoryInv, WholeInv, Importing
  <2>5. OnceInv'
    <3>1. Distinct(<<>>, table) /\ OnceEach(<<>>)
      BY NoRows DEF Distinct
    <3>2. QED
      BY <2>1, <3>1 DEF HistoryInv, OnceInv, Importing, importVars
  <2>6. QED
    BY <1>2, <2>3, <2>4, <2>5 DEF HistoryInv
<1>5. CASE MarkImported
  <2>1. /\ stage = "mark" /\ stage' = "running" /\ ReloadPage /\ open
        /\ UNCHANGED <<open, meeting, runs, meetings, table, json, backup, importVars, gone>>
        /\ \/ marked' = TRUE /\ UNCHANGED botched
           \/ UNCHANGED marked /\ botched' = TRUE
    BY <1>5 DEF MarkImported, AtStage, Try, HistoryInv, StagesOfDatabase
  <2>2. toImport = <<>>
    BY <2>1 DEF HistoryInv, NumbersInv, Importing
  <2>3. view' \in Seq(Rows) /\ astray' \in BOOLEAN /\ (~astray' => view' = Store')
    BY <2>1, PageReloaded DEF HistoryInv, RecordTypes
  <2>4. RecordTypes' /\ StagesOfDatabase' /\ NumbersInv'
    BY <2>1, <2>2, <2>3 DEF HistoryInv, RecordTypes, Stages, StagesOfDatabase, NumbersInv, Store,
       importVars
  <2>5. WholeInv'
    BY <2>1 DEF HistoryInv, WholeInv, Importing
  <2>6. OnceInv'
    BY <2>1 DEF HistoryInv, OnceInv, Importing, importVars
  <2>7. QED
    BY <1>2, <2>4, <2>5, <2>6 DEF HistoryInv
<1>6. QED
  BY <1>3, <1>4, <1>5

LEMMA CrashKeepsHistory ==
  ASSUME HistoryInv, Crash \/ CrashWhileSaving
  PROVE  HistoryInv'
<1>1. CASE Crash
  <2>1. /\ stage' = "off" /\ meeting' = 0 /\ toImport' = <<>> /\ imported' = FALSE
        /\ view' = <<>> /\ astray' = FALSE
        /\ UNCHANGED <<historyVars, open, runs, meetings, gone, botched>>
        /\ cut' = (cut \/ (imported /\ json # <<>> /\ stage \in {"import", "rename", "mark"}))
    BY <1>1 DEF Crash, EmptyPage
  <2>2. RecordTypes' /\ StagesOfDatabase' /\ OwnRecordIsFirst'
    BY <2>1, NoRows DEF HistoryInv, RecordTypes, Stages, StagesOfDatabase, OwnRecordIsFirst,
       historyVars
  <2>3. NumbersInv' /\ WholeInv'
    BY <2>1, NoRows DEF HistoryInv, NumbersInv, WholeInv, Importing, historyVars
  <2>4. ASSUME ~botched', ~cut'
        PROVE  /\ OnceEach(table) /\ OnceEach(json)
               /\ ~marked => Distinct(json, table)
    <3>1. ~botched /\ ~cut /\ ~(imported /\ json # <<>> /\ stage \in {"import", "rename", "mark"})
      BY <2>1, <2>4
    <3>2. Distinct(<<>>, table)
      BY NoRows DEF Distinct
    <3>3. QED
      BY <3>1, <3>2 DEF HistoryInv, OnceInv
  <2>5. OnceInv'
    <3>1. OnceEach(<<>>) /\ Distinct(<<>>, table)
      BY NoRows DEF Distinct
    <3>2. QED
      BY <2>1, <2>4, <3>1 DEF OnceInv, Importing, historyVars
  <2>6. QED
    BY <2>2, <2>3, <2>5 DEF HistoryInv
<1>2. CASE CrashWhileSaving
  <2>1. /\ stage = "running" /\ json' = <<>> /\ botched' = TRUE /\ stage' = "off"
        /\ meeting' = 0 /\ view' = <<>> /\ astray' = FALSE
        /\ UNCHANGED <<table, marked, backup, importVars, open, runs, meetings, gone>>
    BY <1>2 DEF CrashWhileSaving, EmptyPage
  <2>2. toImport = <<>>
    BY <2>1 DEF HistoryInv, NumbersInv, Importing
  <2>3. RecordTypes' /\ StagesOfDatabase' /\ OwnRecordIsFirst' /\ NumbersInv'
    BY <2>1, <2>2, NoRows DEF HistoryInv, RecordTypes, Stages, StagesOfDatabase,
       OwnRecordIsFirst, NumbersInv, importVars
  <2>4. WholeInv' /\ OnceInv'
    BY <2>1 DEF WholeInv, OnceInv
  <2>5. QED
    BY <2>3, <2>4 DEF HistoryInv
<1>3. QED
  BY <1>1, <1>2

LEMMA HistoryStep == HistoryInv /\ [StoreNext]_storeVars => HistoryInv'
<1> SUFFICES ASSUME HistoryInv, [StoreNext]_storeVars PROVE HistoryInv'
  OBVIOUS
<1>1. CASE Start \/ MoveCredentials \/ DropOldCredentials \/ LoginCancelled
  BY <1>1, StartUpKeepsHistory
<1>2. CASE \E a \in Accounts : LoginSucceeds(a)
  BY <1>2, LoginKeepsHistory
<1>3. CASE ImportRecord
  BY <1>3, ImportKeepsHistory
<1>4. CASE ImportEnds \/ RenameFile \/ MarkImported
  BY <1>4, ImportEndKeepsHistory
<1>5. CASE \/ MeetingConfirmed \/ MeetingClosed \/ ClearHistory
           \/ ShowHistory \/ \E i \in DOMAIN view : DeleteRow(i)
  BY <1>5, MainWindowKeepsHistory
<1>6. CASE Quit \/ Logout
  BY <1>6, ClosesKeepsHistory DEF Quit, Logout
<1>7. CASE Crash \/ CrashWhileSaving
  BY <1>7, CrashKeepsHistory
<1>8. CASE UNCHANGED storeVars
  <2>1. /\ UNCHANGED <<historyVars, importVars, stage, open, meeting, view, astray, runs, meetings,
                       gone, botched>>
    BY <1>8 DEF storeVars, pageVars
  <2>2. RecordTypes' /\ StagesOfDatabase' /\ OwnRecordIsFirst' /\ NumbersInv'
    BY <2>1 DEF HistoryInv, RecordTypes, StagesOfDatabase, OwnRecordIsFirst, NumbersInv,
       Importing, Store, historyVars, importVars
  <2>3. WholeInv' /\ OnceInv'
    BY <2>1 DEF HistoryInv, WholeInv, OnceInv, Importing, historyVars, importVars
  <2>4. QED
    BY <2>2, <2>3 DEF HistoryInv
<1>9. QED
  BY <1>1, <1>2, <1>3, <1>4, <1>5, <1>6, <1>7, <1>8 DEF StoreNext

-----------------------------------------------------------------------------
(* What the runs check *)

LEMMA StoreInitial == StoreInit => StoreInv
<1> SUFFICES ASSUME StoreInit PROVE StoreInv
  OBVIOUS
<1> DEFINE later(o) == [meeting |-> 2, open |-> o, length |-> IF o THEN 0 ELSE 2]
           first == [meeting |-> 1, open |-> FALSE, length |-> 1]
<1>1. json = <<>> \/ \E o \in BOOLEAN : json = <<later(o), first>>
  BY DEF StoreInit, OldFiles
<1>2. (\A o \in BOOLEAN : later(o) \in Rows /\ later(o).meeting = 2)
      /\ first \in Rows /\ first.meeting = 1
  BY DEF Rows
<1> HIDE DEF later, first
<1>3. /\ json \in Seq(Rows) /\ MeetingsIn(json) = 1..Len(json) /\ Len(json) \in Nat
      /\ OnceEach(json)
  <2>1. CASE json = <<>>
    BY <2>1, NoRows
  <2>2. ASSUME NEW o \in BOOLEAN, json = <<later(o), first>>
        PROVE  /\ json \in Seq(Rows) /\ MeetingsIn(json) = 1..Len(json) /\ Len(json) \in Nat
               /\ OnceEach(json)
    <3>1. /\ json \in Seq(Rows) /\ Len(json) = 2 /\ DOMAIN json = {1, 2}
          /\ json[1].meeting = 2 /\ json[2].meeting = 1
      BY <1>2, <2>2
    <3>2. MeetingsIn(json) = {1, 2} /\ 1..2 = {1, 2}
      BY <3>1 DEF MeetingsIn
    <3>3. QED
      BY <3>1, <3>2 DEF OnceEach
  <2>3. QED
    BY <1>1, <2>1, <2>2
<1>4. StoreTypeOK /\ StagesOfDatabase /\ OwnRecordIsFirst
  BY <1>3, NoRows DEF StoreInit, StoreTypeOK, RecordTypes, AccountTypes, Stored, Stages,
     StagesOfDatabase, OwnRecordIsFirst
<1>5. AccountInv
  BY DEF StoreInit, AccountInv
<1>6. NumbersInv /\ WholeInv
  BY <1>3, NoRows DEF StoreInit, NumbersInv, WholeInv, Importing
<1>7. OnceInv
  BY <1>3, NoRows DEF StoreInit, OnceInv, Distinct, Importing
<1>8. QED
  BY <1>4, <1>5, <1>6, <1>7 DEF StoreInv

LEMMA StoreStep == StoreInv /\ [StoreNext]_storeVars => StoreInv'
<1> SUFFICES ASSUME StoreInv, [StoreNext]_storeVars PROVE StoreInv'
  OBVIOUS
<1>1. HistoryInv'
  BY HistoryStep DEF StoreInv, StoreTypeOK, HistoryInv
<1>2. AccountInv'
  BY AccountStep DEF StoreInv, AccountStart
<1>3. AccountTypes'
  BY AccountTypesStep DEF StoreInv
<1>4. QED
  BY <1>1, <1>2, <1>3 DEF StoreInv, HistoryInv, StoreTypeOK

(* The invariant holds for any number of accounts, starts, meetings and      *)
(* records to keep.                                                          *)
THEOREM StoreInvariant == StoreSpec => []StoreInv
<1>1. QED
  BY StoreInitial, StoreStep, PTL DEF StoreSpec

(* The database remembers the account it was given last, in one of its two   *)
(* places, and after a logout no start that finds the same kind of store     *)
(* logs in by itself (Storage, MainWindow::logout).                          *)
THEOREM StoreKeepsAccount == StoreSpec => []AccountIsKept
<1>1. StoreInv => AccountIsKept
  BY DEF StoreInv, AccountInv, AccountIsKept, StoreKind, StoredAccount
<1>2. QED
  BY <1>1, StoreInvariant, PTL

(* No meeting is dropped from the history, none is in the table twice unless a  *)
(* crash has cut the import of the old file short, and the page's list is    *)
(* the store's (MeetingHistoryStorage).                                      *)
THEOREM StoreHistoryIsWhole == StoreSpec => []HistoryIsWhole
<1>1. StoreInv => HistoryIsWhole
  <2> SUFFICES ASSUME StoreInv PROVE HistoryIsWhole
    OBVIOUS
  <2>1. stage = "running" /\ ~astray => view = Store
    BY DEF StoreInv, NumbersInv
  <2>2. ~botched => 1..meetings \subseteq MeetingsIn(table) \cup MeetingsIn(json) \cup gone
    BY DEF StoreInv, WholeInv
  <2>3. ~botched /\ ~cut => Cardinality(MeetingsIn(table)) = Len(table)
    BY SameRowsOnce DEF StoreInv, OnceInv, StoreTypeOK, RecordTypes
  <2>4. QED
    BY <2>1, <2>2, <2>3 DEF HistoryIsWhole
<1>2. QED
  BY <1>1, StoreInvariant, PTL

(* finish_open_session, which closes the latest open record whatever meeting *)
(* it is of, never closes another meeting's while the own record is there.   *)
THEOREM StoreClosesOwnRecord == StoreSpec => ClosesItsOwnRecord
<1> DEFINE A == stage = "running" /\ meeting \in MeetingsIn(Store) /\ Len(Store') = Len(Store)
                  => \A i \in DOMAIN Store :
                       Store[i].open /\ ~Store'[i].open
                         => Store[i].meeting = meeting /\ Store'[i].length = meeting
<1>1. StoreInv /\ [StoreNext]_storeVars => [A]_storeVars
  <2> SUFFICES ASSUME StoreInv, StoreNext, stage = "running", meeting \in MeetingsIn(Store),
                      Len(Store') = Len(Store)
               PROVE  \A i \in DOMAIN Store :
                        Store[i].open /\ ~Store'[i].open
                          => Store[i].meeting = meeting /\ Store'[i].length = meeting
    OBVIOUS
  <2>1. /\ Store \in Seq(Rows) /\ DOMAIN Store = 1..Len(Store) /\ Len(Store) \in Nat
        /\ meeting \in Nat \ {0}
    BY StoreIsRows, RowsOf DEF StoreInv, StoreTypeOK
  <2>2. CASE Store' = Store
    BY <2>2
  <2>3. CASE Store' = Finish(Store, meeting)
    <3> TAKE i \in DOMAIN Store
    <3> HAVE Store[i].open /\ ~Store'[i].open
    <3>1. PICK j \in DOMAIN Store : Store[j].meeting = meeting
      BY DEF MeetingsIn
    <3>2. j = 1 /\ Store[1].open
      BY <2>1, <3>1 DEF StoreInv, OwnRecordIsFirst
    <3>3. IsLatestOpen(Store, i)
      BY <2>1, <2>3, FinishRows
    <3>4. i = 1
      BY <2>1, <3>2, <3>3 DEF IsLatestOpen
    <3>5. Store'[i].length = meeting
      BY <2>1, <2>3, <3>3, FinishRows
    <3>6. QED
      BY <3>1, <3>2, <3>4, <3>5
  <2>4. ASSUME NEW s, NEW dropped, Change(s, dropped), open' = open
        PROVE  Store' \in {s, Store}
    <3>1. CASE Write(s)
      BY <2>4, <3>1 DEF Write, Store
    <3>2. CASE WriteFails
      <4>1. Store' \in {<<>>, Store}
        BY <2>4, <3>2 DEF WriteFails, Store
      <4>2. Len(Store') # 0
        BY <2>1, NoRows
      <4>3. QED
        BY <4>1, <4>2, NoRows
    <3>3. QED
      BY <2>4, <3>1, <3>2 DEF Change
  <2>5. Store # <<>>
    BY NoRows
  <2>6. CASE MeetingConfirmed
    BY <2>1, <2>6 DEF MeetingConfirmed
  <2>7. CASE MeetingClosed
    BY <2>2, <2>3, <2>4, <2>7 DEF MeetingClosed, Runs
  <2>8. CASE ClearHistory
    <3>1. Store' \in {<<>>, Store}
      BY <2>4, <2>8 DEF ClearHistory, Runs
    <3>2. Len(Store) # 0
      BY <2>1, <2>5
    <3>3. QED
      BY <2>2, <3>1, <3>2, NoRows
  <2>9. ASSUME NEW i \in DOMAIN view, DeleteRow(i)
        PROVE  Store' = Store
    <3>1. Store' \in {IF i \in DOMAIN Store THEN WithoutRow(Store, i) ELSE Store, Store}
      BY <2>4, <2>9 DEF DeleteRow, Runs
    <3>2. i \in DOMAIN Store => Len(WithoutRow(Store, i)) # Len(Store)
      BY <2>1, WithoutRowRows
    <3>3. QED
      BY <3>1, <3>2
  <2>10. CASE Quit \/ Logout
    <3>1. Closes /\ open' = open
      BY <2>10 DEF Quit, Logout, Closes
    <3>2. Change(Finish(Store, meeting), {})
      BY <2>1, <3>1 DEF Closes
    <3>3. QED
      BY <2>2, <2>3, <2>4, <3>1, <3>2
  <2>11. CASE Crash \/ ShowHistory
    BY <2>2, <2>11 DEF Crash, ShowHistory, Runs, Store, historyVars
  <2>12. CASE CrashWhileSaving
    <3>1. Store' = <<>>
      BY <2>12 DEF CrashWhileSaving, Store
    <3>2. QED
      BY <2>1, <2>5, <3>1, NoRows
  <2>13. CASE \/ Start \/ MoveCredentials \/ DropOldCredentials \/ LoginCancelled \/ ImportRecord
              \/ ImportEnds \/ RenameFile \/ MarkImported \/ \E a \in Accounts : LoginSucceeds(a)
    BY <2>13 DEF Start, MoveCredentials, DropOldCredentials, LoginCancelled, ImportRecord,
       ImportEnds, RenameFile, MarkImported, LoginSucceeds, AtStage
  <2>14. QED
    BY <2>2, <2>6, <2>7, <2>8, <2>9, <2>10, <2>11, <2>12, <2>13 DEF StoreNext
<1>2. QED
  BY <1>1, StoreInvariant, PTL DEF StoreSpec, ClosesItsOwnRecord

(***************************************************************************)
(* The recorder and the recordings                                         *)
(***************************************************************************)
USE TakesAreNaturals DEF Takes, None

-----------------------------------------------------------------------------
(* The recorder by itself *)

LEMMA InitFiling == Init => FilingInv
BY DEF Init, FilingInv, TakesOK, FiledOnce

(* finalize, with whatever is left to its callers *)
LEMMA FinalizeFiles ==
  ASSUME FilingInv, Finalize, take' = take,
         backend' \in {"recording", "stopping", "stopped"}, timers' \in Nat
  PROVE  FilingInv'
BY DEF FilingInv, TakesOK, FiledOnce, Finalize

LEMMA StopFiles ==
  ASSUME FilingInv, Stop, UNCHANGED takeVars
  PROVE  FilingInv'
<1>1. timers' \in Nat /\ take' = take
  BY DEF Stop, takeVars, FilingInv, TakesOK
<1>2. CASE backend' = "stopped" /\ Finalize
  BY <1>1, <1>2, FinalizeFiles
<1>3. CASE /\ backend' \in {"stopping", "stopped"}
           /\ UNCHANGED <<finalized, filed, pipeline>>
  BY <1>1, <1>3 DEF FilingInv, TakesOK, FiledOnce
<1>4. QED
  BY <1>2, <1>3 DEF Stop

LEMMA NextFiling == FilingInv /\ [Next]_vars => FilingInv'
<1> SUFFICES ASSUME FilingInv, [Next]_vars PROVE FilingInv'
  OBVIOUS
<1> USE DEF roomVars, takeVars
<1>1. CASE UNCHANGED vars
  BY <1>1 DEF vars, FilingInv, TakesOK, FiledOnce
<1>2. CASE StartRecording
  BY <1>2 DEF StartRecording, StartAllowed, FilingInv, TakesOK, FiledOnce
<1>3. CASE StartWithError
  BY <1>3 DEF StartWithError, StartAllowed, FilingInv, TakesOK, FiledOnce
<1>4. CASE StopRecording
  BY <1>4, StopFiles DEF StopRecording, FilingInv, TakesOK
<1>5. CASE FallbackFires
  BY <1>5, FinalizeFiles DEF FallbackFires, FilingInv, TakesOK
<1>6. CASE BackendStops
  <2>1. CASE recording
    BY <1>6, <2>1 DEF BackendStops, FilingInv, TakesOK, FiledOnce
  <2>2. CASE ~recording
    BY <1>6, <2>2, FinalizeFiles DEF BackendStops, FilingInv, TakesOK
  <2>3. QED
    BY <2>1, <2>2
<1>7. CASE RetryWithMjpeg
  BY <1>7 DEF RetryWithMjpeg, FilingInv, TakesOK, FiledOnce
<1>8. CASE BackendFails
  BY <1>8, FinalizeFiles DEF BackendFails, FilingInv, TakesOK
<1>9. CASE RevokeRecording \/ LeaveMeeting
  <2>1. CASE recording /\ Stop
    BY <1>9, <2>1, StopFiles DEF RevokeRecording, LeaveMeeting, FilingInv, TakesOK
  <2>2. CASE ~recording /\ UNCHANGED <<recording, timers, backend, finalized, filed, pipeline>>
    BY <1>9, <2>2 DEF RevokeRecording, LeaveMeeting, FilingInv, TakesOK, FiledOnce
  <2>3. QED
    BY <1>9, <2>1, <2>2 DEF RevokeRecording, LeaveMeeting, StopIfRecording
<1>10. CASE PermitRecording \/ EnterMeeting
  BY <1>10 DEF PermitRecording, EnterMeeting, FilingInv, TakesOK, FiledOnce
<1>11. QED
  BY <1>1, <1>2, <1>3, <1>4, <1>5, <1>6, <1>7, <1>8, <1>9, <1>10 DEF Next

(* Whatever of the backend, an error and the timers of earlier takes comes   *)
(* first, and however often: the metadata of a take is written at most once. *)
THEOREM RecorderFiledOnce == Spec => []FiledOnce
<1>1. Spec => []FilingInv
  BY InitFiling, NextFiling, PTL DEF Spec
<1>2. FilingInv => FiledOnce
  BY DEF FilingInv
<1>3. QED
  BY <1>1, <1>2, PTL

(* Type correctness of the recorder. *)
THEOREM RecorderTypeOK == Spec => []TypeOK
<1>1. Spec => []FilingInv
  BY InitFiling, NextFiling, PTL DEF Spec
<1>2. Init => FlagsOK
  BY DEF Init, FlagsOK
<1>3. FlagsOK /\ [Next]_vars => FlagsOK'
  <2> SUFFICES ASSUME FlagsOK, [Next]_vars PROVE FlagsOK'
    OBVIOUS
  <2> USE DEF FlagsOK, roomVars, takeVars
  <2>1. CASE UNCHANGED vars
    BY <2>1 DEF vars
  <2>2. CASE StartRecording \/ StartWithError
    BY <2>2, Zenon DEF StartRecording, StartWithError
  <2>3. CASE StopRecording
    BY <2>3, Zenon DEF StopRecording, Stop, Finalize
  <2>4. CASE RevokeRecording \/ LeaveMeeting
    BY <2>4, Zenon DEF RevokeRecording, LeaveMeeting, StopIfRecording, Stop, Finalize
  <2>5. CASE FallbackFires \/ BackendStops \/ RetryWithMjpeg \/ BackendFails
    BY <2>5, Zenon DEF FallbackFires, BackendStops, RetryWithMjpeg, BackendFails, Finalize
  <2>6. CASE PermitRecording \/ EnterMeeting
    BY <2>6, Zenon DEF PermitRecording, EnterMeeting
  <2>7. QED
    BY <2>1, <2>2, <2>3, <2>4, <2>5, <2>6 DEF Next
<1>4. FilingInv /\ FlagsOK => TypeOK
  BY DEF FilingInv, TypeOK
<1>5. QED
  BY <1>1, <1>2, <1>3, <1>4, PTL DEF Spec

LEMMA NextRevoked == RevokedStops /\ [Next]_vars => RevokedStops'
<1> SUFFICES ASSUME RevokedStops, [Next]_vars PROVE RevokedStops'
  OBVIOUS
<1> USE DEF RevokedStops, roomVars, takeVars
<1>1. CASE UNCHANGED vars
  BY <1>1 DEF vars
<1>2. CASE StartRecording \/ StartWithError
  BY <1>2 DEF StartRecording, StartWithError, StartAllowed
<1>3. CASE StopRecording
  BY <1>3 DEF StopRecording, Stop
<1>4. CASE RevokeRecording \/ LeaveMeeting
  BY <1>4 DEF RevokeRecording, LeaveMeeting, StopIfRecording, Stop
<1>5. CASE \/ FallbackFires \/ BackendStops \/ RetryWithMjpeg \/ BackendFails
           \/ PermitRecording \/ EnterMeeting
  BY <1>5 DEF FallbackFires, BackendStops, RetryWithMjpeg, BackendFails, PermitRecording,
     EnterMeeting
<1>6. QED
  BY <1>1, <1>2, <1>3, <1>4, <1>5 DEF Next

(* Nothing is recorded outside a meeting or against the host's switch.       *)
THEOREM RecorderRevokedStops == Spec => []RevokedStops
<1>1. Init => RevokedStops
  BY DEF Init, RevokedStops
<1>2. QED
  BY <1>1, NextRevoked, PTL DEF Spec

-----------------------------------------------------------------------------
(* The invariant of the library *)

Dirs == {"custom", "default"}
Path == Dirs \X Nat

PathsOK ==
  /\ dbOpen \in BOOLEAN /\ dir \in Dirs
  /\ paths \in Seq(Path) /\ Len(paths) = take
  /\ \A t \in 1 .. take : paths[t][2] <= take
  /\ second \in SUBSET Path /\ \A q \in second : q[2] <= take

FilesOK ==
  /\ video \in [DOMAIN video -> 1 .. take]
  /\ sidecar \in [DOMAIN sidecar -> 1 .. take]
  /\ rows \in [DOMAIN rows -> 0 .. take]
  /\ \A p \in DOMAIN video \cup DOMAIN rows : p \in Path /\ p[2] <= take

(* Only an unfinished take has a recorder, and so can still change its path. *)
PipelineOK == pipeline # None => ~finalized

(* What sidecar and row tell of a path is a take that was filed under it.    *)
TellsOfTakes ==
  /\ \A p \in DOMAIN sidecar : filed[sidecar[p]] > 0 /\ paths[sidecar[p]] = p
  /\ \A p \in DOMAIN rows :
        rows[p] # None => filed[rows[p]] > 0 /\ paths[rows[p]] = p

(* And the take is the one the file shows, or a later one.                   *)
TellsTheLatest ==
  \A p \in DOMAIN video :
    filed[video[p]] > 0 /\ paths[video[p]] = p =>
      /\ p \in DOMAIN sidecar => sidecar[p] >= video[p]
      /\ p \in DOMAIN rows =>
           \/ rows[p] >= video[p]
           \/ rows[p] = None /\ p \notin DOMAIN sidecar

(* A table that cannot be opened does not get in the way: what it holds is   *)
(* older than any path a take can still be filed under.                      *)
ClosedTableIsOld ==
  ~dbOpen =>
    \A p \in DOMAIN rows :
      /\ \A q \in second : p[2] < q[2]
      /\ ~finalized => p[2] < paths[take][2]

LibraryInv ==
  /\ FilingInv
  /\ PipelineOK
  /\ PathsOK
  /\ FilesOK
  /\ TellsOfTakes
  /\ TellsTheLatest
  /\ TwoCopiesAgree
  /\ ClosedTableIsOld

-----------------------------------------------------------------------------
(* What a step of the recorder may do to a take                              *)
LEMMA RecorderStep ==
  ASSUME FilingInv, PipelineOK, Next
  PROVE  /\ FilingInv' /\ PipelineOK'
         /\ take' \in {take, take + 1}
         /\ \/ filed' = filed
            \/ /\ take' \in Takes /\ filed' = [filed EXCEPT ![take'] = @ + 1]
               /\ take' = take => ~finalized
         /\ take' = take /\ ~finalized' => ~finalized
         /\ take' = take /\ retried' # retried => filed' = filed /\ ~finalized
<1>1. FilingInv'
  BY NextFiling
<1> SUFFICES
      /\ PipelineOK'
      /\ take' \in {take, take + 1}
      /\ \/ filed' = filed
         \/ /\ take' \in Takes /\ filed' = [filed EXCEPT ![take'] = @ + 1]
            /\ take' = take => ~finalized
      /\ take' = take /\ ~finalized' => ~finalized
      /\ take' = take /\ retried' # retried => filed' = filed /\ ~finalized
  BY <1>1
<1> USE DEF roomVars, takeVars, FilingInv, TakesOK, PipelineOK
<1>2. CASE StartRecording \/ StartWithError
  BY <1>2 DEF StartRecording, StartWithError, StartAllowed
<1>3. CASE StopRecording
  BY <1>3 DEF StopRecording, Stop, Finalize
<1>4. CASE FallbackFires \/ BackendStops \/ BackendFails
  BY <1>4 DEF FallbackFires, BackendStops, BackendFails, Finalize
<1>5. CASE RetryWithMjpeg
  BY <1>5 DEF RetryWithMjpeg
<1>6. CASE RevokeRecording \/ LeaveMeeting
  BY <1>6 DEF RevokeRecording, LeaveMeeting, StopIfRecording, Stop, Finalize
<1>7. CASE PermitRecording \/ EnterMeeting
  BY <1>7 DEF PermitRecording, EnterMeeting
<1>8. QED
  BY <1>2, <1>3, <1>4, <1>5, <1>6, <1>7 DEF Next

LEMMA InitLibrary == RecordingsInit => LibraryInv
<1> SUFFICES ASSUME RecordingsInit PROVE LibraryInv
  OBVIOUS
<1> USE DEF RecordingsInit, Init, LibraryInit
<1>1. FilingInv /\ PipelineOK
  BY InitFiling DEF PipelineOK
<1>2. DOMAIN video = {} /\ DOMAIN sidecar = {} /\ DOMAIN rows = {}
  OBVIOUS
<1>3. PathsOK
  BY DEF PathsOK, Dirs
<1>4. FilesOK
  BY <1>2 DEF FilesOK
<1>5. TellsOfTakes /\ TellsTheLatest /\ TwoCopiesAgree /\ ClosedTableIsOld
  BY <1>2 DEF TellsOfTakes, TellsTheLatest, TwoCopiesAgree, ClosedTableIsOld
<1>6. QED
  BY <1>1, <1>3, <1>4, <1>5 DEF LibraryInv

-----------------------------------------------------------------------------
(* The recorder's steps: the paths                                           *)

(* What a step of the recorder does to the paths: those of filed takes stay, *)
(* and what is filed or can be filed has a path newer than any in a table    *)
(* that is closed.                                                           *)
PathsKept ==
  /\ PathsOK'
  /\ \A t \in 1 .. take : filed[t] > 0 => paths'[t] = paths[t]
  /\ filed' # filed => paths'[take'] \in Path /\ paths'[take'][2] <= take'
  /\ ~dbOpen => \A p \in DOMAIN rows :
        /\ \A q \in second' : p[2] < q[2]
        /\ ~finalized' \/ filed' # filed => p[2] < paths'[take'][2]

LEMMA NewPath ==
  ASSUME LibraryInv, take' = take + 1, PathFollows, UNCHANGED <<dbOpen, dir>>
  PROVE  PathsKept
<1> USE DEF LibraryInv, PathsOK, FilesOK, FilingInv, TakesOK
<1>1. PICK p \in {MakeOutputPath} \cup {q \in second : q[1] = dir} :
        paths' = Append(paths, p) /\ second' = {p}
  BY DEF PathFollows
<1>2. MakeOutputPath \in Path /\ MakeOutputPath[2] = take + 1
  BY DEF MakeOutputPath, Path
<1>3. p \in Path /\ p[2] <= take'
  BY <1>1, <1>2 DEF Path
<1>4. /\ paths' \in Seq(Path) /\ Len(paths') = take'
      /\ \A t \in 1 .. take : paths'[t] = paths[t]
      /\ paths'[take'] = p
  BY <1>1, <1>3
<1>5. \A t \in 1 .. take' : paths'[t][2] <= take'
  <2> TAKE t \in 1 .. take'
  <2>1. CASE t = take'
    BY <1>3, <1>4, <2>1
  <2>2. CASE t \in 1 .. take
    <3>1. paths[t] \in Path /\ paths[t][2] <= take
      BY <2>2
    <3>2. QED
      BY <1>4, <2>2, <3>1 DEF Path
  <2>3. QED
    BY <2>1, <2>2
<1>6. PathsOK'
  BY <1>1, <1>3, <1>4, <1>5
<1>7. ASSUME ~dbOpen, NEW q \in DOMAIN rows PROVE q[2] < p[2]
  <2>1. CASE p = MakeOutputPath
    BY <1>2, <2>1 DEF Path
  <2>2. CASE p \in second
    BY <1>7, <2>2 DEF ClosedTableIsOld
  <2>3. QED
    BY <1>1, <2>1, <2>2
<1>8. QED
  BY <1>1, <1>3, <1>4, <1>6, <1>7 DEF PathsKept

LEMMA OldPath ==
  ASSUME LibraryInv, take' = take, PathFollows, UNCHANGED <<dbOpen, dir>>,
         filed' # filed => ~finalized,
         ~finalized' => ~finalized,
         retried' # retried => filed' = filed /\ ~finalized
  PROVE  PathsKept
<1> USE DEF LibraryInv, PathsOK, FilesOK, FilingInv, TakesOK
<1>1. second' = second
  BY DEF PathFollows
<1>2. CASE paths' = paths
  <2>1. ~finalized => paths[take] \in Path /\ paths[take][2] <= take
    OBVIOUS
  <2>2. QED
    BY <1>1, <1>2, <2>1 DEF PathsKept, ClosedTableIsOld
<1>3. CASE retried' # retried /\ paths' = [paths EXCEPT ![take] = <<dir, @[2]>>]
  <2>1. take \in 1 .. Len(paths) /\ filed[take] = 0 /\ paths[take] \in Path
    BY <1>3
  <2>2. <<dir, paths[take][2]>> \in Path
    BY <2>1 DEF Path
  <2>3. /\ paths' \in Seq(Path) /\ Len(paths') = take
        /\ \A t \in 1 .. take : t # take => paths'[t] = paths[t]
        /\ paths'[take][2] = paths[take][2]
    BY <1>3, <2>1, <2>2
  <2>4. \A t \in 1 .. take : paths'[t][2] <= take
    BY <2>3
  <2>5. PathsOK'
    BY <1>1, <2>3, <2>4
  <2>6. QED
    BY <1>1, <1>3, <2>1, <2>3, <2>5 DEF PathsKept, ClosedTableIsOld
<1>4. QED
  BY <1>2, <1>3 DEF PathFollows

LEMMA PathsFollow ==
  ASSUME LibraryInv, RecorderSteps
  PROVE  PathsKept
<1>1. FilingInv /\ PipelineOK /\ Next /\ PathFollows /\ UNCHANGED <<dbOpen, dir>>
  BY DEF LibraryInv, RecorderSteps, FilesFollow, folderVars
<1>2. CASE take' = take + 1
  BY <1>1, <1>2, NewPath
<1>3. CASE take' = take
  <2>1. filed' # filed => ~finalized
    BY <1>1, <1>3, RecorderStep
  <2>2. ~finalized' => ~finalized
    BY <1>1, <1>3, RecorderStep
  <2>3. retried' # retried => filed' = filed /\ ~finalized
    BY <1>1, <1>3, RecorderStep
  <2>4. QED
    BY <1>1, <1>3, <2>1, <2>2, <2>3, OldPath
<1>4. QED
  BY <1>1, <1>2, <1>3, RecorderStep

-----------------------------------------------------------------------------
(* The recorder's steps: what is told of the files                           *)

LEMMA NothingIsFiled ==
  ASSUME LibraryInv, RecorderSteps, filed' = filed, UNCHANGED <<sidecar, rows>>
  PROVE  LibraryInv'
<1> USE DEF LibraryInv
<1>1. /\ FilingInv' /\ PipelineOK' /\ PathsKept /\ UNCHANGED <<dbOpen, dir, video>>
      /\ take' \in {take, take + 1}
  BY RecorderStep, PathsFollow DEF RecorderSteps, FilesFollow, folderVars
<1>2. FilesOK'
  <2>1. 1 .. take \subseteq 1 .. take' /\ 0 .. take \subseteq 0 .. take'
    BY <1>1 DEF FilingInv, TakesOK
  <2>2. \A p \in DOMAIN video \cup DOMAIN rows : p \in Path /\ p[2] <= take'
    BY <1>1 DEF FilesOK, FilingInv, TakesOK, Path
  <2>3. QED
    BY <1>1, <2>1, <2>2 DEF FilesOK
<1>3. TellsOfTakes'
  BY <1>1 DEF TellsOfTakes, PathsKept, FilesOK
<1>4. TellsTheLatest'
  BY <1>1 DEF TellsTheLatest, PathsKept, FilesOK
<1>5. ClosedTableIsOld'
  BY <1>1 DEF ClosedTableIsOld, PathsKept
<1>6. TwoCopiesAgree'
  BY DEF TwoCopiesAgree
<1>7. QED
  BY <1>1, <1>2, <1>3, <1>4, <1>5, <1>6 DEF PathsKept

LEMMA TakeIsFiled ==
  ASSUME LibraryInv, RecorderSteps, filed' # filed, WriteMeta(paths'[take'], take')
  PROVE  LibraryInv'
<1> USE DEF LibraryInv
<1> DEFINE q == paths'[take']
<1>1. /\ FilingInv' /\ PipelineOK' /\ PathsKept /\ UNCHANGED <<dbOpen, dir, video>>
      /\ take' \in {take, take + 1}
      /\ take' \in Takes /\ filed' = [filed EXCEPT ![take'] = @ + 1]
  BY RecorderStep, PathsFollow DEF RecorderSteps, FilesFollow, folderVars
<1>2. /\ DOMAIN sidecar' = DOMAIN sidecar \cup {q} /\ sidecar'[q] = take'
      /\ \A p \in DOMAIN sidecar : p # q => sidecar'[p] = sidecar[p]
      /\ sidecar' \in [DOMAIN sidecar' -> 1 .. take']
  BY <1>1 DEF WriteMeta, With, FilesOK, FilingInv, TakesOK
<1>3. /\ dbOpen => DOMAIN rows' = DOMAIN rows \cup {q} /\ rows'[q] = take'
      /\ ~dbOpen => rows' = rows
      /\ \A p \in DOMAIN rows : p # q => rows'[p] = rows[p]
      /\ rows' \in [DOMAIN rows' -> 0 .. take']
  BY <1>1 DEF WriteMeta, Upsert, With, FilesOK, FilingInv, TakesOK
<1>4. q \in Path /\ q[2] <= take'
  BY <1>1 DEF PathsKept
<1>5. FilesOK'
  <2>1. 1 .. take \subseteq 1 .. take'
    BY <1>1 DEF FilingInv, TakesOK
  <2>2. \A p \in DOMAIN video \cup DOMAIN rows' : p \in Path /\ p[2] <= take'
    BY <1>1, <1>3, <1>4 DEF FilesOK, FilingInv, TakesOK, Path
  <2>3. QED
    BY <1>1, <1>2, <1>3, <2>1, <2>2 DEF FilesOK
<1>6. /\ filed'[take'] > 0
      /\ \A t \in 1 .. take : t # take' => filed'[t] = filed[t]
      /\ \A t \in 1 .. take : filed[t] > 0 => filed'[t] > 0 /\ paths'[t] = paths[t]
  BY <1>1 DEF FilingInv, TakesOK, PathsKept
<1>7. TellsOfTakes'
  <2>1. ASSUME NEW p \in DOMAIN sidecar' PROVE filed'[sidecar'[p]] > 0 /\ paths'[sidecar'[p]] = p
    BY <1>2, <1>6 DEF TellsOfTakes, FilesOK
  <2>2. ASSUME NEW p \in DOMAIN rows', rows'[p] # None
        PROVE  filed'[rows'[p]] > 0 /\ paths'[rows'[p]] = p
    <3>1. CASE dbOpen /\ p = q
      BY <1>3, <1>6, <3>1
    <3>2. CASE p \in DOMAIN rows /\ rows'[p] = rows[p]
      <4>1. rows[p] \in 1 .. take /\ filed[rows[p]] > 0 /\ paths[rows[p]] = p
        BY <2>2, <3>2 DEF TellsOfTakes, FilesOK, FilingInv, TakesOK
      <4>2. QED
        BY <1>6, <3>2, <4>1
    <3>3. QED
      BY <1>3, <2>2, <3>1, <3>2
  <2>3. QED
    BY <2>1, <2>2 DEF TellsOfTakes
<1>8. ~dbOpen => q \notin DOMAIN rows
  BY <1>1, <1>4 DEF PathsKept, Path
<1>9. TellsTheLatest'
  <2> SUFFICES ASSUME NEW p \in DOMAIN video, filed'[video[p]] > 0, paths'[video[p]] = p
               PROVE  /\ p \in DOMAIN sidecar' => sidecar'[p] >= video[p]
                      /\ p \in DOMAIN rows' =>
                           \/ rows'[p] >= video[p]
                           \/ rows'[p] = None /\ p \notin DOMAIN sidecar'
    BY <1>1 DEF TellsTheLatest
  <2>1. video[p] \in 1 .. take /\ video[p] <= take'
    BY <1>1 DEF FilesOK, FilingInv, TakesOK
  <2>2. CASE p = q
    BY <1>2, <1>3, <1>8, <2>1, <2>2
  <2>3. CASE p # q
    <3>1. filed[video[p]] > 0 /\ paths[video[p]] = p
      BY <1>6, <2>1, <2>3
    <3>2. /\ p \in DOMAIN sidecar => sidecar[p] >= video[p]
          /\ p \in DOMAIN rows =>
               \/ rows[p] >= video[p]
               \/ rows[p] = None /\ p \notin DOMAIN sidecar
      BY <3>1 DEF TellsTheLatest
    <3>3. /\ p \in DOMAIN sidecar' <=> p \in DOMAIN sidecar
          /\ p \in DOMAIN rows' <=> p \in DOMAIN rows
          /\ p \in DOMAIN rows => rows'[p] = rows[p]
          /\ p \in DOMAIN sidecar => sidecar'[p] = sidecar[p]
      BY <1>1, <1>2, <1>3, <2>3 DEF PathsKept, PathsOK
    <3>4. QED
      BY <3>2, <3>3
  <2>4. QED
    BY <2>2, <2>3
<1>10. ClosedTableIsOld'
  BY <1>1, <1>3 DEF ClosedTableIsOld, PathsKept
<1>11. TwoCopiesAgree'
  <2> SUFFICES ASSUME NEW p \in DOMAIN rows', p \in DOMAIN sidecar'
               PROVE  rows'[p] = sidecar'[p]
    BY DEF TwoCopiesAgree
  <2>1. CASE p = q
    BY <1>2, <1>3, <1>8, <2>1
  <2>2. CASE p # q
    <3>1. p \in DOMAIN rows /\ p \in DOMAIN sidecar
      BY <1>2, <1>3, <2>2
    <3>2. QED
      BY <1>2, <1>3, <2>2, <3>1 DEF TwoCopiesAgree
  <2>3. QED
    BY <2>1, <2>2
<1>12. QED
  BY <1>1, <1>5, <1>7, <1>9, <1>10, <1>11 DEF PathsKept

LEMMA RecorderKeeps == LibraryInv /\ RecorderSteps => LibraryInv'
<1> SUFFICES ASSUME LibraryInv, RecorderSteps PROVE LibraryInv'
  OBVIOUS
<1>1. CASE filed' = filed /\ UNCHANGED <<sidecar, rows>>
  BY <1>1, NothingIsFiled
<1>2. CASE filed' # filed /\ WriteMeta(paths'[take'], take')
  BY <1>2, TakeIsFiled
<1>3. QED
  BY <1>1, <1>2 DEF RecorderSteps, FilesFollow, MetaFollows

-----------------------------------------------------------------------------
(* The steps of the library                                                  *)

(* A scan of the files, after sidecars, rows and videos at most went.        *)
LEMMA ScanKeeps ==
  ASSUME LibraryInv, NEW known, Scan(known), dbOpen' \in BOOLEAN,
         UNCHANGED <<take, filed, paths, dir>>,
         DOMAIN known \subseteq DOMAIN rows, \A p \in DOMAIN known : known[p] = rows[p],
         DOMAIN video' \subseteq DOMAIN video, video' = [p \in DOMAIN video' |-> video[p]],
         DOMAIN sidecar' \subseteq DOMAIN sidecar,
         sidecar' = [p \in DOMAIN sidecar' |-> sidecar[p]]
  PROVE  /\ FilesOK' /\ TellsOfTakes' /\ TellsTheLatest' /\ TwoCopiesAgree'
         /\ ~dbOpen' => rows' = rows
<1> USE DEF LibraryInv
<1>1. /\ \A p \in DOMAIN video' : video'[p] = video[p]
      /\ \A p \in DOMAIN sidecar' : sidecar'[p] = sidecar[p]
      /\ video' \in [DOMAIN video' -> 1 .. take] /\ sidecar' \in [DOMAIN sidecar' -> 1 .. take]
  BY DEF FilesOK
<1>2. CASE ~dbOpen'
  <2>1. rows' = rows
    BY <1>2 DEF Scan
  <2>2. FilesOK'
    BY <1>1, <2>1 DEF FilesOK
  <2>3. TellsOfTakes'
    BY <1>1, <2>1 DEF TellsOfTakes
  <2>4. TellsTheLatest'
    BY <1>1, <2>1 DEF TellsTheLatest
  <2>5. TwoCopiesAgree'
    BY <1>1, <2>1 DEF TwoCopiesAgree
  <2>6. QED
    BY <2>1, <2>2, <2>3, <2>4, <2>5
<1>3. CASE dbOpen'
  <2>1. /\ DOMAIN rows' \subseteq DOMAIN video'
        /\ \A p \in DOMAIN rows' :
             \/ p \in DOMAIN rows /\ rows'[p] = rows[p]
             \/ p \in DOMAIN sidecar' /\ rows'[p] = sidecar[p]
             \/ p \notin DOMAIN sidecar' /\ rows'[p] = None
        /\ rows' = [p \in DOMAIN rows' |-> rows'[p]]
    BY <1>1, <1>3 DEF Scan, SyncFromFiles, FilesIn, Meta
  <2>2. rows' \in [DOMAIN rows' -> 0 .. take]
    <3>1. \A p \in DOMAIN rows' : rows'[p] \in 0 .. take
      BY <2>1 DEF FilesOK, FilingInv, TakesOK
    <3>2. QED
      BY <2>1, <3>1
  <2>3. FilesOK'
    BY <1>1, <2>1, <2>2 DEF FilesOK
  <2>4. TellsOfTakes'
    BY <1>1, <2>1 DEF TellsOfTakes
  <2>5. TellsTheLatest'
    BY <1>1, <2>1 DEF TellsTheLatest
  <2>6. TwoCopiesAgree'
    BY <1>1, <2>1 DEF TwoCopiesAgree
  <2>7. QED
    BY <1>3, <2>3, <2>4, <2>5, <2>6
<1>4. QED
  BY <1>2, <1>3

LEMMA BackendKeeps == LibraryInv /\ BackendCreatesFile => LibraryInv'
<1> SUFFICES ASSUME LibraryInv, BackendCreatesFile PROVE LibraryInv'
  OBVIOUS
<1> DEFINE q == paths[take]
<1>1. /\ UNCHANGED <<take, filed, finalized, pipeline, backend, timers>>
      /\ UNCHANGED <<dbOpen, dir, paths, second, sidecar, rows>>
      /\ video' = With(video, q, take) /\ ~finalized
  BY DEF BackendCreatesFile, LibraryInv, PipelineOK, vars, takeVars, folderVars, pathVars
<1> USE DEF LibraryInv
<1>2. FilingInv' /\ PipelineOK'
  BY <1>1 DEF FilingInv, TakesOK, FiledOnce, PipelineOK
<1>3. take \in Takes /\ filed[take] = 0
  BY <1>1 DEF FilingInv
<1>4. q \in Path /\ q[2] <= take
  BY <1>3 DEF PathsOK
<1>5. /\ DOMAIN video' = DOMAIN video \cup {q} /\ video'[q] = take
      /\ \A p \in DOMAIN video : p # q => video'[p] = video[p]
      /\ video' \in [DOMAIN video' -> 1 .. take]
  BY <1>1, <1>3 DEF With, FilesOK
<1>6. FilesOK'
  BY <1>1, <1>4, <1>5 DEF FilesOK
<1>7. TellsTheLatest'
  BY <1>1, <1>3, <1>5 DEF TellsTheLatest
<1>8. PathsOK' /\ TellsOfTakes' /\ TwoCopiesAgree' /\ ClosedTableIsOld'
  BY <1>1 DEF PathsOK, TellsOfTakes, TwoCopiesAgree, ClosedTableIsOld
<1>9. QED
  BY <1>2, <1>6, <1>7, <1>8

(* The clock and the folder touch no file.                                   *)
LEMMA FolderKeeps ==
  ASSUME LibraryInv, SecondPasses \/ FolderComesOrGoes \/ ResetRecordDir
  PROVE  LibraryInv'
<1>1. /\ UNCHANGED <<take, filed, finalized, pipeline, backend, timers>>
      /\ UNCHANGED <<dbOpen, paths, video, sidecar, rows>>
      /\ dir' \in Dirs /\ second' \subseteq second
  BY DEF SecondPasses, FolderComesOrGoes, ResetRecordDir, vars, takeVars, folderVars, pathVars,
     LibraryInv, PathsOK, Dirs
<1> USE DEF LibraryInv
<1>2. FilingInv' /\ PipelineOK'
  BY <1>1 DEF FilingInv, TakesOK, FiledOnce, PipelineOK
<1>3. PathsOK' /\ FilesOK'
  BY <1>1 DEF PathsOK, FilesOK
<1>4. TellsOfTakes' /\ TellsTheLatest' /\ TwoCopiesAgree' /\ ClosedTableIsOld'
  BY <1>1 DEF TellsOfTakes, TellsTheLatest, TwoCopiesAgree, ClosedTableIsOld
<1>5. QED
  BY <1>2, <1>3, <1>4

LEMMA PageKeeps ==
  ASSUME LibraryInv, Refresh \/ \E p \in shown : Remove(p)
  PROVE  LibraryInv'
<1>1. /\ UNCHANGED <<take, filed, finalized, pipeline, backend, timers>>
      /\ UNCHANGED <<dbOpen, dir, paths, second>> /\ dbOpen' \in BOOLEAN
  BY DEF Refresh, Remove, vars, takeVars, folderVars, pathVars, LibraryInv, PathsOK
<1>2. FilingInv' /\ PipelineOK' /\ PathsOK'
  BY <1>1 DEF LibraryInv, FilingInv, TakesOK, FiledOnce, PipelineOK, PathsOK
<1>3. /\ FilesOK' /\ TellsOfTakes' /\ TellsTheLatest' /\ TwoCopiesAgree'
      /\ ~dbOpen' => rows' = rows
  <2>1. CASE Refresh
    <3>1. /\ UNCHANGED <<video, sidecar>> /\ Scan(rows)
          /\ video = [p \in DOMAIN video |-> video[p]]
          /\ sidecar = [p \in DOMAIN sidecar |-> sidecar[p]]
      BY <2>1 DEF Refresh, LibraryInv, FilesOK
    <3>2. QED
      BY <1>1, <3>1, ScanKeeps
  <2>2. ASSUME NEW p \in shown, Remove(p)
        PROVE  /\ FilesOK' /\ TellsOfTakes' /\ TellsTheLatest' /\ TwoCopiesAgree'
               /\ ~dbOpen' => rows' = rows
    <3>1. /\ Scan(Without(rows, p))
          /\ DOMAIN Without(rows, p) \subseteq DOMAIN rows
          /\ \A q \in DOMAIN Without(rows, p) : Without(rows, p)[q] = rows[q]
      BY <2>2 DEF Remove, Without
    <3>2. /\ DOMAIN sidecar' \subseteq DOMAIN sidecar
          /\ sidecar' = [q \in DOMAIN sidecar' |-> sidecar[q]]
      BY <2>2 DEF Remove, Without
    <3>3. /\ DOMAIN video' \subseteq DOMAIN video
          /\ video' = [q \in DOMAIN video' |-> video[q]]
      BY <2>2 DEF Remove, Without, LibraryInv, FilesOK
    <3>4. QED
      BY <1>1, <3>1, <3>2, <3>3, ScanKeeps
  <2>3. QED
    BY <2>1, <2>2
<1>4. ClosedTableIsOld'
  BY <1>1, <1>3 DEF LibraryInv, ClosedTableIsOld
<1>5. QED
  BY <1>2, <1>3, <1>4 DEF LibraryInv

(* After a restart no take is left that could still be filed.                *)
LEMMA RestartKeeps == LibraryInv /\ Restart => LibraryInv'
<1> SUFFICES ASSUME LibraryInv, Restart PROVE LibraryInv'
  OBVIOUS
<1>1. /\ UNCHANGED <<take, filed, dir, paths, video, sidecar>>
      /\ finalized' = TRUE /\ pipeline' = None /\ backend' = "stopped" /\ timers' = 0
      /\ dbOpen' \in BOOLEAN /\ second' = {} /\ Scan(rows)
  BY DEF Restart
<1>2. FilingInv' /\ PipelineOK' /\ PathsOK'
  BY <1>1 DEF LibraryInv, FilingInv, TakesOK, FiledOnce, PipelineOK, PathsOK
<1>3. /\ video = [p \in DOMAIN video |-> video[p]]
      /\ sidecar = [p \in DOMAIN sidecar |-> sidecar[p]]
  BY DEF LibraryInv, FilesOK
<1>4. FilesOK' /\ TellsOfTakes' /\ TellsTheLatest' /\ TwoCopiesAgree'
  BY <1>1, <1>3, ScanKeeps
<1>5. ClosedTableIsOld'
  BY <1>1 DEF ClosedTableIsOld
<1>6. QED
  BY <1>2, <1>4, <1>5 DEF LibraryInv

LEMMA NextLibrary == LibraryInv /\ [RecordingsNext]_allVars => LibraryInv'
<1>1. LibraryInv /\ UNCHANGED allVars => LibraryInv'
  BY DEF allVars, vars, takeVars, libraryVars, folderVars, pathVars, LibraryInv, FilingInv, TakesOK,
     FiledOnce, PipelineOK, PathsOK, FilesOK, TellsOfTakes, TellsTheLatest,
     TwoCopiesAgree, ClosedTableIsOld
<1>2. QED
  BY <1>1, RecorderKeeps, BackendKeeps, FolderKeeps, PageKeeps, RestartKeeps DEF RecordingsNext

LEMMA LibraryAlways == RecordingsSpec => []LibraryInv
BY InitLibrary, NextLibrary, PTL DEF RecordingsSpec

-----------------------------------------------------------------------------
(* The theorems *)

(* The metadata of a take is written once at most, also when the program     *)
(* ends and starts again in between.                                         *)
THEOREM RecordingsFiledOnce == RecordingsSpec => []FiledOnce
<1>1. LibraryInv => FiledOnce
  BY DEF LibraryInv, FilingInv
<1>2. QED
  BY <1>1, LibraryAlways, PTL

(* Nothing is recorded without permission, also after a restart.             *)
THEOREM RecordingsRevokedStops == RecordingsSpec => []RevokedStops
<1>1. RecordingsInit => RevokedStops
  BY DEF RecordingsInit, Init, RevokedStops
<1>2. RevokedStops /\ [RecordingsNext]_allVars => RevokedStops'
  <2>1. RevokedStops /\ Restart => RevokedStops'
    BY DEF Restart, RevokedStops
  <2>2. RecordingsNext => [Next]_vars \/ Restart
    BY DEF RecordingsNext, RecorderSteps, BackendCreatesFile, SecondPasses, FolderComesOrGoes,
       ResetRecordDir, Refresh, Remove
  <2>3. UNCHANGED allVars => UNCHANGED vars
    BY DEF allVars
  <2>4. QED
    BY <2>1, <2>2, <2>3, NextRevoked
<1>3. QED
  BY <1>1, <1>2, PTL DEF RecordingsSpec

(* What the table says of the video of a filed take is of that take or of a  *)
(* later one under its name, whatever was deleted, moved, scanned, or        *)
(* recorded while the table could not be opened.                             *)
THEOREM RecordingsMetadata == RecordingsSpec => []MetadataIsTrue
<1>1. LibraryInv => MetadataIsTrue
  <2> SUFFICES ASSUME LibraryInv, NEW p \in DOMAIN rows \cap DOMAIN video,
                      filed[video[p]] > 0, paths[video[p]] = p
               PROVE  \/ rows[p] >= video[p] /\ paths[rows[p]] = p
                      \/ rows[p] = None /\ p \notin DOMAIN sidecar
    BY DEF MetadataIsTrue
  <2>1. \/ rows[p] >= video[p]
        \/ rows[p] = None /\ p \notin DOMAIN sidecar
    BY DEF LibraryInv, TellsTheLatest
  <2>2. rows[p] >= video[p] => rows[p] # None
    BY DEF LibraryInv, FilesOK, FilingInv, TakesOK
  <2>3. rows[p] # None => paths[rows[p]] = p
    BY DEF LibraryInv, TellsOfTakes
  <2>4. QED
    BY <2>1, <2>2, <2>3
<1>2. QED
  BY <1>1, LibraryAlways, PTL

(* Sidecar and row of a video never tell of different takes, whether the     *)
(* program that wrote or removed one of them could open the table or not.    *)
THEOREM RecordingsCopiesAgree == RecordingsSpec => []TwoCopiesAgree
<1>1. LibraryInv => TwoCopiesAgree
  BY DEF LibraryInv
<1>2. QED
  BY <1>1, LibraryAlways, PTL
=============================================================================
