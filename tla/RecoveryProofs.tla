--------------------------- MODULE RecoveryProofs ---------------------------
(* Proofs about Recovery, for any number of writes, crashes and failures.    *)
EXTENDS Recovery, SequenceTheorems, FiniteSetTheorems, WellFoundedInduction, TLAPS

-----------------------------------------------------------------------------
(***************************************************************************)
(* The parts of the invariant that speak of files.  They are about logs lg,*)
(* tables tb, and what a descriptor says: its last numbers d and files fs. *)
(***************************************************************************)

Footer(s) == [kind |-> "footer", val |-> Len(s) + 1]

\* The cells c begin with a table of the records s and end with its footer: one
\* or more copies of that table.
Copied(c, s) ==
  /\ Len(c) >= Len(s) + 2
  /\ \A i \in 1..(Len(s) + 2) : c[i] = Cells(s)[i]
  /\ c[Len(c)] = Footer(s)

\* The records in the cells c.
Records(c) == {c[i].val : i \in {j \in DOMAIN c : c[j].kind = "record"}}

\* The logs that have to be replayed and have something in them.
Kept(lg, d) == [n \in {k \in DOMAIN lg : k >= d.log /\ lg[k] # <<>>} |-> lg[n]]

\* The number that the table of log n gets whenever logs are replayed, and the
\* files that replaying the logs in L adds.
PlanOf(d, n) == IF n = d.log THEN d.next + 1 ELSE d.next + 2
Planned(d, L) == {[number |-> PlanOf(d, n), level |-> 0] : n \in L}

\* Replaying the logs K moves the last sequence number to r or beyond.
Below(K, d, r) ==
  r <= d.last \/ \E n \in DOMAIN K : \E x \in ToSet(K[n]) : r <= x

\* No file number and no sequence number is used twice.
Sound(K, tb, d) ==
  /\ d.log < d.next
  /\ \A t \in DOMAIN tb : \A r \in Records(tb[t]) : Below(K, d, r)

\* There are at most two logs to replay, the one that the descriptor names and
\* the one that the process switched to afterwards.
KeptInv(K, d) ==
  /\ DOMAIN K \subseteq {d.log, d.next}
  /\ d.next \in DOMAIN K => d.log \in DOMAIN K
  /\ \A n, k \in DOMAIN K :
       n < k => \A a \in ToSet(K[n]), b \in ToSet(K[k]) : a < b

\* What an earlier attempt left in a table file is what this one would write.
LeftInv(K, tb, d) ==
  \A t \in DOMAIN tb :
    t >= d.next =>
      \E n \in DOMAIN K : t = PlanOf(d, n) /\ (tb[t] = <<>> \/ Copied(tb[t], K[n]))

\* Files are there, and newer ones have higher numbers and newer records and are
\* asked first; what is only in logs is newer still.
FilesInv(K, tb, d, fs) ==
  /\ \A f \in fs : f.number \in DOMAIN tb /\ f.number < d.next
  /\ \A f, g \in fs : f.number = g.number => f = g
  /\ \A f, g \in fs : f.number < g.number =>
       /\ f.level >= g.level
       /\ \A a \in Contents(tb[f.number]), b \in Contents(tb[g.number]) : a < b
  /\ \A f \in fs, n \in DOMAIN K :
       \A a \in Contents(tb[f.number]), b \in ToSet(K[n]) : a < b

CoverInv(K, tb, ac, fs) ==
  \A r \in ac : \/ \E f \in fs : r \in Contents(tb[f.number])
                \/ \E n \in DOMAIN K : r \in ToSet(K[n])

Intact(K, tb, ac, d, fs) ==
  KeptInv(K, d) /\ LeftInv(K, tb, d) /\ FilesInv(K, tb, d, fs)
    /\ CoverInv(K, tb, ac, fs)

\* A descriptor beyond the one in use is that of an opening that was given up,
\* which wanted to add the same files.
AttemptsInv(K, mf, d, fs) ==
  /\ \A k \in DOMAIN mf : k <= d.next
  /\ d.next \in DOMAIN mf =>
       Files(mf[d.next]) \subseteq fs \cup Planned(d, DOMAIN K)

HasMeta(edits) == \E i \in DOMAIN edits : IsMeta(edits, i)

\* What holds of descriptor m whatever happened before, and what holds unless
\* a harmful event did.
Sane(lg, tb, mf, m) ==
  /\ HasMeta(mf[m]) /\ m < Meta(mf[m]).next
  /\ Sound(Kept(lg, Meta(mf[m])), tb, Meta(mf[m]))

Good(lg, tb, mf, ac, m) ==
  /\ m \in DOMAIN mf
  /\ Intact(Kept(lg, Meta(mf[m])), tb, ac, Meta(mf[m]), Files(mf[m]))
  /\ AttemptsInv(Kept(lg, Meta(mf[m])), mf, Meta(mf[m]), Files(mf[m]))

SaneNow(m) == Sane(logs, tables, manifests, m)
GoodNow(m) == Good(logs, tables, manifests, acked, m)

-----------------------------------------------------------------------------
(***************************************************************************)
(* The inductive invariant.                                                *)
(***************************************************************************)

LogsInv ==
  /\ IsFiniteSet(DOMAIN logs)
  /\ \A n \in DOMAIN logs : \A r \in ToSet(logs[n]) : r <= Last(logs[n])

PhaseInv ==
  /\ phase \in {"down", "corrupt", "unread"} => pc = "idle"
  /\ phase = "opening" => pc # "idle"
  /\ pc = "thrown" => phase = "open"
  /\ phase = "open" => pc \notin {"init", "read", "replay"}
  /\ phase # "open" => mem = <<>> /\ imm = <<>> /\ ~inflight /\ ~bgError
  /\ phase = "corrupt" => harmed \/ current = Torn
  /\ phase = "down" \/ pc \in {"init", "read"} => edit = NoEdit
  /\ pc \in {"snapshot", "edit"} => edit.meta
  /\ pc = "read" => current # Absent
  /\ pc = "point" => current = Torn
  /\ current = Torn =>
       pc = "point" \/ (pc \in {"idle", "read"} /\ (phase = "open" => harmed /\ bgError))

\* Before there is a database.
New == current = Absent \/ (pc \in {"truncate", "point"} /\ ~edit.meta)

NewInv ==
  /\ New =>
       /\ DOMAIN logs = {} /\ DOMAIN tables = {} /\ acked = {}
       /\ \/ phase = "down"
          \/ phase = "opening" /\ pc \in {"init", "truncate", "point"}
       /\ \A k \in DOMAIN manifests :
            /\ k = 1 /\ Files(manifests[k]) = {}
            /\ HasMeta(manifests[k]) /\ Meta(manifests[k]) = FirstMeta
       /\ pc \in {"truncate", "point"} =>
            vs.manifest = 1 /\ 1 \in DOMAIN manifests /\ edit = NoEdit
  /\ pc = "init" => current = Absent
  /\ pc = "truncate" /\ ~edit.meta => current = Absent

DiskInv ==
  current > 0 => /\ current \in DOMAIN manifests => SaneNow(current)
                 /\ ~harmed => GoodNow(current)

\* The descriptor that is read, or that is replaced by an opening.
Base == Meta(manifests[current])

\* Opening, before the edit is written.
BaseInv ==
  /\ current > 0 /\ current \in DOMAIN manifests
  /\ vs.manifest = Base.next /\ vs.files = Files(manifests[current])
  /\ vs.next > Base.next /\ vs.last >= Base.last

Replaying == pc = "replay" \/ (phase = "opening" /\ pc = "build")

\* The logs that were read are reckoned with, and their tables are written.
ReplayInv ==
  Replaying =>
    /\ BaseInv
    /\ \A n \in ToSet(replay) : n \in DOMAIN logs /\ n >= Base.log
    /\ \A n \in DOMAIN logs :
         n >= Base.log => \/ n \in ToSet(replay)
                          \/ n < vs.next /\ \A r \in ToSet(logs[n]) : r <= vs.last
    /\ pc = "build" =>
         /\ replay # <<>>
         /\ table.records = logs[Head(replay)] /\ table.records # <<>>

TablesDone(K, L) ==
  \A n \in L : /\ PlanOf(Base, n) \in DOMAIN tables
               /\ PlanOf(Base, n) < vs.next
               /\ Copied(tables[PlanOf(Base, n)], K[n])

ReplayedInv ==
  Replaying /\ ~harmed =>
    LET K == Kept(logs, Base)
        L == DOMAIN K \ ToSet(replay)
    IN /\ Ascending(replay)
       /\ edit.adds = Planned(Base, L)
       /\ TablesDone(K, L)
       /\ pc = "replay" =>
            \A n \in ToSet(replay) \cap DOMAIN K :
              n = Base.log \/ Base.log \notin ToSet(replay)
                => vs.next = PlanOf(Base, n)
       /\ pc = "build" => /\ table.number = PlanOf(Base, Head(replay))
                          /\ vs.next = table.number + 1

Switching ==
  phase = "opening" /\ pc \in {"snapshot", "edit", "truncate", "point"} /\ edit.meta

OpeningInv ==
  Switching /\ pc # "point" =>
    /\ BaseInv
    /\ \A n \in DOMAIN logs :
         n >= Base.log => \A r \in ToSet(logs[n]) : r <= vs.last
    /\ ~harmed => LET K == Kept(logs, Base) IN
                  edit.adds = Planned(Base, DOMAIN K) /\ TablesDone(K, DOMAIN K)

\* Until CURRENT names the new descriptor.
OpenedInv ==
  Switching =>
    /\ edit.log = logFile
    /\ logFile \in DOMAIN logs /\ logs[logFile] = <<>> /\ vs.next = logFile + 1
    /\ \A n \in DOMAIN logs : n < vs.next
    /\ pc # "snapshot" =>
         /\ edit.next = vs.next /\ edit.last = vs.last
         /\ vs.manifest \in DOMAIN manifests
         /\ ~harmed => vs.files \subseteq Files(manifests[vs.manifest])
    /\ pc \in {"truncate", "point"} =>
         /\ HasMeta(manifests[vs.manifest]) /\ Meta(manifests[vs.manifest]) = edit
         /\ ~harmed => Files(manifests[vs.manifest]) = vs.files \cup edit.adds
    /\ pc = "point" => vs.manifest > 0 /\ SaneNow(vs.manifest)
                         /\ (~harmed => GoodNow(vs.manifest))

Running == phase = "open" \/ (phase = "opening" /\ pc \in {"list", "unlink"})
Building == phase = "open" /\ pc \in {"build", "snapshot", "edit", "truncate", "point"}

\* The log in use is what the memtable is.
MemoryInv ==
  Running =>
    /\ logFile \in DOMAIN logs
    /\ logs[logFile] = mem \o (IF inflight THEN <<vs.last + 1>> ELSE <<>>)
    /\ \A n \in DOMAIN logs : n < vs.next
    /\ \A r \in ToSet(mem) \cup ToSet(imm) : r <= vs.last
    /\ \A t \in DOMAIN tables : \A r \in Records(tables[t]) : r <= vs.last
    /\ bgError => pc = "idle"
    /\ Building => imm # <<>> /\ table.records = imm
    /\ vs.manifest > 0
    /\ current = vs.manifest \/ pc = "point" \/ vs.manifest \notin DOMAIN manifests
    /\ vs.manifest \notin DOMAIN manifests => bgError /\ harmed

\* The descriptor in use.
Mine == Meta(manifests[vs.manifest])

AppliedInv ==
  Running /\ vs.manifest \in DOMAIN manifests =>
    /\ pc = "point" => SaneNow(vs.manifest)
    /\ vs.next >= Mine.next /\ logFile >= Mine.log
    /\ \/ vs.last <= Mine.last
       \/ \E n \in DOMAIN logs : n >= Mine.log /\ vs.last \in ToSet(logs[n])
    /\ pc \notin {"truncate", "point"} => vs.log = Mine.log
    /\ pc = "unlink" => \A t \in trash : /\ t[1] = "log" => t[2] < Mine.log
                                         /\ t[1] = "manifest" => t[2] < vs.manifest
    /\ pc \in {"snapshot", "edit", "truncate", "point"} =>
         edit.meta /\ edit.log = logFile
    /\ pc = "edit" =>
         /\ edit.next = vs.next
         /\ \A t \in DOMAIN tables : \A r \in Records(tables[t]) : r <= edit.last
         /\ vs.last <= edit.last \/ vs.last \in ToSet(logs[logFile])
    /\ pc \in {"truncate", "point"} => Mine = edit

\* A memtable that was switched off is the log that the descriptor names; the
\* one in use is the next.
FlushInv ==
  Running /\ ~harmed =>
    /\ pc = "point" => GoodNow(vs.manifest)
    /\ \A t \in DOMAIN tables : t < vs.next
    /\ imm = <<>> \/ pc \in {"truncate", "point"} =>
         logFile = Mine.log /\ vs.next = Mine.next
    /\ imm # <<>> /\ pc \notin {"truncate", "point"} =>
         /\ logFile = Mine.next /\ Mine.log \in DOMAIN logs /\ logs[Mine.log] = imm
         /\ pc \in {"list", "unlink", "idle"} /\ ~bgError => vs.next = Mine.next + 1
         /\ pc \in {"build", "snapshot", "edit"} => vs.next = Mine.next + 2
         /\ pc = "thrown" => vs.next \in {Mine.next + 1, Mine.next + 2}
    /\ Building /\ pc \notin {"truncate", "point"} => table.number = Mine.next + 1
    /\ Building => vs.next = table.number + 1

VisibleInv ==
  Running /\ ~harmed =>
    /\ Building /\ pc = "build" => edit.adds = {}
    /\ Building /\ pc # "build" =>
         /\ edit.adds = {[number |-> table.number, level |-> PickLevel]}
         /\ table.number \in DOMAIN tables
         /\ Copied(tables[table.number], imm)
    /\ Files(manifests[vs.manifest]) =
         vs.files \cup (IF pc \in {"truncate", "point"} THEN edit.adds ELSE {})
    /\ acked \subseteq Visible
    /\ pc = "unlink" =>
         \A t \in trash : t[1] = "table" => \A f \in vs.files : t[2] # f.number

IInv ==
  /\ TypeOK /\ LogsInv /\ PhaseInv /\ NewInv /\ DiskInv /\ ReplayInv
  /\ ReplayedInv /\ OpeningInv /\ OpenedInv /\ MemoryInv /\ AppliedInv
  /\ FlushInv /\ VisibleInv

-----------------------------------------------------------------------------
(***************************************************************************)
(* Files.                                                                  *)
(***************************************************************************)

LEMMA WithoutFacts ==
  ASSUME NEW files, NEW f
  PROVE  /\ DOMAIN Without(files, f) = DOMAIN files \ {f}
         /\ \A n \in DOMAIN files \ {f} : Without(files, f)[n] = files[n]
BY DEF Without

\* An edit at the end of a descriptor: its files are added, and its numbers, if
\* it has some, are the last ones.
LEMMA Appended ==
  ASSUME NEW es \in Seq(Edits), NEW e \in Edits
  PROVE  /\ Files(es \o <<e>>) = Files(es) \cup e.adds
         /\ e.meta => HasMeta(es \o <<e>>) /\ Meta(es \o <<e>>) = e
         /\ ~e.meta /\ HasMeta(es) =>
              HasMeta(es \o <<e>>) /\ Meta(es \o <<e>>) = Meta(es)
<1> DEFINE ss == es \o <<e>>
           n == Len(es) + 1
<1>1. /\ n \in Nat /\ DOMAIN es = 1..Len(es)
      /\ DOMAIN ss = 1..n /\ ss[n] = e
      /\ \A i \in DOMAIN es : ss[i] = es[i]
  OBVIOUS
<1>2. DOMAIN ss = DOMAIN es \cup {n} /\ n \notin DOMAIN es
      /\ (\A i \in DOMAIN es : i < n) /\ (\A i \in DOMAIN ss : i <= n)
  BY <1>1
<1> HIDE DEF ss, n
<1>3. Files(ss) = Files(es) \cup e.adds
  <2>1. ASSUME NEW x PROVE x \in Files(ss) <=> x \in Files(es) \cup e.adds
    BY <1>1, <1>2, SMTT(30) DEF Files
  <2> QED BY <2>1
<1>4. ASSUME e.meta
      PROVE  HasMeta(ss) /\ Meta(ss) = e
  <2>0. ss[n].meta /\ \A j \in DOMAIN ss : j <= n
    BY <1>1, <1>2, <1>4
  <2>1. IsMeta(ss, n)
    BY <2>0 DEF IsMeta
  <2>2. \A i \in DOMAIN ss : IsMeta(ss, i) => i = n
    BY <1>1, <1>2, <2>0 DEF IsMeta
  <2>3. n \in DOMAIN ss
    BY <1>2
  <2>4. (CHOOSE i \in DOMAIN ss : IsMeta(ss, i)) = n
    BY <2>1, <2>2, <2>3
  <2> QED BY <1>1, <2>1, <2>3, <2>4 DEF HasMeta, Meta
<1>5. ASSUME ~e.meta, HasMeta(es)
      PROVE  HasMeta(ss) /\ Meta(ss) = Meta(es)
  <2>1. \A i \in DOMAIN ss : IsMeta(ss, i) <=> i \in DOMAIN es /\ IsMeta(es, i)
    BY <1>1, <1>2, <1>5 DEF IsMeta
  <2>2. PICK i \in DOMAIN es : IsMeta(es, i)
    BY <1>5 DEF HasMeta
  <2>3. \A j \in DOMAIN es : IsMeta(es, j) => j = i
    BY <2>2, <1>1 DEF IsMeta
  <2>4. (CHOOSE j \in DOMAIN es : IsMeta(es, j)) = i
    BY <2>2, <2>3
  <2>5. (CHOOSE j \in DOMAIN ss : IsMeta(ss, j)) = i
    BY <2>1, <2>2, <2>3, <1>2
  <2> QED BY <2>1, <2>2, <2>4, <2>5, <1>1, <1>2 DEF HasMeta, Meta
<1> QED BY <1>3, <1>4, <1>5 DEF ss

LEMMA MetaType ==
  ASSUME NEW es \in Seq(Edits), HasMeta(es)
  PROVE  Meta(es) \in Edits /\ Meta(es).meta
BY DEF HasMeta, Meta, IsMeta

\* What a table of the records s looks like, cell by cell.
TableOf(c, s) ==
  /\ c \in Seq(CellSet) /\ Len(c) = Len(s) + 2
  /\ \A i \in 1..Len(s) : c[i].kind = "record" /\ c[i].val = s[i]
  /\ c[Len(s) + 1].kind = "index" /\ c[Len(s) + 1].val = Len(s)
  /\ c[Len(s) + 2] = Footer(s)

LEMMA CellsFacts ==
  ASSUME NEW s \in Seq(Nat)
  PROVE  TableOf(Cells(s), s)
<1> DEFINE r == [i \in 1..Len(s) |-> [kind |-> "record", val |-> s[i]]]
           e == <<[kind |-> "index", val |-> Len(s)], Footer(s)>>
<1>1. r \in Seq(CellSet)
  BY DEF CellSet
<1>2. \A i \in 1..Len(s) : r[i].kind = "record" /\ r[i].val = s[i]
  OBVIOUS
<1>3. e \in Seq(CellSet)
  BY DEF CellSet, Footer
<1>4. e[1].kind = "index" /\ e[1].val = Len(s) /\ e[2] = Footer(s)
  OBVIOUS
<1>5. Cells(s) = r \o e
  BY DEF Cells, Footer
<1>6. Len(r) = Len(s) /\ Len(e) = 2 /\ Len(s) \in Nat
  OBVIOUS
<1> HIDE DEF r, e
<1> DEFINE t == r \o e
<1>7. /\ t \in Seq(CellSet) /\ Len(t) = Len(r) + Len(e)
      /\ \A i \in 1..Len(r) : t[i] = r[i]
      /\ \A i \in 1..Len(e) : t[Len(r) + i] = e[i]
  BY <1>1, <1>3
<1> HIDE DEF t
<1>8. /\ Len(t) = Len(s) + 2
      /\ \A i \in 1..Len(s) : t[i].kind = "record" /\ t[i].val = s[i]
  BY <1>2, <1>6, <1>7
<1>9. t[Len(s) + 1] = e[1] /\ t[Len(s) + 2] = e[2]
  BY <1>6, <1>7
<1>10. TableOf(t, s)
  <2>1. t[Len(s) + 1].kind = "index" /\ t[Len(s) + 1].val = Len(s)
    BY <1>4, <1>9
  <2> QED BY <1>4, <1>7, <1>8, <1>9, <2>1 DEF TableOf
<1> QED BY <1>5, <1>10 DEF t

\* One or more copies of a table hold the records of one.
LEMMA CopiedContents ==
  ASSUME NEW c \in Seq(CellSet), NEW s \in Seq(Nat), Copied(c, s)
  PROVE  c # <<>> /\ Contents(c) = ToSet(s)
<1>1. /\ c[Len(c)].kind = "footer" /\ c[Len(c)].val = Len(s) + 1
      /\ Len(c) >= Len(s) + 2 /\ Len(s) \in Nat
  BY DEF Copied, Footer
<1> DEFINE t == Cells(s)
<1>0. TableOf(t, s) /\ \A i \in 1..(Len(s) + 2) : c[i] = t[i]
  BY CellsFacts DEF Copied
<1> HIDE DEF t
<1>2. c[Len(s) + 1].kind = "index" /\ c[Len(s) + 1].val = Len(s)
  BY <1>0, <1>1 DEF TableOf
<1>3. /\ DOMAIN c = 1..Len(c) /\ Len(c) \in Nat
      /\ \A i \in 1..Len(s) : c[i].kind = "record" /\ c[i].val = s[i]
  BY <1>0, <1>1 DEF TableOf
<1>4. c # <<>>
  BY <1>1
<1>5. Contents(c) =
        {c[i].val : i \in {j \in DOMAIN c : j <= Len(s) /\ c[j].kind = "record"}}
  BY <1>1, <1>2, <1>4 DEF Contents
<1>6. {j \in DOMAIN c : j <= Len(s) /\ c[j].kind = "record"} = 1..Len(s)
  BY <1>1, <1>3
<1>7. Contents(c) = {c[i].val : i \in 1..Len(s)}
  BY <1>5, <1>6
<1> QED BY <1>3, <1>4, <1>7 DEF ToSet

LEMMA ContentsRecords ==
  ASSUME NEW c \in Seq(CellSet)
  PROVE  Contents(c) \subseteq Records(c) /\ Records(c) \subseteq Nat
<1>1. Contents(c) \subseteq Records(c)
  BY DEF Contents, Records
<1>2. \A i \in DOMAIN c : c[i].val \in Nat
  <2>1. \A x \in CellSet : x.val \in Nat
    BY DEF CellSet
  <2> QED BY <2>1
<1> QED BY <1>1, <1>2 DEF Records

LEMMA CopiedAgain ==
  ASSUME NEW c \in Seq(CellSet), NEW s \in Seq(Nat), c = <<>> \/ Copied(c, s)
  PROVE  c \o Cells(s) \in Seq(CellSet) /\ Copied(c \o Cells(s), s)
<1> DEFINE t == Cells(s)
<1>0. TableOf(t, s)
  BY CellsFacts
<1> HIDE DEF t
<1>1. /\ t \in Seq(CellSet) /\ Len(t) = Len(s) + 2
      /\ t[Len(s) + 2] = Footer(s) /\ Len(s) \in Nat /\ Len(c) \in Nat
  <2>1. Len(s) \in Nat /\ Len(c) \in Nat
    OBVIOUS
  <2> QED BY <1>0, <2>1 DEF TableOf
<1>2. /\ c \o t \in Seq(CellSet)
      /\ Len(c \o t) = Len(c) + Len(s) + 2
      /\ (c \o t)[Len(c) + Len(s) + 2] = Footer(s)
  BY <1>1
<1>3. \A i \in 1..(Len(s) + 2) : (c \o t)[i] = t[i]
  <2>1. CASE c = <<>>
    BY <2>1, <1>1
  <2>2. CASE Copied(c, s)
    <3>1. Len(c) >= Len(s) + 2 /\ \A i \in 1..(Len(s) + 2) : c[i] = t[i]
      BY <2>2 DEF Copied, t
    <3> QED BY <1>1, <3>1
  <2> QED BY <2>1, <2>2
<1> QED BY <1>1, <1>2, <1>3 DEF Copied, t

LEMMA RecordsAppended ==
  ASSUME NEW c \in Seq(CellSet), NEW e \in Seq(CellSet)
  PROVE  Records(c \o e) \subseteq Records(c) \cup Records(e)
<1>1. /\ Len(c) \in Nat /\ Len(e) \in Nat
      /\ DOMAIN c = 1..Len(c) /\ DOMAIN e = 1..Len(e)
      /\ DOMAIN (c \o e) = 1..(Len(c) + Len(e))
  OBVIOUS
<1>2. ASSUME NEW i \in DOMAIN (c \o e), (c \o e)[i].kind = "record"
      PROVE  (c \o e)[i].val \in Records(c) \cup Records(e)
  <2>1. CASE i \in DOMAIN c
    <3>1. (c \o e)[i] = c[i]
      BY <2>1
    <3> QED BY <2>1, <3>1, <1>2 DEF Records
  <2>2. CASE i \notin DOMAIN c
    <3>1. i - Len(c) \in DOMAIN e /\ (c \o e)[i] = e[i - Len(c)]
      BY <2>2, <1>1
    <3> QED BY <3>1, <1>2 DEF Records
  <2> QED BY <2>1, <2>2
<1> QED BY <1>2 DEF Records

LEMMA RecordsOfCells ==
  ASSUME NEW s \in Seq(Nat), NEW n \in 0..(Len(s) + 2)
  PROVE  /\ SubSeq(Cells(s), 1, n) \in Seq(CellSet)
         /\ Records(SubSeq(Cells(s), 1, n)) \subseteq ToSet(s)
<1> DEFINE t == Cells(s)
<1>0. TableOf(t, s)
  BY CellsFacts
<1> HIDE DEF t
<1>1. /\ t \in Seq(CellSet) /\ Len(t) = Len(s) + 2
      /\ Len(s) \in Nat /\ DOMAIN s = 1..Len(s)
  <2>1. Len(s) \in Nat /\ DOMAIN s = 1..Len(s)
    OBVIOUS
  <2> QED BY <1>0, <2>1 DEF TableOf
<1> DEFINE u == SubSeq(t, 1, n)
<1>2. /\ u \in Seq(CellSet) /\ DOMAIN u = 1..n
      /\ \A i \in 1..n : u[i] = t[i]
  BY <1>1
<1> HIDE DEF u
<1>3. ASSUME NEW i \in DOMAIN u, u[i].kind = "record"
      PROVE  u[i].val \in ToSet(s)
  <2>1. CASE i \in 1..Len(s)
    <3>1. u[i].val = s[i]
      BY <2>1, <1>0, <1>2 DEF TableOf
    <3> QED BY <3>1, <2>1, <1>1 DEF ToSet
  <2>2. CASE i = Len(s) + 1
    BY <2>2, <1>2, <1>3, <1>0 DEF TableOf
  <2>3. CASE i = Len(s) + 2
    BY <2>3, <1>2, <1>3, <1>0 DEF Footer, TableOf
  <2> QED BY <1>1, <1>2, <2>1, <2>2, <2>3, SMTT(30)
<1>4. Records(u) \subseteq ToSet(s)
  BY <1>3 DEF Records
<1> QED BY <1>2, <1>4 DEF u, t

-----------------------------------------------------------------------------
(***************************************************************************)
(* What changes of the directory do to the parts of the invariant.         *)
(***************************************************************************)

\* A log below the one that is named, or without records, is not kept.
LEMMA KeptFacts ==
  ASSUME NEW lg, NEW d
  PROVE  /\ DOMAIN Kept(lg, d) = {k \in DOMAIN lg : k >= d.log /\ lg[k] # <<>>}
         /\ \A n \in DOMAIN Kept(lg, d) : Kept(lg, d)[n] = lg[n]
BY DEF Kept

LEMMA KeptNew ==
  ASSUME NEW lg, NEW d, NEW f, f \notin DOMAIN lg
  PROVE  Kept(Extended(lg, f, <<>>), d) = Kept(lg, d)
<1> DEFINE l2 == Extended(lg, f, <<>>)
<1>1. /\ DOMAIN l2 = DOMAIN lg \cup {f} /\ l2[f] = <<>>
      /\ \A n \in DOMAIN lg : l2[n] = lg[n]
  <2>1. <<>> \o <<>> = <<>>
    OBVIOUS
  <2> QED BY <2>1 DEF Extended
<1> HIDE DEF l2
<1>2. {k \in DOMAIN l2 : k >= d.log /\ l2[k] # <<>>}
        = {k \in DOMAIN lg : k >= d.log /\ lg[k] # <<>>}
  BY <1>1
<1>3. Kept(l2, d) = Kept(lg, d)
  BY <1>1, <1>2 DEF Kept
<1> QED BY <1>3 DEF l2

LEMMA KeptWithout ==
  ASSUME NEW lg, IsFiles(lg, Nat), NEW d \in Edits, NEW f, f < d.log
  PROVE  Kept(Without(lg, f), d) = Kept(lg, d)
<1> DEFINE l2 == Without(lg, f)
<1>1. DOMAIN l2 = DOMAIN lg \ {f} /\ \A n \in DOMAIN l2 : l2[n] = lg[n]
  BY WithoutFacts
<1> HIDE DEF l2
<1>2. f \in DOMAIN lg => ~(f >= d.log)
  BY DEF Edits, IsFiles
<1>3. {k \in DOMAIN l2 : k >= d.log /\ l2[k] # <<>>}
        = {k \in DOMAIN lg : k >= d.log /\ lg[k] # <<>>}
  BY <1>1, <1>2
<1>4. Kept(l2, d) = Kept(lg, d)
  BY <1>1, <1>3 DEF Kept
<1> QED BY <1>4 DEF l2

\* K2 is K with v appended to log f.
Grown(K, K2, f, v) ==
  /\ DOMAIN K2 = DOMAIN K \cup {f}
  /\ \A n \in DOMAIN K : n # f => K2[n] = K[n]
  /\ IF f \in DOMAIN K THEN ToSet(K2[f]) = ToSet(K[f]) \cup {v}
     ELSE ToSet(K2[f]) = {v}

LEMMA KeptGrows ==
  ASSUME NEW lg, NEW d, NEW f \in DOMAIN lg, NEW v \in Nat,
         lg[f] \in Seq(Nat), f >= d.log
  PROVE  Grown(Kept(lg, d), Kept(Extended(lg, f, <<v>>), d), f, v)
<1> DEFINE l2 == Extended(lg, f, <<v>>)
           s == lg[f] \o <<v>>
<1>1. /\ DOMAIN l2 = DOMAIN lg /\ l2[f] = s
      /\ \A n \in DOMAIN lg : n # f => l2[n] = lg[n]
  BY DEF Extended
<1>2. /\ s # <<>> /\ ToSet(s) = ToSet(lg[f]) \cup {v}
  <2>1. /\ Len(lg[f]) \in Nat /\ DOMAIN lg[f] = 1..Len(lg[f])
        /\ DOMAIN s = 1..(Len(lg[f]) + 1) /\ s[Len(lg[f]) + 1] = v
        /\ \A i \in DOMAIN lg[f] : s[i] = lg[f][i]
    OBVIOUS
  <2> HIDE DEF s
  <2>2. DOMAIN s = DOMAIN lg[f] \cup {Len(lg[f]) + 1}
    BY <2>1
  <2>3. ASSUME NEW x PROVE x \in ToSet(s) <=> x \in ToSet(lg[f]) \cup {v}
    BY <2>1, <2>2 DEF ToSet
  <2>4. s # <<>>
    BY <2>1
  <2> QED BY <2>3, <2>4
<1>3. lg[f] = <<>> => ToSet(lg[f]) = {}
  BY DEF ToSet
<1> HIDE DEF l2, s
<1> DEFINE K == Kept(lg, d)
           K2 == Kept(l2, d)
<1>4. /\ DOMAIN K = {k \in DOMAIN lg : k >= d.log /\ lg[k] # <<>>}
      /\ \A n \in DOMAIN K : K[n] = lg[n]
  BY KeptFacts
<1>5. /\ DOMAIN K2 = {k \in DOMAIN l2 : k >= d.log /\ l2[k] # <<>>}
      /\ \A n \in DOMAIN K2 : K2[n] = l2[n]
  BY KeptFacts
<1> HIDE DEF K, K2
<1>6. DOMAIN K2 = DOMAIN K \cup {f}
  BY <1>1, <1>2, <1>4, <1>5
<1>7. \A n \in DOMAIN K : n # f => K2[n] = K[n]
  BY <1>1, <1>4, <1>5, <1>6
<1>8. K2[f] = s
  BY <1>1, <1>5, <1>6
<1>9. CASE f \in DOMAIN K
  <2>1. K[f] = lg[f]
    BY <1>4, <1>9
  <2> QED BY <1>2, <1>6, <1>7, <1>8, <1>9, <2>1 DEF Grown, K, K2, l2
<1>10. CASE f \notin DOMAIN K
  <2>1. ToSet(K2[f]) = {v}
    BY <1>2, <1>3, <1>4, <1>8, <1>10
  <2> QED BY <1>6, <1>7, <1>10, <2>1 DEF Grown, K, K2, l2
<1> QED BY <1>9, <1>10

LEMMA GrowSound ==
  ASSUME NEW K, NEW K2, NEW f, NEW v, NEW tb, NEW d,
         Grown(K, K2, f, v), Sound(K, tb, d)
  PROVE  Sound(K2, tb, d)
<1>1. \A n \in DOMAIN K : n \in DOMAIN K2 /\ \A x \in ToSet(K[n]) : x \in ToSet(K2[n])
  BY DEF Grown
<1> QED BY <1>1 DEF Sound, Below

\* A record newer than all others is appended to the newest log, and no table was
\* made of that log yet.
LEMMA GrowIntact ==
  ASSUME NEW K, NEW K2, NEW f \in Nat, NEW v, NEW tb, NEW ac, NEW d, NEW fs,
         Grown(K, K2, f, v), Intact(K, tb, ac, d, fs),
         f = d.log \/ (f = d.next /\ d.log \in DOMAIN K),
         \A n \in DOMAIN K : ~(f < n),
         \A n \in DOMAIN K : \A x \in ToSet(K[n]) : x < v,
         \A g \in fs : \A x \in Contents(tb[g.number]) : x < v,
         \A t \in DOMAIN tb : t >= d.next => t # PlanOf(d, f)
  PROVE  Intact(K2, tb, ac, d, fs)
<1>1. /\ DOMAIN K2 = DOMAIN K \cup {f}
      /\ \A n \in DOMAIN K : \A x \in ToSet(K[n]) : x \in ToSet(K2[n])
      /\ \A n \in DOMAIN K2 : \A x \in ToSet(K2[n]) :
           (n = f /\ x = v) \/ (n \in DOMAIN K /\ x \in ToSet(K[n]))
  BY DEF Grown
<1>2. KeptInv(K2, d)
  <2>1. KeptInv(K, d)
    BY DEF Intact
  <2>2. DOMAIN K2 \subseteq {d.log, d.next} /\ (d.next \in DOMAIN K2 => d.log \in DOMAIN K2)
    BY <1>1, <2>1 DEF KeptInv
  <2>3. ASSUME NEW n \in DOMAIN K2, NEW k \in DOMAIN K2, n < k,
               NEW a \in ToSet(K2[n]), NEW b \in ToSet(K2[k])
        PROVE  a < b
    <3>1. n \in DOMAIN K /\ a \in ToSet(K[n])
      BY <1>1, <2>3
    <3> QED BY <1>1, <2>1, <2>3, <3>1 DEF KeptInv
  <2> QED BY <2>2, <2>3 DEF KeptInv
<1>3. LeftInv(K2, tb, d)
  <2>1. ASSUME NEW t \in DOMAIN tb, t >= d.next
        PROVE  \E n \in DOMAIN K2 : /\ t = PlanOf(d, n)
                                    /\ tb[t] = <<>> \/ Copied(tb[t], K2[n])
    <3>1. PICK n \in DOMAIN K : /\ t = PlanOf(d, n)
                                /\ tb[t] = <<>> \/ Copied(tb[t], K[n])
      BY <2>1 DEF Intact, LeftInv
    <3>2. n # f
      BY <2>1, <3>1
    <3>3. K2[n] = K[n] /\ n \in DOMAIN K2
      BY <3>2, <1>1 DEF Grown
    <3> QED BY <3>1, <3>3
  <2> QED BY <2>1 DEF LeftInv
<1>4. FilesInv(K2, tb, d, fs)
  BY <1>1 DEF Intact, FilesInv
<1>5. CoverInv(K2, tb, ac, fs)
  BY <1>1 DEF Intact, CoverInv
<1> QED BY <1>2, <1>3, <1>4, <1>5 DEF Intact

\* tb2 is tb with table t changed, added or left out.
OnlyTable(tb, tb2, t) ==
  /\ DOMAIN tb2 \subseteq DOMAIN tb \cup {t} /\ DOMAIN tb \subseteq DOMAIN tb2 \cup {t}
  /\ \A u \in DOMAIN tb2 : u # t => tb2[u] = tb[u]

LEMMA TableSound ==
  ASSUME NEW K, NEW tb, NEW tb2, NEW t, NEW d,
         OnlyTable(tb, tb2, t), Sound(K, tb, d),
         t \in DOMAIN tb2 => \A r \in Records(tb2[t]) : Below(K, d, r)
  PROVE  Sound(K, tb2, d)
BY DEF Sound, OnlyTable

LEMMA TableIntact ==
  ASSUME NEW K, NEW tb, NEW tb2, NEW t, NEW ac, NEW d, NEW fs,
         OnlyTable(tb, tb2, t), Intact(K, tb, ac, d, fs),
         \A f \in fs : f.number # t,
         t \in DOMAIN tb2 /\ t >= d.next =>
           \E n \in DOMAIN K : /\ t = PlanOf(d, n)
                               /\ tb2[t] = <<>> \/ Copied(tb2[t], K[n])
  PROVE  Intact(K, tb2, ac, d, fs)
<1>1. LeftInv(K, tb2, d)
  BY DEF Intact, LeftInv, OnlyTable
<1>2. \A f \in fs : f.number \in DOMAIN tb2 /\ tb2[f.number] = tb[f.number]
  BY DEF Intact, FilesInv, OnlyTable
<1>3. FilesInv(K, tb2, d, fs)
  <2>1. FilesInv(K, tb, d, fs)
    BY DEF Intact
  <2> QED BY <1>2, <2>1 DEF FilesInv
<1>4. CoverInv(K, tb2, ac, fs)
  BY <1>2 DEF Intact, CoverInv
<1> QED BY <1>1, <1>3, <1>4 DEF Intact

\* A record that is acknowledged is in a log.
LEMMA AckIntact ==
  ASSUME NEW K, NEW tb, NEW ac, NEW r, NEW d, NEW fs,
         Intact(K, tb, ac, d, fs), NEW n \in DOMAIN K, r \in ToSet(K[n])
  PROVE  Intact(K, tb, ac \cup {r}, d, fs)
BY DEF Intact, CoverInv

\* Cells c are appended to the file of table t.
LEMMA WrittenSound ==
  ASSUME NEW K, NEW tb, NEW tb2, NEW t, NEW d, NEW c \in Seq(CellSet),
         IsFiles(tb, CellSet), Sound(K, tb, d), tb2 = Extended(tb, t, c),
         \A r \in Records(c) : Below(K, d, r)
  PROVE  OnlyTable(tb, tb2, t) /\ Sound(K, tb2, d)
<1>1. OnlyTable(tb, tb2, t)
  BY DEF Extended, OnlyTable
<1>2. \A r \in Records(tb2[t]) : Below(K, d, r)
  <2>1. CASE t \in DOMAIN tb
    <3>1. tb2[t] = tb[t] \o c /\ tb[t] \in Seq(CellSet)
      BY <2>1 DEF Extended, IsFiles
    <3>2. Records(tb[t] \o c) \subseteq Records(tb[t]) \cup Records(c)
      BY <3>1, RecordsAppended
    <3> QED BY <2>1, <3>1, <3>2 DEF Sound
  <2>2. CASE t \notin DOMAIN tb
    <3> DEFINE e == <<>>
    <3>1. tb2[t] = e \o c /\ e \in Seq(CellSet) /\ Records(e) = {}
      BY <2>2 DEF Extended, Records
    <3> HIDE DEF e
    <3>2. Records(e \o c) \subseteq Records(e) \cup Records(c)
      BY <3>1, RecordsAppended
    <3> QED BY <3>1, <3>2
  <2> QED BY <2>1, <2>2
<1> QED BY <1>1, <1>2, TableSound

\* The table of log n is written, in whole or not at all.
LEMMA WrittenIntact ==
  ASSUME NEW K, NEW tb, NEW tb2, NEW t, NEW ac, NEW d, NEW fs, NEW c,
         NEW n \in DOMAIN K, K[n] \in Seq(Nat),
         IsFiles(tb, CellSet), Intact(K, tb, ac, d, fs), tb2 = Extended(tb, t, c),
         t = PlanOf(d, n), t >= d.next, \A k \in DOMAIN K : PlanOf(d, k) = t => k = n,
         \A f \in fs : f.number # t,
         c = <<>> \/ c = Cells(K[n])
  PROVE  /\ Intact(K, tb2, ac, d, fs)
         /\ c = Cells(K[n]) => t \in DOMAIN tb2 /\ Copied(tb2[t], K[n])
<1>1. OnlyTable(tb, tb2, t) /\ t \in DOMAIN tb2
  BY DEF Extended, OnlyTable
<1> DEFINE old == IF t \in DOMAIN tb THEN tb[t] ELSE <<>>
<1>2. old \in Seq(CellSet) /\ tb2[t] = old \o c
  BY DEF Extended, IsFiles
<1>3. old = <<>> \/ Copied(old, K[n])
  <2>1. CASE t \in DOMAIN tb
    <3>1. PICK k \in DOMAIN K : t = PlanOf(d, k) /\ (tb[t] = <<>> \/ Copied(tb[t], K[k]))
      BY <2>1 DEF Intact, LeftInv
    <3> QED BY <2>1, <3>1
  <2>2. CASE t \notin DOMAIN tb
    BY <2>2
  <2> QED BY <2>1, <2>2
<1> HIDE DEF old
<1>4. c = Cells(K[n]) => Copied(tb2[t], K[n])
  <2>1. Copied(old \o Cells(K[n]), K[n])
    BY <1>2, <1>3, CopiedAgain
  <2> QED BY <1>2, <2>1
<1>5. c = <<>> => tb2[t] = old
  BY <1>2
<1>6. tb2[t] = <<>> \/ Copied(tb2[t], K[n])
  BY <1>3, <1>4, <1>5
<1>7. Intact(K, tb2, ac, d, fs)
  BY <1>1, <1>6, TableIntact
<1> QED BY <1>1, <1>4, <1>7

\* A later edit e knows of all sequence numbers.
LEMMA LaterSound ==
  ASSUME NEW K, NEW K2, NEW tb, NEW d \in Edits, NEW e \in Edits,
         IsFiles(K, Nat), IsFiles(tb, CellSet), Sound(K, tb, d), e.log < e.next, d.last <= e.last,
         \A n \in DOMAIN K : \A x \in ToSet(K[n]) : x <= e.last
  PROVE  Sound(K2, tb, e)
<1>1. d.last \in Nat /\ e.last \in Nat
  BY DEF Edits
<1>2. ASSUME NEW t \in DOMAIN tb, NEW r \in Records(tb[t])
      PROVE  r <= e.last
  <2>1. r \in Nat
    BY ContentsRecords DEF IsFiles
  <2>2. CASE r <= d.last
    BY <1>1, <2>1, <2>2
  <2>3. ASSUME NEW n \in DOMAIN K, NEW x \in ToSet(K[n]), r <= x
        PROVE  r <= e.last
    <3>1. x \in Nat
      BY DEF IsFiles, ToSet
    <3> QED BY <1>1, <2>1, <2>3, <3>1
  <2> QED BY <2>2, <2>3 DEF Sound, Below
<1> QED BY <1>2 DEF Sound, Below

\* All logs became tables and a new, empty log is named.
LEMMA OpeningIntact ==
  ASSUME NEW K, NEW K2, NEW tb, NEW ac, NEW d \in Edits, NEW e \in Edits,
         NEW fs \in FileSets,
         IsFiles(K, Nat), IsFiles(tb, CellSet), Intact(K, tb, ac, d, fs),
         d.log < d.next, d.next < e.next, DOMAIN K2 = {},
         \A n \in DOMAIN K : /\ PlanOf(d, n) \in DOMAIN tb /\ PlanOf(d, n) < e.next
                             /\ Copied(tb[PlanOf(d, n)], K[n])
  PROVE  Intact(K2, tb, ac, e, fs \cup Planned(d, DOMAIN K))
<1> DEFINE new == Planned(d, DOMAIN K)
<1>1. /\ d.next \in Nat /\ d.log \in Nat /\ e.next \in Nat /\ e.log \in Nat
  BY DEF Edits
<1>2. \A n \in DOMAIN K : Contents(tb[PlanOf(d, n)]) = ToSet(K[n])
  BY CopiedContents DEF IsFiles
<1>3. \A f \in new : \E n \in DOMAIN K : f.number = PlanOf(d, n) /\ f.level = 0
  BY DEF Planned
<1>4. \A n \in DOMAIN K : PlanOf(d, n) \in Nat /\ PlanOf(d, n) > d.next
  BY <1>1 DEF PlanOf
<1>5. /\ KeptInv(K, d) /\ LeftInv(K, tb, d) /\ FilesInv(K, tb, d, fs)
      /\ CoverInv(K, tb, ac, fs)
  BY DEF Intact
<1>6. \A f \in fs : f.number \in Nat /\ f.level \in 0..2
  BY DEF FileSets
<1>7. \A n \in DOMAIN K : \E f \in new : f.number = PlanOf(d, n)
  <2>1. ASSUME NEW n \in DOMAIN K
        PROVE  \E f \in new : f.number = PlanOf(d, n)
    <3> DEFINE f == [number |-> PlanOf(d, n), level |-> 0]
    <3>1. f \in new /\ f.number = PlanOf(d, n)
      BY DEF Planned
    <3> HIDE DEF f, new
    <3> QED BY <3>1
  <2> QED BY <2>1
<1>8. \A n, k \in DOMAIN K :
        PlanOf(d, n) < PlanOf(d, k) => n < k
  BY <1>1, <1>5 DEF KeptInv, PlanOf
<1>9. \A f, g \in new : f.number = g.number => f = g
  BY DEF Planned
<1> HIDE DEF new
<1>10. FilesInv(K2, tb, e, fs \cup new)
  <2>1. ASSUME NEW f \in fs \cup new
        PROVE  f.number \in DOMAIN tb /\ f.number < e.next
    BY <1>1, <1>3, <1>5, <1>6 DEF FilesInv
  <2>2. ASSUME NEW f \in fs, NEW g \in new
        PROVE  /\ f.number < g.number /\ f.level >= g.level
               /\ \A a \in Contents(tb[f.number]), b \in Contents(tb[g.number]) : a < b
    <3>1. PICK n \in DOMAIN K : g.number = PlanOf(d, n) /\ g.level = 0
      BY <1>3
    <3>2. f.number < d.next /\ \A a \in Contents(tb[f.number]), b \in ToSet(K[n]) : a < b
      BY <1>5 DEF FilesInv
    <3>3. f.number < g.number /\ f.level >= g.level
      BY <1>1, <1>4, <1>6, <3>1, <3>2
    <3>4. Contents(tb[g.number]) = ToSet(K[n])
      BY <1>2, <3>1
    <3> QED BY <3>2, <3>3, <3>4
  <2>3. ASSUME NEW f \in new, NEW g \in new, f.number < g.number
        PROVE  /\ f.level >= g.level
               /\ \A a \in Contents(tb[f.number]), b \in Contents(tb[g.number]) : a < b
    <3>1. PICK n \in DOMAIN K : f.number = PlanOf(d, n) /\ f.level = 0
      BY <1>3
    <3>2. PICK k \in DOMAIN K : g.number = PlanOf(d, k) /\ g.level = 0
      BY <1>3
    <3>3. n < k
      BY <1>8, <2>3, <3>1, <3>2
    <3>4. \A a \in ToSet(K[n]), b \in ToSet(K[k]) : a < b
      BY <1>5, <3>3 DEF KeptInv
    <3>5. Contents(tb[f.number]) = ToSet(K[n]) /\ Contents(tb[g.number]) = ToSet(K[k])
      BY <1>2, <3>1, <3>2
    <3> QED BY <3>1, <3>2, <3>4, <3>5
  <2>4. \A f \in fs, g \in new : g.number \in Nat /\ f.number < g.number
    BY <1>3, <1>4, <2>2
  <2>5. ASSUME NEW f \in fs \cup new, NEW g \in fs \cup new, f.number = g.number
        PROVE  f = g
    <3>1. CASE f \in fs /\ g \in fs
      BY <1>5, <2>5, <3>1 DEF FilesInv
    <3>2. CASE f \in new /\ g \in new
      BY <1>9, <2>5, <3>2
    <3>3. CASE f \in fs /\ g \in new
      BY <1>6, <2>4, <2>5, <3>3
    <3>4. CASE f \in new /\ g \in fs
      BY <1>6, <2>4, <2>5, <3>4
    <3> QED BY <3>1, <3>2, <3>3, <3>4
  <2>6. ASSUME NEW f \in fs \cup new, NEW g \in fs \cup new, f.number < g.number
        PROVE  /\ f.level >= g.level
               /\ \A a \in Contents(tb[f.number]), b \in Contents(tb[g.number]) : a < b
    <3>1. CASE f \in fs /\ g \in fs
      BY <1>5, <2>6, <3>1 DEF FilesInv
    <3>2. CASE f \in new /\ g \in new
      BY <2>3, <2>6, <3>2
    <3>3. CASE f \in fs /\ g \in new
      BY <2>2, <3>3
    <3>4. CASE f \in new /\ g \in fs
      BY <1>6, <2>4, <2>6, <3>4
    <3> QED BY <3>1, <3>2, <3>3, <3>4
  <2> QED BY <2>1, <2>5, <2>6 DEF FilesInv
<1>11. CoverInv(K2, tb, ac, fs \cup new)
  <2>1. ASSUME NEW r \in ac
        PROVE  \E f \in fs \cup new : r \in Contents(tb[f.number])
    <3>1. CASE \E f \in fs : r \in Contents(tb[f.number])
      BY <3>1
    <3>2. ASSUME NEW n \in DOMAIN K, r \in ToSet(K[n])
          PROVE  \E f \in fs \cup new : r \in Contents(tb[f.number])
      BY <1>2, <1>7, <3>2
    <3> QED BY <1>5, <3>1, <3>2 DEF CoverInv
  <2> QED BY <2>1 DEF CoverInv
<1>12. LeftInv(K2, tb, e)
  <2>1. ASSUME NEW t \in DOMAIN tb, t >= e.next
        PROVE  FALSE
    <3>1. t \in Nat
      BY DEF IsFiles
    <3>2. t >= d.next
      BY <1>1, <2>1, <3>1
    <3>3. PICK n \in DOMAIN K : t = PlanOf(d, n)
      BY <1>5, <3>2 DEF LeftInv
    <3> QED BY <1>1, <2>1, <3>1, <3>3
  <2> QED BY <2>1 DEF LeftInv
<1>13. KeptInv(K2, e)
  BY DEF KeptInv
<1> QED BY <1>10, <1>11, <1>12, <1>13 DEF Intact, new

\* The log of the immutable memtable became table t at level l.
LEMMA FlushIntact ==
  ASSUME NEW K, NEW K2, NEW tb, NEW ac, NEW d \in Edits, NEW e \in Edits,
         NEW fs \in FileSets, NEW l \in 0..2,
         IsFiles(K, Nat), IsFiles(tb, CellSet), Intact(K, tb, ac, d, fs),
         e.log = d.next, e.next = d.next + 2, d.log < d.next,
         d.log \in DOMAIN K, DOMAIN K2 = DOMAIN K \ {d.log},
         \A n \in DOMAIN K2 : K2[n] = K[n],
         d.next + 1 \in DOMAIN tb, Copied(tb[d.next + 1], K[d.log]),
         \A f \in fs : l <= f.level,
         \A t \in DOMAIN tb : t < e.next
  PROVE  Intact(K2, tb, ac, e, fs \cup {[number |-> d.next + 1, level |-> l]})
<1> DEFINE new == [number |-> d.next + 1, level |-> l]
<1>1. d.next \in Nat /\ d.log \in Nat /\ e.next \in Nat /\ e.log \in Nat
  BY DEF Edits
<1>2. Contents(tb[d.next + 1]) = ToSet(K[d.log])
  BY CopiedContents DEF IsFiles
<1>3. new.number = d.next + 1 /\ new.level = l
  OBVIOUS
<1>5. /\ KeptInv(K, d) /\ LeftInv(K, tb, d) /\ FilesInv(K, tb, d, fs)
      /\ CoverInv(K, tb, ac, fs)
  BY DEF Intact
<1>6. \A f \in fs : f.number \in Nat /\ f.level \in 0..2
  BY DEF FileSets
<1>7. DOMAIN K2 \subseteq {d.next}
  BY <1>5 DEF KeptInv
<1> HIDE DEF new
<1>8. \A f \in fs : /\ f.number \in DOMAIN tb /\ f.number < d.next
                    /\ \A a \in Contents(tb[f.number]), b \in Contents(tb[new.number]) : a < b
  BY <1>2, <1>3, <1>5 DEF FilesInv
<1>9. \A n \in DOMAIN K2 :
        \A a \in Contents(tb[new.number]), b \in ToSet(K2[n]) : a < b
  <2>1. ASSUME NEW n \in DOMAIN K2 PROVE n = d.next /\ n \in DOMAIN K /\ d.log < n
    BY <1>7
  <2> QED BY <1>2, <1>3, <1>5, <2>1 DEF KeptInv
<1>10. FilesInv(K2, tb, e, fs \cup {new})
  <2>1. \A f \in fs \cup {new} : f.number \in DOMAIN tb /\ f.number < e.next
    BY <1>1, <1>3, <1>6, <1>8
  <2>2. \A f, g \in fs \cup {new} : f.number = g.number => f = g
    BY <1>1, <1>3, <1>5, <1>6, <1>8 DEF FilesInv
  <2>3. ASSUME NEW f \in fs \cup {new}, NEW g \in fs \cup {new}, f.number < g.number
        PROVE  /\ f.level >= g.level
               /\ \A a \in Contents(tb[f.number]), b \in Contents(tb[g.number]) : a < b
    <3>1. CASE f \in fs /\ g \in fs
      BY <1>5, <2>3, <3>1 DEF FilesInv
    <3>2. CASE f \in fs /\ g = new
      BY <1>3, <1>6, <1>8, <3>2
    <3>3. CASE f = new
      BY <1>1, <1>3, <1>6, <1>8, <2>3, <3>3
    <3> QED BY <3>1, <3>2, <3>3
  <2>4. \A f \in fs \cup {new}, n \in DOMAIN K2 :
          \A a \in Contents(tb[f.number]), b \in ToSet(K2[n]) : a < b
    BY <1>5, <1>9 DEF FilesInv
  <2> QED BY <2>1, <2>2, <2>3, <2>4 DEF FilesInv
<1>11. CoverInv(K2, tb, ac, fs \cup {new})
  <2>1. ASSUME NEW n \in DOMAIN K, NEW r \in ToSet(K[n])
        PROVE  \/ r \in Contents(tb[new.number])
               \/ \E k \in DOMAIN K2 : r \in ToSet(K2[k])
    <3>1. CASE n = d.log
      BY <1>2, <1>3, <3>1
    <3>2. CASE n # d.log
      BY <3>2
    <3> QED BY <3>1, <3>2
  <2> QED BY <1>5, <2>1 DEF CoverInv
<1>12. LeftInv(K2, tb, e)
  BY <1>1 DEF LeftInv, IsFiles
<1>13. KeptInv(K2, e)
  BY <1>1, <1>7 DEF KeptInv
<1> QED BY <1>10, <1>11, <1>12, <1>13 DEF Intact, new

-----------------------------------------------------------------------------
(***************************************************************************)
(* Types, and what the actions do to the records that they change.         *)
(***************************************************************************)

LEMMA ExtendedType ==
  ASSUME NEW S, NEW files, NEW f \in Nat, NEW s \in Seq(S), IsFiles(files, S)
  PROVE  IsFiles(Extended(files, f, s), S)
BY DEF Extended, IsFiles

LEMMA WithoutType ==
  ASSUME NEW S, NEW files, NEW f, IsFiles(files, S)
  PROVE  IsFiles(Without(files, f), S)
BY DEF Without, IsFiles

LEMMA FilesType ==
  ASSUME NEW es \in Seq(Edits)
  PROVE  Files(es) \in FileSets
<1>1. ASSUME NEW f \in Files(es) PROVE f \in [number : Nat, level : 0..2]
  <2>1. PICK i \in DOMAIN es : f \in es[i].adds
    BY DEF Files
  <2>2. es[i] \in Edits
    OBVIOUS
  <2>3. es[i].adds \in FileSets
    BY <2>2 DEF Edits
  <2> QED BY <2>1, <2>3 DEF FileSets
<1> QED BY <1>1 DEF FileSets

LEMMA LastType ==
  ASSUME NEW s \in Seq(Nat), s # <<>>
  PROVE  Last(s) \in Nat /\ Last(s) \in ToSet(s)
<1>1. Len(s) \in DOMAIN s
  OBVIOUS
<1> QED BY <1>1 DEF Last, ToSet

LEMMA VersionType ==
  ASSUME NEW v \in VersionSets
  PROVE  /\ v.files \in FileSets /\ v.next \in Nat /\ v.manifest \in Nat
         /\ v.log \in Nat /\ v.last \in Nat
BY DEF VersionSets

LEMMA EditType ==
  ASSUME NEW e \in Edits
  PROVE  /\ e.adds \in FileSets /\ e.meta \in BOOLEAN /\ e.log \in Nat
         /\ e.next \in Nat /\ e.last \in Nat
BY DEF Edits

\* What it means that a version set or an edit has other contents.
VersionIs(v, fs, n, m, g, l) ==
  v.files = fs /\ v.next = n /\ v.manifest = m /\ v.log = g /\ v.last = l
EditIs(e, a, m, g, n, l) ==
  e.adds = a /\ e.meta = m /\ e.log = g /\ e.next = n /\ e.last = l


LEMMA Fields ==
  ASSUME TypeOK
  PROVE  /\ vs \in VersionSets /\ vs.files \in FileSets /\ vs.next \in Nat
         /\ vs.manifest \in Nat /\ vs.log \in Nat /\ vs.last \in Nat
         /\ edit \in Edits /\ edit.adds \in FileSets /\ edit.meta \in BOOLEAN
         /\ edit.log \in Nat /\ edit.next \in Nat /\ edit.last \in Nat
         /\ table.number \in Nat /\ table.records \in Seq(Nat)
<1>1. vs \in VersionSets /\ edit \in Edits
      /\ table \in [number : Nat, records : Seq(Nat)]
  BY DEF TypeOK
<1> QED BY <1>1, VersionType, EditType

LEMMA NoEditType ==
  /\ NoEdit \in Edits /\ EditIs(NoEdit, {}, FALSE, 0, 0, 0)
  /\ FirstMeta \in Edits /\ EditIs(FirstMeta, {}, TRUE, 0, 2, 0)
  /\ {} \in FileSets
BY DEF NoEdit, SnapshotOf, NumbersOf, FirstMeta, Edits, FileSets, EditIs

LEMMA InitDescriptorFacts ==
  ASSUME TypeOK, InitDescriptor
  PROVE  vs' \in VersionSets /\ VersionIs(vs', vs.files, vs.next, 1, vs.log, vs.last)
<1>1. vs \in VersionSets /\ vs' = [vs EXCEPT !.manifest = 1]
  BY Fields DEF InitDescriptor
<1> QED BY <1>1 DEF VersionSets, VersionIs

LEMMA ReadFacts ==
  ASSUME TypeOK, ReadDescriptor
  PROVE  /\ HasMeta(manifests[current]) /\ manifests[current] \in Seq(Edits)
         /\ Base \in Edits /\ Files(manifests[current]) \in FileSets
         /\ vs' \in VersionSets
         /\ VersionIs(vs', Files(manifests[current]), Base.next + 1, Base.next,
                      Base.log, Base.last)
<1>1. HasMeta(manifests[current]) /\ manifests[current] \in Seq(Edits)
  BY DEF ReadDescriptor, Readable, HasMeta, IsFiles, TypeOK
<1>2. Base \in Edits /\ Files(manifests[current]) \in FileSets
  BY <1>1, MetaType, FilesType DEF Base
<1>3. vs' = [files |-> Files(manifests[current]), next |-> Base.next + 1,
             manifest |-> Base.next, log |-> Base.log, last |-> Base.last]
  BY DEF ReadDescriptor, Base
<1>4. Base.next \in Nat /\ Base.log \in Nat /\ Base.last \in Nat
  BY <1>2, EditType
<1>5. vs' \in VersionSets
  BY <1>2, <1>3, <1>4 DEF VersionSets
<1>6. VersionIs(vs', Files(manifests[current]), Base.next + 1, Base.next, Base.log,
                Base.last)
  BY <1>3 DEF VersionIs
<1> QED BY <1>1, <1>2, <1>5, <1>6

LEMMA SortedFacts ==
  ASSUME NEW S, S \subseteq Nat, IsFiniteSet(S), NEW s \in Sorted(S)
  PROVE  s \in Seq(Nat) /\ ToSet(s) = S
<1>1. Cardinality(S) \in Nat
  BY FS_CardinalityType
<1>2. s \in [1..Cardinality(S) -> S] /\ ToSet(s) = S
  BY DEF Sorted
<1>3. s \in [1..Cardinality(S) -> Nat]
  BY <1>2
<1> QED BY <1>1, <1>2, <1>3, SeqDef

LEMMA ReadReplay ==
  ASSUME TypeOK, LogsInv, ReadDescriptor
  PROVE  /\ replay' \in Seq(Nat)
         /\ ToSet(replay') = {n \in DOMAIN logs : n >= Base.log}
<1> DEFINE S == {n \in DOMAIN logs : n >= Base.log}
<1>1. S \subseteq Nat
  BY DEF TypeOK, IsFiles
<1>2. IsFiniteSet(S)
  BY FS_Subset DEF LogsInv
<1>3. replay' \in Sorted(S)
  BY DEF ReadDescriptor, Base
<1> QED BY <1>1, <1>2, <1>3, SortedFacts

\* The numbers after log n was replayed.
LEMMA ReplayedType ==
  ASSUME NEW n \in DOMAIN logs, TypeOK
  PROVE  /\ Replayed(vs, n) \in VersionSets
         /\ VersionIs(Replayed(vs, n), vs.files, Larger(vs.next, n + 1), vs.manifest, vs.log,
              IF logs[n] = <<>> THEN vs.last ELSE Larger(vs.last, Last(logs[n])))
<1>0. vs \in VersionSets /\ vs.next \in Nat /\ vs.last \in Nat
  BY Fields
<1>1. n \in Nat /\ logs[n] \in Seq(Nat)
  BY DEF TypeOK, IsFiles
<1>2. logs[n] # <<>> => Last(logs[n]) \in Nat
  BY <1>1, LastType
<1> DEFINE l == IF logs[n] = <<>> THEN vs.last ELSE Larger(vs.last, Last(logs[n]))
           x == Larger(vs.next, n + 1)
<1>3. l \in Nat /\ x \in Nat
  BY <1>0, <1>1, <1>2 DEF Larger
<1>4. Replayed(vs, n) = [vs EXCEPT !.next = x, !.last = l]
  BY <1>0 DEF Replayed, VersionSets
<1> HIDE DEF l, x
<1>5. /\ [vs EXCEPT !.next = x, !.last = l] \in VersionSets
      /\ VersionIs([vs EXCEPT !.next = x, !.last = l], vs.files, x, vs.manifest, vs.log, l)
  BY <1>0, <1>3 DEF VersionSets, VersionIs
<1> QED BY <1>4, <1>5 DEF l, x

LEMMA StartTableFacts ==
  ASSUME TypeOK, NEW s \in Seq(Nat), StartTable(s)
  PROVE  /\ vs' \in VersionSets
         /\ VersionIs(vs', vs.files, vs.next + 1, vs.manifest, vs.log, vs.last)
         /\ table' \in [number : Nat, records : Seq(Nat)]
         /\ table'.number = vs.next /\ table'.records = s /\ pc' = "build"
<1>1. vs \in VersionSets /\ vs.next \in Nat
  BY Fields
<1>2. /\ vs' = [vs EXCEPT !.next = @ + 1] /\ pc' = "build"
      /\ table' = [number |-> vs.next, records |-> s]
  BY DEF StartTable
<1>3. /\ vs' \in VersionSets
      /\ VersionIs(vs', vs.files, vs.next + 1, vs.manifest, vs.log, vs.last)
  BY <1>1, <1>2 DEF VersionSets, VersionIs
<1> QED BY <1>1, <1>2, <1>3

LEMMA NewLogFacts ==
  ASSUME TypeOK, NewLog
  PROVE  /\ vs' \in VersionSets /\ edit' \in Edits
         /\ VersionIs(vs', vs.files, vs.next + 1, vs.manifest, vs.log, vs.last)
         /\ EditIs(edit', edit.adds, TRUE, vs.next, edit.next, edit.last)
<1>1. vs \in VersionSets /\ vs.next \in Nat /\ edit \in Edits
  BY Fields
<1>2. vs' = [vs EXCEPT !.next = @ + 1]
  BY DEF NewLog
<1>3. edit' = [edit EXCEPT !.meta = TRUE, !.log = vs.next]
  BY DEF NewLog
<1>4. /\ vs' \in VersionSets
      /\ VersionIs(vs', vs.files, vs.next + 1, vs.manifest, vs.log, vs.last)
  BY <1>1, <1>2 DEF VersionSets, VersionIs
<1>5. edit' \in Edits /\ EditIs(edit', edit.adds, TRUE, vs.next, edit.next, edit.last)
  BY <1>1, <1>3 DEF Edits, EditIs
<1> QED BY <1>4, <1>5

LEMMA InsertFacts ==
  ASSUME TypeOK, Insert
  PROVE  /\ vs' \in VersionSets
         /\ VersionIs(vs', vs.files, vs.next, vs.manifest, vs.log, vs.last + 1)
<1>1. vs \in VersionSets /\ vs.last \in Nat /\ vs' = [vs EXCEPT !.last = @ + 1]
  BY Fields DEF Insert
<1> QED BY <1>1 DEF VersionSets, VersionIs

LEMMA RotateFacts ==
  ASSUME TypeOK, Rotate
  PROVE  /\ vs' \in VersionSets
         /\ VersionIs(vs', vs.files, vs.next + 1, vs.manifest, vs.log, vs.last)
<1>1. vs \in VersionSets /\ vs.next \in Nat /\ vs' = [vs EXCEPT !.next = @ + 1]
  BY Fields DEF Rotate
<1> QED BY <1>1 DEF VersionSets, VersionIs

LEMMA AddTableFacts ==
  ASSUME TypeOK, NEW l \in 0..2
  PROVE  /\ AddTable(l) \in Edits
         /\ EditIs(AddTable(l), edit.adds \cup {[number |-> table.number, level |-> l]},
                   edit.meta, edit.log, edit.next, edit.last)
<1> DEFINE a == edit.adds \cup {[number |-> table.number, level |-> l]}
<1>1. edit \in Edits /\ edit.adds \in FileSets /\ table.number \in Nat
  BY Fields
<1>2. a \in FileSets
  BY <1>1 DEF FileSets
<1>3. AddTable(l) = [edit EXCEPT !.adds = a]
  BY <1>1 DEF AddTable, Edits
<1> HIDE DEF a
<1>4. /\ [edit EXCEPT !.adds = a] \in Edits
      /\ EditIs([edit EXCEPT !.adds = a], a, edit.meta, edit.log, edit.next, edit.last)
  BY <1>1, <1>2 DEF Edits, EditIs
<1> QED BY <1>3, <1>4 DEF a

LEMMA FlushedFacts ==
  ASSUME TypeOK, FlushedTable
  PROVE  /\ edit' \in Edits
         /\ EditIs(edit', edit.adds \cup {[number |-> table.number, level |-> PickLevel]},
                   TRUE, logFile, edit.next, edit.last)
<1> DEFINE e == AddTable(PickLevel)
<1>1. PickLevel \in 0..2
  BY DEF PickLevel
<1>2. e \in Edits
      /\ EditIs(e, edit.adds \cup {[number |-> table.number, level |-> PickLevel]},
                edit.meta, edit.log, edit.next, edit.last)
  BY <1>1, AddTableFacts
<1>3. edit' = [e EXCEPT !.meta = TRUE, !.log = logFile] /\ logFile \in Nat
  BY DEF FlushedTable, TypeOK
<1> HIDE DEF e
<1>4. edit' \in Edits /\ EditIs(edit', e.adds, TRUE, logFile, e.next, e.last)
  BY <1>2, <1>3 DEF Edits, EditIs
<1> QED BY <1>2, <1>4 DEF EditIs

LEMMA WriteSnapshotFacts ==
  ASSUME TypeOK, WriteSnapshot
  PROVE  /\ edit' \in Edits
         /\ EditIs(edit', edit.adds, edit.meta, edit.log, vs.next, vs.last)
         /\ SnapshotOf(vs.files) \in Edits
         /\ SnapshotOf(vs.files).adds = vs.files /\ ~SnapshotOf(vs.files).meta
<1>1. edit \in Edits /\ vs.next \in Nat /\ vs.last \in Nat /\ vs.files \in FileSets
  BY Fields
<1>2. edit' = [edit EXCEPT !.next = vs.next, !.last = vs.last]
  BY DEF WriteSnapshot
<1>3. edit' \in Edits /\ EditIs(edit', edit.adds, edit.meta, edit.log, vs.next, vs.last)
  BY <1>1, <1>2 DEF Edits, EditIs
<1>4. /\ SnapshotOf(vs.files) \in Edits
      /\ SnapshotOf(vs.files).adds = vs.files /\ ~SnapshotOf(vs.files).meta
  BY <1>1 DEF SnapshotOf, Edits
<1> QED BY <1>3, <1>4

LEMMA InstallFacts ==
  ASSUME TypeOK, Install
  PROVE  /\ vs' \in VersionSets
         /\ VersionIs(vs', vs.files \cup edit.adds, vs.next, vs.manifest, edit.log, vs.last)
<1> DEFINE a == vs.files \cup edit.adds
<1>1. vs \in VersionSets /\ edit.log \in Nat /\ vs.files \in FileSets /\ edit.adds \in FileSets
  BY Fields
<1>2. a \in FileSets
  BY <1>1 DEF FileSets
<1>3. vs' = [vs EXCEPT !.files = a, !.log = edit.log]
  BY <1>1 DEF Install, VersionSets
<1> HIDE DEF a
<1>4. /\ vs' \in VersionSets
      /\ VersionIs(vs', a, vs.next, vs.manifest, edit.log, vs.last)
  BY <1>1, <1>2, <1>3 DEF VersionSets, VersionIs
<1> QED BY <1>4 DEF a

LEMMA LoseFacts ==
  ASSUME LoseMemory
  PROVE  /\ phase' = "down" /\ pc' = "idle" /\ vs' \in VersionSets
         /\ logFile' = 0 /\ mem' = <<>> /\ imm' = <<>>
         /\ ~inflight' /\ inflight' \in BOOLEAN /\ ~bgError' /\ bgError' \in BOOLEAN
         /\ edit' = NoEdit /\ edit' \in Edits
         /\ table' \in [number : Nat, records : Seq(Nat)] /\ replay' = <<>>
         /\ mem' \in Seq(Nat) /\ imm' \in Seq(Nat) /\ replay' \in Seq(Nat)
<1>1. vs' \in VersionSets
  <2>1. vs' = [files |-> {}, next |-> 0, manifest |-> 0, log |-> 0, last |-> 0]
    BY DEF LoseMemory
  <2>2. {} \in FileSets
    BY NoEditType
  <2> HIDE DEF FileSets
  <2> QED BY <2>1, <2>2 DEF VersionSets
<1>2. table' \in [number : Nat, records : Seq(Nat)]
  BY DEF LoseMemory
<1> QED BY <1>1, <1>2, NoEditType DEF LoseMemory

LEMMA TypeInit == ASSUME RecoveryAssumption, Init PROVE TypeOK
<1> USE DEF RecoveryAssumption
<1>1. FirstMeta \in Edits /\ NoEdit \in Edits
  BY NoEditType
<1>2. /\ vs \in VersionSets
      /\ edit \in Edits /\ table \in [number : Nat, records : Seq(Nat)]
      /\ {} \in FileSets
  BY <1>1 DEF Init, FileSets, VersionSets
<1>3. PICK times \in Opened :
        IF times = 0
        THEN current = Absent /\ manifests = <<>> /\ logs = <<>>
        ELSE /\ current = 2 * times
             /\ manifests = [n \in {2 * times} |->
                               <<NoEdit, NumbersOf(2 * times + 1, 2 * times + 2)>>]
             /\ logs = [n \in {2 * times + 1} |-> <<>>]
  BY DEF Init
<1> DEFINE m == 2 * times
<1>4. m \in Nat
  OBVIOUS
<1> HIDE DEF m
<1>5. NumbersOf(m + 1, m + 2) \in Edits
  BY <1>4 DEF NumbersOf, Edits, FileSets
<1>6. /\ current \in Nat \cup {Torn}
      /\ IsFiles(manifests, Edits) /\ IsFiles(logs, Nat) /\ IsFiles(tables, CellSet)
  <2>1. CASE times = 0
    BY <1>3, <2>1 DEF Init, Absent, IsFiles
  <2>2. CASE times # 0
    <3>1. /\ current = m /\ manifests = [n \in {m} |-> <<NoEdit, NumbersOf(m + 1, m + 2)>>]
          /\ logs = [n \in {m + 1} |-> <<>>]
      BY <1>3, <2>2 DEF m
    <3>2. <<NoEdit, NumbersOf(m + 1, m + 2)>> \in Seq(Edits)
      BY <1>1, <1>5
    <3> QED BY <3>1, <3>2, <1>4 DEF Init, IsFiles
  <2> QED BY <2>1, <2>2
<1>7. replay \in Seq(Nat) /\ mem \in Seq(Nat) /\ imm \in Seq(Nat)
  BY DEF Init
<1> QED BY <1>2, <1>6, <1>7 DEF Init, TypeOK

\* The log that is replayed next is there.
LEMMA HeadFacts ==
  ASSUME TypeOK, ReplayInv, Replaying, replay # <<>>
  PROVE  /\ Head(replay) \in DOMAIN logs /\ Head(replay) \in ToSet(replay)
         /\ Tail(replay) \in Seq(Nat) /\ logs[Head(replay)] \in Seq(Nat)
<1>1. replay \in Seq(Nat)
  BY DEF TypeOK
<1>2. 1 \in DOMAIN replay /\ Head(replay) = replay[1] /\ Tail(replay) \in Seq(Nat)
  BY <1>1
<1>3. Head(replay) \in ToSet(replay)
  BY <1>2 DEF ToSet
<1> QED BY <1>2, <1>3 DEF ReplayInv, TypeOK, IsFiles

\* What is written of a table.
LEMMA WrittenFacts ==
  ASSUME TypeOK
  PROVE  /\ Cells(table.records) \in Seq(CellSet)
         /\ \A n \in Written : SubSeq(Cells(table.records), 1, n) \in Seq(CellSet)
         /\ \A n \in Written : Records(SubSeq(Cells(table.records), 1, n))
                                 \subseteq ToSet(table.records)
<1>1. table.records \in Seq(Nat)
  BY Fields
<1>2. /\ Cells(table.records) \in Seq(CellSet)
      /\ Len(Cells(table.records)) = Len(table.records) + 2
      /\ Len(table.records) \in Nat
  BY <1>1, CellsFacts DEF TableOf
<1>3. \A n \in Written : n \in 0..(Len(table.records) + 2)
  BY <1>2 DEF Written
<1> QED BY <1>1, <1>2, <1>3, RecordsOfCells

LEMMA WholeTable ==
  ASSUME TypeOK
  PROVE  /\ Cells(table.records) \in Seq(CellSet)
         /\ Records(Cells(table.records)) \subseteq ToSet(table.records)
         /\ SubSeq(Cells(table.records), 1, 0) = <<>>
         /\ SubSeq(Cells(table.records), 1, Len(Cells(table.records))) = Cells(table.records)
<1> DEFINE c == Cells(table.records)
<1>1. table.records \in Seq(Nat)
  BY Fields
<1>2. c \in Seq(CellSet) /\ Len(c) = Len(table.records) + 2 /\ Len(table.records) \in Nat
  BY <1>1, CellsFacts DEF TableOf
<1> HIDE DEF c
<1>3. SubSeq(c, 1, Len(c)) = c
  BY <1>2
<1>4. SubSeq(c, 1, 0) = <<>>
  BY <1>2
<1>5. Records(SubSeq(c, 1, Len(table.records) + 2)) \subseteq ToSet(table.records)
  <2>1. Len(table.records) + 2 \in 0..(Len(table.records) + 2)
    BY <1>2
  <2> QED BY <1>1, <2>1, RecordsOfCells DEF c
<1> QED BY <1>2, <1>3, <1>4, <1>5 DEF c

\* What is left of a table that was not finished.
LEMMA LeaveFacts ==
  ASSUME TypeOK, LeaveTable
  PROVE  /\ harmed' \in BOOLEAN /\ (harmed => harmed')
         /\ \E c \in Seq(CellSet) :
              /\ Records(c) \subseteq ToSet(table.records)
              /\ tables' = Extended(tables, table.number, c)
              /\ ~harmed' => c = <<>> \/ c = Cells(table.records)
<1>1. PICK n \in Written :
        /\ tables' = Extended(tables, table.number, SubSeq(Cells(table.records), 1, n))
        /\ harmed' = (harmed \/ n \notin {0, Len(Cells(table.records))})
  BY DEF LeaveTable, WriteTable
<1> DEFINE c == SubSeq(Cells(table.records), 1, n)
<1>2. c \in Seq(CellSet) /\ Records(c) \subseteq ToSet(table.records)
  BY WrittenFacts
<1>3. n \in {0, Len(Cells(table.records))} => c = <<>> \/ c = Cells(table.records)
  BY WholeTable
<1>4. harmed' \in BOOLEAN /\ (harmed => harmed')
  BY <1>1 DEF TypeOK
<1>5. /\ tables' = Extended(tables, table.number, c)
      /\ ~harmed' => c = <<>> \/ c = Cells(table.records)
  BY <1>1, <1>3
<1> HIDE DEF c
<1> QED BY <1>2, <1>4, <1>5

LEMMA LeaveType ==
  ASSUME TypeOK, LeaveTable \/ UNCHANGED <<tables, harmed>>
  PROVE  IsFiles(tables', CellSet) /\ harmed' \in BOOLEAN /\ (harmed => harmed')
<1>1. CASE LeaveTable
  <2>1. PICK c \in Seq(CellSet) : tables' = Extended(tables, table.number, c)
    BY <1>1, LeaveFacts
  <2>2. IsFiles(tables, CellSet) /\ table.number \in Nat
    BY Fields DEF TypeOK
  <2> QED BY <1>1, <2>1, <2>2, LeaveFacts, ExtendedType
<1>2. CASE UNCHANGED <<tables, harmed>>
  BY <1>2 DEF TypeOK
<1> QED BY <1>1, <1>2

\* The table of a log that could not be written.
LEMMA RecoveryFacts ==
  ASSUME TypeOK, RecoveryBuildFails
  PROVE  \/ UNCHANGED tables
         \/ \E c \in Seq(CellSet) :
              /\ Records(c) \subseteq ToSet(table.records)
              /\ tables' = Extended(tables, table.number, c)
  BY WrittenFacts DEF RecoveryBuildFails, WriteTable

LEMMA TypeStep ==
  ASSUME TypeOK, LogsInv, ReplayInv, [Next]_vars
  PROVE  TypeOK'
<1>0. NoEdit \in Edits /\ {} \in FileSets /\ FirstMeta \in Edits
  BY NoEditType
<1> USE Fields
<1>1. CASE Open
  BY <1>1 DEF Open, directory, work, memory, history, TypeOK
<1>2. CASE InitDescriptor
  <2>1. <<FirstMeta>> \in Seq(Edits) /\ 1 \in Nat /\ IsFiles(manifests, Edits)
    BY <1>0 DEF TypeOK
  <2>2. IsFiles(manifests', Edits)
    BY <1>2, <2>1, ExtendedType DEF InitDescriptor
  <2>3. vs' \in VersionSets
    BY <1>2, InitDescriptorFacts
  <2> QED BY <1>2, <2>2, <2>3 DEF InitDescriptor, work, memory, history, TypeOK
<1>3. CASE ReadFails
  BY <1>3 DEF ReadFails, directory, work, memory, history, TypeOK
<1>4. CASE ReadDescriptor
  <2>1. vs' \in VersionSets /\ replay' \in Seq(Nat)
    BY <1>4, ReadFacts, ReadReplay
  <2> QED BY <1>0, <1>4, <2>1 DEF ReadDescriptor, directory, memory, TypeOK
<1>5. CASE SkipLog
  <2>1. Head(replay) \in DOMAIN logs /\ Tail(replay) \in Seq(Nat)
    BY <1>5, HeadFacts DEF SkipLog, Replaying
  <2>2. vs' \in VersionSets
    BY <1>5, <2>1, ReplayedType DEF SkipLog
  <2> QED BY <1>5, <2>1, <2>2 DEF SkipLog, directory, memory, history, TypeOK
<1>6. CASE ReplayLog
  <2>1. logs[Head(replay)] \in Seq(Nat)
    BY <1>6, HeadFacts DEF ReplayLog, Replaying
  <2>2. vs' \in VersionSets /\ table' \in [number : Nat, records : Seq(Nat)] /\ pc' = "build"
    BY <1>6, <2>1, StartTableFacts DEF ReplayLog
  <2> QED BY <1>6, <2>2 DEF ReplayLog, directory, memory, history, TypeOK
<1>7. CASE RecoveredTable
  <2>1. Head(replay) \in DOMAIN logs /\ Tail(replay) \in Seq(Nat)
    BY <1>7, HeadFacts DEF RecoveredTable, Replaying, ReplayInv
  <2>2. vs' \in VersionSets
    BY <1>7, <2>1, ReplayedType DEF RecoveredTable
  <2>3. IsFiles(tables', CellSet)
    BY <1>7, WrittenFacts, ExtendedType DEF RecoveredTable, WriteTable, TypeOK
  <2>4. edit' \in Edits
    BY <1>7, AddTableFacts DEF RecoveredTable
  <2> QED BY <1>7, <2>1, <2>2, <2>3, <2>4 DEF RecoveredTable, memory, history, TypeOK
<1>8. CASE NewLog
  <2>1. <<>> \in Seq(Nat) /\ IsFiles(logs, Nat)
    BY DEF TypeOK
  <2>2. IsFiles(logs', Nat)
    BY <1>8, <2>1, ExtendedType DEF NewLog
  <2>3. vs' \in VersionSets /\ edit' \in Edits
    BY <1>8, NewLogFacts
  <2> QED BY <1>8, <2>2, <2>3 DEF NewLog, history, TypeOK
<1>9. CASE InitCurrent
  BY <1>9 DEF InitCurrent, work, memory, history, TypeOK
<1>10. CASE StartFlush
  <2>1. imm \in Seq(Nat) /\ StartTable(imm)
    BY <1>10 DEF StartFlush, TypeOK
  <2>2. vs' \in VersionSets /\ table' \in [number : Nat, records : Seq(Nat)] /\ pc' = "build"
    BY <2>1, StartTableFacts
  <2> QED BY <1>0, <1>10, <2>2 DEF StartFlush, directory, memory, history, TypeOK
<1>11. CASE FlushedTable
  <2>1. IsFiles(tables', CellSet)
    BY <1>11, WrittenFacts, ExtendedType DEF FlushedTable, WriteTable, TypeOK
  <2>2. edit' \in Edits
    BY <1>11, FlushedFacts
  <2> QED BY <1>11, <2>1, <2>2 DEF FlushedTable, memory, history, TypeOK
<1>12. CASE WriteSnapshot
  <2>1. edit' \in Edits /\ <<SnapshotOf(vs.files)>> \in Seq(Edits) /\ IsFiles(manifests, Edits)
    BY <1>12, WriteSnapshotFacts DEF TypeOK
  <2>2. IsFiles(manifests', Edits)
    BY <1>12, <2>1, ExtendedType DEF WriteSnapshot
  <2> QED BY <1>12, <2>1, <2>2 DEF WriteSnapshot, memory, history, TypeOK
<1>13. CASE WriteEdit
  <2>1. <<edit>> \in Seq(Edits) /\ IsFiles(manifests, Edits)
    BY DEF TypeOK
  <2>2. IsFiles(manifests', Edits)
    BY <1>13, <2>1, ExtendedType DEF WriteEdit
  <2> QED BY <1>13, <2>2 DEF WriteEdit, memory, work, history, TypeOK
<1>14. CASE TruncateCurrent
  BY <1>14 DEF TruncateCurrent, memory, work, history, TypeOK
<1>15. CASE Install
  <2>1. vs' \in VersionSets /\ <<>> \in Seq(Nat)
    BY <1>15, InstallFacts
  <2> QED BY <1>15, <2>1 DEF Install, work, history, TypeOK
<1>16. CASE ListFiles
  BY <1>16 DEF ListFiles, directory, memory, history, TypeOK
<1>17. CASE Unlink
  <2>1. /\ IsFiles(logs', Nat) /\ IsFiles(manifests', Edits)
        /\ IsFiles(tables', CellSet)
    BY <1>17, WithoutType DEF Unlink, TypeOK
  <2> QED BY <1>17, <2>1 DEF Unlink, memory, history, TypeOK
<1>18. CASE Cleaned
  BY <1>18 DEF Cleaned, directory, memory, work, history, TypeOK
<1>19. CASE AppendLog
  <2>1. <<vs.last + 1>> \in Seq(Nat) /\ IsFiles(logs, Nat) /\ logFile \in Nat
    BY DEF TypeOK
  <2>2. IsFiles(logs', Nat)
    BY <1>19, <2>1, ExtendedType DEF AppendLog
  <2> QED BY <1>19, <2>2 DEF AppendLog, work, history, TypeOK
<1>20. CASE Insert
  <2>1. vs' \in VersionSets
    BY <1>20, InsertFacts
  <2>2. mem \in Seq(Nat) /\ vs.last + 1 \in Nat /\ acked \subseteq Nat
    BY DEF TypeOK
  <2>3. mem' = Append(mem, vs.last + 1) /\ acked' = acked \cup {vs.last + 1}
    BY <1>20 DEF Insert
  <2>4. mem' \in Seq(Nat)
    BY <2>2, <2>3
  <2>5. acked' \subseteq Nat
    BY <2>2, <2>3
  <2> QED BY <1>20, <2>1, <2>4, <2>5 DEF Insert, directory, work, history, TypeOK
<1>21. CASE Rotate
  <2>1. <<>> \in Seq(Nat) /\ IsFiles(logs, Nat)
    BY DEF TypeOK
  <2>2. IsFiles(logs', Nat)
    BY <1>21, <2>1, ExtendedType DEF Rotate
  <2>3. vs' \in VersionSets
    BY <1>21, RotateFacts
  <2> QED BY <1>21, <2>1, <2>2, <2>3 DEF Rotate, work, history, TypeOK
<1>22. CASE Crash
  <2>1. LeaveTable \/ UNCHANGED <<tables, harmed>>
    BY <1>22 DEF Crash
  <2>2. /\ UNCHANGED <<current, manifests, logs, acked>> /\ failures' \in Nat
        /\ LoseMemory
    BY <1>22 DEF Crash, CountFailure, TypeOK
  <2> QED BY <2>1, <2>2, LoseFacts, LeaveType DEF TypeOK
<1>23. CASE RecoveryBuildFails
  <2>1. Head(replay) \in DOMAIN logs /\ Tail(replay) \in Seq(Nat)
    BY <1>23, HeadFacts DEF RecoveryBuildFails, Replaying, ReplayInv
  <2>2. vs' \in VersionSets
    BY <1>23, <2>1, ReplayedType DEF RecoveryBuildFails
  <2>3. IsFiles(tables', CellSet)
    <3>1. IsFiles(tables, CellSet) /\ table.number \in Nat
      BY DEF TypeOK
    <3> QED BY <1>23, <3>1, RecoveryFacts, ExtendedType
  <2> QED BY <1>23, <2>1, <2>2, <2>3 DEF RecoveryBuildFails, CountFailure, memory, TypeOK
<1>24. ASSUME FlushBuildFails \/ BackgroundThrows
       PROVE  TypeOK'
  <2>1. LeaveTable \/ UNCHANGED <<tables, harmed>>
    BY <1>24 DEF FlushBuildFails, BackgroundThrows
  <2>2. /\ UNCHANGED <<current, manifests, logs, phase, vs, memory, work, acked>>
        /\ pc' \in {"idle", "thrown"} /\ failures' \in Nat
    BY <1>24 DEF FlushBuildFails, BackgroundThrows, CountFailure, TypeOK
  <2>3. bgError' \in BOOLEAN
    BY <1>24, Zenon DEF FlushBuildFails, BackgroundThrows, TypeOK
  <2> QED BY <2>1, <2>2, <2>3, LeaveType DEF memory, work, TypeOK
<1>25. CASE OpeningFails
  <2>1. IsFiles(manifests', Edits)
    BY <1>25, WithoutType DEF OpeningFails, UnlinkDescriptor, TypeOK
  <2>2. /\ UNCHANGED <<current, logs, tables, acked, harmed>> /\ failures' \in Nat
        /\ LoseMemory
    BY <1>25 DEF OpeningFails, CountFailure, UnlinkDescriptor, TypeOK
  <2> QED BY <2>1, <2>2, LoseFacts DEF TypeOK
<1>26. CASE ApplyFails
  <2>1. IsFiles(manifests', Edits)
    BY <1>26, WithoutType DEF ApplyFails, UnlinkDescriptor, TypeOK
  <2> QED BY <1>26, <2>1 DEF ApplyFails, CountFailure, UnlinkDescriptor, memory, work, TypeOK
<1>27. CASE UNCHANGED vars
  BY <1>27 DEF vars, directory, memory, work, history, TypeOK
<1>28. CASE ReaderThrows
  BY <1>28 DEF ReaderThrows, directory, work, memory, history, TypeOK
<1> QED
  BY <1>1, <1>2, <1>3, <1>4, <1>5, <1>6, <1>7, <1>8, <1>9, <1>10, <1>11, <1>12,
     <1>13, <1>14, <1>15, <1>16, <1>17, <1>18, <1>19, <1>20, <1>21, <1>22, <1>23,
     <1>24, <1>25, <1>26, <1>27, <1>28
     DEF Next, Opening, Flushing, Applying, Writing, Failing, Rest

\* An edit is appended to descriptor f.
EditAdded(mf, mf2, f, e) ==
  /\ DOMAIN mf2 = DOMAIN mf \cup {f}
  /\ \A k \in DOMAIN mf : k # f => mf2[k] = mf[k]
  /\ Files(mf2[f]) = (IF f \in DOMAIN mf THEN Files(mf[f]) ELSE {}) \cup e.adds
  /\ e.meta => HasMeta(mf2[f]) /\ Meta(mf2[f]) = e
  /\ ~e.meta /\ f \in DOMAIN mf /\ HasMeta(mf[f]) =>
       HasMeta(mf2[f]) /\ Meta(mf2[f]) = Meta(mf[f])

LEMMA EditAppended ==
  ASSUME NEW mf, IsFiles(mf, Edits), NEW f \in Nat, NEW e \in Edits,
         NEW mf2, mf2 = Extended(mf, f, <<e>>)
  PROVE  EditAdded(mf, mf2, f, e)
<1>1. /\ DOMAIN mf2 = DOMAIN mf \cup {f}
      /\ \A k \in DOMAIN mf : k # f => mf2[k] = mf[k]
  BY DEF Extended
<1>2. CASE f \in DOMAIN mf
  <2>1. mf2[f] = mf[f] \o <<e>> /\ mf[f] \in Seq(Edits)
    BY <1>2 DEF Extended, IsFiles
  <2>2. /\ Files(mf[f] \o <<e>>) = Files(mf[f]) \cup e.adds
        /\ e.meta => HasMeta(mf[f] \o <<e>>) /\ Meta(mf[f] \o <<e>>) = e
        /\ ~e.meta /\ HasMeta(mf[f]) =>
             HasMeta(mf[f] \o <<e>>) /\ Meta(mf[f] \o <<e>>) = Meta(mf[f])
    BY <2>1, Appended
  <2> QED BY <1>1, <1>2, <2>1, <2>2 DEF EditAdded
<1>3. CASE f \notin DOMAIN mf
  <2> DEFINE es == <<>>
  <2>1. mf2[f] = es \o <<e>> /\ es \in Seq(Edits)
    BY <1>3 DEF Extended
  <2>2. Files(es) = {}
    BY DEF Files
  <2> HIDE DEF es
  <2>3. /\ Files(es \o <<e>>) = Files(es) \cup e.adds
        /\ e.meta => HasMeta(es \o <<e>>) /\ Meta(es \o <<e>>) = e
    BY <2>1, Appended
  <2> QED BY <1>1, <1>3, <2>1, <2>2, <2>3 DEF EditAdded
<1> QED BY <1>2, <1>3

-----------------------------------------------------------------------------
(***************************************************************************)
(* Opening: what holds before there is a descriptor, and while logs are    *)
(* replayed.                                                               *)
(***************************************************************************)

\* A number is never used for a second log.
LEMMA FreshLog ==
  ASSUME IInv
  PROVE  /\ NewLog => \A n \in DOMAIN logs : n < vs.next
         /\ Rotate => \A n \in DOMAIN logs : n < vs.next
<1>1. CASE NewLog
  <2>1. pc = "replay" /\ replay = <<>> /\ phase # "open"
    BY <1>1 DEF NewLog, IInv, PhaseInv
  <2>2. /\ BaseInv
        /\ \A n \in DOMAIN logs : n >= Base.log =>
             n \in ToSet(replay) \/ n < vs.next
    BY <2>1 DEF IInv, ReplayInv, Replaying
  <2>3. ToSet(replay) = {}
    BY <2>1 DEF ToSet
  <2>4. SaneNow(current) /\ manifests[current] \in Seq(Edits)
    BY <2>2 DEF IInv, DiskInv, BaseInv, TypeOK, IsFiles
  <2>5. Base \in Edits /\ Base.log < Base.next
    BY <2>4, MetaType DEF Sane, SaneNow, Sound, Base
  <2>6. Base.log \in Nat /\ Base.next \in Nat /\ vs.next \in Nat
    BY <2>5, EditType, Fields DEF IInv
  <2>7. \A n \in DOMAIN logs : n \in Nat
    BY DEF IInv, TypeOK, IsFiles
  <2>8. vs.next > Base.next
    BY <2>2 DEF BaseInv
  <2> QED BY <2>2, <2>3, <2>5, <2>6, <2>7, <2>8, <1>1
              DEF Rotate
<1>2. CASE Rotate
  <2>1. Running
    BY <1>2 DEF Rotate, Running
  <2> QED BY <1>2, <2>1 DEF IInv, MemoryInv, Rotate, NewLog
<1> QED BY <1>1, <1>2

LEMMA LogsStep ==
  ASSUME IInv, [Next]_vars
  PROVE  LogsInv'
<1>0. TypeOK /\ LogsInv
  BY DEF IInv
<1>1. ASSUME NewLog \/ Rotate
      PROVE  LogsInv'
  <2>1. logs' = Extended(logs, vs.next, <<>>) /\ vs.next \notin DOMAIN logs
    <3>1. \A n \in DOMAIN logs : n < vs.next
      BY <1>1, FreshLog
    <3>2. vs.next \in Nat
      BY <1>0, Fields
    <3> QED BY <1>1, <3>1, <3>2 DEF NewLog, Rotate
  <2>2. /\ DOMAIN logs' = DOMAIN logs \cup {vs.next} /\ logs'[vs.next] = <<>>
        /\ \A n \in DOMAIN logs : logs'[n] = logs[n]
    <3>1. <<>> \o <<>> = <<>>
      OBVIOUS
    <3> QED BY <2>1, <3>1 DEF Extended
  <2>3. ToSet(logs'[vs.next]) = {}
    BY <2>2 DEF ToSet
  <2>4. IsFiniteSet(DOMAIN logs')
    BY <1>0, <2>2, FS_AddElement DEF LogsInv
  <2> QED BY <1>0, <2>2, <2>3, <2>4 DEF LogsInv
<1>2. CASE AppendLog
  <2> DEFINE s == logs[logFile] \o <<vs.last + 1>>
  <2>1. /\ Running /\ ~inflight /\ logs' = Extended(logs, logFile, <<vs.last + 1>>)
    BY <1>2 DEF AppendLog, Running
  <2>2. /\ logFile \in DOMAIN logs /\ logs[logFile] = mem \o <<>>
        /\ \A r \in ToSet(mem) : r <= vs.last
    BY <2>1 DEF IInv, MemoryInv
  <2>3. mem \in Seq(Nat) /\ vs.last \in Nat
    BY <1>0, Fields DEF TypeOK
  <2>4. logs[logFile] = mem
    BY <2>2, <2>3
  <2>5. DOMAIN logs' = DOMAIN logs /\ logs'[logFile] = s
        /\ \A n \in DOMAIN logs : n # logFile => logs'[n] = logs[n]
    BY <2>1, <2>2 DEF Extended
  <2>6. /\ s \in Seq(Nat) /\ Len(s) = Len(mem) + 1 /\ s[Len(mem) + 1] = vs.last + 1
        /\ Len(mem) \in Nat /\ \A i \in 1..Len(mem) : s[i] = mem[i]
    BY <2>3, <2>4
  <2> HIDE DEF s
  <2>7. Last(s) = vs.last + 1
    BY <2>6 DEF Last
  <2>8. \A i \in 1..Len(mem) : mem[i] <= vs.last /\ mem[i] \in Nat
    BY <2>2, <2>3 DEF ToSet
  <2>9. \A i \in DOMAIN s : s[i] <= vs.last + 1
    BY <2>6, <2>8, <2>3
  <2>10. \A r \in ToSet(s) : r <= Last(s)
    BY <2>7, <2>9 DEF ToSet
  <2> QED BY <1>0, <2>5, <2>10 DEF LogsInv
<1>3. CASE Unlink
  <2>1. PICK t \in trash :
          logs' = IF t[1] = "log" THEN Without(logs, t[2]) ELSE logs
    BY <1>3 DEF Unlink
  <2>2. DOMAIN logs' \subseteq DOMAIN logs /\ \A n \in DOMAIN logs' : logs'[n] = logs[n]
    BY <2>1 DEF Without
  <2>3. IsFiniteSet(DOMAIN logs')
    BY <1>0, <2>2, FS_Subset DEF LogsInv
  <2> QED BY <1>0, <2>2, <2>3 DEF LogsInv
<1>4. ASSUME logs' = logs
      PROVE  LogsInv'
  BY <1>0, <1>4 DEF LogsInv
<1> QED
  BY <1>1, <1>2, <1>3, <1>4
     DEF Next, Opening, Flushing, Applying, Writing, Failing, Rest, vars, directory,
         Open, InitDescriptor, ReadFails, ReadDescriptor, SkipLog, ReplayLog,
         RecoveredTable, InitCurrent, StartFlush, FlushedTable, WriteSnapshot,
         WriteEdit, TruncateCurrent, Install, ListFiles, Cleaned, Insert, Crash,
         ReaderThrows, RecoveryBuildFails, FlushBuildFails, BackgroundThrows,
         OpeningFails, ApplyFails, UnlinkDescriptor

\* A descriptor that nothing harmed can be read.
LEMMA GoodReadable ==
  ASSUME IInv, current > 0, ~harmed
  PROVE  Readable
<1>1. SaneNow(current) /\ GoodNow(current)
  BY DEF IInv, DiskInv, GoodNow, Good
<1> QED BY <1>1 DEF SaneNow, GoodNow, Sane, Good, HasMeta, Readable, Intact, FilesInv

LEMMA PhaseStep ==
  ASSUME IInv, [Next]_vars
  PROVE  PhaseInv'
<1>0. /\ TypeOK /\ PhaseInv /\ NewInv /\ MemoryInv /\ NoEdit.meta = FALSE
      /\ phase \in {"down", "opening", "open", "corrupt", "unread"}
      /\ pc \in {"idle", "init", "read", "replay", "build", "snapshot", "edit",
                 "truncate", "point", "list", "unlink", "thrown"}
      /\ edit.meta \in BOOLEAN /\ current \in Nat \cup {Torn}
  BY Fields DEF IInv, NoEdit, SnapshotOf, TypeOK
<1> USE <1>0 DEF PhaseInv
<1>1. CASE Open
  BY <1>1 DEF Open, directory, work, memory, history, Torn, Absent
<1>2. CASE InitDescriptor
  BY <1>2 DEF InitDescriptor, work, memory, history
<1>3. CASE ReadFails
  <2>1. harmed \/ current = Torn
    <3>1. SUFFICES ASSUME ~harmed, current # Torn PROVE FALSE
      OBVIOUS
    <3>2. pc = "read" /\ ~Readable
      BY <1>3 DEF ReadFails
    <3>3. current > 0
      BY <3>1, <3>2 DEF Torn, Absent
    <3> QED BY <3>1, <3>2, <3>3, GoodReadable
  <2> QED BY <1>3, <2>1 DEF ReadFails, directory, work, memory, history
<1>4. CASE ReadDescriptor
  <2>1. current # Torn
    BY <1>4 DEF ReadDescriptor, Readable, TypeOK, IsFiles, Torn
  <2> QED BY <1>4, <2>1 DEF ReadDescriptor, directory, memory
<1>5. ASSUME SkipLog \/ ReplayLog \/ RecoveredTable \/ RecoveryBuildFails
      PROVE  PhaseInv'
  BY <1>5 DEF SkipLog, ReplayLog, RecoveredTable, RecoveryBuildFails, StartTable,
              directory, memory, history
<1>6. CASE NewLog
  <2>1. edit'.meta
    BY <1>6, NewLogFacts DEF EditIs
  <2> QED BY <1>6, <2>1 DEF NewLog, history
<1>7. CASE InitCurrent
  <2>1. vs.manifest = 1 /\ phase = "opening"
    BY <1>7 DEF InitCurrent, NewInv, New
  <2> QED BY <1>7, <2>1 DEF InitCurrent, work, memory, history, Torn, Absent
<1>8. CASE StartFlush
  BY <1>8 DEF StartFlush, StartTable, directory, memory, history
<1>9. CASE FlushedTable
  <2>1. edit'.meta
    BY <1>9, FlushedFacts DEF EditIs
  <2> QED BY <1>9, <2>1 DEF FlushedTable, memory, history
<1>10. CASE WriteSnapshot
  <2>1. edit'.meta = edit.meta
    BY <1>10, WriteSnapshotFacts DEF EditIs
  <2> QED BY <1>10, <2>1 DEF WriteSnapshot, memory, history
<1>11. CASE WriteEdit
  BY <1>11 DEF WriteEdit, memory, work, history
<1>12. CASE TruncateCurrent
  BY <1>12 DEF TruncateCurrent, memory, work, history
<1>13. CASE Install
  <2>1. vs.manifest \in Nat
    BY Fields
  <2>2. phase = "opening" \/ phase = "open"
    BY <1>13 DEF Install
  <2> QED BY <1>13, <2>1, <2>2 DEF Install, work, history, Torn
<1>14. ASSUME ListFiles \/ Unlink \/ Cleaned
       PROVE  PhaseInv'
  BY <1>14 DEF ListFiles, Unlink, Cleaned, directory, memory, work, history
<1>15. ASSUME AppendLog \/ Insert \/ Rotate
       PROVE  PhaseInv'
  BY <1>15 DEF AppendLog, Insert, Rotate, directory, work, history
<1>16. ASSUME Crash \/ OpeningFails
       PROVE  PhaseInv'
  <2>1. LoseMemory /\ current' = current
    BY <1>16 DEF Crash, OpeningFails, UnlinkDescriptor
  <2> QED BY <2>1, LoseFacts
<1>17. CASE ReaderThrows
  <2>1. current # Torn
    BY <1>17 DEF ReaderThrows, TypeOK, IsFiles, Torn
  <2> QED BY <1>17, <2>1 DEF ReaderThrows, directory, work, memory, history
<1>18. ASSUME FlushBuildFails \/ BackgroundThrows \/ ApplyFails
       PROVE  PhaseInv'
  <2>1. /\ UNCHANGED <<current, phase, memory, edit>> /\ phase = "open"
        /\ pc' \in {"idle", "thrown"} /\ pc \notin {"idle", "read"}
        /\ pc = "point" => pc' = "idle" /\ harmed' /\ bgError'
    BY <1>18 DEF FlushBuildFails, BackgroundThrows, ApplyFails, UnlinkDescriptor, work
  <2> QED BY <2>1 DEF memory
<1>19. CASE UNCHANGED vars
  BY <1>19 DEF vars, directory, memory, work, history
<1> QED
  BY <1>1, <1>2, <1>3, <1>4, <1>5, <1>6, <1>7, <1>8, <1>9, <1>10, <1>11, <1>12,
     <1>13, <1>14, <1>15, <1>16, <1>17, <1>18, <1>19
     DEF Next, Opening, Flushing, Applying, Writing, Failing, Rest

LEMMA NewStep ==
  ASSUME IInv, [Next]_vars
  PROVE  NewInv'
<1>0. /\ TypeOK /\ PhaseInv /\ NewInv /\ NoEdit.meta = FALSE
      /\ phase \in {"down", "opening", "open", "corrupt", "unread"}
      /\ edit.meta \in BOOLEAN /\ current \in Nat \cup {Torn}
  BY Fields DEF IInv, NoEdit, SnapshotOf, TypeOK
<1>a. phase = "open" => ~New
  BY <1>0 DEF NewInv
<1>1. CASE Open
  <2>1. /\ UNCHANGED <<directory, vs, edit, acked>> /\ phase = "down" /\ phase' = "opening"
        /\ pc' = IF current = Absent THEN "init" ELSE "read"
    BY <1>1 DEF Open, work, history
  <2>2. New' => New
    BY <2>1 DEF New, directory
  <2>3. CASE current = Absent
    BY <1>0, <2>1, <2>2, <2>3 DEF NewInv, directory, New, PhaseInv
  <2>4. CASE current # Absent
    BY <1>0, <2>1, <2>2, <2>4 DEF NewInv, directory, New, PhaseInv
  <2> QED BY <2>3, <2>4
<1>2. CASE InitDescriptor
  <2>1. /\ pc = "init" /\ pc' = "truncate" /\ edit' = edit /\ edit = NoEdit
        /\ UNCHANGED <<logs, tables, acked, current, phase>> /\ phase = "opening"
        /\ manifests' = Extended(manifests, 1, <<FirstMeta>>)
    BY <1>0, <1>2 DEF InitDescriptor, PhaseInv, work, history
  <2>2. current = Absent /\ New
    BY <1>0, <2>1 DEF NewInv, New
  <2>3. /\ DOMAIN logs = {} /\ DOMAIN tables = {} /\ acked = {}
        /\ \A k \in DOMAIN manifests : k = 1 /\ Files(manifests[k]) = {}
    BY <1>0, <2>2 DEF NewInv
  <2>4. vs'.manifest = 1
    BY <1>0, <1>2, InitDescriptorFacts DEF VersionIs
  <2>5. FirstMeta \in Edits /\ FirstMeta.adds = {} /\ FirstMeta.meta
    BY NoEditType DEF EditIs
  <2>6. EditAdded(manifests, manifests', 1, FirstMeta)
    <3>1. IsFiles(manifests, Edits) /\ 1 \in Nat
      BY <1>0 DEF TypeOK
    <3> QED BY <2>1, <2>5, <3>1, EditAppended
  <2>7. /\ DOMAIN manifests' = DOMAIN manifests \cup {1}
        /\ Files(manifests'[1]) = {} /\ HasMeta(manifests'[1])
        /\ Meta(manifests'[1]) = FirstMeta
    BY <2>3, <2>5, <2>6 DEF EditAdded
  <2>8. \A k \in DOMAIN manifests' : k = 1
    BY <2>3, <2>7
  <2> QED BY <1>0, <2>1, <2>2, <2>3, <2>4, <2>7, <2>8 DEF NewInv
<1>3. CASE TruncateCurrent
  <2>1. /\ pc = "truncate" /\ pc' = "point" /\ current' = Torn
        /\ UNCHANGED <<manifests, logs, tables, acked, phase, vs, edit>>
    BY <1>3 DEF TruncateCurrent, work, history
  <2>2. New' => New
    BY <2>1 DEF New, Torn, Absent
  <2> QED BY <1>0, <2>1, <2>2 DEF NewInv, New
<1>4. CASE InitCurrent
  <2>1. vs.manifest = 1 /\ pc' = "read" /\ current' = vs.manifest
    BY <1>0, <1>4 DEF InitCurrent, NewInv, New
  <2> QED BY <2>1 DEF NewInv, New, Absent
<1>5. CASE Install
  <2>1. pc' = "list" /\ current' = vs.manifest /\ ~New /\ phase \in {"opening", "open"}
    BY <1>0, <1>5 DEF Install, NewInv, PhaseInv, New, Torn, Absent
  <2>2. vs.manifest > 0
    <3>1. CASE phase = "open"
      BY <3>1 DEF IInv, MemoryInv, Running
    <3>2. CASE phase = "opening"
      <4>1. edit.meta
        BY <1>5, <2>1, <1>0 DEF Install, New
      <4> QED BY <1>5, <3>2, <4>1 DEF Install, IInv, OpenedInv, Switching
    <3> QED BY <2>1, <3>1, <3>2
  <2> QED BY <2>1, <2>2, Fields, <1>0 DEF NewInv, New, Absent
<1>6. ASSUME Crash \/ OpeningFails
      PROVE  NewInv'
  <2>1. LoseMemory /\ current' = current /\ acked' = acked /\ logs' = logs
        /\ phase \in {"open", "opening"}
    BY <1>6 DEF Crash, OpeningFails, UnlinkDescriptor
  <2>2. CASE ~New'
    BY <2>1, <2>2, LoseFacts DEF NewInv, New
  <2>3. CASE New'
    <3>1. New /\ current = Absent
      BY <2>1, <2>3, LoseFacts DEF New
    <3>2. /\ pc \in {"init", "truncate", "point"}
          /\ pc \in {"truncate", "point"} => edit = NoEdit
      BY <1>0, <2>1, <3>1 DEF NewInv
    <3>3. Crash
      BY <1>6, <3>2 DEF OpeningFails, UnlinkDescriptor
    <3>4. UNCHANGED <<tables, manifests>>
      BY <3>2, <3>3 DEF Crash
    <3> QED BY <1>0, <2>1, <3>1, <3>4, LoseFacts DEF NewInv, New
  <2> QED BY <2>2, <2>3
<1>7. ASSUME WriteSnapshot \/ WriteEdit \/ NewLog \/ ReadFails \/ ReadDescriptor \/ SkipLog
               \/ ReplayLog \/ RecoveredTable \/ RecoveryBuildFails \/ ReaderThrows
      PROVE  NewInv'
  <2>1. /\ current' = current /\ ~New
        /\ pc' \in {"truncate", "point"} => edit'.meta
        /\ pc' # "init"
    BY <1>0, <1>7 DEF WriteSnapshot, WriteEdit, NewLog, ReadFails, ReadDescriptor, SkipLog,
         ReplayLog, RecoveredTable, RecoveryBuildFails, ReaderThrows, StartTable, directory,
         work, NewInv, PhaseInv, New
  <2> QED BY <2>1 DEF NewInv, New
<1>8. ASSUME \/ FlushedTable \/ StartFlush \/ ListFiles \/ Unlink \/ Cleaned
             \/ FlushBuildFails \/ BackgroundThrows \/ ApplyFails
      PROVE  NewInv'
  <2>1. /\ current' = current /\ ~New
        /\ pc' \notin {"truncate", "point", "init"}
    BY <1>0, <1>8, <1>a DEF FlushedTable, StartFlush, ListFiles, Unlink, Cleaned, PhaseInv,
         FlushBuildFails, BackgroundThrows, ApplyFails, UnlinkDescriptor, StartTable, directory,
         NewInv, New
  <2> QED BY <2>1 DEF NewInv, New
<1>9. ASSUME AppendLog \/ Insert \/ Rotate
      PROVE  NewInv'
  <2>1. /\ current' = current /\ ~New /\ UNCHANGED <<pc, edit>> /\ phase = "open"
    BY <1>0, <1>9, <1>a DEF AppendLog, Insert, Rotate, directory, work, PhaseInv
  <2> QED BY <1>0, <2>1 DEF NewInv, New, PhaseInv
<1>10. CASE UNCHANGED vars
  BY <1>0, <1>10 DEF vars, directory, work, history, NewInv, New
<1> QED
  BY <1>1, <1>2, <1>3, <1>4, <1>5, <1>6, <1>7, <1>8, <1>9, <1>10
     DEF Next, Opening, Flushing, Applying, Writing, Failing, Rest

\* What an opening knows of the descriptor that it read.
LEMMA BaseFacts ==
  ASSUME IInv, BaseInv
  PROVE  /\ SaneNow(current) /\ Base \in Edits /\ HasMeta(manifests[current])
         /\ Base.log \in Nat /\ Base.next \in Nat /\ Base.last \in Nat
         /\ Base.log < Base.next /\ current < Base.next /\ current \in Nat
         /\ Sound(Kept(logs, Base), tables, Base)
         /\ ~harmed => /\ Intact(Kept(logs, Base), tables, acked, Base,
                                 Files(manifests[current]))
                       /\ AttemptsInv(Kept(logs, Base), manifests, Base,
                                      Files(manifests[current]))
                       /\ KeptInv(Kept(logs, Base), Base)
<1>1. SaneNow(current) /\ manifests[current] \in Seq(Edits) /\ current \in Nat
  BY DEF IInv, DiskInv, BaseInv, TypeOK, IsFiles
<1>2. Base \in Edits /\ HasMeta(manifests[current]) /\ current < Base.next
      /\ Sound(Kept(logs, Base), tables, Base)
  BY <1>1, MetaType DEF Sane, SaneNow, Base
<1>3. Base.log < Base.next
  BY <1>2 DEF Sound
<1>4. ~harmed => GoodNow(current)
  BY DEF IInv, DiskInv, BaseInv
<1>5. ~harmed => /\ Intact(Kept(logs, Base), tables, acked, Base,
                           Files(manifests[current]))
                 /\ AttemptsInv(Kept(logs, Base), manifests, Base,
                                Files(manifests[current]))
  BY <1>4 DEF GoodNow, Good, Base
<1> QED BY <1>1, <1>2, <1>3, <1>5, EditType DEF Intact

LEMMA TailFacts ==
  ASSUME NEW s \in Seq(Nat), s # <<>>
  PROVE  /\ ToSet(s) = {Head(s)} \cup ToSet(Tail(s)) /\ Head(s) \in Nat
         /\ Ascending(s) => /\ Ascending(Tail(s))
                            /\ \A x \in ToSet(Tail(s)) : x \in Nat /\ Head(s) < x
<1>1. /\ Len(s) \in Nat \ {0} /\ DOMAIN s = 1..Len(s) /\ Head(s) = s[1]
      /\ DOMAIN Tail(s) = 1..(Len(s) - 1)
      /\ \A i \in 1..(Len(s) - 1) : Tail(s)[i] = s[i + 1]
      /\ \A i \in DOMAIN s : s[i] \in Nat
  OBVIOUS
<1> DEFINE t == Tail(s)
           h == Head(s)
           n == Len(s)
<1> HIDE DEF t, h, n
<1>2. /\ n \in Nat \ {0} /\ DOMAIN s = 1..n /\ h = s[1] /\ DOMAIN t = 1..(n - 1)
      /\ \A i \in 1..(n - 1) : t[i] = s[i + 1]
      /\ \A i \in DOMAIN s : s[i] \in Nat
  BY <1>1 DEF t, h, n
<1>3. ToSet(s) = {h} \cup ToSet(t)
  <2>1. ASSUME NEW x \in ToSet(s) PROVE x \in {h} \cup ToSet(t)
    <3>1. PICK i \in 1..n : x = s[i]
      BY <1>2 DEF ToSet
    <3>2. i = 1 \/ (i - 1 \in 1..(n - 1) /\ t[i - 1] = s[i])
      BY <1>2
    <3> QED BY <1>2, <3>1, <3>2 DEF ToSet
  <2>2. ASSUME NEW x \in {h} \cup ToSet(t) PROVE x \in ToSet(s)
    <3>1. CASE x = h
      <4>1. 1 \in DOMAIN s
        BY <1>2
      <4> QED BY <1>2, <3>1, <4>1 DEF ToSet
    <3>2. CASE x \in ToSet(t)
      <4>1. PICK i \in 1..(n - 1) : x = t[i]
        BY <1>2, <3>2 DEF ToSet
      <4>2. i + 1 \in DOMAIN s /\ x = s[i + 1]
        BY <1>2, <4>1
      <4> QED BY <4>2 DEF ToSet
    <3> QED BY <2>2, <3>1, <3>2
  <2> QED BY <2>1, <2>2
<1>4. ASSUME Ascending(s)
      PROVE  Ascending(t) /\ \A x \in ToSet(t) : x \in Nat /\ h < x
  <2>1. \A i, j \in 1..n : i < j => s[i] < s[j]
    BY <1>2, <1>4 DEF Ascending
  <2>2. Ascending(t)
    <3>1. ASSUME NEW i \in 1..(n - 1), NEW j \in 1..(n - 1), i < j
          PROVE  t[i] < t[j]
      BY <1>2, <2>1, <3>1
    <3> QED BY <1>2, <3>1 DEF Ascending
  <2>3. ASSUME NEW i \in 1..(n - 1)
        PROVE  t[i] \in Nat /\ h < t[i]
    BY <1>2, <2>1
  <2> QED BY <1>2, <2>2, <2>3 DEF ToSet
<1> QED BY <1>2, <1>3, <1>4 DEF t, h

\* The actions after which logs are replayed.
LEMMA ReplayingActions ==
  ASSUME IInv, [Next]_vars, Replaying'
  PROVE  \/ ReadDescriptor \/ SkipLog \/ RecoveredTable \/ RecoveryBuildFails \/ ReplayLog
         \/ UNCHANGED vars
<1>1. \/ ReadDescriptor \/ SkipLog \/ RecoveredTable \/ RecoveryBuildFails \/ ReplayLog
      \/ UNCHANGED vars \/ Crash \/ OpeningFails
      \/ pc' \notin {"replay", "build"} \/ (phase = "open" /\ phase' = "open")
  <2>1. CASE Opening
    BY <2>1 DEF Opening, Open, InitDescriptor, ReadFails, NewLog, InitCurrent
  <2>2. CASE Flushing
    BY <2>2 DEF Flushing, StartFlush, FlushedTable
  <2>3. CASE Applying
    BY <2>3 DEF Applying, WriteSnapshot, WriteEdit, TruncateCurrent, Install, ListFiles,
                Unlink, Cleaned
  <2>4. CASE Writing
    BY <2>4 DEF IInv, Writing, AppendLog, Insert, Rotate, PhaseInv
  <2>5. CASE Failing
    BY <2>5 DEF Failing, ReaderThrows, FlushBuildFails, BackgroundThrows, ApplyFails
  <2> QED BY <2>1, <2>2, <2>3, <2>4, <2>5 DEF Next, Rest
<1>2. Crash \/ OpeningFails => pc' = "idle"
  BY DEF Crash, OpeningFails, LoseMemory
<1>3. phase = "open" /\ phase' = "open" /\ pc' = "replay" => UNCHANGED vars
  BY DEF IInv, Next, Opening, Flushing, Applying, Writing, Failing, Rest, PhaseInv,
       Open, InitDescriptor, ReadFails, NewLog, InitCurrent, StartFlush, FlushedTable,
       ReadDescriptor, SkipLog, ReplayLog, RecoveredTable, RecoveryBuildFails, StartTable,
       WriteSnapshot, WriteEdit, TruncateCurrent, Install, ListFiles, Unlink, Cleaned, AppendLog,
       Insert, Rotate, ReaderThrows, FlushBuildFails, BackgroundThrows, ApplyFails, Crash,
       OpeningFails, LoseMemory
<1> QED BY <1>1, <1>2, <1>3 DEF Replaying

LEMMA ReplayStep ==
  ASSUME IInv, [Next]_vars
  PROVE  ReplayInv'
<1>0. TypeOK /\ LogsInv /\ PhaseInv /\ ReplayInv /\ \A n \in DOMAIN logs : n \in Nat
  BY DEF IInv, TypeOK, IsFiles
<1>1. CASE ReadDescriptor
  <2>1. /\ UNCHANGED <<current, manifests, logs>> /\ pc' = "replay" /\ pc = "read" /\ Readable
    BY <1>1 DEF ReadDescriptor, directory
  <2>2. current \in DOMAIN manifests /\ current > 0
    BY <1>0, <2>1 DEF Readable, PhaseInv, TypeOK, IsFiles, Absent
  <2>3. VersionIs(vs', Files(manifests[current]), Base.next + 1, Base.next, Base.log, Base.last)
        /\ Base.next \in Nat /\ Base.last \in Nat
    BY <1>0, <1>1, ReadFacts, EditType
  <2>4. Base' = Base
    BY <2>1 DEF Base
  <2>5. BaseInv'
    BY <2>1, <2>2, <2>3, <2>4 DEF BaseInv, VersionIs
  <2>6. ToSet(replay') = {n \in DOMAIN logs : n >= Base.log}
    BY <1>0, <1>1, ReadReplay
  <2> QED BY <2>1, <2>4, <2>5, <2>6 DEF ReplayInv
<1>2. ASSUME SkipLog \/ RecoveredTable \/ RecoveryBuildFails
      PROVE  ReplayInv'
  <2>1. /\ UNCHANGED <<current, manifests, logs>> /\ pc' = "replay" /\ Replaying
        /\ vs' = Replayed(vs, Head(replay)) /\ replay' = Tail(replay) /\ replay # <<>>
    BY <1>0, <1>2 DEF SkipLog, RecoveredTable, RecoveryBuildFails, directory, Replaying,
       ReplayInv
  <2> DEFINE h == Head(replay)
  <2>2. /\ BaseInv
        /\ \A n \in ToSet(replay) : n \in DOMAIN logs /\ n >= Base.log
        /\ \A n \in DOMAIN logs :
             n >= Base.log => \/ n \in ToSet(replay)
                              \/ n < vs.next /\ \A r \in ToSet(logs[n]) : r <= vs.last
    BY <1>0, <2>1 DEF ReplayInv
  <2>3. h \in DOMAIN logs /\ ToSet(replay) = {h} \cup ToSet(replay') /\ logs[h] \in Seq(Nat)
    BY <1>0, <2>1, HeadFacts, TailFacts DEF TypeOK
  <2>4. VersionIs(vs', vs.files, Larger(vs.next, h + 1), vs.manifest, vs.log,
                  IF logs[h] = <<>> THEN vs.last ELSE Larger(vs.last, Last(logs[h])))
    BY <1>0, <2>1, <2>3, ReplayedType
  <2> HIDE DEF h
  <2>5. /\ vs.next \in Nat /\ vs.last \in Nat /\ h \in Nat
        /\ logs[h] # <<>> => Last(logs[h]) \in Nat
        /\ logs[h] = <<>> => ToSet(logs[h]) = {}
    BY <1>0, <2>3, Fields, LastType DEF ToSet
  <2>6. /\ vs'.next >= vs.next /\ vs'.next > h /\ vs'.next \in Nat
        /\ vs'.last >= vs.last /\ (logs[h] # <<>> => vs'.last >= Last(logs[h]))
        /\ vs'.last \in Nat
    BY <2>4, <2>5 DEF VersionIs, Larger
  <2>7. Base' = Base
    BY <2>1 DEF Base
  <2>8. Base.next \in Nat /\ Base.last \in Nat
    BY <2>2, BaseFacts
  <2>9. BaseInv'
    BY <2>1, <2>2, <2>4, <2>5, <2>6, <2>7, <2>8 DEF BaseInv, VersionIs
  <2>10. \A r \in ToSet(logs[h]) : r <= vs'.last
    <3>1. \A r \in ToSet(logs[h]) : r \in Nat /\ r <= Last(logs[h])
      BY <1>0, <2>3 DEF LogsInv, ToSet
    <3> QED BY <2>5, <2>6, <3>1
  <2>11. ASSUME NEW n \in DOMAIN logs, n >= Base.log, n \notin ToSet(replay')
         PROVE  n < vs'.next /\ \A r \in ToSet(logs[n]) : r <= vs'.last
    <3>1. CASE n = h
      BY <2>5, <2>6, <2>10, <3>1
    <3>2. CASE n # h
      <4>1. n < vs.next /\ \A r \in ToSet(logs[n]) : r <= vs.last
        BY <2>2, <2>3, <2>11, <3>2
      <4>2. n \in Nat /\ \A r \in ToSet(logs[n]) : r \in Nat
        BY <1>0 DEF TypeOK, IsFiles, ToSet
      <4> QED BY <2>5, <2>6, <4>1, <4>2
    <3> QED BY <3>1, <3>2
  <2> QED BY <2>1, <2>2, <2>3, <2>7, <2>9, <2>11 DEF ReplayInv
<1>3. CASE ReplayLog
  <2>1. /\ UNCHANGED <<current, manifests, logs, replay>> /\ pc = "replay" /\ replay # <<>>
        /\ logs[Head(replay)] # <<>> /\ StartTable(logs[Head(replay)]) /\ Replaying
    BY <1>3 DEF ReplayLog, directory, Replaying
  <2>2. logs[Head(replay)] \in Seq(Nat)
    BY <1>0, <2>1, HeadFacts
  <2>3. /\ VersionIs(vs', vs.files, vs.next + 1, vs.manifest, vs.log, vs.last)
        /\ table'.records = logs[Head(replay)] /\ pc' = "build"
    BY <1>0, <2>1, <2>2, StartTableFacts
  <2>4. /\ BaseInv
        /\ \A n \in ToSet(replay) : n \in DOMAIN logs /\ n >= Base.log
        /\ \A n \in DOMAIN logs :
             n >= Base.log => \/ n \in ToSet(replay)
                              \/ n < vs.next /\ \A r \in ToSet(logs[n]) : r <= vs.last
    BY <1>0, <2>1 DEF ReplayInv
  <2>5. Base' = Base /\ vs.next \in Nat /\ Base.next \in Nat
    BY <1>0, <2>1, <2>4, Fields, BaseFacts DEF Base
  <2>6. BaseInv'
    BY <2>1, <2>3, <2>4, <2>5 DEF BaseInv, VersionIs
  <2>7. \A n \in DOMAIN logs :
          n >= Base.log => \/ n \in ToSet(replay)
                           \/ n < vs'.next /\ \A r \in ToSet(logs[n]) : r <= vs'.last
    BY <1>0, <2>3, <2>4, <2>5 DEF VersionIs
  <2> QED BY <2>1, <2>3, <2>4, <2>5, <2>6, <2>7 DEF ReplayInv
<1>4. CASE UNCHANGED vars
  BY <1>0, <1>4 DEF vars, directory, work, memory, ReplayInv, Replaying, BaseInv, Base
<1>5. CASE ~Replaying'
  BY <1>5 DEF ReplayInv
<1> QED BY <1>1, <1>2, <1>3, <1>4, <1>5, ReplayingActions

\* The table that is built while logs are replayed.
LEMMA ReplayedTable ==
  ASSUME IInv, phase = "opening", pc = "build"
  PROVE  /\ BaseInv /\ replay # <<>>
         /\ Head(replay) \in DOMAIN Kept(logs, Base) /\ Head(replay) \in ToSet(replay)
         /\ table.records = logs[Head(replay)] /\ table.records # <<>>
         /\ Kept(logs, Base)[Head(replay)] = table.records
         /\ table.records \in Seq(Nat)
<1>1. TypeOK /\ ReplayInv /\ Replaying
  BY DEF IInv, Replaying
<1>2. /\ BaseInv /\ replay # <<>>
      /\ \A n \in ToSet(replay) : n \in DOMAIN logs /\ n >= Base.log
      /\ table.records = logs[Head(replay)] /\ table.records # <<>>
  BY <1>1 DEF ReplayInv
<1>3. Head(replay) \in ToSet(replay) /\ logs[Head(replay)] \in Seq(Nat)
  BY <1>1, <1>2, HeadFacts
<1> QED BY <1>2, <1>3, KeptFacts, ZenonT(30)

\* If nothing harmed before, its file holds nothing else than the same table.
LEMMA ReplayedLeft ==
  ASSUME IInv, phase = "opening", pc = "build", ~harmed
  PROVE  /\ table.number = PlanOf(Base, Head(replay)) /\ vs.next = table.number + 1
         /\ Base.next < table.number /\ table.number \in Nat
         /\ \A n \in DOMAIN Kept(logs, Base) :
              PlanOf(Base, n) = table.number => n = Head(replay)
         /\ table.number \in DOMAIN tables =>
              tables[table.number] = <<>> \/ Copied(tables[table.number], table.records)
<1> DEFINE K == Kept(logs, Base)
           h == Head(replay)
<1>1. BaseInv /\ h \in DOMAIN K /\ K[h] = table.records
  BY ReplayedTable
<1>2. table.number = PlanOf(Base, h) /\ vs.next = table.number + 1
  BY DEF IInv, ReplayedInv, Replaying
<1>3. /\ KeptInv(K, Base) /\ LeftInv(K, tables, Base)
      /\ Base.log \in Nat /\ Base.next \in Nat /\ Base.log < Base.next
  BY <1>1, BaseFacts DEF Intact
<1> HIDE DEF K, h
<1>4. /\ Base.next < table.number /\ table.number \in Nat
      /\ \A n \in DOMAIN K : PlanOf(Base, n) = table.number => n = h
  BY <1>1, <1>2, <1>3 DEF KeptInv, PlanOf
<1>5. ASSUME table.number \in DOMAIN tables
      PROVE  tables[table.number] = <<>> \/ Copied(tables[table.number], table.records)
  <2>1. table.number >= Base.next
    BY <1>3, <1>4
  <2>2. PICK n \in DOMAIN K :
          /\ table.number = PlanOf(Base, n)
          /\ tables[table.number] = <<>> \/ Copied(tables[table.number], K[n])
    BY <1>3, <1>5, <2>1 DEF LeftInv
  <2>3. n = h
    BY <1>4, <2>2
  <2> QED BY <1>1, <2>2, <2>3
<1> QED BY <1>2, <1>4, <1>5 DEF K, h

\* The step to the next log, whether or not this one became a table.
LEMMA NextLog ==
  ASSUME IInv, ~harmed, Replaying, replay # <<>>, NEW v,
         VersionIs(v, vs.files, Larger(vs.next, Head(replay) + 1), vs.manifest, vs.log, v.last)
  PROVE  /\ Ascending(replay) /\ Ascending(Tail(replay))
         /\ Head(replay) \notin ToSet(Tail(replay))
         /\ ToSet(replay) = {Head(replay)} \cup ToSet(Tail(replay))
         /\ vs.next <= v.next /\ v.next \in Nat
         /\ Head(replay) \in Nat
         /\ \A n \in ToSet(Tail(replay)) :
              Head(replay) < n /\ n \in Nat /\ n # Base.log
<1>1. TypeOK /\ ReplayInv /\ ReplayedInv /\ replay \in Seq(Nat)
  BY DEF IInv, TypeOK
<1>2. Ascending(replay) /\ BaseInv /\ \A n \in ToSet(replay) : n >= Base.log
  BY <1>1 DEF ReplayInv, ReplayedInv
<1>3. /\ ToSet(replay) = {Head(replay)} \cup ToSet(Tail(replay)) /\ Head(replay) \in Nat
      /\ Ascending(Tail(replay))
      /\ \A x \in ToSet(Tail(replay)) : x \in Nat /\ Head(replay) < x
  BY <1>1, <1>2, TailFacts
<1>4. Base.log \in Nat /\ vs.next \in Nat
  BY <1>1, <1>2, BaseFacts, Fields
<1>5. vs.next <= v.next /\ v.next \in Nat
  BY <1>3, <1>4 DEF VersionIs, Larger
<1>6. \A n \in ToSet(Tail(replay)) : n # Base.log
  BY <1>2, <1>3, <1>4
<1>7. Head(replay) \notin ToSet(Tail(replay))
  BY <1>3
<1> QED BY <1>2, <1>3, <1>5, <1>6, <1>7

LEMMA ReplayedStep ==
  ASSUME IInv, [Next]_vars
  PROVE  ReplayedInv'
<1> DEFINE K == Kept(logs, Base)
<1>0. TypeOK /\ LogsInv /\ PhaseInv /\ ReplayInv /\ ReplayedInv
  BY DEF IInv
<1>1. CASE ReadDescriptor
  <2> SUFFICES ASSUME ~harmed' PROVE ReplayedInv'
    BY DEF ReplayedInv
  <2>1. /\ UNCHANGED <<current, manifests, logs, tables>> /\ pc' = "replay" /\ pc = "read"
        /\ Readable /\ Ascending(replay') /\ ~harmed /\ edit' = NoEdit
    BY <1>1 DEF ReadDescriptor, directory
  <2>2. current \in DOMAIN manifests /\ current > 0
    BY <1>0, <2>1 DEF Readable, PhaseInv, TypeOK, IsFiles, Absent
  <2>3. VersionIs(vs', Files(manifests[current]), Base.next + 1, Base.next, Base.log, Base.last)
        /\ Base.next \in Nat /\ Base.log \in Nat
    BY <1>0, <1>1, ReadFacts, EditType
  <2>4. Base' = Base /\ K' = K
    BY <2>1 DEF Base
  <2>5. ToSet(replay') = {n \in DOMAIN logs : n >= Base.log}
    BY <1>0, <1>1, ReadReplay
  <2>6. DOMAIN K \subseteq ToSet(replay')
    BY <2>5 DEF Kept
  <2>7. KeptInv(K, Base)
    BY <2>1, <2>2 DEF IInv, DiskInv, GoodNow, Good, Intact, Base
  <2>8. DOMAIN K \ ToSet(replay') = {}
    BY <2>6
  <2>9. edit'.adds = {}
    BY <2>1, NoEditType DEF EditIs
  <2>10. Planned(Base, {}) = {}
    BY DEF Planned
  <2>11. TablesDone(K, {})'
    BY DEF TablesDone
  <2>12. \A n \in ToSet(replay') \cap DOMAIN K :
           n = Base.log \/ Base.log \notin ToSet(replay') => vs'.next = PlanOf(Base, n)
    BY <2>3, <2>6, <2>7 DEF KeptInv, PlanOf, VersionIs
  <2> HIDE DEF K
  <2> QED BY <2>1, <2>4, <2>8, <2>9, <2>10, <2>11, <2>12 DEF ReplayedInv, K
<1>2. CASE SkipLog
  <2> SUFFICES ASSUME ~harmed' PROVE ReplayedInv'
    BY DEF ReplayedInv
  <2> DEFINE h == Head(replay)
  <2>1. /\ UNCHANGED <<current, manifests, logs, tables, edit, phase>> /\ pc' = "replay"
        /\ pc = "replay" /\ replay # <<>> /\ ~harmed
        /\ vs' = Replayed(vs, h) /\ replay' = Tail(replay) /\ logs[h] = <<>> /\ Replaying
    BY <1>2 DEF SkipLog, directory, history, Replaying
  <2>2. h \in DOMAIN logs
    BY <1>0, <2>1, HeadFacts
  <2>3. VersionIs(vs', vs.files, Larger(vs.next, h + 1), vs.manifest, vs.log, vs'.last)
    BY <1>0, <2>1, <2>2, ReplayedType DEF VersionIs
  <2>4. /\ Ascending(replay') /\ ToSet(replay) = {h} \cup ToSet(replay')
        /\ vs.next <= vs'.next /\ h \in Nat
        /\ \A n \in ToSet(replay') : h < n /\ n \in Nat /\ n # Base.log
    BY <2>1, <2>3, NextLog
  <2>5. h \notin DOMAIN K
    BY <2>1, KeptFacts
  <2>6. /\ BaseInv /\ edit.adds = Planned(Base, DOMAIN K \ ToSet(replay))
        /\ TablesDone(K, DOMAIN K \ ToSet(replay))
        /\ \A n \in ToSet(replay) \cap DOMAIN K :
             n = Base.log \/ Base.log \notin ToSet(replay) => vs.next = PlanOf(Base, n)
    BY <1>0, <2>1 DEF ReplayedInv, ReplayInv
  <2>7. DOMAIN K \ ToSet(replay) = DOMAIN K \ ToSet(replay')
    BY <2>4, <2>5
  <2>8. Base' = Base /\ K' = K
    BY <2>1 DEF Base
  <2>9. KeptInv(K, Base) /\ Base.log \in Nat /\ Base.next \in Nat /\ vs.next \in Nat
    BY <1>0, <2>1, <2>6, BaseFacts, Fields
  <2>10. ASSUME NEW n \in ToSet(replay') \cap DOMAIN K
         PROVE  vs'.next = PlanOf(Base, n)
    <3>1. n = Base.next /\ h < n /\ Base.log \in DOMAIN K
      BY <2>4, <2>9 DEF KeptInv
    <3>2. Base.log # h /\ Base.log \notin ToSet(replay)
      BY <2>4, <2>5, <3>1
    <3>3. vs.next = PlanOf(Base, n)
      BY <2>4, <2>6, <3>2
    <3> QED BY <2>3, <2>4, <2>9, <3>1, <3>3 DEF VersionIs, Larger, PlanOf
  <2>11. TablesDone(K, DOMAIN K \ ToSet(replay))'
    <3>1. \A n \in DOMAIN K \ ToSet(replay') :
             /\ PlanOf(Base, n) \in DOMAIN tables
             /\ PlanOf(Base, n) < vs.next /\ PlanOf(Base, n) \in Nat
             /\ Copied(tables[PlanOf(Base, n)], K[n])
      BY <2>6, <2>7, <2>9 DEF TablesDone, PlanOf
    <3>2. vs'.next \in Nat
      BY <2>3, <2>4, <2>9 DEF VersionIs, Larger
    <3> HIDE DEF K
    <3>3. \A n \in DOMAIN K \ ToSet(replay') : PlanOf(Base, n) < vs'.next
      BY <2>4, <2>9, <3>1, <3>2
    <3> QED BY <2>1, <2>8, <3>1, <3>3 DEF TablesDone
  <2> HIDE DEF K, h
  <2> QED BY <2>1, <2>4, <2>6, <2>7, <2>8, <2>10, <2>11 DEF ReplayedInv, K
<1>3. CASE ReplayLog
  <2> SUFFICES ASSUME ~harmed' PROVE ReplayedInv'
    BY DEF ReplayedInv
  <2> DEFINE h == Head(replay)
  <2>1. /\ UNCHANGED <<current, manifests, logs, tables, replay, edit>> /\ pc = "replay"
        /\ replay # <<>> /\ ~harmed
        /\ logs[h] # <<>> /\ StartTable(logs[h]) /\ Replaying
    BY <1>3 DEF ReplayLog, directory, Replaying, history
  <2>2. logs[h] \in Seq(Nat) /\ h \in DOMAIN logs /\ h \in ToSet(replay)
    BY <1>0, <2>1, HeadFacts
  <2>3. /\ VersionIs(vs', vs.files, vs.next + 1, vs.manifest, vs.log, vs.last)
        /\ table'.records = logs[h] /\ table'.number = vs.next /\ pc' = "build"
    BY <1>0, <2>1, <2>2, StartTableFacts
  <2>4. /\ BaseInv /\ edit.adds = Planned(Base, DOMAIN K \ ToSet(replay))
        /\ TablesDone(K, DOMAIN K \ ToSet(replay)) /\ Ascending(replay)
        /\ \A n \in ToSet(replay) : n \in DOMAIN logs /\ n >= Base.log
        /\ \A n \in ToSet(replay) \cap DOMAIN K :
             n = Base.log \/ Base.log \notin ToSet(replay) => vs.next = PlanOf(Base, n)
    BY <1>0, <2>1 DEF ReplayedInv, ReplayInv
  <2>5. Base' = Base /\ K' = K
    BY <2>1 DEF Base
  <2>6. KeptInv(K, Base) /\ Base.log \in Nat /\ Base.next \in Nat /\ vs.next \in Nat
    BY <1>0, <2>1, <2>4, BaseFacts, Fields
  <2>7. h \in DOMAIN K
    BY <2>1, <2>2, <2>4, KeptFacts
  <2>8. h = Base.log \/ Base.log \notin ToSet(replay)
    <3>1. ToSet(replay) = {h} \cup ToSet(Tail(replay))
          /\ \A x \in ToSet(Tail(replay)) : x \in Nat /\ h < x
      BY <1>0, <2>1, <2>4, TailFacts DEF TypeOK
    <3>2. h >= Base.log /\ h \in Nat
      BY <1>0, <2>2, <2>4 DEF TypeOK, IsFiles
    <3> QED BY <2>6, <3>1, <3>2
  <2>9. vs.next = PlanOf(Base, h)
    BY <2>2, <2>4, <2>7, <2>8
  <2>10. TablesDone(K, DOMAIN K \ ToSet(replay))'
    <3> HIDE DEF K
    <3>1. \A n \in DOMAIN K \ ToSet(replay) : PlanOf(Base, n) < vs'.next
      BY <2>3, <2>4, <2>6 DEF TablesDone, VersionIs, PlanOf
    <3> QED BY <2>1, <2>4, <2>5, <3>1 DEF TablesDone
  <2>11. vs'.next = table'.number + 1
    BY <2>3 DEF VersionIs
  <2> HIDE DEF K, h
  <2> QED BY <2>1, <2>3, <2>4, <2>5, <2>9, <2>10, <2>11 DEF ReplayedInv, K, h
<1>4. CASE RecoveredTable
  <2> SUFFICES ASSUME ~harmed' PROVE ReplayedInv'
    BY DEF ReplayedInv
  <2> DEFINE h == Head(replay)
             t == table.number
  <2>1. /\ UNCHANGED <<current, manifests, logs>> /\ pc' = "replay" /\ pc = "build"
        /\ phase = "opening" /\ ~harmed /\ edit' = AddTable(0) /\ Replaying
        /\ vs' = Replayed(vs, h) /\ replay' = Tail(replay)
        /\ tables' = Extended(tables, t, Cells(table.records))
    BY <1>4 DEF RecoveredTable, history, Replaying, WriteTable
  <2>2. /\ BaseInv /\ replay # <<>> /\ h \in DOMAIN K /\ h \in ToSet(replay)
        /\ K[h] = table.records /\ table.records \in Seq(Nat)
    BY <2>1, ReplayedTable
  <2>3. /\ t = PlanOf(Base, h) /\ vs.next = t + 1 /\ Base.next < t /\ t \in Nat
        /\ \A n \in DOMAIN K : PlanOf(Base, n) = t => n = h
        /\ t \in DOMAIN tables => tables[t] = <<>> \/ Copied(tables[t], table.records)
    BY <2>1, ReplayedLeft
  <2>4. h \in DOMAIN logs
    BY <2>2, KeptFacts
  <2>5. VersionIs(vs', vs.files, Larger(vs.next, h + 1), vs.manifest, vs.log, vs'.last)
    BY <1>0, <2>1, <2>4, ReplayedType DEF VersionIs
  <2>6. /\ Ascending(replay') /\ ToSet(replay) = {h} \cup ToSet(replay')
        /\ vs.next <= vs'.next /\ h \in Nat /\ vs'.next \in Nat
        /\ \A n \in ToSet(replay') : h < n /\ n \in Nat /\ n # Base.log
        /\ h \notin ToSet(replay')
    BY <2>1, <2>2, <2>5, NextLog
  <2>7. /\ edit.adds = Planned(Base, DOMAIN K \ ToSet(replay))
        /\ TablesDone(K, DOMAIN K \ ToSet(replay))
    BY <1>0, <2>1 DEF ReplayedInv
  <2>8. Base' = Base /\ K' = K
    BY <2>1 DEF Base
  <2>9. KeptInv(K, Base) /\ Base.log \in Nat /\ Base.next \in Nat /\ vs.next \in Nat
    BY <1>0, <2>1, <2>2, BaseFacts, Fields
  <2>10. edit'.adds = edit.adds \cup {[number |-> t, level |-> 0]}
    BY <1>0, <2>1, AddTableFacts DEF EditIs
  <2>11. DOMAIN K \ ToSet(replay') = (DOMAIN K \ ToSet(replay)) \cup {h}
    BY <2>2, <2>6
  <2>12. Copied(tables'[t], K[h]) /\ t \in DOMAIN tables'
         /\ \A u \in DOMAIN tables : u # t => u \in DOMAIN tables' /\ tables'[u] = tables[u]
    <3>1. Copied(IF t \in DOMAIN tables THEN tables[t] \o Cells(table.records)
                 ELSE <<>> \o Cells(table.records), table.records)
      <4>1. CASE t \in DOMAIN tables
        <5>1. tables[t] \in Seq(CellSet)
          BY <1>0, <4>1 DEF TypeOK, IsFiles
        <5> QED BY <2>2, <2>3, <4>1, <5>1, CopiedAgain
      <4>2. CASE t \notin DOMAIN tables
        <5> DEFINE e == <<>>
        <5>1. e \in Seq(CellSet) /\ e = <<>>
          OBVIOUS
        <5> HIDE DEF e
        <5>2. Copied(e \o Cells(table.records), table.records)
          BY <2>2, <5>1, CopiedAgain
        <5> QED BY <4>2, <5>1, <5>2
      <4> QED BY <4>1, <4>2
    <3> HIDE DEF K, h
    <3> QED BY <2>1, <2>2, <3>1 DEF Extended, h
  <2>13. TablesDone(K, DOMAIN K \ ToSet(replay))'
    <3>1. \A n \in DOMAIN K \ ToSet(replay) :
             /\ PlanOf(Base, n) \in DOMAIN tables
             /\ PlanOf(Base, n) < vs.next /\ PlanOf(Base, n) \in Nat
             /\ Copied(tables[PlanOf(Base, n)], K[n])
             /\ PlanOf(Base, n) # t
      BY <2>2, <2>3, <2>7, <2>9 DEF TablesDone, PlanOf
    <3> HIDE DEF K
    <3>2. \A n \in DOMAIN K \ ToSet(replay) :
             /\ PlanOf(Base, n) \in DOMAIN tables'
             /\ PlanOf(Base, n) < vs'.next
             /\ Copied(tables'[PlanOf(Base, n)], K[n])
      BY <2>6, <2>9, <2>12, <3>1
    <3>3. /\ PlanOf(Base, h) \in DOMAIN tables' /\ PlanOf(Base, h) < vs'.next
          /\ Copied(tables'[PlanOf(Base, h)], K[h])
      BY <2>3, <2>6, <2>9, <2>12
    <3> QED BY <2>8, <2>11, <3>2, <3>3 DEF TablesDone
  <2>14. edit'.adds = Planned(Base, DOMAIN K \ ToSet(replay'))
    <3>1. Planned(Base, (DOMAIN K \ ToSet(replay)) \cup {h})
            = Planned(Base, DOMAIN K \ ToSet(replay)) \cup {[number |-> t, level |-> 0]}
      BY <2>3 DEF Planned
    <3> QED BY <2>7, <2>10, <2>11, <3>1
  <2>15. ASSUME NEW n \in ToSet(replay') \cap DOMAIN K
         PROVE  vs'.next = PlanOf(Base, n)
    <3>1. n = Base.next /\ h < n /\ n # Base.log
      BY <2>6, <2>9 DEF KeptInv
    <3>2. h = Base.log
      BY <2>2, <2>9, <3>1 DEF KeptInv
    <3> QED BY <2>3, <2>5, <2>9, <3>1, <3>2 DEF VersionIs, Larger, PlanOf
  <2> HIDE DEF K, h, t
  <2> QED BY <2>1, <2>6, <2>8, <2>13, <2>14, <2>15 DEF ReplayedInv, K
<1>5. CASE RecoveryBuildFails
  BY <1>5 DEF RecoveryBuildFails, ReplayedInv
<1>6. CASE UNCHANGED vars
  BY <1>0, <1>6 DEF vars, directory, work, memory, history, ReplayedInv, Replaying, Base,
     TablesDone
<1>7. CASE ~Replaying'
  BY <1>7 DEF ReplayedInv
<1> QED BY <1>0, <1>1, <1>2, <1>3, <1>4, <1>5, <1>6, <1>7, ReplayingActions

-----------------------------------------------------------------------------
(***************************************************************************)
(* Opening: a new descriptor is written.                                   *)
(***************************************************************************)

\* The actions after which an opening writes a descriptor.
LEMMA SwitchingActions ==
  ASSUME IInv, [Next]_vars, Switching'
  PROVE  \/ NewLog
         \/ /\ Switching
            /\ \/ WriteSnapshot \/ WriteEdit \/ TruncateCurrent
               \/ UNCHANGED vars
<1>0. PhaseInv /\ NoEdit.meta = FALSE
  BY DEF IInv, NoEdit, SnapshotOf
<1>1. CASE Opening
  BY <1>1, <1>0 DEF Opening, Open, InitDescriptor, ReadFails, NewLog, InitCurrent, Switching,
     ReadDescriptor, SkipLog, ReplayLog, RecoveredTable, StartTable, work, PhaseInv
<1>2. CASE Flushing
  BY <1>2 DEF Flushing, StartFlush, FlushedTable, Switching
<1>3. CASE Applying
  <2>1. ASSUME WriteSnapshot
        PROVE  Switching
    <3>1. edit.meta /\ phase' = phase
      BY <1>0, <2>1 DEF PhaseInv, WriteSnapshot
    <3> QED BY <2>1, <3>1 DEF WriteSnapshot, Switching
  <2>2. ASSUME WriteEdit \/ TruncateCurrent
        PROVE  Switching
    BY <2>2 DEF WriteEdit, TruncateCurrent, Switching, work
  <2> QED BY <1>3, <2>1, <2>2 DEF Applying, Install, ListFiles, Unlink, Cleaned, Switching
<1>4. CASE Writing
  BY <1>0, <1>4 DEF Writing, AppendLog, Insert, Rotate, PhaseInv, Switching
<1>5. CASE Failing
  BY <1>5 DEF Failing, ReaderThrows, FlushBuildFails, BackgroundThrows, ApplyFails, Switching,
     Crash, OpeningFails, RecoveryBuildFails, LoseMemory
<1>6. UNCHANGED vars => Switching
  BY DEF vars, work, Switching
<1> QED BY <1>1, <1>2, <1>3, <1>4, <1>5, <1>6 DEF Next, Rest

\* The numbers when all logs were replayed, and the new log.
LEMMA NewLogStep ==
  ASSUME IInv, NewLog
  PROVE  /\ BaseInv /\ BaseInv' /\ Base' = Base
         /\ Kept(logs', Base) = Kept(logs, Base)
         /\ \A n \in DOMAIN logs' :
              n >= Base.log => \A r \in ToSet(logs'[n]) : r <= vs.last
         /\ \A n \in DOMAIN logs' : n < vs'.next
         /\ vs.next \in DOMAIN logs' /\ logs'[vs.next] = <<>>
         /\ vs'.next = vs.next + 1 /\ vs'.last = vs.last
         /\ vs.next \in Nat
<1>1. TypeOK /\ ReplayInv /\ pc = "replay" /\ replay = <<>> /\ Replaying
  BY DEF IInv, NewLog, Replaying
<1>2. ToSet(replay) = {}
  BY <1>1 DEF ToSet
<1>3. /\ BaseInv
      /\ \A n \in DOMAIN logs :
           n >= Base.log => \A r \in ToSet(logs[n]) : r <= vs.last
  BY <1>1, <1>2 DEF ReplayInv
<1>4. /\ UNCHANGED <<current, manifests>> /\ Base' = Base
      /\ logs' = Extended(logs, vs.next, <<>>)
  BY DEF NewLog, Base
<1>5. /\ VersionIs(vs', vs.files, vs.next + 1, vs.manifest, vs.log, vs.last)
      /\ vs.next \in Nat /\ \A n \in DOMAIN logs : n < vs.next /\ n \in Nat
  BY <1>1, NewLogFacts, FreshLog, Fields DEF TypeOK, IsFiles
<1>6. vs.next \notin DOMAIN logs
  BY <1>5
<1>7. Kept(logs', Base) = Kept(logs, Base)
  BY <1>4, <1>6, KeptNew
<1>8. /\ DOMAIN logs' = DOMAIN logs \cup {vs.next} /\ logs'[vs.next] = <<>>
      /\ \A n \in DOMAIN logs : logs'[n] = logs[n]
  <2>1. <<>> \o <<>> = <<>>
    OBVIOUS
  <2> QED BY <1>4, <1>6, <2>1 DEF Extended
<1>9. ToSet(logs'[vs.next]) = {}
  BY <1>8 DEF ToSet
<1>10. BaseInv'
  <2>1. Base.next \in Nat
    BY <1>3, BaseFacts
  <2> QED BY <1>3, <1>4, <1>5, <2>1 DEF BaseInv, VersionIs
<1>11. \A n \in DOMAIN logs' : n >= Base.log => \A r \in ToSet(logs'[n]) : r <= vs.last
  BY <1>3, <1>8, <1>9
<1>12. \A n \in DOMAIN logs' : n < vs'.next
  BY <1>5, <1>8 DEF VersionIs
<1> QED BY <1>3, <1>4, <1>5, <1>7, <1>8, <1>10, <1>11, <1>12 DEF VersionIs

LEMMA OpeningStep ==
  ASSUME IInv, [Next]_vars
  PROVE  OpeningInv'
<1> SUFFICES ASSUME Switching', pc' # "point"
             PROVE  OpeningInv'
  BY DEF OpeningInv
<1>0. TypeOK /\ OpeningInv /\ ReplayedInv
  BY DEF IInv
<1>1. CASE NewLog
  <2>1. /\ BaseInv' /\ Base' = Base /\ Kept(logs', Base) = Kept(logs, Base)
        /\ \A n \in DOMAIN logs' :
              n >= Base.log => \A r \in ToSet(logs'[n]) : r <= vs'.last
        /\ BaseInv /\ vs'.next = vs.next + 1 /\ vs.next \in Nat
    BY <1>1, NewLogStep
  <2>2. pc = "replay" /\ replay = <<>> /\ tables' = tables /\ harmed' = harmed /\ Replaying
    BY <1>1 DEF NewLog, history, Replaying
  <2>3. edit'.adds = edit.adds
    BY <1>0, <1>1, NewLogFacts DEF EditIs
  <2> DEFINE K == Kept(logs, Base)
  <2>4. ASSUME ~harmed'
        PROVE  edit'.adds = Planned(Base, DOMAIN K) /\ TablesDone(K, DOMAIN K)'
    <3>1. ToSet(replay) = {}
      BY <2>2 DEF ToSet
    <3>2. DOMAIN K \ ToSet(replay) = DOMAIN K
      BY <3>1
    <3>3. edit.adds = Planned(Base, DOMAIN K) /\ TablesDone(K, DOMAIN K)
      BY <1>0, <2>2, <2>4, <3>2 DEF ReplayedInv
    <3>4. K' = K
      BY <2>1
    <3>5. \A n \in DOMAIN K : /\ PlanOf(Base, n) \in DOMAIN tables
                              /\ PlanOf(Base, n) < vs.next /\ PlanOf(Base, n) \in Nat
                              /\ Copied(tables[PlanOf(Base, n)], K[n])
      <4>1. Base.next \in Nat
        BY <2>1, BaseFacts
      <4> QED BY <3>3, <4>1 DEF TablesDone, PlanOf
    <3> HIDE DEF K
    <3>6. \A n \in DOMAIN K : PlanOf(Base, n) < vs'.next
      BY <2>1, <3>5
    <3> QED BY <2>1, <2>2, <2>3, <3>3, <3>4, <3>5, <3>6 DEF TablesDone
  <2>5. K' = K
    BY <2>1
  <2> HIDE DEF K
  <2>6. ~harmed' => edit'.adds = Planned(Base, DOMAIN K)' /\ TablesDone(K, DOMAIN K)'
    BY <2>1, <2>4, <2>5
  <2> QED BY <2>1, <2>6 DEF OpeningInv, K
<1>2. CASE Switching /\ (WriteSnapshot \/ WriteEdit)
  <2>1. /\ UNCHANGED <<current, logs, tables, vs, harmed>> /\ edit'.adds = edit.adds
        /\ pc # "point"
        /\ \E e : manifests' = Extended(manifests, vs.manifest, <<e>>)
    BY <1>0, <1>2, WriteSnapshotFacts DEF WriteSnapshot, WriteEdit, history, work, EditIs
  <2>2. /\ BaseInv
        /\ \A n \in DOMAIN logs :
             n >= Base.log => \A r \in ToSet(logs[n]) : r <= vs.last
        /\ ~harmed => /\ edit.adds = Planned(Base, DOMAIN Kept(logs, Base))
                      /\ TablesDone(Kept(logs, Base), DOMAIN Kept(logs, Base))
    BY <1>0, <1>2, <2>1 DEF OpeningInv
  <2>3. vs.manifest # current /\ current \in DOMAIN manifests
    BY <2>2, BaseFacts DEF BaseInv
  <2>4. manifests'[current] = manifests[current] /\ current \in DOMAIN manifests'
    BY <2>1, <2>3 DEF Extended
  <2>5. Base' = Base
    BY <2>1, <2>4 DEF Base
  <2>6. BaseInv'
    BY <2>1, <2>2, <2>4, <2>5 DEF BaseInv
  <2>7. Kept(logs, Base)' = Kept(logs, Base)
    BY <2>1, <2>5
  <2>8. ~harmed' => TablesDone(Kept(logs, Base), DOMAIN Kept(logs, Base))'
    BY <2>1, <2>2, <2>5, <2>7 DEF TablesDone
  <2> QED BY <2>1, <2>2, <2>5, <2>6, <2>7, <2>8 DEF OpeningInv
<1>3. CASE UNCHANGED vars
  BY <1>0, <1>3 DEF vars, directory, work, memory, history, OpeningInv, Switching, BaseInv,
     Base, TablesDone
<1> QED
  <2>1. TruncateCurrent => pc' = "point"
    BY DEF TruncateCurrent
  <2> QED BY <1>1, <1>2, <1>3, <2>1, SwitchingActions

\* When its descriptor is written, an opening may switch to it: it is as good
\* as the one that it replaces.
LEMMA OpenedSwitch ==
  ASSUME IInv, Switching, pc = "truncate"
  PROVE  /\ vs.manifest > 0 /\ SaneNow(vs.manifest)
         /\ ~harmed => GoodNow(vs.manifest)
<1> DEFINE K == Kept(logs, Base)
           K2 == Kept(logs, edit)
           fs == Files(manifests[current])
<1>0. TypeOK /\ OpeningInv /\ OpenedInv
  BY DEF IInv
<1>1. /\ BaseInv
      /\ \A n \in DOMAIN logs :
           n >= Base.log => \A r \in ToSet(logs[n]) : r <= vs.last
      /\ ~harmed => edit.adds = Planned(Base, DOMAIN K) /\ TablesDone(K, DOMAIN K)
  BY <1>0 DEF OpeningInv
<1>2. /\ edit.log = logFile
      /\ logFile \in DOMAIN logs /\ logs[logFile] = <<>> /\ vs.next = logFile + 1
      /\ \A n \in DOMAIN logs : n < vs.next
      /\ edit.next = vs.next /\ edit.last = vs.last
      /\ vs.manifest \in DOMAIN manifests
      /\ HasMeta(manifests[vs.manifest]) /\ Meta(manifests[vs.manifest]) = edit
      /\ ~harmed => Files(manifests[vs.manifest]) = vs.files \cup edit.adds
  BY <1>0 DEF OpenedInv
<1>3. /\ Base \in Edits /\ Base.log \in Nat /\ Base.next \in Nat /\ Base.last \in Nat
      /\ Base.log < Base.next /\ Sound(K, tables, Base)
      /\ ~harmed => Intact(K, tables, acked, Base, fs) /\ AttemptsInv(K, manifests, Base, fs)
  BY <1>1, BaseFacts
<1>4. /\ vs.manifest = Base.next /\ vs.files = fs
      /\ vs.next > Base.next /\ vs.last >= Base.last
  BY <1>1 DEF BaseInv
<1>5. /\ edit \in Edits /\ edit.log \in Nat /\ edit.next \in Nat /\ vs.next \in Nat
      /\ vs.last \in Nat /\ \A n \in DOMAIN logs : n \in Nat
      /\ IsFiles(logs, Nat) /\ IsFiles(tables, CellSet) /\ IsFiles(manifests, Edits)
      /\ vs.files \in FileSets /\ logFile \in Nat
  BY <1>0, Fields DEF TypeOK, IsFiles
<1>6. IsFiles(K, Nat)
  BY <1>5 DEF Kept, IsFiles
<1>7. DOMAIN K2 = {}
  <2>1. ASSUME NEW n \in DOMAIN logs, n >= edit.log
        PROVE  n = logFile
    BY <1>2, <1>5, <2>1
  <2> QED BY <1>2, <2>1 DEF Kept
<1>8. \A n \in DOMAIN K : \A x \in ToSet(K[n]) : x <= edit.last
  BY <1>1, <1>2 DEF Kept
<1>9. edit.log < edit.next /\ Base.last <= edit.last
  BY <1>2, <1>3, <1>4, <1>5
<1> HIDE DEF K, K2, fs
<1>10. Sound(K2, tables, edit)
  BY <1>3, <1>5, <1>6, <1>8, <1>9, LaterSound
<1>11. vs.manifest > 0 /\ vs.manifest < edit.next
  BY <1>2, <1>3, <1>4, <1>5
<1>12. SaneNow(vs.manifest)
  BY <1>2, <1>10, <1>11 DEF SaneNow, Sane, K2
<1>13. ASSUME ~harmed
       PROVE  GoodNow(vs.manifest)
  <2>1. \A n \in DOMAIN K : /\ PlanOf(Base, n) \in DOMAIN tables
                            /\ PlanOf(Base, n) < edit.next
                            /\ Copied(tables[PlanOf(Base, n)], K[n])
    BY <1>1, <1>2, <1>13 DEF TablesDone
  <2>2. Base.next < edit.next /\ fs \in FileSets
    BY <1>2, <1>4, <1>5
  <2>3. Intact(K2, tables, acked, edit, fs \cup Planned(Base, DOMAIN K))
    BY <1>3, <1>5, <1>6, <1>7, <1>13, <2>1, <2>2, OpeningIntact
  <2>4. Files(manifests[vs.manifest]) = fs \cup Planned(Base, DOMAIN K)
    BY <1>1, <1>2, <1>4, <1>13
  <2>5. AttemptsInv(K2, manifests, edit, Files(manifests[vs.manifest]))
    <3>1. \A k \in DOMAIN manifests : k <= Base.next /\ k \in Nat
      BY <1>3, <1>5, <1>13 DEF AttemptsInv, IsFiles
    <3>2. \A k \in DOMAIN manifests : k < edit.next
      BY <1>3, <1>5, <2>2, <3>1
    <3>3. edit.next \notin DOMAIN manifests /\ \A k \in DOMAIN manifests : k <= edit.next
      BY <1>5, <3>1, <3>2
    <3> QED BY <3>3 DEF AttemptsInv
  <2> QED BY <1>2, <2>3, <2>4, <2>5 DEF GoodNow, Good, K2
<1> QED BY <1>11, <1>12, <1>13

LEMMA OpenedStep ==
  ASSUME IInv, [Next]_vars
  PROVE  OpenedInv'
<1> SUFFICES ASSUME Switching'
             PROVE  OpenedInv'
  BY DEF OpenedInv
<1>0. /\ TypeOK /\ OpenedInv /\ OpeningInv /\ PhaseInv
      /\ IsFiles(manifests, Edits) /\ vs.manifest \in Nat /\ edit \in Edits
  BY Fields DEF IInv, TypeOK
<1>1. CASE NewLog
  <2>1. /\ \A n \in DOMAIN logs' : n < vs'.next
        /\ vs.next \in DOMAIN logs' /\ logs'[vs.next] = <<>>
        /\ vs'.next = vs.next + 1
    BY <1>1, NewLogStep
  <2>2. edit'.log = vs.next /\ logFile' = vs.next /\ pc' = "snapshot"
    BY <1>0, <1>1, NewLogFacts DEF EditIs, NewLog
  <2> QED BY <2>1, <2>2 DEF OpenedInv
<1>2. CASE Switching /\ WriteSnapshot
  <2>1. /\ UNCHANGED <<logs, vs, logFile, harmed>> /\ pc = "snapshot" /\ pc' = "edit"
        /\ manifests' = Extended(manifests, vs.manifest, <<SnapshotOf(vs.files)>>)
    BY <1>2 DEF WriteSnapshot, history, memory
  <2>2. /\ EditIs(edit', edit.adds, edit.meta, edit.log, vs.next, vs.last)
        /\ SnapshotOf(vs.files) \in Edits /\ SnapshotOf(vs.files).adds = vs.files
    BY <1>0, <1>2, WriteSnapshotFacts
  <2>3. EditAdded(manifests, manifests', vs.manifest, SnapshotOf(vs.files))
    BY <1>0, <2>1, <2>2, EditAppended
  <2>4. vs.manifest \in DOMAIN manifests' /\ vs.files \subseteq Files(manifests'[vs.manifest])
    BY <2>2, <2>3 DEF EditAdded
  <2>5. /\ edit.log = logFile
        /\ logFile \in DOMAIN logs /\ logs[logFile] = <<>> /\ vs.next = logFile + 1
        /\ \A n \in DOMAIN logs : n < vs.next
    BY <1>0, <1>2 DEF OpenedInv
  <2> QED BY <2>1, <2>2, <2>4, <2>5 DEF OpenedInv, EditIs
<1>3. CASE Switching /\ WriteEdit
  <2>1. /\ UNCHANGED <<current, logs, vs, logFile, harmed, edit>> /\ pc = "edit"
        /\ pc' = "truncate"
        /\ manifests' = Extended(manifests, vs.manifest, <<edit>>)
    BY <1>3 DEF WriteEdit, history, memory, work
  <2>2. EditAdded(manifests, manifests', vs.manifest, edit) /\ edit.meta
    BY <1>0, <1>3, <2>1, EditAppended DEF Switching
  <2>3. /\ edit.log = logFile
        /\ logFile \in DOMAIN logs /\ logs[logFile] = <<>> /\ vs.next = logFile + 1
        /\ \A n \in DOMAIN logs : n < vs.next
        /\ edit.next = vs.next /\ edit.last = vs.last
        /\ vs.manifest \in DOMAIN manifests
        /\ ~harmed => vs.files \subseteq Files(manifests[vs.manifest])
    BY <1>0, <1>3, <2>1 DEF OpenedInv
  <2>4. /\ vs.manifest \in DOMAIN manifests'
        /\ Files(manifests'[vs.manifest]) = Files(manifests[vs.manifest]) \cup edit.adds
        /\ HasMeta(manifests'[vs.manifest]) /\ Meta(manifests'[vs.manifest]) = edit
    BY <2>2, <2>3 DEF EditAdded
  <2>5. ASSUME ~harmed
        PROVE  Files(manifests'[vs.manifest]) = vs.files \cup edit.adds
    <3>1. BaseInv /\ edit.adds = Planned(Base, DOMAIN Kept(logs, Base))
      BY <1>0, <1>3, <2>1, <2>5 DEF OpeningInv
    <3>2. AttemptsInv(Kept(logs, Base), manifests, Base, Files(manifests[current]))
      BY <2>5, <3>1, BaseFacts
    <3>3. Files(manifests[vs.manifest]) \subseteq vs.files \cup edit.adds
      BY <2>3, <3>1, <3>2 DEF AttemptsInv, BaseInv
    <3> QED BY <2>3, <2>4, <2>5, <3>3
  <2> QED BY <2>1, <2>3, <2>4, <2>5 DEF OpenedInv
<1>4. CASE Switching /\ TruncateCurrent
  <2>1. /\ UNCHANGED <<manifests, logs, tables, acked, vs, logFile, harmed, edit>>
        /\ pc = "truncate" /\ pc' = "point"
    BY <1>4 DEF TruncateCurrent, history, memory, work
  <2>2. /\ vs.manifest > 0 /\ SaneNow(vs.manifest)
        /\ ~harmed => GoodNow(vs.manifest)
    BY <1>4, <2>1, OpenedSwitch
  <2>3. /\ SaneNow(vs.manifest)' = SaneNow(vs.manifest)
        /\ GoodNow(vs.manifest)' = GoodNow(vs.manifest)
    BY <2>1 DEF SaneNow, GoodNow
  <2> QED BY <1>0, <1>4, <2>1, <2>2, <2>3 DEF OpenedInv
<1>5. CASE UNCHANGED vars
  BY <1>0, <1>5 DEF vars, directory, work, memory, history, OpenedInv, Switching, SaneNow, GoodNow
<1> QED BY <1>1, <1>2, <1>3, <1>4, <1>5, SwitchingActions

-----------------------------------------------------------------------------
(***************************************************************************)
(* The database is open: the descriptor in use.                            *)
(***************************************************************************)

LEMMA RunningFacts ==
  ASSUME IInv, Running
  PROVE  /\ logFile \in DOMAIN logs /\ logFile \in Nat
         /\ logs[logFile] = mem \o (IF inflight THEN <<vs.last + 1>> ELSE <<>>)
         /\ logs[logFile] \in Seq(Nat) /\ mem \in Seq(Nat) /\ imm \in Seq(Nat)
         /\ \A n \in DOMAIN logs : n < vs.next /\ n \in Nat
         /\ \A r \in ToSet(mem) \cup ToSet(imm) : r <= vs.last /\ r \in Nat
         /\ \A t \in DOMAIN tables : \A r \in Records(tables[t]) : r <= vs.last /\ r \in Nat
         /\ bgError => pc = "idle"
         /\ Building => imm # <<>> /\ table.records = imm
         /\ vs.manifest > 0 /\ vs.manifest \in Nat
         /\ current = vs.manifest \/ pc = "point" \/ vs.manifest \notin DOMAIN manifests
         /\ vs.manifest \notin DOMAIN manifests => bgError /\ harmed
         /\ vs.next \in Nat /\ vs.last \in Nat
         /\ IsFiles(logs, Nat) /\ IsFiles(tables, CellSet) /\ IsFiles(manifests, Edits)
         /\ pc \in {"idle", "thrown", "list", "unlink", "build", "snapshot", "edit",
                    "truncate", "point"}
         /\ pc \in {"build", "snapshot", "edit", "truncate", "point"} => Building /\ phase = "open"
<1>1. TypeOK /\ MemoryInv /\ PhaseInv
  BY DEF IInv
<1>2. mem \in Seq(Nat) /\ imm \in Seq(Nat) /\ vs.next \in Nat /\ vs.last \in Nat
      /\ vs.manifest \in Nat
      /\ IsFiles(logs, Nat) /\ IsFiles(tables, CellSet) /\ IsFiles(manifests, Edits)
  BY <1>1, Fields DEF TypeOK
<1>3. \A r \in ToSet(mem) \cup ToSet(imm) : r \in Nat
  BY <1>2 DEF ToSet
<1>4. \A t \in DOMAIN tables : \A r \in Records(tables[t]) : r \in Nat
  BY <1>2, ContentsRecords DEF IsFiles
<1>5. /\ pc \in {"idle", "thrown", "list", "unlink", "build", "snapshot", "edit",
                 "truncate", "point"}
      /\ pc \in {"build", "snapshot", "edit", "truncate", "point"} => Building /\ phase = "open"
  BY <1>1 DEF Running, Building, PhaseInv, TypeOK
<1>6. logFile \in DOMAIN logs /\ logFile \in Nat /\ logs[logFile] \in Seq(Nat)
      /\ \A n \in DOMAIN logs : n < vs.next /\ n \in Nat
  BY <1>1, <1>2 DEF MemoryInv, IsFiles
<1> QED BY <1>1, <1>2, <1>3, <1>4, <1>5, <1>6 DEF MemoryInv

LEMMA MineFacts ==
  ASSUME IInv, Running, vs.manifest \in DOMAIN manifests
  PROVE  /\ SaneNow(vs.manifest) /\ Mine \in Edits /\ HasMeta(manifests[vs.manifest])
         /\ Mine.log \in Nat /\ Mine.next \in Nat /\ Mine.last \in Nat
         /\ Mine.log < Mine.next /\ vs.manifest < Mine.next
         /\ vs.next >= Mine.next /\ logFile >= Mine.log
         /\ Sound(Kept(logs, Mine), tables, Mine)
         /\ ~harmed => /\ GoodNow(vs.manifest)
                       /\ Intact(Kept(logs, Mine), tables, acked, Mine,
                                 Files(manifests[vs.manifest]))
                       /\ AttemptsInv(Kept(logs, Mine), manifests, Mine,
                                      Files(manifests[vs.manifest]))
                       /\ KeptInv(Kept(logs, Mine), Mine)
<1>1. /\ vs.manifest > 0
      /\ current = vs.manifest \/ pc = "point" \/ vs.manifest \notin DOMAIN manifests
      /\ manifests[vs.manifest] \in Seq(Edits)
  BY RunningFacts DEF IsFiles
<1>2. /\ SaneNow(vs.manifest)
      /\ ~harmed => GoodNow(vs.manifest)
      /\ vs.next >= Mine.next /\ logFile >= Mine.log
  <2>1. DiskInv /\ AppliedInv /\ FlushInv
    BY DEF IInv
  <2>2. vs.next >= Mine.next /\ logFile >= Mine.log
    BY <2>1 DEF AppliedInv
  <2>3. CASE pc = "point"
    BY <2>1, <2>2, <2>3 DEF AppliedInv, FlushInv
  <2>4. CASE pc # "point"
    <3>1. current = vs.manifest /\ current > 0
      BY <1>1, <2>4, RunningFacts
    <3> QED BY <2>1, <2>2, <3>1 DEF DiskInv
  <2> QED BY <2>3, <2>4
<1>3. Mine \in Edits /\ HasMeta(manifests[vs.manifest]) /\ vs.manifest < Mine.next
      /\ Sound(Kept(logs, Mine), tables, Mine)
  BY <1>1, <1>2, MetaType DEF Sane, SaneNow, Mine
<1>4. Mine.log < Mine.next
  BY <1>3 DEF Sound
<1>5. ~harmed => /\ Intact(Kept(logs, Mine), tables, acked, Mine,
                           Files(manifests[vs.manifest]))
                 /\ AttemptsInv(Kept(logs, Mine), manifests, Mine,
                                Files(manifests[vs.manifest]))
  BY <1>2 DEF GoodNow, Good, Mine
<1> QED BY <1>2, <1>3, <1>4, <1>5, EditType DEF Intact

\* While a memtable is flushed its log is kept, and so is the one in use.
LEMMA FlushFacts ==
  ASSUME IInv, Running, ~harmed
  PROVE  /\ vs.manifest \in DOMAIN manifests
         /\ imm = <<>> \/ pc \in {"truncate", "point"} =>
              logFile = Mine.log /\ vs.next = Mine.next
         /\ imm # <<>> /\ pc \notin {"truncate", "point"} =>
              /\ logFile = Mine.next /\ Mine.log \in DOMAIN Kept(logs, Mine)
              /\ Kept(logs, Mine)[Mine.log] = imm
         /\ \A t \in DOMAIN tables : t < vs.next /\ t \in Nat
<1>1. FlushInv /\ vs.manifest \in DOMAIN manifests
      /\ \A t \in DOMAIN tables : t \in Nat
  BY RunningFacts DEF IInv, IsFiles
<1>2. imm # <<>> /\ pc \notin {"truncate", "point"} =>
        /\ logFile = Mine.next /\ Mine.log \in DOMAIN logs /\ logs[Mine.log] = imm
  BY <1>1 DEF FlushInv
<1>3. Mine.log >= Mine.log
  BY <1>1, MineFacts
<1>4. imm # <<>> /\ pc \notin {"truncate", "point"} =>
              /\ Mine.log \in DOMAIN Kept(logs, Mine)
              /\ Kept(logs, Mine)[Mine.log] = imm
  BY <1>2, <1>3 DEF Kept
<1> QED BY <1>1, <1>2, <1>4 DEF FlushInv

\* Whether the descriptor m keeps what it promises after a step.
StaysGood(m) ==
  /\ Sane(logs', tables', manifests', m)
  /\ ~harmed' => Good(logs', tables', manifests', acked', m)

LEMMA AppendGood ==
  ASSUME IInv, AppendLog, vs.manifest \in DOMAIN manifests
  PROVE  StaysGood(vs.manifest)
<1> DEFINE K == Kept(logs, Mine)
           K2 == Kept(logs', Mine)
           v == vs.last + 1
           fs == Files(manifests[vs.manifest])
<1>1. /\ Running /\ ~inflight /\ ~bgError /\ logs' = Extended(logs, logFile, <<v>>)
      /\ UNCHANGED <<tables, manifests, acked, harmed>>
  BY DEF AppendLog, Running, history
<1>2. /\ SaneNow(vs.manifest) /\ Mine \in Edits /\ HasMeta(manifests[vs.manifest])
      /\ Mine.log \in Nat /\ Mine.next \in Nat /\ Mine.log < Mine.next
      /\ vs.manifest < Mine.next /\ logFile >= Mine.log
      /\ Sound(K, tables, Mine)
  BY <1>1, MineFacts
<1>3. /\ logFile \in DOMAIN logs /\ logFile \in Nat /\ logs[logFile] \in Seq(Nat)
      /\ v \in Nat /\ vs.last \in Nat
  BY <1>1, RunningFacts
<1> HIDE DEF v
<1>4. Grown(K, K2, logFile, v)
  BY <1>1, <1>2, <1>3, KeptGrows
<1> HIDE DEF K, K2
<1>5. Sound(K2, tables, Mine)
  BY <1>2, <1>4, GrowSound
<1>6. Sane(logs', tables', manifests', vs.manifest)
  BY <1>1, <1>2, <1>5 DEF Sane, Mine, K2
<1>7. ASSUME ~harmed
      PROVE  Good(logs', tables', manifests', acked', vs.manifest)
  <2>1. /\ Intact(K, tables, acked, Mine, fs) /\ AttemptsInv(K, manifests, Mine, fs)
        /\ KeptInv(K, Mine)
    BY <1>1, <1>7, MineFacts DEF K
  <2>2. /\ imm = <<>> \/ pc \in {"truncate", "point"} =>
             logFile = Mine.log /\ vs.next = Mine.next
        /\ imm # <<>> /\ pc \notin {"truncate", "point"} =>
              /\ logFile = Mine.next /\ Mine.log \in DOMAIN K /\ K[Mine.log] = imm
        /\ \A t \in DOMAIN tables : t < vs.next /\ t \in Nat
    BY <1>1, <1>7, FlushFacts DEF K
  <2>3. imm # <<>> /\ pc \notin {"truncate", "point"} => vs.next <= Mine.next + 2
    <3>1. /\ FlushInv
          /\ pc \in {"idle", "thrown", "list", "unlink", "build", "snapshot", "edit",
                     "truncate", "point"}
      BY <1>1, RunningFacts DEF IInv
    <3> QED BY <1>1, <1>2, <1>7, <3>1 DEF FlushInv
  <2>4. logs[logFile] = mem
    <3>1. logs[logFile] = mem \o <<>> /\ mem \in Seq(Nat)
      BY <1>1, RunningFacts
    <3> QED BY <3>1
  <2>5. \A n \in DOMAIN K : K[n] = logs[n] /\ n \in DOMAIN logs
    BY DEF K, Kept
  <2>6. \A n \in DOMAIN logs : n < vs.next /\ n \in Nat
    BY <1>1, RunningFacts
  <2>7. logFile = Mine.log \/ (logFile = Mine.next /\ Mine.log \in DOMAIN K)
    BY <2>2
  <2>8. ASSUME NEW n \in DOMAIN K
        PROVE  ~(logFile < n) /\ (n # logFile => K[n] = imm)
    <3>1. n = Mine.log \/ n = Mine.next
      BY <2>1 DEF KeptInv
    <3>2. CASE imm = <<>> \/ pc \in {"truncate", "point"}
      <4>1. n = Mine.log /\ logFile = Mine.log
        BY <1>2, <2>2, <2>5, <2>6, <3>1, <3>2
      <4> QED BY <1>2, <4>1
    <3>3. CASE imm # <<>> /\ pc \notin {"truncate", "point"}
      BY <1>2, <2>2, <3>1, <3>3
    <3> QED BY <3>2, <3>3
  <2>9. \A n \in DOMAIN K : \A x \in ToSet(K[n]) : x < v
    <3>1. \A r \in ToSet(mem) \cup ToSet(imm) : r <= vs.last /\ r \in Nat
      BY <1>1, RunningFacts
    <3>2. \A r \in ToSet(mem) \cup ToSet(imm) : r < v
      BY <1>3, <3>1 DEF v
    <3> QED BY <2>4, <2>5, <2>8, <3>2
  <2>10. \A g \in fs : \A x \in Contents(tables[g.number]) : x < v
    <3>1. \A g \in fs : g.number \in DOMAIN tables
      BY <2>1 DEF Intact, FilesInv
    <3>2. /\ \A t \in DOMAIN tables : \A r \in Records(tables[t]) : r <= vs.last /\ r \in Nat
          /\ IsFiles(tables, CellSet)
      BY <1>1, RunningFacts
    <3>3. \A t \in DOMAIN tables : Contents(tables[t]) \subseteq Records(tables[t])
      BY <3>2, ContentsRecords DEF IsFiles
    <3>4. \A t \in DOMAIN tables : \A r \in Contents(tables[t]) : r < v
      BY <1>3, <3>2, <3>3 DEF v
    <3> QED BY <3>1, <3>4
  <2>11. \A t \in DOMAIN tables : t >= Mine.next => t # PlanOf(Mine, logFile)
    BY <1>2, <2>2, <2>3, <1>1, RunningFacts DEF PlanOf
  <2> HIDE DEF fs
  <2>12. Intact(K2, tables, acked, Mine, fs)
    BY <1>3, <1>4, <2>1, <2>7, <2>8, <2>9, <2>10, <2>11, GrowIntact
  <2>13. DOMAIN K \subseteq DOMAIN K2
    BY <1>4 DEF Grown
  <2>14. Planned(Mine, DOMAIN K) \subseteq Planned(Mine, DOMAIN K2)
    BY <2>13 DEF Planned
  <2>15. AttemptsInv(K2, manifests, Mine, fs)
    BY <2>1, <2>14 DEF AttemptsInv
  <2> QED BY <1>1, <2>12, <2>15 DEF Good, Mine, K2, fs
<1> QED BY <1>1, <1>6, <1>7 DEF StaysGood

\* The record that becomes acknowledged is in the log.
LEMMA InsertedLog ==
  ASSUME IInv, Insert
  PROVE  /\ Running /\ vs.last + 1 \in ToSet(logs[logFile]) /\ logs[logFile] # <<>>
         /\ vs.last + 1 \in Nat
<1>1. Running /\ inflight
  BY DEF IInv, PhaseInv, Insert, Running
<1>2. /\ logs[logFile] = mem \o <<vs.last + 1>> /\ mem \in Seq(Nat)
      /\ vs.last \in Nat
  BY <1>1, RunningFacts
<1> DEFINE s == mem \o <<vs.last + 1>>
<1>3. /\ DOMAIN s = 1..(Len(mem) + 1) /\ s[Len(mem) + 1] = vs.last + 1
      /\ Len(mem) + 1 \in DOMAIN s
  BY <1>2
<1> HIDE DEF s
<1>4. vs.last + 1 \in ToSet(s) /\ s # <<>>
  BY <1>3 DEF ToSet
<1> QED BY <1>1, <1>2, <1>4 DEF s

LEMMA InsertGood ==
  ASSUME IInv, Insert, vs.manifest \in DOMAIN manifests
  PROVE  StaysGood(vs.manifest)
<1>1. /\ UNCHANGED <<logs, tables, manifests, harmed>> /\ acked' = acked \cup {vs.last + 1}
  BY DEF Insert, directory
<1>2. Running /\ vs.last + 1 \in ToSet(logs[logFile]) /\ logs[logFile] # <<>>
  BY InsertedLog
<1>3. SaneNow(vs.manifest) /\ logFile >= Mine.log
  BY <1>2, MineFacts
<1>4. logFile \in DOMAIN logs
  BY <1>2, RunningFacts
<1> DEFINE K == Kept(logs, Mine)
<1>5. logFile \in DOMAIN K /\ vs.last + 1 \in ToSet(K[logFile])
  BY <1>2, <1>3, <1>4 DEF Kept
<1>6. ASSUME ~harmed
      PROVE  Good(logs', tables', manifests', acked', vs.manifest)
  <2>1. /\ Intact(K, tables, acked, Mine, Files(manifests[vs.manifest]))
        /\ AttemptsInv(K, manifests, Mine, Files(manifests[vs.manifest]))
    BY <1>2, <1>6, MineFacts
  <2> HIDE DEF K
  <2>2. Intact(K, tables, acked \cup {vs.last + 1}, Mine, Files(manifests[vs.manifest]))
    BY <1>5, <2>1, AckIntact
  <2> QED BY <1>1, <2>1, <2>2 DEF Good, Mine, K
<1> QED BY <1>1, <1>3, <1>6 DEF StaysGood, SaneNow

LEMMA RotateGood ==
  ASSUME IInv, Rotate, vs.manifest \in DOMAIN manifests
  PROVE  StaysGood(vs.manifest)
<1>1. /\ UNCHANGED <<tables, manifests, acked, harmed>>
      /\ logs' = Extended(logs, vs.next, <<>>) /\ Running
  BY DEF Rotate, Running, history
<1>2. vs.next \notin DOMAIN logs
  BY <1>1, RunningFacts
<1>3. Kept(logs', Mine) = Kept(logs, Mine)
  BY <1>1, <1>2, KeptNew
<1>4. SaneNow(vs.manifest) /\ (~harmed => GoodNow(vs.manifest))
  BY <1>1, MineFacts
<1> QED BY <1>1, <1>3, <1>4 DEF StaysGood, SaneNow, GoodNow, Sane, Good, Mine

\* The cells c are written of the table that is built of the immutable memtable.
LEMMA FlushedGood ==
  ASSUME IInv, phase = "open", pc = "build", vs.manifest \in DOMAIN manifests,
         NEW c \in Seq(CellSet), Records(c) \subseteq ToSet(table.records),
         NEW tb, tb = Extended(tables, table.number, c)
  PROVE  /\ Sane(logs, tb, manifests, vs.manifest)
         /\ ~harmed /\ (c = <<>> \/ c = Cells(table.records)) =>
              /\ Good(logs, tb, manifests, acked, vs.manifest)
              /\ c = Cells(imm) => table.number \in DOMAIN tb
                                   /\ Copied(tb[table.number], imm)
<1> DEFINE K == Kept(logs, Mine)
           fs == Files(manifests[vs.manifest])
           t == table.number
<1>1. Running /\ Building
  BY DEF Running, Building
<1>2. /\ imm # <<>> /\ table.records = imm /\ IsFiles(tables, CellSet)
      /\ \A r \in ToSet(imm) : r <= vs.last /\ r \in Nat
      /\ imm \in Seq(Nat) /\ vs.last \in Nat
      /\ IsFiles(logs, Nat)
  BY <1>1, RunningFacts
<1>3. /\ SaneNow(vs.manifest) /\ Mine \in Edits /\ Mine.log \in Nat /\ Mine.next \in Nat
      /\ Mine.log < Mine.next /\ Mine.last \in Nat
      /\ Sound(K, tables, Mine)
  BY <1>1, MineFacts
<1>4. \A r \in ToSet(imm) : Below(K, Mine, r)
  <2>1. \/ vs.last <= Mine.last
        \/ \E n \in DOMAIN logs : n >= Mine.log /\ vs.last \in ToSet(logs[n])
    BY <1>1 DEF IInv, AppliedInv
  <2>2. CASE vs.last <= Mine.last
    BY <1>2, <1>3, <2>2 DEF Below
  <2>3. ASSUME NEW n \in DOMAIN logs, n >= Mine.log, vs.last \in ToSet(logs[n])
        PROVE  \A r \in ToSet(imm) : Below(K, Mine, r)
    <3>1. n \in DOMAIN K /\ K[n] = logs[n]
      BY <2>3 DEF Kept, ToSet
    <3> HIDE DEF K
    <3> QED BY <1>2, <2>3, <3>1 DEF Below
  <2> QED BY <2>1, <2>2, <2>3
<1> HIDE DEF K, t, fs
<1>5. Sound(K, tb, Mine)
  BY <1>2, <1>3, <1>4, WrittenSound DEF t
<1>6. Sane(logs, tb, manifests, vs.manifest)
  BY <1>3, <1>5 DEF Sane, SaneNow, Mine, K
<1>7. ASSUME ~harmed, c = <<>> \/ c = Cells(imm)
      PROVE  /\ Good(logs, tb, manifests, acked, vs.manifest)
             /\ c = Cells(imm) => t \in DOMAIN tb /\ Copied(tb[t], imm)
  <2>1. /\ Intact(K, tables, acked, Mine, fs) /\ AttemptsInv(K, manifests, Mine, fs)
        /\ KeptInv(K, Mine)
    BY <1>1, <1>7, MineFacts DEF K, fs
  <2>2. Mine.log \in DOMAIN K /\ K[Mine.log] = imm
    BY <1>1, <1>2, <1>7, FlushFacts DEF K
  <2>3. t = Mine.next + 1
    BY <1>1, <1>7 DEF IInv, FlushInv, t
  <2>4. t = PlanOf(Mine, Mine.log) /\ t >= Mine.next
        /\ \A k \in DOMAIN K : PlanOf(Mine, k) = t => k = Mine.log
    BY <1>3, <2>3 DEF PlanOf
  <2>5. \A f \in fs : f.number # t
    <3>1. \A f \in fs : f.number < Mine.next /\ f.number \in DOMAIN tables
      BY <2>1 DEF Intact, FilesInv
    <3>2. \A f \in fs : f.number \in Nat
      BY <1>2, <3>1 DEF IsFiles
    <3> QED BY <1>3, <2>3, <3>1, <3>2
  <2>6. /\ Intact(K, tb, acked, Mine, fs)
        /\ c = Cells(imm) => t \in DOMAIN tb /\ Copied(tb[t], imm)
    BY <1>2, <1>7, <2>1, <2>2, <2>4, <2>5, WrittenIntact, SMTT(30) DEF t
  <2> QED BY <2>1, <2>6 DEF Good, Mine, K, fs
<1> QED BY <1>2, <1>6, <1>7 DEF t

LEMMA SnapshotGood ==
  ASSUME IInv, phase = "open", WriteSnapshot, vs.manifest \in DOMAIN manifests
  PROVE  /\ StaysGood(vs.manifest)
         /\ vs.manifest \in DOMAIN manifests'
         /\ Meta(manifests'[vs.manifest]) = Mine
         /\ Files(manifests'[vs.manifest]) = Files(manifests[vs.manifest]) \cup vs.files
<1> DEFINE m == vs.manifest
<1>1. /\ UNCHANGED <<logs, tables, acked, harmed>> /\ Running /\ pc = "snapshot" /\ Building
      /\ manifests' = Extended(manifests, m, <<SnapshotOf(vs.files)>>)
  BY DEF WriteSnapshot, Running, history, Building
<1>2. IsFiles(manifests, Edits) /\ m \in Nat /\ TypeOK
  BY <1>1, RunningFacts DEF IInv
<1>3. /\ SnapshotOf(vs.files) \in Edits /\ SnapshotOf(vs.files).adds = vs.files
      /\ ~SnapshotOf(vs.files).meta
  BY <1>2, WriteSnapshotFacts
<1>4. EditAdded(manifests, manifests', m, SnapshotOf(vs.files))
  BY <1>1, <1>2, <1>3, EditAppended
<1>5. SaneNow(m) /\ HasMeta(manifests[m]) /\ m < Mine.next /\ Mine.next \in Nat
  BY <1>1, MineFacts
<1>6. /\ DOMAIN manifests' = DOMAIN manifests
      /\ \A k \in DOMAIN manifests : k # m => manifests'[k] = manifests[k]
      /\ Files(manifests'[m]) = Files(manifests[m]) \cup vs.files
      /\ HasMeta(manifests'[m]) /\ Meta(manifests'[m]) = Mine
  BY <1>3, <1>4, <1>5 DEF EditAdded, Mine
<1>7. Sane(logs', tables', manifests', m)
  BY <1>1, <1>5, <1>6 DEF Sane, SaneNow, Mine
<1>8. ASSUME ~harmed
      PROVE  Good(logs', tables', manifests', acked', m)
  <2>1. Files(manifests[m]) = vs.files
    BY <1>1, <1>8 DEF IInv, VisibleInv
  <2>2. Files(manifests'[m]) = Files(manifests[m])
    BY <1>6, <2>1
  <2>3. /\ Intact(Kept(logs, Mine), tables, acked, Mine, Files(manifests[m]))
        /\ AttemptsInv(Kept(logs, Mine), manifests, Mine, Files(manifests[m]))
    BY <1>1, <1>8, MineFacts
  <2>4. m # Mine.next
    BY <1>2, <1>5
  <2>5. AttemptsInv(Kept(logs, Mine), manifests', Mine, Files(manifests[m]))
    BY <1>6, <2>3, <2>4 DEF AttemptsInv
  <2> QED BY <1>1, <1>6, <2>2, <2>3, <2>5 DEF Good
<1> QED BY <1>1, <1>6, <1>7, <1>8 DEF StaysGood

\* The level of a new table is none below that of a table that it overlaps.
LEMMA PickLevelFacts ==
  ASSUME TypeOK
  PROVE  PickLevel \in 0..2 /\ \A f \in vs.files : PickLevel <= f.level
<1>1. \A f \in vs.files : f.level \in 0..2
  BY Fields DEF FileSets
<1>2. CASE Taken(0) \/ Taken(1)
  BY <1>1, <1>2 DEF PickLevel
<1>3. CASE ~Taken(0) /\ ~Taken(1)
  <2>1. \A f \in vs.files : f.level = 2
    BY <1>1, <1>3 DEF Taken
  <2> QED BY <1>3, <2>1 DEF PickLevel
<1> QED BY <1>2, <1>3

LEMMA EditGood ==
  ASSUME IInv, phase = "open", WriteEdit, vs.manifest \in DOMAIN manifests
  PROVE  /\ StaysGood(vs.manifest)
         /\ vs.manifest \in DOMAIN manifests'
         /\ Meta(manifests'[vs.manifest]) = edit
         /\ Files(manifests'[vs.manifest]) = Files(manifests[vs.manifest]) \cup edit.adds
<1> DEFINE m == vs.manifest
<1>1. /\ UNCHANGED <<logs, tables, acked, harmed>> /\ Running /\ pc = "edit" /\ Building
      /\ manifests' = Extended(manifests, m, <<edit>>)
  BY DEF WriteEdit, Running, history, Building
<1>2. /\ IsFiles(manifests, Edits) /\ m \in Nat /\ TypeOK /\ edit \in Edits
      /\ vs.files \in FileSets /\ vs.next \in Nat
  BY <1>1, RunningFacts, Fields DEF IInv
<1>3. /\ edit.meta /\ edit.log = logFile /\ edit.next = vs.next
      /\ \A t \in DOMAIN tables : \A r \in Records(tables[t]) : r <= edit.last
  BY <1>1 DEF IInv, AppliedInv
<1>4. EditAdded(manifests, manifests', m, edit)
  BY <1>1, <1>2, EditAppended
<1>5. /\ m < Mine.next /\ Mine.next \in Nat /\ Mine.log \in Nat /\ Mine \in Edits
      /\ vs.next >= Mine.next /\ Mine.log < Mine.next
  BY <1>1, MineFacts
<1>6. /\ DOMAIN manifests' = DOMAIN manifests
      /\ \A k \in DOMAIN manifests : k # m => manifests'[k] = manifests[k]
      /\ Files(manifests'[m]) = Files(manifests[m]) \cup edit.adds
      /\ HasMeta(manifests'[m]) /\ Meta(manifests'[m]) = edit
  BY <1>3, <1>4 DEF EditAdded
<1>7. /\ logFile \in Nat /\ logFile < vs.next /\ IsFiles(logs, Nat) /\ IsFiles(tables, CellSet)
      /\ imm # <<>> /\ imm \in Seq(Nat)
  BY <1>1, RunningFacts
<1>8. Sane(logs', tables', manifests', m)
  <2>1. Sound(Kept(logs, edit), tables, edit)
    BY <1>3, <1>7 DEF Sound, Below
  <2> QED BY <1>1, <1>2, <1>3, <1>5, <1>6, <2>1 DEF Sane
<1>9. ASSUME ~harmed
      PROVE  Good(logs', tables', manifests', acked', m)
  <2> DEFINE K == Kept(logs, Mine)
             K2 == Kept(logs, edit)
             fs == vs.files
             l == PickLevel
  <2>1. /\ Files(manifests[m]) = fs
        /\ edit.adds = {[number |-> table.number, level |-> l]}
        /\ table.number \in DOMAIN tables /\ Copied(tables[table.number], imm)
    BY <1>1, <1>9 DEF IInv, VisibleInv
  <2>2. /\ Intact(K, tables, acked, Mine, fs) /\ KeptInv(K, Mine)
        /\ AttemptsInv(K, manifests, Mine, fs)
    BY <1>1, <1>9, <2>1, MineFacts
  <2>3. /\ logFile = Mine.next /\ Mine.log \in DOMAIN K /\ K[Mine.log] = imm
        /\ \A t \in DOMAIN tables : t < vs.next
    BY <1>1, <1>7, <1>9, FlushFacts
  <2>4. vs.next = Mine.next + 2 /\ table.number = Mine.next + 1
    BY <1>1, <1>7, <1>9 DEF IInv, FlushInv
  <2>5. IsFiles(K, Nat)
    BY <1>7 DEF IsFiles, Kept
  <2>6. DOMAIN K2 = DOMAIN K \ {Mine.log} /\ \A n \in DOMAIN K2 : K2[n] = K[n]
    <3>1. \A n \in DOMAIN logs : n \in Nat
      BY <1>7 DEF IsFiles
    <3>2. DOMAIN K = {k \in DOMAIN logs : k >= Mine.log /\ logs[k] # <<>>}
          /\ \A n \in DOMAIN K : K[n] = logs[n]
      BY DEF Kept
    <3>3. DOMAIN K2 = {k \in DOMAIN logs : k >= Mine.next /\ logs[k] # <<>>}
          /\ \A n \in DOMAIN K2 : K2[n] = logs[n]
      BY <1>3, <2>3 DEF Kept
    <3>4. DOMAIN K \subseteq {Mine.log, Mine.next}
      BY <2>2 DEF KeptInv
    <3> HIDE DEF K, K2
    <3>5. \A n \in DOMAIN K2 : n \in DOMAIN K /\ n # Mine.log
      BY <1>5, <3>1, <3>2, <3>3
    <3>6. \A n \in DOMAIN K : n # Mine.log => n \in DOMAIN K2
      BY <1>5, <3>1, <3>2, <3>3, <3>4
    <3> QED BY <3>2, <3>3, <3>5, <3>6
  <2>7. l \in 0..2 /\ \A f \in fs : l <= f.level
    BY <1>2, PickLevelFacts
  <2> HIDE DEF K, K2, fs, l
  <2>8. Intact(K2, tables, acked, edit, fs \cup {[number |-> Mine.next + 1, level |-> l]})
    <3>1. edit.log = Mine.next /\ edit.next = Mine.next + 2
      BY <1>3, <2>3, <2>4
    <3>2. Mine.next + 1 \in DOMAIN tables /\ Copied(tables[Mine.next + 1], K[Mine.log])
      BY <2>1, <2>3, <2>4
    <3>3. \A t \in DOMAIN tables : t < edit.next
      BY <1>3, <2>3
    <3>4. fs \in FileSets
      BY <1>2 DEF fs
    <3> QED BY <1>2, <1>5, <1>7, <2>2, <2>3, <2>5, <2>6, <2>7, <3>1, <3>2, <3>3, <3>4, FlushIntact
  <2>9. Files(manifests'[m]) = fs \cup {[number |-> Mine.next + 1, level |-> l]}
    BY <1>6, <2>1, <2>4
  <2>10. AttemptsInv(K2, manifests', edit, Files(manifests'[m]))
    <3>1. \A k \in DOMAIN manifests : k <= Mine.next /\ k \in Nat
      BY <1>2, <2>2 DEF AttemptsInv, IsFiles
    <3>2. edit.next = Mine.next + 2
      BY <1>3, <2>4
    <3>3. edit.next \notin DOMAIN manifests /\ \A k \in DOMAIN manifests : k <= edit.next
      BY <1>5, <3>1, <3>2
    <3> QED BY <1>6, <3>3 DEF AttemptsInv
  <2> QED BY <1>1, <1>6, <2>8, <2>9, <2>10 DEF Good, K2
<1> QED BY <1>1, <1>6, <1>8, <1>9 DEF StaysGood

LEMMA UnlinkGood ==
  ASSUME IInv, Unlink, Running, vs.manifest \in DOMAIN manifests
  PROVE  /\ StaysGood(vs.manifest) /\ vs.manifest \in DOMAIN manifests'
         /\ manifests'[vs.manifest] = manifests[vs.manifest]
         /\ \A n \in DOMAIN logs : n >= Mine.log => n \in DOMAIN logs'
         /\ DOMAIN logs' \subseteq DOMAIN logs
         /\ \A n \in DOMAIN logs' : logs'[n] = logs[n]
         /\ DOMAIN tables' \subseteq DOMAIN tables
         /\ \A t \in DOMAIN tables' : tables'[t] = tables[t]
         /\ ~harmed => \A f \in vs.files : f.number \in DOMAIN tables
                                             => f.number \in DOMAIN tables'
<1> DEFINE m == vs.manifest
           K == Kept(logs, Mine)
<1>1. PICK t \in trash :
         /\ logs' = IF t[1] = "log" THEN Without(logs, t[2]) ELSE logs
         /\ manifests' = IF t[1] = "manifest" THEN Without(manifests, t[2])
                         ELSE manifests
         /\ tables' = IF t[1] = "table" THEN Without(tables, t[2]) ELSE tables
  BY DEF Unlink
<1>2. /\ UNCHANGED <<acked, harmed>> /\ pc = "unlink"
  BY DEF Unlink, history
<1>3. /\ t[1] = "log" => t[2] < Mine.log
      /\ t[1] = "manifest" => t[2] < m
      /\ ~harmed /\ t[1] = "table" => \A f \in vs.files : t[2] # f.number
  BY <1>2 DEF IInv, AppliedInv, VisibleInv
<1>4. /\ IsFiles(logs, Nat) /\ IsFiles(tables, CellSet) /\ m \in Nat
  BY RunningFacts
<1>5. /\ Mine \in Edits /\ SaneNow(m) /\ Mine.log \in Nat /\ Sound(K, tables, Mine)
  BY MineFacts
<1>6. Kept(logs', Mine) = K
  BY <1>1, <1>3, <1>4, <1>5, KeptWithout
<1>7. /\ m \in DOMAIN manifests' /\ manifests'[m] = manifests[m]
      /\ DOMAIN manifests' \subseteq DOMAIN manifests
      /\ \A k \in DOMAIN manifests' : manifests'[k] = manifests[k]
  BY <1>1, <1>3, <1>4 DEF Without
<1>8. /\ \A n \in DOMAIN logs : n >= Mine.log => n \in DOMAIN logs'
      /\ DOMAIN logs' \subseteq DOMAIN logs
      /\ \A n \in DOMAIN logs' : logs'[n] = logs[n]
  BY <1>1, <1>3, <1>4, <1>5 DEF Without, IsFiles
<1>9. /\ OnlyTable(tables, tables', t[2])
      /\ DOMAIN tables' \subseteq DOMAIN tables
      /\ \A u \in DOMAIN tables' : tables'[u] = tables[u]
      /\ t[1] = "table" => t[2] \notin DOMAIN tables'
      /\ t[1] # "table" => tables' = tables
  BY <1>1 DEF Without, OnlyTable
<1>10. ~harmed => \A f \in vs.files : f.number \in DOMAIN tables
                                             => f.number \in DOMAIN tables'
  BY <1>1, <1>3 DEF Without
<1> HIDE DEF K
<1>11. Sound(K, tables', Mine)
  BY <1>5, <1>9 DEF Sound
<1>12. Sane(logs', tables', manifests', m)
  BY <1>5, <1>6, <1>7, <1>11 DEF Sane, SaneNow, Mine, K
<1>13. ASSUME ~harmed
       PROVE  Good(logs', tables', manifests', acked', m)
  <2>1. /\ Intact(K, tables, acked, Mine, Files(manifests[m]))
        /\ AttemptsInv(K, manifests, Mine, Files(manifests[m]))
    BY <1>13, MineFacts DEF K
  <2>2. Files(manifests[m]) = vs.files
    BY <1>2, <1>13 DEF IInv, VisibleInv
  <2>3. Intact(K, tables', acked, Mine, Files(manifests[m]))
    <3>1. CASE t[1] = "table"
      <4>1. /\ \A f \in Files(manifests[m]) : f.number # t[2]
            /\ t[2] \notin DOMAIN tables'
        BY <1>3, <1>9, <1>13, <2>2, <3>1
      <4> QED BY <1>9, <2>1, <4>1, TableIntact
    <3>2. CASE t[1] # "table"
      BY <1>9, <2>1, <3>2
    <3> QED BY <3>1, <3>2
  <2>4. AttemptsInv(K, manifests', Mine, Files(manifests[m]))
    BY <1>7, <2>1 DEF AttemptsInv
  <2> QED BY <1>2, <1>6, <1>7, <2>3, <2>4 DEF Good, Mine, K
<1> QED BY <1>2, <1>7, <1>8, <1>9, <1>10, <1>12, <1>13 DEF StaysGood

\* What can happen once the database is open, or nearly so.
LEMMA RunningActions ==
  ASSUME IInv, [Next]_vars, Running
  PROVE  \/ AppendLog \/ Insert \/ Rotate \/ StartFlush \/ FlushedTable \/ WriteSnapshot
         \/ WriteEdit \/ TruncateCurrent \/ Install \/ ListFiles \/ Unlink \/ Cleaned
         \/ Crash \/ FlushBuildFails \/ BackgroundThrows \/ ApplyFails \/ UNCHANGED vars
<1>0. /\ pc \in {"idle", "thrown", "list", "unlink", "build", "snapshot", "edit",
                 "truncate", "point"}
      /\ pc \in {"build", "snapshot", "edit", "truncate", "point"} => phase = "open"
      /\ phase \in {"opening", "open"} /\ NewInv /\ NoEdit.meta = FALSE
  BY RunningFacts DEF Running, IInv, NoEdit, SnapshotOf
<1>1. ~Opening
  BY <1>0 DEF Opening, Open, InitDescriptor, ReadFails, ReadDescriptor, SkipLog, ReplayLog,
     RecoveredTable, NewLog, InitCurrent, NewInv, New
<1>2. ~RecoveryBuildFails /\ ~OpeningFails /\ ~ReaderThrows
  <2>1. ~OpeningFails
    BY <1>0 DEF OpeningFails, UnlinkDescriptor, IInv, PhaseInv
  <2> QED BY <1>0, <2>1 DEF RecoveryBuildFails, ReaderThrows
<1> QED BY <1>1, <1>2 DEF Next, Flushing, Applying, Writing, Failing, Rest

LEMMA MineStep ==
  ASSUME IInv, [Next]_vars, Running, vs.manifest \in DOMAIN manifests
  PROVE  ApplyFails \/ StaysGood(vs.manifest)
<1>1. ASSUME AppendLog \/ Insert \/ Rotate
      PROVE  StaysGood(vs.manifest)
  BY <1>1, AppendGood, InsertGood, RotateGood
<1>2. CASE FlushedTable
  <2>1. /\ phase = "open" /\ pc = "build" /\ UNCHANGED <<logs, manifests, acked, harmed>>
        /\ tables' = Extended(tables, table.number, Cells(table.records))
    BY <1>2 DEF FlushedTable, WriteTable, history
  <2>2. /\ Cells(table.records) \in Seq(CellSet)
        /\ Records(Cells(table.records)) \subseteq ToSet(table.records)
    BY WholeTable DEF IInv
  <2> DEFINE c == Cells(table.records)
  <2> HIDE DEF c
  <2>3. /\ Sane(logs, tables', manifests, vs.manifest)
        /\ ~harmed => Good(logs, tables', manifests, acked, vs.manifest)
    BY <2>1, <2>2, FlushedGood DEF c
  <2> QED BY <2>1, <2>3 DEF StaysGood
<1>3. ASSUME LeaveTable, pc = "build", UNCHANGED <<logs, manifests, acked>>
      PROVE  StaysGood(vs.manifest)
  <2>1. PICK c \in Seq(CellSet) :
          /\ Records(c) \subseteq ToSet(table.records)
          /\ tables' = Extended(tables, table.number, c)
          /\ ~harmed' => c = <<>> \/ c = Cells(table.records)
    BY <1>3, LeaveFacts DEF IInv
  <2>2. phase = "open" /\ (harmed => harmed')
    BY <1>3, RunningFacts, LeaveFacts DEF IInv
  <2>3. /\ Sane(logs, tables', manifests, vs.manifest)
        /\ ~harmed /\ (c = <<>> \/ c = Cells(table.records)) =>
             Good(logs, tables', manifests, acked, vs.manifest)
    BY <1>3, <2>1, <2>2, FlushedGood
  <2> QED BY <1>3, <2>1, <2>2, <2>3 DEF StaysGood
<1>4. ASSUME WriteSnapshot \/ WriteEdit
      PROVE  StaysGood(vs.manifest)
  <2>1. phase = "open"
    BY <1>4, RunningFacts DEF WriteSnapshot, WriteEdit
  <2> QED BY <1>4, <2>1, SnapshotGood, EditGood
<1>5. CASE Unlink
  BY <1>5, UnlinkGood
<1>6. ASSUME UNCHANGED <<logs, tables, manifests, acked>>, harmed => harmed'
      PROVE  StaysGood(vs.manifest)
  <2>1. SaneNow(vs.manifest) /\ (~harmed => GoodNow(vs.manifest))
    BY MineFacts
  <2> QED BY <1>6, <2>1 DEF StaysGood, SaneNow, GoodNow
<1>7. StartFlush \/ TruncateCurrent \/ Install \/ ListFiles \/ Cleaned \/ UNCHANGED vars
        => UNCHANGED <<logs, tables, manifests, acked, harmed>>
  BY DEF StartFlush, TruncateCurrent, Install, ListFiles, Cleaned, vars, directory, history
<1>8. Crash \/ FlushBuildFails \/ BackgroundThrows =>
        /\ UNCHANGED <<logs, manifests, acked>>
        /\ (LeaveTable /\ pc = "build") \/ UNCHANGED <<tables, harmed>>
  BY DEF Crash, FlushBuildFails, BackgroundThrows
<1> QED BY <1>1, <1>2, <1>3, <1>4, <1>5, <1>6, <1>7, <1>8, RunningActions

-----------------------------------------------------------------------------
(***************************************************************************)
(* What is on disk.                                                        *)
(***************************************************************************)

\* What an opening does before it replaces the descriptor.
LEMMA BaseActions ==
  ASSUME IInv, [Next]_vars, Replaying \/ (Switching /\ pc # "point")
  PROVE  /\ \/ SkipLog \/ ReplayLog \/ RecoveredTable \/ RecoveryBuildFails \/ NewLog
            \/ WriteSnapshot \/ WriteEdit \/ TruncateCurrent \/ Crash \/ OpeningFails
            \/ ReaderThrows \/ UNCHANGED vars
         /\ phase = "opening" /\ pc \in {"replay", "build", "snapshot", "edit", "truncate"}
         /\ BaseInv /\ edit \in Edits
<1>1. /\ phase = "opening" /\ pc \in {"replay", "build", "snapshot", "edit", "truncate"}
      /\ BaseInv
  BY DEF IInv, PhaseInv, ReplayInv, OpeningInv, Replaying, Switching, TypeOK
<1>2. TypeOK /\ PhaseInv /\ edit \in Edits
  BY DEF IInv, TypeOK
<1>3. Opening => SkipLog \/ ReplayLog \/ RecoveredTable \/ NewLog
  BY <1>1 DEF Opening, Open, InitDescriptor, ReadFails, ReadDescriptor, InitCurrent
<1>4. ~Flushing /\ ~Writing
  BY <1>1, <1>2 DEF Flushing, StartFlush, FlushedTable, Writing, AppendLog, Insert, Rotate,
     PhaseInv
<1>5. Applying => WriteSnapshot \/ WriteEdit \/ TruncateCurrent
  BY <1>1 DEF Applying, Install, ListFiles, Unlink, Cleaned
<1>6. Failing => Crash \/ ReaderThrows \/ RecoveryBuildFails \/ OpeningFails
  BY <1>1 DEF Failing, FlushBuildFails, BackgroundThrows, ApplyFails
<1>7. Rest => UNCHANGED vars
  BY DEF Rest
<1>8. Next \/ UNCHANGED vars
  OBVIOUS
<1> QED BY <1>1, <1>2, <1>3, <1>4, <1>5, <1>6, <1>7, <1>8 DEF Next

\* The cells c are written of the table of a log that is replayed.
LEMMA ReplayedGood ==
  ASSUME IInv, phase = "opening", pc = "build",
         NEW c \in Seq(CellSet), Records(c) \subseteq ToSet(table.records),
         NEW tb, tb = Extended(tables, table.number, c)
  PROVE  /\ Sane(logs, tb, manifests, current)
         /\ ~harmed /\ (c = <<>> \/ c = Cells(table.records)) =>
              Good(logs, tb, manifests, acked, current)
<1> DEFINE K == Kept(logs, Base)
           fs == Files(manifests[current])
           h == Head(replay)
<1>1. /\ BaseInv /\ h \in DOMAIN K /\ K[h] = table.records /\ table.records \in Seq(Nat)
  BY ReplayedTable
<1>2. /\ SaneNow(current) /\ Base \in Edits /\ Base.next \in Nat /\ Sound(K, tables, Base)
      /\ ~harmed => /\ Intact(K, tables, acked, Base, fs) /\ AttemptsInv(K, manifests, Base, fs)
                    /\ current \in DOMAIN manifests
  BY <1>1, BaseFacts DEF BaseInv
<1>3. IsFiles(tables, CellSet) /\ IsFiles(K, Nat)
  BY DEF IInv, TypeOK, IsFiles, Kept
<1> HIDE DEF K, fs, h
<1>4. \A r \in Records(c) : Below(K, Base, r)
  <2>1. ASSUME NEW r \in Records(c)
        PROVE  r <= r /\ r \in ToSet(K[h])
    <3>1. r \in ToSet(table.records)
      BY <2>1
    <3>2. r \in Nat
      BY <1>1, <3>1 DEF ToSet
    <3> QED BY <1>1, <3>1, <3>2
  <2> QED BY <1>1, <2>1 DEF Below
<1>5. Sound(K, tb, Base)
  BY <1>2, <1>3, <1>4, WrittenSound
<1>6. Sane(logs, tb, manifests, current)
  BY <1>2, <1>5 DEF Sane, SaneNow, Base, K
<1>7. ASSUME ~harmed, c = <<>> \/ c = Cells(table.records)
      PROVE  Good(logs, tb, manifests, acked, current)
  <2>1. /\ table.number = PlanOf(Base, h)
        /\ Base.next < table.number /\ table.number \in Nat
        /\ \A n \in DOMAIN K : PlanOf(Base, n) = table.number => n = h
    BY <1>7, ReplayedLeft DEF K, h
  <2>2. \A f \in fs : f.number # table.number
    <3>1. \A f \in fs : f.number < Base.next /\ f.number \in DOMAIN tables
      BY <1>2, <1>7 DEF Intact, FilesInv
    <3>2. \A f \in fs : f.number \in Nat
      BY <1>3, <3>1 DEF IsFiles
    <3> QED BY <1>2, <2>1, <3>1, <3>2
  <2>3. table.number >= Base.next
    BY <1>2, <2>1
  <2>4. K[h] \in Seq(Nat) /\ (c = <<>> \/ c = Cells(K[h]))
    BY <1>1, <1>7
  <2>5. Intact(K, tb, acked, Base, fs)
    BY <1>1, <1>2, <1>3, <1>7, <2>1, <2>2, <2>3, <2>4, WrittenIntact
  <2> QED BY <1>2, <1>7, <2>5 DEF Good, Base, K, fs
<1> QED BY <1>6, <1>7

\* A descriptor is written beside the one that was read.
LEMMA AttemptGood ==
  ASSUME IInv, Switching, pc # "point", UNCHANGED <<logs, tables, acked, harmed>>,
         NEW e \in Edits, ~harmed => e.adds \subseteq vs.files \cup edit.adds,
         manifests' = Extended(manifests, vs.manifest, <<e>>)
  PROVE  StaysGood(current)
<1> DEFINE K == Kept(logs, Base)
           fs == Files(manifests[current])
<1>1. /\ BaseInv /\ (~harmed => edit.adds = Planned(Base, DOMAIN K))
      /\ IsFiles(manifests, Edits) /\ vs.manifest \in Nat
  BY Fields DEF IInv, OpeningInv, TypeOK
<1>2. /\ vs.manifest = Base.next /\ vs.files = fs /\ current \in DOMAIN manifests
      /\ SaneNow(current) /\ current < Base.next /\ Base.next \in Nat /\ current \in Nat
      /\ ~harmed => /\ Intact(K, tables, acked, Base, fs) /\ AttemptsInv(K, manifests, Base, fs)
  BY <1>1, BaseFacts DEF BaseInv
<1>3. EditAdded(manifests, manifests', vs.manifest, e)
  BY <1>1, EditAppended
<1>4. /\ DOMAIN manifests' = DOMAIN manifests \cup {Base.next}
      /\ manifests'[current] = manifests[current]
      /\ Files(manifests'[Base.next])
           \subseteq (IF Base.next \in DOMAIN manifests THEN Files(manifests[Base.next])
                      ELSE {}) \cup e.adds
  BY <1>2, <1>3 DEF EditAdded
<1>5. Sane(logs', tables', manifests', current)
  BY <1>2, <1>4 DEF Sane, SaneNow
<1> HIDE DEF K, fs
<1>6. ASSUME ~harmed
      PROVE  Good(logs', tables', manifests', acked', current)
  <2>1. \A k \in DOMAIN manifests' : k <= Base.next
    BY <1>2, <1>4, <1>6 DEF AttemptsInv
  <2>2. Files(manifests'[Base.next]) \subseteq fs \cup Planned(Base, DOMAIN K)
    BY <1>1, <1>2, <1>4, <1>6 DEF AttemptsInv
  <2>3. AttemptsInv(K, manifests', Base, fs)
    BY <2>1, <2>2 DEF AttemptsInv
  <2> QED BY <1>2, <1>4, <1>6, <2>3 DEF Good, Base, K, fs
<1> QED BY <1>5, <1>6 DEF StaysGood

LEMMA BaseStep ==
  ASSUME IInv, [Next]_vars, Replaying \/ (Switching /\ pc # "point")
  PROVE  TruncateCurrent \/ (current' = current /\ StaysGood(current))
<1>1. /\ \/ SkipLog \/ ReplayLog \/ RecoveredTable \/ RecoveryBuildFails \/ NewLog
         \/ WriteSnapshot \/ WriteEdit \/ TruncateCurrent \/ Crash \/ OpeningFails
         \/ ReaderThrows \/ UNCHANGED vars
      /\ phase = "opening" /\ pc \in {"replay", "build", "snapshot", "edit", "truncate"}
      /\ BaseInv /\ edit \in Edits /\ TypeOK
  BY BaseActions DEF IInv
<1>2. /\ SaneNow(current) /\ (~harmed => GoodNow(current))
      /\ current \in DOMAIN manifests /\ vs.manifest # current
      /\ vs.manifest = Base.next
      /\ ~harmed => AttemptsInv(Kept(logs, Base), manifests, Base, Files(manifests[current]))
  BY <1>1, BaseFacts DEF BaseInv, IInv, DiskInv
<1>3. ASSUME UNCHANGED directory, UNCHANGED acked, harmed => harmed'
      PROVE  current' = current /\ StaysGood(current)
  BY <1>2, <1>3 DEF directory, StaysGood, SaneNow, GoodNow
<1>4. ASSUME SkipLog \/ ReplayLog \/ ReaderThrows \/ UNCHANGED vars
      PROVE  current' = current /\ StaysGood(current)
  <2>1. UNCHANGED directory /\ UNCHANGED acked /\ (harmed => harmed')
    BY <1>4 DEF SkipLog, ReplayLog, ReaderThrows, vars, history
  <2> QED BY <1>3, <2>1
<1>5. CASE NewLog
  <2>1. UNCHANGED <<current, manifests, tables, acked, harmed>>
    BY <1>5 DEF NewLog, history
  <2>2. Kept(logs', Base) = Kept(logs, Base)
    BY <1>5, NewLogStep
  <2> QED BY <1>2, <2>1, <2>2 DEF StaysGood, SaneNow, GoodNow, Sane, Good, Base
<1>6. CASE RecoveredTable
  <2>1. /\ pc = "build" /\ UNCHANGED <<current, logs, manifests, acked, harmed>>
        /\ tables' = Extended(tables, table.number, Cells(table.records))
    BY <1>6 DEF RecoveredTable, WriteTable, history
  <2> DEFINE c == Cells(table.records)
  <2>2. c \in Seq(CellSet) /\ Records(c) \subseteq ToSet(table.records)
    BY <1>1, WholeTable
  <2> HIDE DEF c
  <2>3. /\ Sane(logs, tables', manifests, current)
        /\ ~harmed => Good(logs, tables', manifests, acked, current)
    BY <1>1, <2>1, <2>2, ReplayedGood DEF c
  <2> QED BY <2>1, <2>3 DEF StaysGood
<1>7. CASE WriteSnapshot
  <2>1. /\ pc = "snapshot" /\ Switching /\ pc # "point"
        /\ UNCHANGED <<current, logs, tables, acked, harmed>>
        /\ manifests' = Extended(manifests, vs.manifest, <<SnapshotOf(vs.files)>>)
    BY <1>1, <1>7 DEF WriteSnapshot, history, Replaying
  <2>2. SnapshotOf(vs.files) \in Edits /\ SnapshotOf(vs.files).adds = vs.files
    BY <1>1, <1>7, WriteSnapshotFacts
  <2> DEFINE e == SnapshotOf(vs.files)
  <2> HIDE DEF e
  <2>3. e \in Edits /\ e.adds \subseteq vs.files \cup edit.adds
        /\ manifests' = Extended(manifests, vs.manifest, <<e>>)
    BY <2>1, <2>2 DEF e
  <2> QED BY <2>1, <2>3, AttemptGood
<1>8. CASE WriteEdit
  <2>1. /\ pc = "edit" /\ Switching /\ pc # "point"
        /\ UNCHANGED <<current, logs, tables, acked, harmed>>
        /\ manifests' = Extended(manifests, vs.manifest, <<edit>>)
    BY <1>1, <1>8 DEF WriteEdit, history, Replaying
  <2> QED BY <1>1, <2>1, AttemptGood
<1>9. CASE Crash
  <2>1. UNCHANGED <<current, logs, manifests, acked>>
    BY <1>9 DEF Crash
  <2>2. CASE pc = "build"
    <3>1. LeaveTable
      BY <1>9, <2>2 DEF Crash
    <3>2. PICK c \in Seq(CellSet) :
            /\ Records(c) \subseteq ToSet(table.records)
            /\ tables' = Extended(tables, table.number, c)
            /\ ~harmed' => c = <<>> \/ c = Cells(table.records)
      BY <1>1, <3>1, LeaveFacts
    <3>3. harmed => harmed'
      BY <1>1, <3>1, LeaveFacts
    <3>4. /\ Sane(logs, tables', manifests, current)
          /\ ~harmed /\ (c = <<>> \/ c = Cells(table.records)) =>
               Good(logs, tables', manifests, acked, current)
      BY <1>1, <2>2, <3>2, ReplayedGood
    <3> QED BY <2>1, <3>2, <3>3, <3>4 DEF StaysGood
  <2>3. CASE pc # "build"
    <3>1. UNCHANGED <<tables, harmed>>
      BY <1>9, <2>3 DEF Crash
    <3> QED BY <1>3, <2>1, <3>1 DEF directory
  <2> QED BY <2>2, <2>3
<1>11. CASE RecoveryBuildFails
  <2>1. /\ UNCHANGED <<current, logs, manifests, acked>> /\ harmed' /\ pc = "build"
    BY <1>11 DEF RecoveryBuildFails
  <2>2. CASE UNCHANGED tables
    BY <1>3, <2>1, <2>2 DEF directory
  <2>3. ASSUME NEW c \in Seq(CellSet), Records(c) \subseteq ToSet(table.records),
               tables' = Extended(tables, table.number, c)
        PROVE  current' = current /\ StaysGood(current)
    <3>1. Sane(logs, tables', manifests, current)
      BY <1>1, <2>1, <2>3, ReplayedGood
    <3> QED BY <2>1, <3>1 DEF StaysGood
  <2> QED BY <1>1, <1>11, <2>2, <2>3, RecoveryFacts
<1>10. CASE OpeningFails
  <2>1. /\ UNCHANGED <<current, logs, tables, acked, harmed>>
        /\ manifests' = Without(manifests, vs.manifest)
    BY <1>10 DEF OpeningFails, UnlinkDescriptor
  <2>2. /\ manifests'[current] = manifests[current] /\ current \in DOMAIN manifests'
        /\ \A k \in DOMAIN manifests' : k \in DOMAIN manifests /\ k # Base.next
    BY <1>2, <2>1 DEF Without
  <2>3. ~harmed => AttemptsInv(Kept(logs, Base), manifests', Base, Files(manifests[current]))
    BY <1>2, <2>2 DEF AttemptsInv
  <2> QED BY <1>2, <2>1, <2>2, <2>3 DEF StaysGood, SaneNow, GoodNow, Sane, Good, Base
<1> QED BY <1>1, <1>4, <1>5, <1>6, <1>7, <1>8, <1>9, <1>10, <1>11

\* What can happen before a descriptor is read.
LEMMA EarlyActions ==
  ASSUME IInv, [Next]_vars, ~Running, ~Replaying, ~Switching
  PROVE  \/ Open \/ InitDescriptor \/ ReadFails \/ ReadDescriptor \/ InitCurrent
         \/ TruncateCurrent \/ (Crash /\ pc # "build") \/ ReaderThrows \/ UNCHANGED vars
<1>1. TypeOK /\ PhaseInv /\ NewInv /\ NoEdit.meta = FALSE /\ edit.meta \in BOOLEAN
      /\ phase \in {"down", "opening", "open", "corrupt", "unread"}
      /\ pc \in {"idle", "init", "read", "replay", "build", "snapshot", "edit",
                 "truncate", "point", "list", "unlink", "thrown"}
  BY Fields DEF IInv, TypeOK, NoEdit, SnapshotOf
<1>2. phase # "open" /\ pc \in {"idle", "init", "read", "truncate", "point"}
  BY <1>1 DEF Running, Replaying, Switching, PhaseInv
<1>3. pc \in {"truncate", "point"} => edit = NoEdit
  BY <1>1, <1>2 DEF NewInv, New, Switching, PhaseInv
<1>4. Opening => \/ Open \/ InitDescriptor \/ ReadFails \/ ReadDescriptor \/ InitCurrent
  BY <1>2 DEF Opening, SkipLog, ReplayLog, RecoveredTable, NewLog
<1>5. ~Flushing /\ ~Writing
  BY <1>1, <1>2 DEF Flushing, StartFlush, FlushedTable, Writing, AppendLog, Insert, Rotate,
     PhaseInv
<1>6. Applying => TruncateCurrent
  BY <1>2, <1>3 DEF Applying, WriteSnapshot, WriteEdit, Install, ListFiles, Unlink, Cleaned
<1>7. Failing => Crash \/ ReaderThrows
  BY <1>2, <1>3 DEF Failing, FlushBuildFails, BackgroundThrows, ApplyFails, RecoveryBuildFails,
     OpeningFails, UnlinkDescriptor
<1>8. Rest => UNCHANGED vars
  BY DEF Rest
<1>9. Next \/ UNCHANGED vars
  OBVIOUS
<1> QED BY <1>2, <1>4, <1>5, <1>6, <1>7, <1>8, <1>9 DEF Next

\* The first descriptor of an empty directory.
LEMMA FirstGood ==
  ASSUME IInv, InitCurrent
  PROVE  current' = 1 /\ StaysGood(1)
<1>1. /\ TypeOK /\ pc = "point" /\ edit = NoEdit /\ current' = vs.manifest
      /\ UNCHANGED <<logs, tables, manifests, acked, harmed>>
  BY DEF IInv, InitCurrent, history
<1>2. /\ DOMAIN logs = {} /\ DOMAIN tables = {} /\ acked = {}
      /\ vs.manifest = 1 /\ 1 \in DOMAIN manifests /\ Files(manifests[1]) = {}
      /\ HasMeta(manifests[1]) /\ Meta(manifests[1]) = FirstMeta
      /\ \A k \in DOMAIN manifests : k = 1
  BY <1>1, NoEditType DEF IInv, NewInv, New, EditIs
<1>3. FirstMeta.log = 0 /\ FirstMeta.next = 2
  BY NoEditType DEF EditIs
<1> DEFINE K == Kept(logs, FirstMeta)
<1>4. DOMAIN K = {}
  BY <1>2 DEF Kept
<1> HIDE DEF K
<1>5. Sane(logs, tables, manifests, 1)
  BY <1>2, <1>3 DEF Sane, Sound
<1>6. Intact(K, tables, acked, FirstMeta, {})
  BY <1>2, <1>3, <1>4 DEF Intact, KeptInv, LeftInv, FilesInv, CoverInv
<1>7. AttemptsInv(K, manifests, FirstMeta, {})
  BY <1>2, <1>3 DEF AttemptsInv
<1>8. Good(logs, tables, manifests, acked, 1)
  BY <1>2, <1>6, <1>7 DEF Good, K
<1> QED BY <1>1, <1>2, <1>5, <1>8 DEF StaysGood

LEMMA DiskStep ==
  ASSUME IInv, [Next]_vars
  PROVE  DiskInv'
<1> SUFFICES ASSUME current' > 0
             PROVE  /\ current' \in DOMAIN manifests' =>
                         Sane(logs', tables', manifests', current')
                    /\ ~harmed' => Good(logs', tables', manifests', acked', current')
  BY DEF DiskInv, SaneNow, GoodNow
<1>0. TypeOK /\ PhaseInv /\ DiskInv /\ OpenedInv /\ Torn \notin Nat /\ ~(Torn > 0)
  BY DEF IInv, Torn
<1>1. CASE Running
  <2>1. /\ current = vs.manifest \/ pc = "point" \/ vs.manifest \notin DOMAIN manifests
        /\ vs.manifest \notin DOMAIN manifests => bgError /\ harmed
        /\ bgError => pc = "idle"
        /\ pc = "point" => current = Torn
    BY <1>0, <1>1, RunningFacts DEF PhaseInv
  <2>2. \/ AppendLog \/ Insert \/ Rotate \/ StartFlush \/ FlushedTable \/ WriteSnapshot
        \/ WriteEdit \/ TruncateCurrent \/ Install \/ ListFiles \/ Unlink \/ Cleaned
        \/ Crash \/ FlushBuildFails \/ BackgroundThrows \/ ApplyFails \/ UNCHANGED vars
    BY <1>1, RunningActions
  <2>3. current' = current \/ current' = Torn \/ current' = vs.manifest
    BY <2>2 DEF AppendLog, Insert, Rotate, StartFlush, FlushedTable, WriteSnapshot, WriteEdit,
       TruncateCurrent, Install, ListFiles, Unlink, Cleaned, Crash, FlushBuildFails,
       BackgroundThrows, ApplyFails, UnlinkDescriptor, vars, directory
  <2>5. CASE vs.manifest \in DOMAIN manifests
    <3>0. current' = vs.manifest
      BY <1>0, <2>1, <2>3, <2>5
    <3>1. CASE ApplyFails
      BY <3>0, <3>1 DEF ApplyFails, UnlinkDescriptor, Without
    <3>2. CASE StaysGood(vs.manifest)
      BY <3>0, <3>2 DEF StaysGood
    <3> QED BY <1>1, <2>5, <3>1, <3>2, MineStep
  <2>6. CASE vs.manifest \notin DOMAIN manifests
    <3>1. bgError /\ harmed /\ pc = "idle"
      BY <2>1, <2>6
    <3>2. Insert \/ (Crash /\ pc # "build") \/ UNCHANGED vars
      BY <2>2, <3>1 DEF AppendLog, Rotate, StartFlush, FlushedTable, WriteSnapshot, WriteEdit,
       TruncateCurrent, Install, ListFiles, Unlink, Cleaned, FlushBuildFails, BackgroundThrows,
       ApplyFails, UnlinkDescriptor
    <3>3. UNCHANGED <<current, logs, tables, manifests>> /\ harmed'
      BY <3>1, <3>2 DEF Insert, Crash, vars, directory, history
    <3> QED BY <1>0, <3>1, <3>3 DEF DiskInv, SaneNow, Sane
  <2> QED BY <2>5, <2>6
<1>2. CASE Replaying \/ (Switching /\ pc # "point")
  <2>1. ~TruncateCurrent
    BY <1>0 DEF TruncateCurrent
  <2> QED BY <1>2, <2>1, BaseStep DEF StaysGood
<1>3. CASE Switching /\ pc = "point"
  <2>1. /\ SaneNow(vs.manifest) /\ (~harmed => GoodNow(vs.manifest))
        /\ current = Torn
    BY <1>0, <1>3 DEF OpenedInv, PhaseInv
  <2>2. current' # current
    BY <1>0, <2>1
  <2>3. phase = "opening" /\ ~inflight
    BY <1>0, <1>3 DEF Switching, PhaseInv
  <2>4. ~Opening \/ InitCurrent
    BY <1>3, <2>3 DEF Opening, Open, InitDescriptor, ReadFails, ReadDescriptor, SkipLog, ReplayLog,
       RecoveredTable, NewLog
  <2>5. ~InitCurrent
    BY <1>3, NoEditType DEF InitCurrent, Switching, EditIs
  <2>6. ~Flushing /\ ~Writing
    BY <1>3, <2>3 DEF Flushing, StartFlush, FlushedTable, Writing, AppendLog, Insert, Rotate
  <2>7. Applying => Install
    BY <1>3 DEF Applying, WriteSnapshot, WriteEdit, TruncateCurrent, ListFiles, Unlink, Cleaned
  <2>8. Failing => current' = current
    BY DEF Failing, Crash, ReaderThrows, RecoveryBuildFails, FlushBuildFails, BackgroundThrows,
       OpeningFails, ApplyFails, UnlinkDescriptor, directory
  <2>9. Install
    BY <2>2, <2>4, <2>5, <2>6, <2>7, <2>8 DEF Next, Rest, vars, directory
  <2> QED BY <2>1, <2>9 DEF Install, history, SaneNow, GoodNow
<1>4. CASE ~Running /\ ~Replaying /\ ~Switching
  <2>1. \/ Open \/ InitDescriptor \/ ReadFails \/ ReadDescriptor \/ InitCurrent
        \/ (Crash /\ pc # "build") \/ ReaderThrows \/ UNCHANGED vars
    BY <1>0, <1>4, EarlyActions DEF TruncateCurrent
  <2>2. CASE InitCurrent
    BY <2>2, FirstGood DEF StaysGood
  <2>3. CASE InitDescriptor
    BY <1>0, <2>3 DEF InitDescriptor, IInv, NewInv, Absent
  <2>4. CASE \/ Open \/ ReadFails \/ ReadDescriptor \/ (Crash /\ pc # "build")
             \/ ReaderThrows \/ UNCHANGED vars
    <3>1. UNCHANGED directory /\ UNCHANGED acked /\ (harmed => harmed')
      <4>1. ReadDescriptor => UNCHANGED directory /\ UNCHANGED acked /\ (harmed => harmed')
        BY DEF ReadDescriptor
      <4>2. Crash /\ pc # "build" => UNCHANGED directory /\ UNCHANGED acked /\ (harmed => harmed')
        BY DEF Crash, directory
      <4>3. Open \/ ReadFails \/ ReaderThrows \/ UNCHANGED vars =>
              UNCHANGED directory /\ UNCHANGED acked /\ (harmed => harmed')
        BY DEF Open, ReadFails, ReaderThrows, vars, history
      <4> QED BY <2>4, <4>1, <4>2, <4>3
    <3> QED BY <1>0, <3>1 DEF directory, DiskInv, SaneNow, GoodNow
  <2> QED BY <2>1, <2>2, <2>3, <2>4
<1> QED BY <1>1, <1>2, <1>3, <1>4

-----------------------------------------------------------------------------
(***************************************************************************)
(* The database is open, or nearly so: one lemma per action.               *)
(***************************************************************************)

RunningInv == MemoryInv /\ AppliedInv /\ FlushInv /\ VisibleInv

\* After a step all of that holds, and a reader still sees what it saw.
RunningKept == RunningInv' /\ (~harmed => Visible \subseteq Visible')

\* Where a running database comes from.
LEMMA RunningBefore ==
  ASSUME IInv, [Next]_vars, Running'
  PROVE  (Running /\ ~Crash) \/ (Switching /\ Install)
<1>1. TypeOK /\ PhaseInv /\ NewInv
  BY DEF IInv
<1>2. CASE Running
  BY <1>2 DEF Crash, LoseMemory, Running
<1>3. CASE Replaying \/ (Switching /\ pc # "point")
  <2>1. /\ \/ SkipLog \/ ReplayLog \/ RecoveredTable \/ RecoveryBuildFails \/ NewLog
           \/ WriteSnapshot \/ WriteEdit \/ TruncateCurrent \/ Crash \/ OpeningFails
           \/ ReaderThrows \/ UNCHANGED vars
        /\ phase = "opening" /\ pc \in {"replay", "build", "snapshot", "edit", "truncate"}
    BY <1>3, BaseActions
  <2> QED BY <2>1 DEF SkipLog, ReplayLog, RecoveredTable, RecoveryBuildFails, NewLog,
      WriteSnapshot, WriteEdit, TruncateCurrent, Crash, OpeningFails, ReaderThrows, LoseMemory,
      StartTable, vars, Running
<1>4. CASE Switching /\ pc = "point"
  <2>1. phase = "opening" /\ ~inflight
    BY <1>1, <1>4 DEF Switching, PhaseInv
  <2>2. ~Opening
    BY <1>4, <2>1, NoEditType DEF Opening, Open, InitDescriptor, ReadFails, ReadDescriptor, SkipLog,
       ReplayLog, RecoveredTable, NewLog, InitCurrent, Switching, EditIs
  <2>3. ~Flushing /\ ~Writing
    BY <1>4, <2>1 DEF Flushing, StartFlush, FlushedTable, Writing, AppendLog, Insert, Rotate
  <2>4. Applying => Install
    BY <1>4 DEF Applying, WriteSnapshot, WriteEdit, TruncateCurrent, ListFiles, Unlink, Cleaned
  <2>5. Failing => phase' = "down"
    BY <1>4, <2>1 DEF Failing, Crash, ReaderThrows, RecoveryBuildFails, FlushBuildFails,
       BackgroundThrows, OpeningFails, ApplyFails, LoseMemory
  <2>6. UNCHANGED vars => pc' = pc /\ phase' = phase
    BY DEF vars
  <2> QED BY <1>4, <2>1, <2>2, <2>3, <2>4, <2>5, <2>6 DEF Next, Rest, Running
<1>5. CASE ~Running /\ ~Replaying /\ ~Switching
  <2>1. \/ Open \/ InitDescriptor \/ ReadFails \/ ReadDescriptor \/ InitCurrent
        \/ TruncateCurrent \/ (Crash /\ pc # "build") \/ ReaderThrows \/ UNCHANGED vars
    BY <1>5, EarlyActions
  <2>2. phase # "open"
    BY <1>5 DEF Running
  <2>3. Open => ~Running'
    <3>1. Open => pc' \in {"init", "read"} /\ phase' = "opening"
      BY DEF Open
    <3> QED BY <3>1 DEF Running
  <2>4. InitDescriptor \/ ReadFails \/ ReadDescriptor \/ InitCurrent \/ TruncateCurrent
          \/ ReaderThrows => ~Running'
    <3>1. InitDescriptor \/ ReadFails \/ ReadDescriptor \/ InitCurrent \/ TruncateCurrent
            \/ ReaderThrows =>
            /\ phase' \in {phase, "corrupt", "unread"}
            /\ pc' \in {"truncate", "idle", "replay", "read", "point"}
      BY DEF InitDescriptor, ReadFails, ReadDescriptor, InitCurrent, TruncateCurrent, ReaderThrows
    <3> QED BY <2>2, <3>1 DEF Running
  <2>5. Crash \/ UNCHANGED vars => ~Running'
    BY <1>5 DEF Crash, LoseMemory, vars, Running
  <2> QED BY <2>1, <2>3, <2>4, <2>5
<1> QED BY <1>2, <1>3, <1>4, <1>5

\* An opening switched to its descriptor, which names an empty log.
LEMMA OpenedRunning ==
  ASSUME IInv, Switching, Install
  PROVE  RunningInv'
<1> DEFINE K == Kept(logs, edit)
<1>1. /\ TypeOK /\ PhaseInv /\ OpenedInv /\ pc = "point" /\ phase = "opening"
  BY DEF IInv, Switching, Install
<1>2. /\ edit.log = logFile /\ logFile \in DOMAIN logs /\ logs[logFile] = <<>>
      /\ vs.next = logFile + 1 /\ \A n \in DOMAIN logs : n < vs.next
      /\ edit.next = vs.next /\ edit.last = vs.last
      /\ vs.manifest \in DOMAIN manifests
      /\ Meta(manifests[vs.manifest]) = edit
      /\ ~harmed => Files(manifests[vs.manifest]) = vs.files \cup edit.adds
      /\ vs.manifest > 0 /\ SaneNow(vs.manifest)
      /\ ~harmed => GoodNow(vs.manifest)
  BY <1>1 DEF OpenedInv
<1>3. mem = <<>> /\ imm = <<>> /\ ~inflight /\ ~bgError
  BY <1>1 DEF PhaseInv
<1>4. /\ UNCHANGED <<manifests, logs, tables, acked, harmed, phase, logFile, mem, inflight, edit,
                     table, bgError>>
      /\ current' = vs.manifest /\ imm' = <<>> /\ pc' = "list"
      /\ VersionIs(vs', vs.files \cup edit.adds, vs.next, vs.manifest, edit.log, vs.last)
  BY <1>1, InstallFacts DEF Install, work, history
<1>5. IsFiles(logs, Nat) /\ IsFiles(tables, CellSet) /\ vs.next \in Nat /\ vs.last \in Nat
      /\ logFile \in Nat
  BY <1>1, Fields DEF TypeOK
<1>6. DOMAIN K = {}
  <2>1. ASSUME NEW n \in DOMAIN logs, n >= edit.log
        PROVE  n = logFile
    BY <1>2, <1>5, <2>1 DEF IsFiles
  <2> QED BY <1>2, <2>1 DEF Kept
<1> HIDE DEF K
<1>7. \A t \in DOMAIN tables : \A r \in Records(tables[t]) : r <= vs.last
  BY <1>2, <1>6 DEF SaneNow, Sane, Sound, Below, K
<1>8. ~harmed => /\ LeftInv(K, tables, edit) /\ FilesInv(K, tables, edit, vs.files \cup edit.adds)
                 /\ CoverInv(K, tables, acked, vs.files \cup edit.adds)
  BY <1>2 DEF GoodNow, Good, Intact, K
<1>9. Mine' = edit /\ Running' /\ ~Building'
  BY <1>1, <1>2, <1>4 DEF Mine, Running, Building, VersionIs
<1>10. MemoryInv'
  <2>1. logs[logFile] = <<>> \o <<>>
    BY <1>2
  <2>2. ToSet(<<>>) = {}
    BY DEF ToSet
  <2> QED BY <1>2, <1>3, <1>4, <1>7, <1>9, <2>1, <2>2 DEF MemoryInv, VersionIs
<1>11. AppliedInv'
  BY <1>2, <1>4, <1>5, <1>9 DEF AppliedInv, VersionIs
<1>12. FlushInv'
  <2>1. ~harmed => \A t \in DOMAIN tables : t < vs.next
    BY <1>2, <1>5, <1>6, <1>8 DEF LeftInv, IsFiles
  <2> QED BY <1>2, <1>4, <1>9, <2>1 DEF FlushInv, VersionIs
<1>13. VisibleInv'
  <2>1. ~harmed => acked \subseteq Visible'
    <3>1. \A f \in vs.files \cup edit.adds : FileContents(f)' = FileContents(f)
      BY <1>4 DEF FileContents
    <3>2. ~harmed => \A f \in vs.files \cup edit.adds :
             FileContents(f) = Contents(tables[f.number])
      BY <1>8 DEF FilesInv, FileContents
    <3>3. ~harmed => \A r \in acked : \E f \in vs'.files : r \in FileContents(f)'
      BY <1>4, <1>6, <1>8, <3>1, <3>2 DEF CoverInv, VersionIs
    <3> QED BY <3>3 DEF Visible
  <2> QED BY <1>2, <1>4, <1>9, <2>1 DEF VisibleInv, VersionIs
<1> QED BY <1>10, <1>11, <1>12, <1>13 DEF RunningInv

\* When a descriptor cannot be written it is gone, and no background work follows.
LEMMA StillThere ==
  ASSUME IInv, Running, pc # "idle" \/ ~bgError
  PROVE  vs.manifest \in DOMAIN manifests
BY RunningFacts

LEMMA AppendRunning ==
  ASSUME IInv, AppendLog
  PROVE  RunningKept
<1> DEFINE v == vs.last + 1
<1>1. /\ phase = "open" /\ ~inflight /\ ~bgError /\ Running
      /\ logs' = Extended(logs, logFile, <<v>>) /\ inflight' = TRUE
      /\ UNCHANGED <<current, manifests, tables, phase, pc, vs, logFile, mem, imm, edit, table,
                     trash, bgError, acked, harmed>>
  BY DEF AppendLog, Running, work, history
<1>2. vs.manifest \in DOMAIN manifests
  BY <1>1, StillThere
<1>3. StaysGood(vs.manifest)
  BY <1>2, AppendGood
<1>4. MemoryInv /\ AppliedInv /\ FlushInv /\ VisibleInv
  BY DEF IInv
<1>5. /\ logFile \in DOMAIN logs /\ logs[logFile] \in Seq(Nat) /\ logs[logFile] = mem \o <<>>
      /\ mem \in Seq(Nat) /\ v \in Nat /\ logFile >= Mine.log
  BY <1>1, <1>2, RunningFacts, MineFacts
<1>6. logs[logFile] = mem
  BY <1>5
<1>7. /\ DOMAIN logs' = DOMAIN logs /\ logs'[logFile] = mem \o <<v>>
      /\ \A n \in DOMAIN logs : n # logFile => logs'[n] = logs[n]
  BY <1>1, <1>5, <1>6 DEF Extended
<1> HIDE DEF v
<1>8. \A n \in DOMAIN logs : ToSet(logs[n]) \subseteq ToSet(logs'[n])
  <2> DEFINE s == mem \o <<v>>
  <2>1. DOMAIN s = 1..(Len(mem) + 1) /\ DOMAIN mem = 1..Len(mem) /\ Len(mem) \in Nat
        /\ \A i \in 1..Len(mem) : s[i] = mem[i]
    BY <1>5
  <2> HIDE DEF s
  <2>2. DOMAIN mem \subseteq DOMAIN s /\ \A i \in DOMAIN mem : s[i] = mem[i]
    BY <2>1
  <2>3. ToSet(mem) \subseteq ToSet(s)
    BY <2>2 DEF ToSet
  <2> QED BY <1>6, <1>7, <2>3 DEF s
<1>9. /\ Mine' = Mine /\ Running' /\ (Building' <=> Building) /\ PickLevel' = PickLevel
      /\ Visible' = Visible
  BY <1>1 DEF Mine, Running, Building, PickLevel, Taken, Visible, FileContents
<1>10. MemoryInv'
  BY <1>1, <1>4, <1>7, <1>9 DEF MemoryInv, v
<1>11. AppliedInv'
  <2>1. SaneNow(vs.manifest)'
    BY <1>1, <1>3 DEF StaysGood, SaneNow
  <2> QED BY <1>1, <1>2, <1>4, <1>5, <1>7, <1>8, <1>9, <2>1 DEF AppliedInv
<1>12. FlushInv'
  <2>1. ~harmed => GoodNow(vs.manifest)'
    BY <1>1, <1>3 DEF StaysGood, GoodNow
  <2>2. imm # <<>> /\ pc \notin {"truncate", "point"} /\ ~harmed =>
          Mine.log # logFile
    BY <1>1, <1>2, <1>4, MineFacts DEF FlushInv
  <2> QED BY <1>1, <1>4, <1>7, <1>9, <2>1, <2>2 DEF FlushInv
<1>13. VisibleInv'
  BY <1>1, <1>4, <1>9 DEF VisibleInv
<1> QED BY <1>10, <1>11, <1>12, <1>13, <1>9 DEF RunningInv, RunningKept

LEMMA InsertRunning ==
  ASSUME IInv, Insert
  PROVE  RunningKept
<1> DEFINE v == vs.last + 1
<1>1. /\ inflight /\ Running /\ mem' = Append(mem, v) /\ acked' = acked \cup {v}
      /\ inflight' = FALSE /\ v \in ToSet(logs[logFile]) /\ v \in Nat
      /\ UNCHANGED <<current, manifests, logs, tables, phase, pc, logFile, imm, edit, table,
                     trash, bgError, harmed>>
  BY InsertedLog DEF Insert, directory, work
<1>2. VersionIs(vs', vs.files, vs.next, vs.manifest, vs.log, v)
  BY InsertFacts DEF IInv
<1>3. MemoryInv /\ AppliedInv /\ FlushInv /\ VisibleInv
  BY DEF IInv
<1>4. /\ logs[logFile] = mem \o <<v>> /\ mem \in Seq(Nat) /\ vs.last \in Nat
      /\ logFile \in DOMAIN logs
      /\ \A r \in ToSet(mem) \cup ToSet(imm) : r <= vs.last /\ r \in Nat
      /\ \A t \in DOMAIN tables : \A r \in Records(tables[t]) : r <= vs.last /\ r \in Nat
  BY <1>1, RunningFacts
<1>5. /\ mem' = mem \o <<v>> /\ mem' \o <<>> = mem'
      /\ ToSet(mem') = ToSet(mem) \cup {v}
  <2> DEFINE s == mem \o <<v>>
  <2>1. DOMAIN s = 1..(Len(mem) + 1) /\ DOMAIN mem = 1..Len(mem) /\ Len(mem) \in Nat
        /\ s[Len(mem) + 1] = v /\ \A i \in 1..Len(mem) : s[i] = mem[i]
    BY <1>4
  <2>2. mem' = s /\ s \o <<>> = s
    BY <1>1, <1>4
  <2> HIDE DEF s
  <2>3. DOMAIN s = DOMAIN mem \cup {Len(mem) + 1} /\ \A i \in DOMAIN mem : s[i] = mem[i]
    BY <2>1
  <2>4. ToSet(s) = ToSet(mem) \cup {v}
    BY <2>1, <2>3 DEF ToSet
  <2> QED BY <2>2, <2>4 DEF s
<1>6. /\ Mine' = Mine /\ Running' /\ (Building' <=> Building) /\ PickLevel' = PickLevel
      /\ Visible' = Visible \cup {v}
  BY <1>1, <1>2, <1>5 DEF Mine, Running, Building, PickLevel, Taken, Visible, FileContents, VersionIs
<1>7. vs.manifest \in DOMAIN manifests => StaysGood(vs.manifest) /\ logFile >= Mine.log
  BY <1>1, InsertGood, MineFacts
<1>8. MemoryInv'
  <2>1. \A r \in ToSet(mem') \cup ToSet(imm) : r <= v
    BY <1>1, <1>4, <1>5
  <2>2. \A t \in DOMAIN tables : \A r \in Records(tables[t]) : r <= v
    BY <1>4
  <2> HIDE DEF v
  <2> QED BY <1>1, <1>2, <1>3, <1>4, <1>5, <1>6, <2>1, <2>2 DEF MemoryInv, VersionIs
<1> HIDE DEF v
<1>9. AppliedInv'
  <2>1. vs.manifest \in DOMAIN manifests => SaneNow(vs.manifest)'
    BY <1>1, <1>2, <1>7 DEF StaysGood, SaneNow, VersionIs
  <2> QED BY <1>1, <1>2, <1>3, <1>4, <1>6, <1>7, <2>1 DEF AppliedInv, VersionIs
<1>10. FlushInv'
  <2>1. ~harmed => GoodNow(vs.manifest)'
    BY <1>1, <1>2, <1>3, <1>7 DEF StaysGood, GoodNow, VersionIs, MemoryInv
  <2> QED BY <1>1, <1>2, <1>3, <1>6, <2>1 DEF FlushInv, VersionIs
<1>11. VisibleInv'
  BY <1>1, <1>2, <1>3, <1>6 DEF VisibleInv, VersionIs
<1> QED BY <1>8, <1>9, <1>10, <1>11, <1>6 DEF RunningInv, RunningKept

LEMMA RotateRunning ==
  ASSUME IInv, Rotate
  PROVE  RunningKept
<1>1. /\ phase = "open" /\ ~inflight /\ ~bgError /\ Running /\ imm = <<>>
      /\ Len(mem) > BufferSize /\ logFile' = vs.next /\ imm' = mem /\ mem' = <<>>
      /\ logs' = Extended(logs, vs.next, <<>>)
      /\ UNCHANGED <<current, manifests, tables, phase, pc, inflight, edit, table, trash,
                     bgError, acked, harmed>>
  BY DEF Rotate, Running, work, history
<1>2. VersionIs(vs', vs.files, vs.next + 1, vs.manifest, vs.log, vs.last)
  BY RotateFacts DEF IInv
<1>3. MemoryInv /\ AppliedInv /\ FlushInv /\ VisibleInv
  BY DEF IInv
<1>4. vs.manifest \in DOMAIN manifests /\ ~Building
  BY <1>1, StillThere, RunningFacts
<1>5. /\ logFile \in DOMAIN logs /\ logs[logFile] = mem \o <<>>
      /\ mem \in Seq(Nat) /\ vs.next \in Nat /\ logFile \in Nat
      /\ \A n \in DOMAIN logs : n < vs.next /\ n \in Nat
      /\ \A r \in ToSet(mem) : r <= vs.last
      /\ pc \in {"idle", "thrown", "list", "unlink"}
      /\ Mine.log \in Nat /\ Mine.next \in Nat /\ Mine.log < Mine.next /\ vs.next >= Mine.next
      /\ logFile >= Mine.log
  BY <1>1, <1>4, RunningFacts, MineFacts
<1>6. logs[logFile] = mem /\ mem # <<>>
  <2>1. BufferSize \in Nat
    BY RecoveryAssumption DEF RecoveryAssumption
  <2> QED BY <1>1, <1>5, <2>1
<1>7. /\ DOMAIN logs' = DOMAIN logs \cup {vs.next} /\ logs'[vs.next] = <<>>
      /\ \A n \in DOMAIN logs : logs'[n] = logs[n]
  <2>1. <<>> \o <<>> = <<>> /\ vs.next \notin DOMAIN logs
    BY <1>5
  <2> QED BY <1>1, <2>1 DEF Extended
<1>8. ToSet(<<>>) = {}
  BY DEF ToSet
<1>9. /\ Mine' = Mine /\ Running' /\ ~Building' /\ PickLevel' = PickLevel
      /\ Visible' = Visible
  BY <1>1, <1>2, <1>4, <1>8 DEF Mine, Running, Building, PickLevel, Taken, Visible, FileContents,
     VersionIs
<1>10. MemoryInv'
  <2>1. <<>> = <<>> \o <<>>
    OBVIOUS
  <2>2. \A n \in DOMAIN logs' : n < vs'.next
    BY <1>2, <1>5, <1>7 DEF VersionIs
  <2> QED BY <1>1, <1>2, <1>3, <1>5, <1>7, <1>8, <1>9, <2>1, <2>2 DEF MemoryInv, VersionIs
<1>11. AppliedInv'
  <2>1. pc # "point" /\ vs'.next >= Mine.next /\ logFile' >= Mine.log
    BY <1>1, <1>2, <1>5 DEF VersionIs
  <2>2. \/ vs.last <= Mine.last
        \/ \E n \in DOMAIN logs' : n >= Mine.log /\ vs.last \in ToSet(logs'[n])
    BY <1>1, <1>3, <1>4, <1>7 DEF AppliedInv
  <2> QED BY <1>1, <1>2, <1>3, <1>4, <1>5, <1>9, <2>1, <2>2 DEF AppliedInv, VersionIs
<1>12. FlushInv'
  <2> SUFFICES ASSUME ~harmed
               PROVE  FlushInv'
    BY <1>1 DEF FlushInv
  <2>1. logFile = Mine.log /\ vs.next = Mine.next /\ \A t \in DOMAIN tables : t < vs.next
    BY <1>1, <1>3 DEF FlushInv
  <2>2. \A t \in DOMAIN tables : t < vs'.next
    <3>1. \A t \in DOMAIN tables : t \in Nat
      BY <1>1, RunningFacts DEF IsFiles
    <3> QED BY <1>2, <1>5, <2>1, <3>1 DEF VersionIs
  <2>3. /\ logFile' = Mine.next /\ Mine.log \in DOMAIN logs' /\ logs'[Mine.log] = imm'
        /\ vs'.next = Mine.next + 1
    BY <1>1, <1>2, <1>5, <1>6, <1>7, <2>1 DEF VersionIs
  <2> QED BY <1>1, <1>5, <1>6, <1>9, <2>2, <2>3 DEF FlushInv
<1>13. VisibleInv'
  BY <1>1, <1>2, <1>3, <1>5, <1>9 DEF VisibleInv, VersionIs
<1> QED BY <1>10, <1>11, <1>12, <1>13, <1>9 DEF RunningInv, RunningKept

LEMMA StartFlushRunning ==
  ASSUME IInv, StartFlush
  PROVE  RunningKept
<1>1. /\ phase = "open" /\ pc = "idle" /\ ~bgError /\ Running /\ imm # <<>> /\ StartTable(imm)
      /\ edit' = NoEdit
      /\ UNCHANGED <<current, manifests, logs, tables, phase, logFile, mem, imm, inflight, trash,
                     bgError, acked, harmed>>
  BY DEF StartFlush, Running, directory, memory, history
<1>2. /\ VersionIs(vs', vs.files, vs.next + 1, vs.manifest, vs.log, vs.last)
      /\ table'.number = vs.next /\ table'.records = imm /\ pc' = "build"
  BY <1>1, StartTableFacts, RunningFacts DEF IInv
<1>3. MemoryInv /\ AppliedInv /\ FlushInv /\ VisibleInv
  BY DEF IInv
<1>4. /\ vs.manifest \in DOMAIN manifests /\ ~Building /\ vs.next \in Nat
      /\ \A n \in DOMAIN logs : n < vs.next /\ n \in Nat
      /\ Mine.next \in Nat /\ vs.next >= Mine.next
  BY <1>1, StillThere, RunningFacts, MineFacts DEF Building
<1>5. /\ Mine' = Mine /\ Running' /\ Building' /\ Visible' = Visible
  BY <1>1, <1>2 DEF Mine, Running, Building, Visible, FileContents, VersionIs
<1>6. MemoryInv'
  BY <1>1, <1>2, <1>3, <1>4, <1>5 DEF MemoryInv, VersionIs
<1>7. AppliedInv'
  BY <1>1, <1>2, <1>3, <1>4, <1>5 DEF AppliedInv, VersionIs
<1>8. FlushInv'
  <2>1. ~harmed => /\ logFile = Mine.next /\ Mine.log \in DOMAIN logs /\ logs[Mine.log] = imm
                   /\ vs.next = Mine.next + 1
                   /\ \A t \in DOMAIN tables : t < vs.next
    BY <1>1, <1>3 DEF FlushInv
  <2>2. \A t \in DOMAIN tables : t \in Nat
    BY <1>1, RunningFacts DEF IsFiles
  <2>3. ~harmed => \A t \in DOMAIN tables : t < vs'.next
    BY <1>2, <1>4, <2>1, <2>2 DEF VersionIs
  <2> QED BY <1>1, <1>2, <1>4, <1>5, <2>1, <2>3 DEF FlushInv, VersionIs
<1>9. VisibleInv'
  <2>1. edit'.adds = {}
    BY <1>1, NoEditType DEF EditIs
  <2> QED BY <1>1, <1>2, <1>3, <1>5, <2>1 DEF VisibleInv, VersionIs
<1> QED BY <1>6, <1>7, <1>8, <1>9, <1>5 DEF RunningInv, RunningKept

\* The records that the cells c add to the table t.
LEMMA ExtendedRecords ==
  ASSUME IsFiles(tables, CellSet), NEW c \in Seq(CellSet), NEW t,
         tables' = Extended(tables, t, c)
  PROVE  /\ DOMAIN tables' = DOMAIN tables \cup {t}
         /\ \A u \in DOMAIN tables : u # t => tables'[u] = tables[u]
         /\ Records(tables'[t]) \subseteq
              (IF t \in DOMAIN tables THEN Records(tables[t]) ELSE {}) \cup Records(c)
<1>1. /\ DOMAIN tables' = DOMAIN tables \cup {t}
      /\ \A u \in DOMAIN tables : u # t => tables'[u] = tables[u]
  BY DEF Extended
<1>2. CASE t \in DOMAIN tables
  <2>1. tables'[t] = tables[t] \o c /\ tables[t] \in Seq(CellSet)
    BY <1>2 DEF Extended, IsFiles
  <2> QED BY <1>1, <1>2, <2>1, RecordsAppended
<1>3. CASE t \notin DOMAIN tables
  <2>1. tables'[t] = <<>> \o c
    BY <1>3 DEF Extended
  <2>2. <<>> \o c = c
    OBVIOUS
  <2> QED BY <1>1, <1>3, <2>1, <2>2
<1> QED BY <1>2, <1>3

LEMMA FlushedRunning ==
  ASSUME IInv, FlushedTable
  PROVE  RunningKept
<1> DEFINE t == table.number
           c == Cells(table.records)
<1>1. /\ phase = "open" /\ pc = "build" /\ Running /\ Building /\ pc' = "snapshot"
      /\ tables' = Extended(tables, t, c)
      /\ UNCHANGED <<current, manifests, logs, phase, vs, logFile, mem, imm, inflight, table,
                     trash, bgError, acked, harmed>>
  BY DEF FlushedTable, Running, Building, WriteTable, memory, history
<1>2. EditIs(edit', edit.adds \cup {[number |-> t, level |-> PickLevel]}, TRUE, logFile,
             edit.next, edit.last)
  BY FlushedFacts DEF IInv
<1>3. MemoryInv /\ AppliedInv /\ FlushInv /\ VisibleInv
  BY DEF IInv
<1>4. /\ vs.manifest \in DOMAIN manifests /\ imm # <<>> /\ table.records = imm
      /\ IsFiles(tables, CellSet) /\ imm \in Seq(Nat) /\ vs.next \in Nat
      /\ \A r \in ToSet(imm) : r <= vs.last
      /\ \A u \in DOMAIN tables : \A r \in Records(tables[u]) : r <= vs.last
      /\ Mine.next \in Nat /\ t \in Nat
  BY <1>1, StillThere, RunningFacts, MineFacts, Fields DEF IInv
<1>5. c \in Seq(CellSet) /\ Records(c) \subseteq ToSet(imm)
  BY <1>4, WholeTable DEF IInv
<1>6. c = Cells(imm)
  BY <1>4
<1> HIDE DEF c
<1>7. ~harmed => t \in DOMAIN tables' /\ Copied(tables'[t], imm)
  BY <1>1, <1>4, <1>5, <1>6, FlushedGood DEF c
<1> HIDE DEF t
<1>8. /\ DOMAIN tables' = DOMAIN tables \cup {t}
      /\ \A u \in DOMAIN tables : u # t => tables'[u] = tables[u]
      /\ Records(tables'[t]) \subseteq
           (IF t \in DOMAIN tables THEN Records(tables[t]) ELSE {}) \cup Records(c)
  BY <1>1, <1>4, <1>5, ExtendedRecords
<1>9. /\ Mine' = Mine /\ Running' /\ Building' /\ PickLevel' = PickLevel
  BY <1>1 DEF Mine, Running, Building, PickLevel, Taken
<1>10. MemoryInv'
  <2>1. \A u \in DOMAIN tables' : \A r \in Records(tables'[u]) : r <= vs.last
    BY <1>4, <1>5, <1>8
  <2> QED BY <1>1, <1>3, <1>9, <2>1 DEF MemoryInv
<1>11. AppliedInv'
  BY <1>1, <1>2, <1>3, <1>4, <1>9 DEF AppliedInv, EditIs
<1>12. FlushInv'
  <2>1. ~harmed => /\ t = Mine.next + 1 /\ vs.next = Mine.next + 2
                   /\ \A u \in DOMAIN tables : u < vs.next
    BY <1>1, <1>3, <1>4 DEF FlushInv, t
  <2>2. ~harmed => \A u \in DOMAIN tables' : u < vs.next
    BY <1>4, <1>8, <2>1
  <2> QED BY <1>1, <1>3, <1>4, <1>9, <2>1, <2>2 DEF FlushInv, t
<1>13. VisibleInv' /\ (~harmed => Visible \subseteq Visible')
  <2> SUFFICES ASSUME ~harmed
               PROVE  VisibleInv' /\ Visible \subseteq Visible'
    BY <1>1 DEF VisibleInv
  <2>1. edit'.adds = {[number |-> t, level |-> PickLevel]}
    BY <1>1, <1>2, <1>3 DEF VisibleInv, EditIs
  <2>2. Files(manifests[vs.manifest]) = vs.files /\ acked \subseteq Visible
    BY <1>1, <1>3 DEF VisibleInv
  <2>3. \A f \in vs.files : f.number \in DOMAIN tables /\ f.number # t
    <3>1. FilesInv(Kept(logs, Mine), tables, Mine, vs.files)
      BY <1>1, <1>4, <2>2, MineFacts DEF Intact
    <3>2. t = Mine.next + 1
      BY <1>1, <1>3 DEF FlushInv, t
    <3>3. \A f \in vs.files : f.number \in DOMAIN tables /\ f.number < Mine.next
      BY <3>1 DEF FilesInv
    <3> QED BY <1>4, <3>2, <3>3
  <2>4. \A f \in vs.files : FileContents(f)' = FileContents(f)
    BY <1>8, <2>3 DEF FileContents
  <2>5. Visible' = Visible
    BY <1>1, <2>4 DEF Visible
  <2> QED BY <1>1, <1>7, <1>9, <2>1, <2>2, <2>5 DEF VisibleInv, t
<1> QED BY <1>10, <1>11, <1>12, <1>13 DEF RunningInv, RunningKept

LEMMA SnapshotRunning ==
  ASSUME IInv, Running, WriteSnapshot
  PROVE  RunningKept
<1>1. /\ pc = "snapshot" /\ pc' = "edit" /\ phase = "open" /\ Building
      /\ UNCHANGED <<current, logs, tables, phase, vs, logFile, mem, imm, inflight, table,
                     trash, bgError, acked, harmed>>
  BY RunningFacts DEF WriteSnapshot, memory, history
<1>2. EditIs(edit', edit.adds, edit.meta, edit.log, vs.next, vs.last)
  BY WriteSnapshotFacts DEF IInv
<1>3. MemoryInv /\ AppliedInv /\ FlushInv /\ VisibleInv
  BY DEF IInv
<1>4. vs.manifest \in DOMAIN manifests
  BY <1>1, StillThere
<1>5. /\ vs.manifest \in DOMAIN manifests' /\ Meta(manifests'[vs.manifest]) = Mine
      /\ Files(manifests'[vs.manifest]) = Files(manifests[vs.manifest]) \cup vs.files
  BY <1>1, <1>4, SnapshotGood
<1>6. /\ Mine' = Mine /\ Running' /\ Building' /\ PickLevel' = PickLevel /\ Visible' = Visible
  BY <1>1, <1>5 DEF Mine, Running, Building, PickLevel, Taken, Visible, FileContents
<1>7. MemoryInv'
  BY <1>1, <1>3, <1>4, <1>5, <1>6 DEF MemoryInv
<1>8. AppliedInv'
  <2>1. /\ \A t \in DOMAIN tables : \A r \in Records(tables[t]) : r <= edit'.last
        /\ vs.last <= edit'.last
    BY <1>2, RunningFacts DEF EditIs
  <2> QED BY <1>1, <1>2, <1>3, <1>4, <1>6, <2>1 DEF AppliedInv, EditIs
<1>9. FlushInv'
  BY <1>1, <1>3, <1>4, <1>6 DEF FlushInv
<1>10. VisibleInv'
  BY <1>1, <1>2, <1>3, <1>5, <1>6 DEF VisibleInv, EditIs
<1> QED BY <1>7, <1>8, <1>9, <1>10, <1>6 DEF RunningInv, RunningKept

LEMMA EditRunning ==
  ASSUME IInv, Running, WriteEdit
  PROVE  RunningKept
<1>1. /\ pc = "edit" /\ pc' = "truncate" /\ phase = "open" /\ Building
      /\ UNCHANGED <<current, logs, tables, phase, vs, logFile, mem, imm, inflight, edit, table,
                     trash, bgError, acked, harmed>>
  BY RunningFacts DEF WriteEdit, memory, history, work
<1>2. MemoryInv /\ AppliedInv /\ FlushInv /\ VisibleInv
  BY DEF IInv
<1>3. vs.manifest \in DOMAIN manifests
  BY <1>1, StillThere
<1>4. /\ vs.manifest \in DOMAIN manifests' /\ Meta(manifests'[vs.manifest]) = edit
      /\ Files(manifests'[vs.manifest]) = Files(manifests[vs.manifest]) \cup edit.adds
  BY <1>1, <1>3, EditGood
<1>5. /\ Mine' = edit /\ Running' /\ Building' /\ PickLevel' = PickLevel /\ Visible' = Visible
  BY <1>1, <1>4 DEF Mine, Running, Building, PickLevel, Taken, Visible, FileContents
<1>6. MemoryInv'
  BY <1>1, <1>2, <1>3, <1>4, <1>5 DEF MemoryInv
<1>7. /\ edit.meta /\ edit.log = logFile /\ edit.next = vs.next
      /\ vs.last <= edit.last \/ vs.last \in ToSet(logs[logFile])
      /\ logFile \in DOMAIN logs /\ logFile \in Nat /\ vs.next \in Nat
  BY <1>1, <1>2, <1>3, RunningFacts DEF AppliedInv
<1>8. AppliedInv'
  <2>1. vs.next >= edit.next /\ logFile >= edit.log
    BY <1>7
  <2> QED BY <1>1, <1>5, <1>7, <2>1 DEF AppliedInv
<1>9. FlushInv'
  BY <1>1, <1>2, <1>5, <1>7 DEF FlushInv
<1>10. VisibleInv'
  BY <1>1, <1>2, <1>4, <1>5 DEF VisibleInv
<1> QED BY <1>6, <1>8, <1>9, <1>10, <1>5 DEF RunningInv, RunningKept

LEMMA TruncateRunning ==
  ASSUME IInv, Running, TruncateCurrent
  PROVE  RunningKept
<1>1. /\ pc = "truncate" /\ pc' = "point" /\ phase = "open" /\ Building
      /\ UNCHANGED <<manifests, logs, tables, phase, vs, logFile, mem, imm, inflight, edit, table,
                     trash, bgError, acked, harmed>>
  BY RunningFacts DEF TruncateCurrent, memory, history, work
<1>2. MemoryInv /\ AppliedInv /\ FlushInv /\ VisibleInv
  BY DEF IInv
<1>3. vs.manifest \in DOMAIN manifests
  BY <1>1, StillThere
<1>4. /\ Mine' = Mine /\ Running' /\ Building' /\ PickLevel' = PickLevel /\ Visible' = Visible
  BY <1>1 DEF Mine, Running, Building, PickLevel, Taken, Visible, FileContents
<1>5. SaneNow(vs.manifest)' /\ (~harmed => GoodNow(vs.manifest)')
  BY <1>1, <1>3, MineFacts DEF SaneNow, GoodNow
<1>6. MemoryInv'
  BY <1>1, <1>2, <1>3, <1>4 DEF MemoryInv
<1>7. AppliedInv'
  BY <1>1, <1>2, <1>3, <1>4, <1>5 DEF AppliedInv
<1>8. FlushInv'
  BY <1>1, <1>2, <1>4, <1>5 DEF FlushInv
<1>9. VisibleInv'
  BY <1>1, <1>2, <1>4 DEF VisibleInv
<1> QED BY <1>6, <1>7, <1>8, <1>9, <1>4 DEF RunningInv, RunningKept

LEMMA InstallRunning ==
  ASSUME IInv, Running, Install
  PROVE  RunningKept
<1>1. /\ pc = "point" /\ pc' = "list" /\ phase = "open" /\ Building /\ imm' = <<>>
      /\ current' = vs.manifest
      /\ UNCHANGED <<manifests, logs, tables, phase, logFile, mem, inflight, edit, table,
                     trash, bgError, acked, harmed>>
  BY RunningFacts DEF Install, history, work
<1>2. VersionIs(vs', vs.files \cup edit.adds, vs.next, vs.manifest, edit.log, vs.last)
  BY InstallFacts DEF IInv
<1>3. MemoryInv /\ AppliedInv /\ FlushInv /\ VisibleInv
  BY DEF IInv
<1>4. vs.manifest \in DOMAIN manifests /\ Mine = edit
  BY <1>1, <1>3, StillThere DEF AppliedInv
<1>5. Mine' = Mine /\ Running' /\ ~Building' /\ ToSet(<<>>) = {}
  BY <1>1, <1>2 DEF Mine, Running, Building, ToSet, VersionIs
<1>6. MemoryInv'
  BY <1>1, <1>2, <1>3, <1>4, <1>5 DEF MemoryInv, VersionIs
<1>7. AppliedInv'
  BY <1>1, <1>2, <1>3, <1>4, <1>5 DEF AppliedInv, VersionIs
<1>8. FlushInv'
  BY <1>1, <1>2, <1>3, <1>4, <1>5 DEF FlushInv, VersionIs
<1>9. VisibleInv' /\ (~harmed => Visible \subseteq Visible')
  <2> SUFFICES ASSUME ~harmed
               PROVE  VisibleInv' /\ Visible \subseteq Visible'
    BY <1>1 DEF VisibleInv
  <2>1. /\ edit.adds = {[number |-> table.number, level |-> PickLevel]}
        /\ table.number \in DOMAIN tables /\ Copied(tables[table.number], imm)
        /\ Files(manifests[vs.manifest]) = vs.files \cup edit.adds /\ acked \subseteq Visible
    BY <1>1, <1>3 DEF VisibleInv
  <2>2. Contents(tables[table.number]) = ToSet(imm)
    <3>1. tables[table.number] \in Seq(CellSet) /\ imm \in Seq(Nat)
      BY <2>1, RunningFacts DEF IsFiles
    <3> QED BY <2>1, <3>1, CopiedContents
  <2>3. PICK f \in vs'.files : f.number = table.number
    <3> DEFINE f == [number |-> table.number, level |-> PickLevel]
    <3>1. f.number = table.number /\ f \in edit.adds
      BY <2>1
    <3> HIDE DEF f
    <3>2. f \in vs'.files
      BY <1>2, <3>1 DEF VersionIs
    <3> QED BY <3>1, <3>2
  <2>4. FileContents(f)' = ToSet(imm)
    BY <1>1, <2>1, <2>2, <2>3 DEF FileContents
  <2>5. \A g \in vs.files : g \in vs'.files /\ FileContents(g)' = FileContents(g)
    BY <1>1, <1>2 DEF FileContents, VersionIs
  <2>6. Visible \subseteq Visible'
    BY <1>1, <2>3, <2>4, <2>5 DEF Visible
  <2>7. acked \subseteq Visible'
    BY <2>1, <2>6
  <2> QED BY <1>1, <1>2, <1>5, <2>1, <2>6, <2>7 DEF VisibleInv, VersionIs
<1> QED BY <1>6, <1>7, <1>8, <1>9 DEF RunningInv, RunningKept

LEMMA ListRunning ==
  ASSUME IInv, Running, ListFiles
  PROVE  RunningKept
<1>1. /\ pc = "list" /\ pc' = "unlink" /\ trash' = Obsolete
      /\ UNCHANGED <<current, manifests, logs, tables, phase, vs, logFile, mem, imm, inflight,
                     edit, table, bgError, acked, harmed>>
  BY DEF ListFiles, directory, memory, history
<1>2. MemoryInv /\ AppliedInv /\ FlushInv /\ VisibleInv
  BY DEF IInv
<1>3. vs.manifest \in DOMAIN manifests /\ ~bgError
  BY <1>1, StillThere, RunningFacts
<1>4. Mine' = Mine /\ Running' /\ ~Building' /\ PickLevel' = PickLevel /\ Visible' = Visible
  BY <1>1 DEF Mine, Running, Building, PickLevel, Taken, Visible, FileContents
<1>5. \A t \in trash' : /\ t[1] = "log" => t[2] < vs.log
                        /\ t[1] = "manifest" => t[2] < vs.manifest
                        /\ t[1] = "table" => \A f \in vs.files : t[2] # f.number
  BY <1>1 DEF Obsolete, UnusedTables, Unused
<1>6. vs.log = Mine.log
  BY <1>1, <1>2, <1>3 DEF AppliedInv
<1>7. MemoryInv'
  BY <1>1, <1>2, <1>3, <1>4 DEF MemoryInv
<1>8. AppliedInv'
  BY <1>1, <1>2, <1>3, <1>4, <1>5, <1>6 DEF AppliedInv
<1>9. FlushInv'
  BY <1>1, <1>2, <1>3, <1>4 DEF FlushInv
<1>10. VisibleInv'
  BY <1>1, <1>2, <1>4, <1>5 DEF VisibleInv
<1> QED BY <1>7, <1>8, <1>9, <1>10, <1>4 DEF RunningInv, RunningKept

LEMMA UnlinkRunning ==
  ASSUME IInv, Running, Unlink
  PROVE  RunningKept
<1>1. /\ pc = "unlink" /\ trash' \subseteq trash
      /\ UNCHANGED <<current, phase, pc, vs, logFile, mem, imm, inflight, edit, table, bgError,
                     acked, harmed>>
  BY DEF Unlink, memory, history
<1>2. MemoryInv /\ AppliedInv /\ FlushInv /\ VisibleInv
  BY DEF IInv
<1>3. vs.manifest \in DOMAIN manifests /\ ~bgError
  BY <1>1, StillThere, RunningFacts
<1>4. /\ vs.manifest \in DOMAIN manifests' /\ manifests'[vs.manifest] = manifests[vs.manifest]
      /\ \A n \in DOMAIN logs : n >= Mine.log => n \in DOMAIN logs'
      /\ DOMAIN logs' \subseteq DOMAIN logs
      /\ \A n \in DOMAIN logs' : logs'[n] = logs[n]
      /\ DOMAIN tables' \subseteq DOMAIN tables
      /\ \A t \in DOMAIN tables' : tables'[t] = tables[t]
      /\ ~harmed => \A f \in vs.files : f.number \in DOMAIN tables
                                          => f.number \in DOMAIN tables'
  BY <1>3, UnlinkGood
<1>5. Mine' = Mine /\ Running' /\ ~Building' /\ PickLevel' = PickLevel
  BY <1>1, <1>4 DEF Mine, Running, Building, PickLevel, Taken
<1>6. logFile >= Mine.log /\ Mine.log \in Nat
  BY <1>3, MineFacts
<1>7. MemoryInv'
  BY <1>1, <1>2, <1>3, <1>4, <1>5, <1>6 DEF MemoryInv
<1>8. AppliedInv'
  <2>1. \/ vs.last <= Mine.last
        \/ \E n \in DOMAIN logs' : n >= Mine.log /\ vs.last \in ToSet(logs'[n])
    BY <1>2, <1>3, <1>4 DEF AppliedInv
  <2> QED BY <1>1, <1>2, <1>3, <1>5, <2>1 DEF AppliedInv
<1>9. FlushInv'
  <2>1. Mine.log >= Mine.log
    BY <1>6
  <2> QED BY <1>1, <1>2, <1>4, <1>5, <2>1 DEF FlushInv
<1>10. VisibleInv' /\ (~harmed => Visible \subseteq Visible')
  <2>1. ~harmed => \A f \in vs.files : FileContents(f)' = FileContents(f)
    BY <1>4 DEF FileContents
  <2>2. ~harmed => Visible' = Visible
    BY <1>1, <2>1 DEF Visible
  <2> QED BY <1>1, <1>2, <1>4, <1>5, <2>2 DEF VisibleInv
<1> QED BY <1>7, <1>8, <1>9, <1>10 DEF RunningInv, RunningKept

\* The building of a table fails: nothing of it can be seen.
LEMMA LeftRunning ==
  ASSUME IInv, Running, pc = "build", LeaveTable, FlushBuildFails \/ BackgroundThrows
  PROVE  RunningKept
<1> DEFINE t == table.number
<1>1. /\ phase = "open" /\ phase' = "open" /\ Building /\ pc' \in {"idle", "thrown"}
      /\ (bgError' => pc' = "idle") /\ (pc' = "idle" => bgError')
      /\ UNCHANGED <<current, manifests, logs, vs, logFile, mem, imm, inflight, edit, table,
                     trash, acked>>
  BY RunningFacts DEF FlushBuildFails, BackgroundThrows, Building, memory, work
<1>2. MemoryInv /\ AppliedInv /\ FlushInv /\ VisibleInv
  BY DEF IInv
<1>3. /\ vs.manifest \in DOMAIN manifests /\ table.records = imm
      /\ IsFiles(tables, CellSet) /\ vs.next \in Nat
      /\ \A r \in ToSet(imm) : r <= vs.last
      /\ \A u \in DOMAIN tables : \A r \in Records(tables[u]) : r <= vs.last
      /\ Mine.next \in Nat /\ t \in Nat
  BY <1>1, StillThere, RunningFacts, MineFacts, Fields DEF IInv
<1>4. PICK c \in Seq(CellSet) :
        /\ Records(c) \subseteq ToSet(table.records)
        /\ tables' = Extended(tables, t, c)
  BY LeaveFacts DEF IInv
<1>5. harmed => harmed'
  BY LeaveFacts DEF IInv
<1> HIDE DEF t
<1>6. /\ DOMAIN tables' = DOMAIN tables \cup {t}
      /\ \A u \in DOMAIN tables : u # t => tables'[u] = tables[u]
      /\ Records(tables'[t]) \subseteq
           (IF t \in DOMAIN tables THEN Records(tables[t]) ELSE {}) \cup Records(c)
  BY <1>3, <1>4, ExtendedRecords
<1>7. /\ Mine' = Mine /\ Running' /\ ~Building' /\ PickLevel' = PickLevel
  BY <1>1 DEF Mine, Running, Building, PickLevel, Taken
<1>8. MemoryInv'
  <2>1. \A u \in DOMAIN tables' : \A r \in Records(tables'[u]) : r <= vs.last
    BY <1>3, <1>4, <1>6
  <2>2. vs.manifest \in DOMAIN manifests'
    BY <1>1, <1>3
  <2> QED BY <1>1, <1>2, <1>7, <2>1, <2>2 DEF MemoryInv
<1>9. AppliedInv'
  BY <1>1, <1>2, <1>3, <1>7 DEF AppliedInv
<1>10. ASSUME ~harmed
       PROVE  /\ t = Mine.next + 1 /\ vs.next = Mine.next + 2
              /\ \A u \in DOMAIN tables' : u < vs.next
  <2>1. /\ t = Mine.next + 1 /\ vs.next = Mine.next + 2
        /\ \A u \in DOMAIN tables : u < vs.next
    BY <1>1, <1>2, <1>3, <1>10 DEF FlushInv, t, MemoryInv
  <2> QED BY <1>3, <1>6, <2>1
<1>11. FlushInv'
  BY <1>1, <1>2, <1>3, <1>5, <1>7, <1>10 DEF FlushInv
<1>12. VisibleInv' /\ (~harmed => Visible \subseteq Visible')
  <2> SUFFICES ASSUME ~harmed
               PROVE  VisibleInv' /\ Visible \subseteq Visible'
    BY <1>5 DEF VisibleInv
  <2>1. Files(manifests[vs.manifest]) = vs.files /\ acked \subseteq Visible
    BY <1>1, <1>2 DEF VisibleInv
  <2>2. \A f \in vs.files : f.number \in DOMAIN tables /\ f.number # t
    <3>1. FilesInv(Kept(logs, Mine), tables, Mine, vs.files)
      BY <1>1, <1>3, <2>1, MineFacts DEF Intact
    <3>2. \A f \in vs.files : f.number \in DOMAIN tables /\ f.number < Mine.next
      BY <3>1 DEF FilesInv
    <3> QED BY <1>3, <1>10, <3>2
  <2>3. \A f \in vs.files : FileContents(f)' = FileContents(f)
    BY <1>6, <2>2 DEF FileContents
  <2>4. Visible' = Visible
    BY <1>1, <2>3 DEF Visible
  <2> QED BY <1>1, <1>7, <2>1, <2>4 DEF VisibleInv
<1> QED BY <1>8, <1>9, <1>11, <1>12 DEF RunningInv, RunningKept

\* The end of background work, or its failure.
LEMMA EndRunning ==
  ASSUME IInv, Running, Cleaned \/ FlushBuildFails \/ BackgroundThrows \/ ApplyFails,
         UNCHANGED tables
  PROVE  RunningKept
<1>1. /\ pc' \in {"idle", "thrown"} /\ phase' = "open" /\ pc \notin {"idle", "thrown"}
      /\ UNCHANGED <<current, logs, tables, vs, logFile, mem, imm, inflight, edit, table,
                     trash, acked>>
  BY DEF Cleaned, FlushBuildFails, BackgroundThrows, ApplyFails, UnlinkDescriptor, directory,
     memory, work, history
<1>2. MemoryInv /\ AppliedInv /\ FlushInv /\ VisibleInv
  BY DEF IInv
<1>3. vs.manifest \in DOMAIN manifests /\ ~bgError
  BY <1>1, StillThere, RunningFacts
<1>4. Running' /\ ~Building' /\ PickLevel' = PickLevel /\ Visible' = Visible
  BY <1>1 DEF Running, Building, PickLevel, Taken, Visible, FileContents
<1>5. ASSUME Cleaned \/ FlushBuildFails \/ BackgroundThrows
      PROVE  RunningKept
  <2>1. /\ pc \in {"snapshot", "list", "unlink", "build"} /\ UNCHANGED manifests
        /\ (harmed => harmed') /\ (bgError' => pc' = "idle")
        /\ pc' = "idle" => bgError' \/ pc = "unlink"
    BY <1>3, <1>5, LeaveFacts DEF Cleaned, FlushBuildFails, BackgroundThrows, directory, history,
       IInv
  <2>2. Mine' = Mine
    BY <1>1, <2>1 DEF Mine
  <2>3. MemoryInv'
    BY <1>1, <1>2, <1>3, <1>4, <2>1 DEF MemoryInv
  <2>4. AppliedInv'
    BY <1>1, <1>2, <1>3, <1>4, <2>1, <2>2 DEF AppliedInv
  <2>5. FlushInv'
    BY <1>1, <1>2, <1>3, <1>4, <2>1, <2>2 DEF FlushInv
  <2>6. VisibleInv'
    BY <1>1, <1>2, <1>4, <2>1 DEF VisibleInv
  <2> QED BY <1>4, <2>3, <2>4, <2>5, <2>6 DEF RunningInv, RunningKept
<1>6. CASE ApplyFails
  <2>1. /\ harmed' /\ bgError' /\ pc' = "idle"
        /\ manifests' = Without(manifests, vs.manifest)
    BY <1>6 DEF ApplyFails, UnlinkDescriptor
  <2>2. vs.manifest \notin DOMAIN manifests'
    BY <2>1 DEF Without
  <2>3. MemoryInv'
    BY <1>1, <1>2, <1>4, <2>1, <2>2 DEF MemoryInv
  <2> QED BY <1>1, <1>4, <2>1, <2>2, <2>3 DEF RunningKept, RunningInv, AppliedInv, FlushInv, VisibleInv
<1> QED BY <1>5, <1>6

LEMMA FailedRunning ==
  ASSUME IInv, Running, Cleaned \/ FlushBuildFails \/ BackgroundThrows \/ ApplyFails
  PROVE  RunningKept
<1>1. UNCHANGED tables \/ (LeaveTable /\ pc = "build" /\ (FlushBuildFails \/ BackgroundThrows))
  BY DEF Cleaned, FlushBuildFails, BackgroundThrows, ApplyFails, UnlinkDescriptor, directory
<1> QED BY <1>1, LeftRunning, EndRunning

LEMMA RunningStep ==
  ASSUME IInv, [Next]_vars
  PROVE  RunningInv' /\ (Running /\ ~Crash /\ ~harmed => Visible \subseteq Visible')
<1>1. CASE ~Running' /\ (~Running \/ Crash)
  BY <1>1 DEF RunningInv, MemoryInv, AppliedInv, FlushInv, VisibleInv
<1>2. CASE ~(Running /\ ~Crash) /\ Switching /\ Install
  BY <1>2, OpenedRunning
<1>3. CASE Running /\ ~Crash
  <2>1. CASE UNCHANGED vars
    BY <2>1 DEF IInv, vars, directory, work, memory, history, RunningKept, RunningInv,
       MemoryInv, AppliedInv,
       FlushInv, VisibleInv, Running, Building, Mine, PickLevel, Taken, Visible, FileContents,
       SaneNow, GoodNow
  <2> QED BY <1>3, <2>1, RunningActions, AppendRunning, InsertRunning, RotateRunning,
         StartFlushRunning, FlushedRunning, SnapshotRunning, EditRunning, TruncateRunning,
         InstallRunning, ListRunning, UnlinkRunning, FailedRunning DEF RunningKept
<1> QED BY <1>1, <1>2, <1>3, RunningBefore

-----------------------------------------------------------------------------
(***************************************************************************)
(* The invariant holds initially and is kept.                              *)
(***************************************************************************)

LEMMA PairFacts ==
  ASSUME NEW S, NEW a \in S, NEW b \in S
  PROVE  <<a>> \o <<b>> = <<a, b>>
<1> DEFINE s == <<a>> \o <<b>>
           t == <<a, b>>
<1>1. s \in Seq(S) /\ t \in Seq(S) /\ Len(s) = 2 /\ Len(t) = 2
  OBVIOUS
<1>2. s[1] = t[1] /\ s[2] = t[2]
  OBVIOUS
<1> HIDE DEF s, t
<1>3. \A i \in 1..2 : s[i] = t[i]
  BY <1>2
<1>4. s = t
  BY <1>1, <1>3, SeqEqual
<1> QED BY <1>4 DEF s, t

LEMMA InvInit ==
  ASSUME Init
  PROVE  IInv
<1>1. TypeOK
  BY RecoveryAssumption, TypeInit
<1>2. /\ phase = "down" /\ pc = "idle" /\ mem = <<>> /\ imm = <<>> /\ inflight = FALSE
      /\ bgError = FALSE /\ edit = NoEdit /\ tables = <<>> /\ acked = {} /\ harmed = FALSE
  BY DEF Init
<1>3. PICK times \in Opened :
        IF times = 0
        THEN current = Absent /\ manifests = <<>> /\ logs = <<>>
        ELSE /\ current = 2 * times
             /\ manifests = [n \in {2 * times} |->
                               <<NoEdit, NumbersOf(2 * times + 1, 2 * times + 2)>>]
             /\ logs = [n \in {2 * times + 1} |-> <<>>]
  BY DEF Init
<1>4. times \in Nat
  BY RecoveryAssumption DEF RecoveryAssumption
<1> DEFINE m == 2 * times
           e == NumbersOf(m + 1, m + 2)
           es == <<NoEdit, e>>
<1>5. m \in Nat /\ (times # 0 => m > 0)
  BY <1>4
<1>6. /\ e \in Edits /\ e.adds = {} /\ e.meta /\ e.log = m + 1 /\ e.next = m + 2
  BY <1>5 DEF NumbersOf, Edits, FileSets
<1>7. DOMAIN <<>> = {} /\ DOMAIN tables = {}
  BY <1>2
<1>8. times # 0 => /\ current = m /\ manifests = [n \in {m} |-> es]
                   /\ logs = [n \in {m + 1} |-> <<>>]
  BY <1>3
<1> HIDE DEF m
<1>9. Files(es) = {} /\ HasMeta(es) /\ Meta(es) = e
  <2> HIDE DEF e
  <2>1. NoEdit \in Edits /\ NoEdit.adds = {}
    BY NoEditType DEF EditIs
  <2> DEFINE s == <<NoEdit>>
  <2>2. s \in Seq(Edits) /\ DOMAIN s = {1} /\ s[1] = NoEdit /\ s \o <<e>> = es
    <3>1. s \in Seq(Edits) /\ DOMAIN s = {1} /\ s[1] = NoEdit
      BY <2>1
    <3>2. s \o <<e>> = es
      <4>1. NoEdit \in Edits /\ e \in Edits
        BY <1>6, <2>1
      <4> QED BY <4>1, PairFacts
    <3> QED BY <3>1, <3>2
  <2> HIDE DEF s
  <2>3. Files(s) = {}
    BY <2>1, <2>2 DEF Files
  <2> HIDE DEF es
  <2>4. e \in Edits /\ e.meta /\ e.adds = {}
    BY <1>6
  <2>5. /\ Files(s \o <<e>>) = Files(s) \cup e.adds
        /\ HasMeta(s \o <<e>>) /\ Meta(s \o <<e>>) = e
    BY <2>2, <2>4, Appended
  <2> QED BY <2>2, <2>3, <2>4, <2>5
<1> HIDE DEF es, e
<1>10. ASSUME times # 0
       PROVE  /\ Sane(logs, tables, manifests, m) /\ Good(logs, tables, manifests, acked, m)
  <2> DEFINE K == Kept(logs, e)
  <2>1. manifests[m] = es /\ DOMAIN manifests = {m}
    BY <1>8, <1>10
  <2>2. DOMAIN K = {}
    BY <1>8, <1>10 DEF Kept
  <2> HIDE DEF K
  <2>3. Sane(logs, tables, manifests, m)
    BY <1>5, <1>6, <1>7, <1>9, <2>1 DEF Sane, Sound
  <2>4. Intact(K, tables, acked, e, {})
    BY <1>2, <1>5, <1>6, <1>7, <2>2 DEF Intact, KeptInv, LeftInv, FilesInv, CoverInv
  <2>5. AttemptsInv(K, manifests, e, {})
    BY <1>5, <1>6, <2>1 DEF AttemptsInv
  <2> QED BY <1>9, <2>1, <2>3, <2>4, <2>5 DEF Good, K
<1>11. LogsInv
  <2>1. CASE times = 0
    BY <1>3, <1>7, <2>1, FS_EmptySet DEF LogsInv
  <2>2. CASE times # 0
    <3>1. DOMAIN logs = {m + 1} /\ \A n \in DOMAIN logs : logs[n] = <<>>
      BY <1>8, <2>2
    <3>2. ToSet(<<>>) = {}
      BY DEF ToSet
    <3>3. IsFiniteSet({m + 1})
      BY FS_Singleton
    <3> QED BY <3>1, <3>2, <3>3 DEF LogsInv
  <2> QED BY <2>1, <2>2
<1>12. PhaseInv
  BY <1>1, <1>2, <1>3, <1>5, <1>8 DEF PhaseInv, Torn, Absent
<1>13. NewInv
  <2>1. current = Absent => times = 0
    BY <1>5, <1>8 DEF Absent
  <2> QED BY <1>2, <1>3, <1>7, <2>1 DEF NewInv, New
<1>14. DiskInv
  BY <1>2, <1>3, <1>8, <1>10 DEF DiskInv, SaneNow, GoodNow, Absent
<1>15. ~Replaying /\ ~Switching /\ ~Running
  BY <1>2 DEF Replaying, Switching, Running
<1> QED BY <1>1, <1>11, <1>12, <1>13, <1>14, <1>15 DEF IInv, ReplayInv, ReplayedInv, OpeningInv,
      OpenedInv, MemoryInv, AppliedInv, FlushInv, VisibleInv

LEMMA InvStep ==
  ASSUME IInv, [Next]_vars
  PROVE  IInv'
<1>1. TypeOK /\ LogsInv /\ ReplayInv
  BY DEF IInv
<1>2. TypeOK'
  BY <1>1, TypeStep
<1>3. /\ LogsInv' /\ PhaseInv' /\ NewInv' /\ DiskInv' /\ ReplayInv' /\ ReplayedInv'
      /\ OpeningInv' /\ OpenedInv' /\ RunningInv'
  BY LogsStep, PhaseStep, NewStep, DiskStep, ReplayStep, ReplayedStep, OpeningStep, OpenedStep,
     RunningStep
<1> QED BY <1>2, <1>3 DEF IInv, RunningInv

-----------------------------------------------------------------------------
(***************************************************************************)
(* What get() answers.                                                     *)
(***************************************************************************)

\* A set of numbers with a bound has a largest one: of the sets of numbers above
\* one of them, a smallest one is empty.
LEMMA LargestFacts ==
  ASSUME NEW S, S \subseteq Nat, S # {}, NEW b \in Nat, \A x \in S : x <= b
  PROVE  Largest(S) \in S /\ \A x \in S : x <= Largest(S)
<1> DEFINE Above(x) == {y \in S : y > x}
           T == {Above(x) : x \in S}
<1>1. IsFiniteSet(S)
  <2>1. S \subseteq 0..b /\ IsFiniteSet(0..b)
    BY FS_Interval
  <2> QED BY <2>1, FS_Subset
<1>2. FiniteSubsetsOf(S) = SUBSET S
  BY <1>1, FS_FiniteSubsetsOfFinite, Zenon
<1>3. T \subseteq SUBSET S /\ \E x \in S : Above(x) \in T
  <2>1. \A x \in S : Above(x) \in SUBSET S
    OBVIOUS
  <2>2. PICK x \in S : TRUE
    OBVIOUS
  <2> QED BY <2>1, <2>2
<1>4. PICK U \in T : \A V \in T : ~ <<V, U>> \in StrictSubsetOrdering(S)
  <2> HIDE DEF T
  <2>1. T \subseteq FiniteSubsetsOf(S) /\ T # {}
    BY <1>2, <1>3
  <2>2. IsWellFoundedOn(StrictSubsetOrdering(S), FiniteSubsetsOf(S))
    BY <1>1, FS_StrictSubsetOrderingWellFounded, Zenon
  <2> QED BY <2>1, <2>2, WFMin, Zenon
<1>5. PICK x \in S : U = Above(x)
  BY <1>4
<1>6. ASSUME NEW y \in S, y > x
      PROVE  FALSE
  <2>1. Above(y) \subseteq Above(x) /\ Above(y) # Above(x)
    <3>1. y \in Above(x) /\ y \notin Above(y)
      BY <1>6
    <3>2. \A z \in Above(y) : z \in Above(x)
      BY <1>6
    <3> QED BY <3>1, <3>2
  <2>2. <<Above(y), U>> \in StrictSubsetOrdering(S)
    BY <1>5, <2>1 DEF StrictSubsetOrdering
  <2> QED BY <1>4, <2>2
<1>7. \A y \in S : y <= x
  BY <1>6
<1> QED BY <1>7 DEF Largest

\* Of files with different numbers, the one with the largest number is asked
\* first when newer files are at no deeper level.
LEMMA FirstFacts ==
  ASSUME NEW fs \in FileSets, fs # {}, NEW b \in Nat, \A f \in fs : f.number < b,
         \A f, g \in fs : f.number = g.number => f = g,
         \A f, g \in fs : f.number < g.number => f.level >= g.level
  PROVE  /\ FirstFound(fs) \in fs
         /\ \A g \in fs : g = FirstFound(fs) \/ g.number < FirstFound(fs).number
<1> DEFINE S == {f.number : f \in fs}
<1>1. \A f \in fs : f.number \in Nat /\ f.level \in Nat
  BY DEF FileSets
<1>2. S \subseteq Nat /\ S # {} /\ \A x \in S : x <= b
  BY <1>1
<1> HIDE DEF S
<1>3. PICK n \in S : \A x \in S : x <= n
  BY <1>2, LargestFacts
<1>4. PICK f \in fs : f.number = n
  BY <1>3 DEF S
<1>5. \A g \in fs : g = f \/ Newer(f, g)
  <2>1. \A g \in fs : g.number <= f.number
    BY <1>3, <1>4 DEF S
  <2> QED BY <1>1, <1>4, <2>1 DEF Newer
<1> DEFINE h == FirstFound(fs)
<1>6. h \in fs /\ \A g \in fs : g = h \/ Newer(h, g)
  BY <1>5 DEF FirstFound
<1> HIDE DEF h
<1>7. \A g \in fs : g = h \/ g.number < h.number
  BY <1>1, <1>6 DEF Newer
<1> QED BY <1>6, <1>7 DEF h

\* The files of an open database, and the records in memory, which are newer.
LEMMA OrderFacts ==
  ASSUME IInv, phase = "open", ~harmed
  PROVE  /\ \A f \in vs.files : f.number < vs.next
                                /\ FileContents(f) = Contents(tables[f.number])
         /\ \A f, g \in vs.files : f.number = g.number => f = g
         /\ \A f, g \in vs.files : f.number < g.number =>
              /\ f.level >= g.level
              /\ \A a \in FileContents(f), b \in FileContents(g) : a < b
         /\ \A f \in vs.files : \A a \in FileContents(f), b \in ToSet(mem) : a < b
         /\ \A a \in ToSet(imm), b \in ToSet(mem) : a < b
         /\ \A f \in vs.files : \A a \in FileContents(f) :
              imm # <<>> => a \in ToSet(imm) \/ \A b \in ToSet(imm) : a < b
<1> DEFINE K == Kept(logs, Mine)
           all == Files(manifests[vs.manifest])
<1>1. Running /\ AppliedInv /\ FlushInv /\ VisibleInv
  BY DEF Running, IInv
<1>2. vs.manifest \in DOMAIN manifests
  BY <1>1, RunningFacts
<1>3. /\ KeptInv(K, Mine) /\ FilesInv(K, tables, Mine, all)
      /\ Mine.log \in Nat /\ Mine.next \in Nat /\ Mine.log < Mine.next
      /\ vs.next >= Mine.next /\ logFile >= Mine.log
  BY <1>1, <1>2, MineFacts DEF Intact
<1>4. /\ IsFiles(tables, CellSet) /\ vs.next \in Nat /\ vs.files \in FileSets
      /\ imm \in Seq(Nat) /\ mem \in Seq(Nat)
  BY <1>1, RunningFacts, Fields DEF IInv
<1>5. all = vs.files \cup (IF pc \in {"truncate", "point"} THEN edit.adds ELSE {})
  BY <1>1 DEF VisibleInv
<1>6. logFile \in DOMAIN logs /\ mem # <<>> =>
         logFile \in DOMAIN K /\ ToSet(mem) \subseteq ToSet(K[logFile])
  <2> DEFINE more == IF inflight THEN <<vs.last + 1>> ELSE <<>>
             s == mem \o more
  <2>1. logs[logFile] = s /\ more \in Seq(Nat)
    <3>1. /\ logs[logFile] = mem \o (IF inflight THEN <<vs.last + 1>> ELSE <<>>)
          /\ vs.last \in Nat
      BY <1>1, RunningFacts DEF IInv
    <3>2. logs[logFile] = s
      BY <3>1, Zenon
    <3>3. more \in Seq(Nat)
      BY <3>1
    <3> QED BY <3>2, <3>3
  <2>2. /\ Len(mem) \in Nat /\ DOMAIN mem = 1..Len(mem)
        /\ Len(more) \in Nat /\ DOMAIN s = 1..(Len(mem) + Len(more))
        /\ \A i \in DOMAIN mem : s[i] = mem[i]
    BY <1>4, <2>1
  <2> HIDE DEF s, more
  <2>3. ToSet(mem) \subseteq ToSet(s)
    BY <2>2 DEF ToSet
  <2>4. mem # <<>> => s # <<>>
    <3>1. mem # <<>> => 1 \in DOMAIN mem
      BY <1>4
    <3>2. mem # <<>> => 1 \in DOMAIN s
      BY <2>2, <3>1
    <3> QED BY <3>2
  <2> QED BY <1>3, <2>1, <2>3, <2>4 DEF Kept
<1>7. ToSet(<<>>) = {} /\ logFile \in DOMAIN logs
  BY <1>1, RunningFacts DEF ToSet
<1> HIDE DEF K, all
<1>8. \A f \in all : f.number \in DOMAIN tables /\ f.number \in Nat /\ f.number < Mine.next
  BY <1>3, <1>4 DEF FilesInv, IsFiles
<1>9. /\ \A f \in vs.files : f.number < vs.next /\ f \in all
                             /\ FileContents(f) = Contents(tables[f.number])
  BY <1>3, <1>4, <1>5, <1>8 DEF FileContents
<1>10. \A f \in vs.files : \A a \in FileContents(f), b \in ToSet(mem) : a < b
  BY <1>3, <1>6, <1>7, <1>9 DEF FilesInv
<1>11. CASE pc \notin {"truncate", "point"} \/ imm = <<>>
  <2>1. imm # <<>> => /\ logFile = Mine.next /\ Mine.log \in DOMAIN K
                      /\ K[Mine.log] = imm
    BY <1>1, <1>11, FlushFacts DEF K
  <2>2. \A a \in ToSet(imm), b \in ToSet(mem) : a < b
    BY <1>3, <1>6, <1>7, <2>1 DEF KeptInv
  <2>3. \A f \in vs.files : \A a \in FileContents(f) :
              imm # <<>> => \A b \in ToSet(imm) : a < b
    BY <1>3, <1>9, <2>1 DEF FilesInv
  <2> QED BY <1>3, <1>9, <1>10, <2>2, <2>3 DEF FilesInv
<1>12. CASE pc \in {"truncate", "point"} /\ imm # <<>>
  <2>1. Building
    BY <1>12 DEF Building
  <2>2. /\ edit.adds = {[number |-> table.number, level |-> PickLevel]}
        /\ table.number \in DOMAIN tables /\ Copied(tables[table.number], imm)
        /\ vs.next = table.number + 1 /\ vs.next = Mine.next
    BY <1>1, <1>12, <2>1 DEF VisibleInv, FlushInv
  <2>3. PICK h \in all : h.number = table.number
    <3> DEFINE f == [number |-> table.number, level |-> PickLevel]
    <3>1. f.number = table.number /\ f \in edit.adds
      BY <2>2
    <3> HIDE DEF f
    <3> QED BY <1>5, <1>12, <3>1
  <2>4. Contents(tables[h.number]) = ToSet(imm) /\ h.number \in Nat
    <3>1. tables[h.number] \in Seq(CellSet)
      BY <1>4, <2>2, <2>3 DEF IsFiles
    <3> QED BY <1>4, <1>8, <2>2, <2>3, <3>1, CopiedContents
  <2>5. \A a \in ToSet(imm), b \in ToSet(mem) : a < b
    BY <1>3, <1>6, <1>7, <2>4 DEF FilesInv
  <2>6. \A f \in vs.files : f = h \/ f.number < h.number
    <3>1. \A f \in vs.files : f.number \in Nat /\ f.number < h.number + 1
      BY <1>8, <1>9, <2>2, <2>3
    <3>2. \A f \in vs.files : f.number = h.number => f = h
      BY <1>3, <1>9 DEF FilesInv
    <3> QED BY <2>4, <3>1, <3>2
  <2>7. \A f \in vs.files : \A a \in FileContents(f) :
              a \in ToSet(imm) \/ \A b \in ToSet(imm) : a < b
    BY <1>3, <1>9, <2>4, <2>6 DEF FilesInv
  <2> QED BY <1>3, <1>9, <1>10, <2>5, <2>7 DEF FilesInv
<1> QED BY <1>11, <1>12

\* No record that a reader could see is newer than the answer.
LEMMA AnswerNewest ==
  ASSUME IInv, phase = "open", ~harmed
  PROVE  \A r \in Visible : r <= Answer
<1> DEFINE found == {f \in vs.files : FileContents(f) # {}}
           first == FirstFound(found)
<1>1. Running
  BY DEF Running
<1>2. /\ mem \in Seq(Nat) /\ imm \in Seq(Nat) /\ vs.last \in Nat /\ vs.next \in Nat
      /\ IsFiles(tables, CellSet) /\ vs.files \in FileSets
      /\ \A r \in ToSet(mem) \cup ToSet(imm) : r <= vs.last /\ r \in Nat
      /\ \A t \in DOMAIN tables : \A r \in Records(tables[t]) : r <= vs.last /\ r \in Nat
  BY <1>1, RunningFacts, Fields DEF IInv
<1>3. \A f \in vs.files : \A r \in FileContents(f) : r \in Nat /\ r <= vs.last
  <2>1. \A t \in DOMAIN tables : Contents(tables[t]) \subseteq Records(tables[t])
    BY <1>2, ContentsRecords DEF IsFiles
  <2> QED BY <1>2, <2>1 DEF FileContents
<1>4. /\ \A f \in vs.files : f.number < vs.next
      /\ \A f, g \in vs.files : f.number = g.number => f = g
      /\ \A f, g \in vs.files : f.number < g.number =>
           /\ f.level >= g.level
           /\ \A a \in FileContents(f), b \in FileContents(g) : a < b
      /\ \A f \in vs.files : \A a \in FileContents(f), b \in ToSet(mem) : a < b
      /\ \A a \in ToSet(imm), b \in ToSet(mem) : a < b
      /\ \A f \in vs.files : \A a \in FileContents(f) :
           imm # <<>> => a \in ToSet(imm) \/ \A b \in ToSet(imm) : a < b
  BY OrderFacts
<1>5. /\ mem # <<>> => ToSet(mem) # {}
      /\ imm # <<>> => ToSet(imm) # {}
      /\ mem = <<>> => ToSet(mem) = {}
      /\ imm = <<>> => ToSet(imm) = {}
  <2>1. \A s \in Seq(Nat) : s # <<>> => 1 \in DOMAIN s
    OBVIOUS
  <2> QED BY <1>2, <2>1 DEF ToSet
<1>6. CASE mem # <<>>
  <2>1. Answer = Largest(ToSet(mem))
    BY <1>6 DEF Answer
  <2>2. ToSet(mem) \subseteq Nat /\ ToSet(mem) # {} /\ \A x \in ToSet(mem) : x <= vs.last
    BY <1>2, <1>5, <1>6
  <2>3. Answer \in ToSet(mem) /\ \A r \in ToSet(mem) : r <= Answer
    BY <1>2, <2>1, <2>2, LargestFacts
  <2> QED BY <1>2, <1>3, <1>4, <2>3 DEF Visible
<1>7. CASE mem = <<>> /\ imm # <<>>
  <2>1. Answer = Largest(ToSet(imm))
    BY <1>7 DEF Answer
  <2>2. ToSet(imm) \subseteq Nat /\ ToSet(imm) # {} /\ \A x \in ToSet(imm) : x <= vs.last
    BY <1>2, <1>5, <1>7
  <2>3. Answer \in ToSet(imm) /\ \A r \in ToSet(imm) : r <= Answer
    BY <1>2, <2>1, <2>2, LargestFacts
  <2> QED BY <1>2, <1>3, <1>4, <1>5, <1>7, <2>3 DEF Visible
<1>8. CASE mem = <<>> /\ imm = <<>>
  <2>1. ASSUME NEW g \in vs.files, NEW r \in FileContents(g)
        PROVE  r <= Answer
    <3>1. found # {} /\ g \in found /\ found \in FileSets
      BY <1>2, <2>1 DEF FileSets
    <3>2. Answer = Largest(FileContents(first))
      BY <1>8, <3>1 DEF Answer
    <3> HIDE DEF first
    <3>3. first \in found /\ (g = first \/ g.number < first.number)
      <4>1. \A f \in found : f \in vs.files
        OBVIOUS
      <4> HIDE DEF found
      <4> QED BY <1>2, <1>4, <3>1, <4>1, FirstFacts DEF first
    <3>4. FileContents(first) # {} /\ first \in vs.files
      BY <3>3
    <3>5. Answer \in FileContents(first) /\ \A x \in FileContents(first) : x <= Answer
      BY <1>2, <1>3, <3>2, <3>4, LargestFacts
    <3> QED BY <1>3, <1>4, <2>1, <3>3, <3>4, <3>5
  <2> QED BY <1>5, <1>8, <2>1 DEF Visible
<1> QED BY <1>6, <1>7, <1>8

-----------------------------------------------------------------------------
(***************************************************************************)
(* The theorems.                                                           *)
(***************************************************************************)

\* No record that a reader could reach, not even one in a table of which only a
\* part was written, has a sequence number that is still to be given out.
LEMMA FreshNow == IInv => SequencesFresh
<1> SUFFICES ASSUME IInv, phase = "open"
             PROVE  \A r \in Visible : r <= vs.last
  BY DEF SequencesFresh
<1>1. Running
  BY DEF Running
<1>2. /\ IsFiles(tables, CellSet)
      /\ \A r \in ToSet(mem) \cup ToSet(imm) : r <= vs.last
      /\ \A t \in DOMAIN tables : \A r \in Records(tables[t]) : r <= vs.last
  BY <1>1, RunningFacts
<1>3. \A t \in DOMAIN tables : Contents(tables[t]) \subseteq Records(tables[t])
  BY <1>2, ContentsRecords DEF IsFiles
<1> QED BY <1>2, <1>3 DEF Visible, FileContents

\* The descriptor in use can be read, and with its tables and the logs from the
\* one that it names on it has all acknowledged records.
LEMMA CoversNow == IInv => DiskCovers
<1> SUFFICES ASSUME IInv, current > 0, ~harmed
             PROVE  /\ Readable
                    /\ \A r \in acked :
                         \/ \E f \in Files(manifests[current]) :
                              r \in Contents(tables[f.number])
                         \/ \E n \in DOMAIN logs :
                              n >= Meta(manifests[current]).log /\ r \in ToSet(logs[n])
  BY DEF DiskCovers
<1> DEFINE K == Kept(logs, Meta(manifests[current]))
<1>1. Readable
  BY GoodReadable
<1>2. CoverInv(K, tables, acked, Files(manifests[current]))
  BY DEF IInv, DiskInv, GoodNow, Good, Intact
<1>3. \A n \in DOMAIN K : n \in DOMAIN logs /\ n >= Meta(manifests[current]).log
                          /\ K[n] = logs[n]
  BY DEF Kept
<1> HIDE DEF K
<1> QED BY <1>1, <1>2, <1>3 DEF CoverInv

LEMMA SafetyNow ==
  ASSUME IInv
  PROVE  TypeOK /\ NoWriteLost /\ NewestWins /\ SequencesFresh /\ DiskCovers
<1>1. NoWriteLost
  <2>1. PhaseInv /\ VisibleInv
    BY DEF IInv
  <2> QED BY <2>1 DEF NoWriteLost, PhaseInv, VisibleInv, Running
<1>2. NewestWins
  <2> SUFFICES ASSUME phase = "open", ~harmed
               PROVE  \A r \in acked : r <= Answer
    BY DEF NewestWins
  <2>1. acked \subseteq Visible
    BY DEF IInv, VisibleInv, Running
  <2> QED BY <2>1, AnswerNewest
<1> QED BY <1>1, <1>2, FreshNow, CoversNow DEF IInv

LEMMA FreshLogNow ==
  ASSUME IInv, [Next]_vars, logFile' # logFile, logFile' # 0
  PROVE  logFile' \notin DOMAIN logs
<1>1. NewLog \/ Rotate
  <2>1. Opening => NewLog
    BY DEF Opening, Open, InitDescriptor, ReadFails, ReadDescriptor, SkipLog, ReplayLog,
       RecoveredTable, InitCurrent, memory
  <2>2. ~Flushing
    BY DEF Flushing, StartFlush, FlushedTable, memory
  <2>3. ~Applying
    BY DEF Applying, WriteSnapshot, WriteEdit, TruncateCurrent, Install, ListFiles, Unlink,
       Cleaned, memory
  <2>4. Writing => Rotate
    BY DEF Writing, AppendLog, Insert
  <2>5. ~Failing
    BY DEF Failing, Crash, ReaderThrows, RecoveryBuildFails, FlushBuildFails, BackgroundThrows,
       OpeningFails, ApplyFails, LoseMemory, memory
  <2> QED BY <2>1, <2>2, <2>3, <2>4, <2>5 DEF Next, Rest, vars, memory
<1>2. TypeOK /\ vs.next \in Nat /\ \A n \in DOMAIN logs : n \in Nat
  BY Fields DEF IInv, TypeOK, IsFiles
<1>3. logFile' = vs.next
  BY <1>1 DEF NewLog, Rotate
<1> QED BY <1>1, <1>2, <1>3, FreshLog

LEMMA ReadersNow ==
  ASSUME IInv, [Next]_vars, phase = "open", phase' = "open", ~harmed
  PROVE  Visible \subseteq Visible'
<1>1. Running /\ ~Crash
  BY DEF Running, Crash, LoseMemory
<1> QED BY <1>1, RunningStep

\* The invariant holds in every state.
THEOREM Invariance == Spec => []IInv
<1>1. Init => IInv
  BY InvInit
<1>2. IInv /\ [Next]_vars => IInv'
  BY InvStep
<1> QED BY <1>1, <1>2, PTL DEF Spec

\* The variables keep their types.
THEOREM TypeCorrect == Spec => []TypeOK
<1>1. IInv => TypeOK
  BY SafetyNow
<1> QED BY <1>1, Invariance, PTL

\* Unless one of the four harmful events happened, an opening that succeeds has
\* every acknowledged write, whatever was cut off before, and one that misses a
\* file or an edit does so because CURRENT was left empty.  A reader that throws
\* is the other way to refuse.
THEOREM WritesKept == Spec => []NoWriteLost
<1>1. IInv => NoWriteLost
  BY SafetyNow
<1> QED BY <1>1, Invariance, PTL

\* get() never answers a record that is older than an acknowledged one.
THEOREM NewestAnswered == Spec => []NewestWins
<1>1. IInv => NewestWins
  BY SafetyNow
<1> QED BY <1>1, Invariance, PTL

\* No sequence number is given out twice, whatever happened, harmful events
\* included.
THEOREM SequencesUnique == Spec => []SequencesFresh
<1>1. IInv => SequencesFresh
  BY SafetyNow
<1> QED BY <1>1, Invariance, PTL

\* At each file operation the directory has all that the next opening needs.
THEOREM DirectoryCovers == Spec => []DiskCovers
<1>1. IInv => DiskCovers
  BY SafetyNow
<1> QED BY <1>1, Invariance, PTL

\* The file of a log is always a new one.
THEOREM LogsNew == Spec => LogsFresh
<1>1. IInv /\ [Next]_vars => [logFile' # logFile /\ logFile' # 0
                                => logFile' \notin DOMAIN logs]_vars
  BY FreshLogNow
<1> QED BY <1>1, Invariance, PTL DEF Spec, LogsFresh

\* What a reader sees it sees until the process ends, in the middle of flushes,
\* errors and deletions.
THEOREM ReadersSafe == Spec => ReadersKeep
<1>1. IInv /\ [Next]_vars => [phase = "open" /\ phase' = "open" /\ ~harmed
                                => Visible \subseteq Visible']_vars
  BY ReadersNow
<1> QED BY <1>1, Invariance, PTL DEF Spec, ReadersKeep
=============================================================================
