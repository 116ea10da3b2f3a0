-------------------------- MODULE TableCacheProofs --------------------------
(* Proofs about TableCache, for any numbers of tables, readers and entries. *)
EXTENDS TableCache, FiniteSetTheorems, TLAPS

TypeInv ==
  /\ list \in Seq([file : Files, handle : Handles]) /\ Len(list) <= Capacity
  /\ opened \in Seq(Files)
  /\ DOMAIN closed \subseteq Handles /\ abandoned \subseteq Handles
  /\ reader \in [Readers ->
       {Idle} \cup [at : {"opening"}, file : Files]
         \cup [at : {"loading", "reading", "failed"}, file : Files, handle : Handles]]

\* No file and no handle is in the cache twice.
ListInv ==
  \A i, j \in DOMAIN list :
    list[i].file = list[j].file \/ list[i].handle = list[j].handle => i = j

Handled == {"loading", "reading", "failed"}

\* The handle of a table that is being opened belongs to one call only.
LoadingInv ==
  \A r \in Readers : reader[r].at = "loading" =>
    /\ reader[r].handle \notin Held \cup DOMAIN closed
    /\ \A q \in Readers : reader[q].at \in Handled /\ reader[q].handle = reader[r].handle
                            => q = r

NoneForgotten == Open \subseteq Held \cup Loading \cup abandoned

IInv == TypeInv /\ ListInv /\ LoadingInv /\ NoneForgotten /\ UsableUnlessEnded

LEMMA ElementOf ==
  ASSUME NEW S, NEW s \in Seq(S), NEW i \in DOMAIN s
  PROVE  s[i] \in S
  OBVIOUS

LEMMA RetypeSeq ==
  \A S, T : \A s \in Seq(S) : (\A i \in DOMAIN s : s[i] \in T) => s \in Seq(T)
  OBVIOUS

LEMMA FunctionIsSeq ==
  \A S : \A n \in Nat : \A f \in [1..n -> S] : f \in Seq(S) /\ Len(f) = n
  OBVIOUS

LEMMA InitIInv == Init => IInv
  BY TableCacheAssumption DEF Init, IInv, TypeInv, ListInv, LoadingInv, NoneForgotten,
     UsableUnlessEnded, Handled, Handles, Open, Held, Loading, Idle

\* The cache holds no more handles than it has room for.
LEMMA HeldBounded ==
  ASSUME TypeInv
  PROVE  Cardinality(Held \cap Open) <= Capacity
<1>1. Len(list) \in Nat /\ DOMAIN list = 1..Len(list) /\ Capacity \in Nat
  BY TableCacheAssumption DEF TypeInv
<1>2. IsFiniteSet(1..Len(list)) /\ Cardinality(1..Len(list)) = Len(list)
  <2>1. 1 \in Int /\ Len(list) \in Int
    BY <1>1
  <2>2. IsFiniteSet(1..Len(list))
        /\ Cardinality(1..Len(list)) = IF 1 > Len(list) THEN 0 ELSE Len(list) - 1 + 1
    BY <2>1, FS_Interval, Zenon
  <2> QED BY <1>1, <2>2
<1> DEFINE f == [i \in 1..Len(list) |-> list[i].handle]
<1>3. f \in Surjection(1..Len(list), Held)
  BY <1>1 DEF Surjection, Held
<1>4. IsFiniteSet(Held) /\ Cardinality(Held) <= Len(list)
  <2> HIDE DEF f
  <2> QED BY <1>2, <1>3, FS_Surjection
<1>5. Cardinality(Held \cap Open) <= Cardinality(Held)
      /\ Cardinality(Held \cap Open) \in Nat /\ Cardinality(Held) \in Nat
  <2>1. Held \cap Open \in SUBSET Held
    OBVIOUS
  <2>2. IsFiniteSet(Held \cap Open)
        /\ Cardinality(Held \cap Open) <= Cardinality(Held)
    BY <1>4, <2>1, FS_Subset
  <2> QED BY <1>4, <2>2, FS_CardinalityType
<1> QED BY <1>1, <1>4, <1>5 DEF TypeInv

LEMMA InvHolds == IInv => Accounted /\ UsableUnlessEnded
  BY HeldBounded DEF IInv, Accounted, NoneForgotten

\* Closing handles that no call is about to put into the cache.
LEMMA CloseDoes ==
  ASSUME NEW S, NEW why, closed' = Close(S, why)
  PROVE  /\ DOMAIN closed' = DOMAIN closed \cup S
         /\ \A h \in DOMAIN closed : closed[h] \subseteq closed'[h]
         /\ \A h \in S : why \in closed'[h]
         /\ \A h \in DOMAIN closed \ S : closed'[h] = closed[h]
  BY DEF Close

LEMMA ListTypes ==
  ASSUME TypeInv, NEW i \in DOMAIN list
  PROVE  list[i] = [file |-> list[i].file, handle |-> list[i].handle]
         /\ list[i].file \in Files /\ list[i].handle \in Handles
<1>1. list[i] \in [file : Files, handle : Handles]
  BY ElementOf, Zenon DEF TypeInv
<1> QED BY <1>1

\* Steps of a call that are not about the cache.
LEMMA CallStep ==
  ASSUME IInv, NEW r \in Readers, UNCHANGED <<list, opened, closed>>,
         NEW v \in {Idle} \cup [at : {"opening"}, file : Files]
                     \cup [at : {"reading", "failed"}, file : Files, handle : Handles],
         reader' = [reader EXCEPT ![r] = v],
         v.at \in {"reading", "failed"} => v.handle \notin Loading,
         abandoned' = abandoned \cup
                        {h \in Handles : reader[r].at = "loading" /\ h = reader[r].handle}
  PROVE  IInv'
<1>1. TypeInv'
  BY DEF IInv, TypeInv, Handles, Idle
<1>2. \A q \in Readers : reader'[q].at = "loading" =>
        q # r /\ reader[q].at = "loading" /\ reader'[q] = reader[q]
  BY DEF IInv, TypeInv, Idle
<1>3. Loading \subseteq Loading' \cup abandoned'
  <2> SUFFICES ASSUME NEW q \in Readers, reader[q].at = "loading",
                      reader[q].handle \notin Loading'
               PROVE  reader[q].handle \in abandoned'
    BY DEF Loading
  <2>1. CASE q = r
    BY <2>1 DEF IInv, TypeInv, Idle
  <2>2. CASE q # r
    <3>1. reader'[q] = reader[q]
      BY <2>2 DEF IInv, TypeInv
    <3> QED BY <3>1 DEF Loading
  <2> QED BY <2>1, <2>2
<1>4. NoneForgotten'
  BY <1>3 DEF IInv, NoneForgotten, Open, Handles, Held
<1>5. LoadingInv'
  <2> SUFFICES ASSUME NEW q \in Readers, reader'[q].at = "loading"
               PROVE  /\ reader'[q].handle \notin Held' \cup DOMAIN closed'
                      /\ \A p \in Readers : reader'[p].at \in Handled
                           /\ reader'[p].handle = reader'[q].handle => p = q
    BY DEF LoadingInv
  <2>1. q # r /\ reader[q].at = "loading" /\ reader'[q] = reader[q]
    BY <1>2
  <2>2. reader[q].handle \notin Held' \cup DOMAIN closed'
    BY <2>1 DEF IInv, LoadingInv, Held
  <2>3. ASSUME NEW p \in Readers, reader'[p].at \in Handled,
               reader'[p].handle = reader[q].handle
        PROVE  p = q
    <3>1. CASE p = r
      <4>1. reader'[r] = v
        BY DEF IInv, TypeInv
      <4>2. v.at \in {"reading", "failed"}
        BY <2>3, <3>1, <4>1, <1>2 DEF Handled
      <4>3. v.handle \in Loading
        BY <2>1, <2>3, <3>1, <4>1 DEF Loading
      <4> QED BY <4>2, <4>3
    <3>2. CASE p # r
      <4>1. reader'[p] = reader[p]
        BY <3>2 DEF IInv, TypeInv
      <4> QED BY <2>1, <2>3, <4>1 DEF IInv, LoadingInv
    <3> QED BY <3>1, <3>2
  <2> QED BY <2>1, <2>2, <2>3
<1>6. ListInv' /\ UsableUnlessEnded'
  BY DEF IInv, ListInv, UsableUnlessEnded
<1> QED BY <1>1, <1>4, <1>5, <1>6 DEF IInv

LEMMA CallSteps ==
  ASSUME IInv, NEW r \in Readers,
         \/ \E f \in Files : Find(r, f)
         \/ OpenFails(r) \/ LoadFails(r) \/ Read(r) \/ Failed(r)
  PROVE  IInv'
<1> DEFINE Values == {Idle} \cup [at : {"opening"}, file : Files]
                      \cup [at : {"reading", "failed"}, file : Files, handle : Handles]
<1>1. reader[r] \in {Idle} \cup [at : {"opening"}, file : Files]
        \cup [at : {"loading", "reading", "failed"}, file : Files, handle : Handles]
  BY DEF IInv, TypeInv
<1>2. ASSUME NEW f \in Files, Find(r, f) PROVE IInv'
  <2>1. \A i \in Hits(f) : list[i].handle \in Handles
    BY ListTypes DEF IInv, Hits, Cached
  <2>2. PICK v \in Values :
          /\ reader' = [reader EXCEPT ![r] = v]
          /\ v.at \in {"reading", "failed"} => v.handle \notin Loading
    <3>1. CASE \E i \in Hits(f) :
                 reader' = [reader EXCEPT ![r] =
                   [at |-> "reading", file |-> f, handle |-> list[i].handle]]
      <4>1. PICK i \in Hits(f) :
                 reader' = [reader EXCEPT ![r] =
                   [at |-> "reading", file |-> f, handle |-> list[i].handle]]
        BY <3>1
      <4>2. list[i].handle \in Held
        BY DEF Hits, Cached, Held
      <4>3. list[i].handle \notin Loading
        BY <4>2 DEF IInv, LoadingInv, Loading
      <4> DEFINE w == [at |-> "reading", file |-> f, handle |-> list[i].handle]
      <4>4. w \in Values /\ w.handle \notin Loading
        BY <2>1, <4>3
      <4>5. reader' = [reader EXCEPT ![r] = w]
        BY <4>1
      <4> HIDE DEF w, Values
      <4> QED BY <4>4, <4>5
    <3>2. CASE reader' = [reader EXCEPT ![r] = [at |-> "opening", file |-> f]]
      <4> DEFINE w == [at |-> "opening", file |-> f]
      <4>1. w \in Values /\ w.at \notin {"reading", "failed"}
        OBVIOUS
      <4>2. reader' = [reader EXCEPT ![r] = w]
        BY <3>2
      <4> HIDE DEF w, Values
      <4> QED BY <4>1, <4>2
    <3> QED BY <1>2, <3>1, <3>2 DEF Find
  <2>3. reader[r].at # "loading" /\ UNCHANGED <<list, opened, closed, abandoned>>
    BY <1>2 DEF Find, Idle
  <2> QED BY <2>2, <2>3, CallStep
<1>3. CASE OpenFails(r) \/ Failed(r)
  <2>1. reader[r].at # "loading" /\ UNCHANGED <<list, opened, closed, abandoned>>
        /\ reader' = [reader EXCEPT ![r] = Idle]
    BY <1>3 DEF OpenFails, Failed
  <2> QED BY <2>1, CallStep DEF Idle
<1>4. CASE LoadFails(r)
  <2>1. reader[r].at = "loading" /\ UNCHANGED <<list, opened, closed>>
        /\ reader' = [reader EXCEPT ![r] = Idle]
        /\ abandoned' = abandoned \cup {reader[r].handle}
    BY <1>4 DEF LoadFails
  <2>2. reader[r].handle \in Handles
    BY <1>1, <2>1 DEF Idle
  <2> QED BY <2>1, <2>2, CallStep DEF Idle
<1>5. CASE Read(r)
  <2>1. reader[r].at = "reading" /\ UNCHANGED <<list, opened, closed, abandoned>>
    BY <1>5 DEF Read
  <2>2. PICK v \in Values :
          /\ reader' = [reader EXCEPT ![r] = v]
          /\ v.at \in {"reading", "failed"} => v.handle \notin Loading
    <3> DEFINE w == [reader[r] EXCEPT !.at = "failed"]
    <3>1. w \in Values /\ w.handle = reader[r].handle
      BY <1>1, <2>1 DEF Idle
    <3>2. reader[r].handle \notin Loading
      BY <2>1 DEF IInv, LoadingInv, Loading, Handled
    <3>3. reader' = [reader EXCEPT ![r] = Idle] \/ reader' = [reader EXCEPT ![r] = w]
      BY <1>5 DEF Read
    <3> HIDE DEF w
    <3> QED BY <3>1, <3>2, <3>3 DEF Idle
  <2> QED BY <2>1, <2>2, CallStep
<1> QED BY <1>2, <1>3, <1>4, <1>5

\* A new handle is nobody else's.
LEMMA OpenedStep ==
  ASSUME IInv, NEW r \in Readers, Opened(r)
  PROVE  IInv'
<1> DEFINE h == Len(opened) + 1
<1>1. /\ UNCHANGED <<list, closed, abandoned>>
      /\ reader[r].at = "opening"
      /\ opened' = Append(opened, reader[r].file)
      /\ reader' = [reader EXCEPT ![r] = [at |-> "loading", file |-> @.file, handle |-> h]]
  BY DEF Opened, IInv, TypeInv
<1>2. reader[r].file \in Files
  BY <1>1 DEF IInv, TypeInv, Idle
<1>3. /\ Handles' = Handles \cup {h} /\ h \notin Handles
      /\ \A i \in DOMAIN list : list[i].handle \in Handles
      /\ \A q \in Readers : reader[q].at \in Handled => reader[q].handle \in Handles
  <2>1. Handles' = Handles \cup {h} /\ h \notin Handles
    BY <1>1, <1>2 DEF Handles, IInv, TypeInv
  <2>2. \A q \in Readers : reader[q].at \in Handled => reader[q].handle \in Handles
    <3> HIDE DEF Handles
    <3> QED BY DEF IInv, TypeInv, Idle, Handled
  <2> QED BY <2>1, <2>2, ListTypes DEF IInv
<1>4. TypeInv'
  <2>1. opened' \in Seq(Files)
    BY <1>1, <1>2 DEF IInv, TypeInv
  <2>2. list' \in Seq([file : Files, handle : Handles'])
    <3>1. list \in Seq([file : Files, handle : Handles])
      BY DEF IInv, TypeInv
    <3>2. \A i \in DOMAIN list : list[i] \in [file : Files, handle : Handles \cup {h}]
      BY <1>3, ListTypes DEF IInv
    <3>3. list \in Seq([file : Files, handle : Handles \cup {h}])
      BY <3>1, <3>2, RetypeSeq, Zenon
    <3> QED BY <1>1, <1>3, <3>3, Zenon
  <2>3. reader' \in [Readers ->
          {Idle} \cup [at : {"opening"}, file : Files]
            \cup [at : {"loading", "reading", "failed"}, file : Files,
                  handle : Handles']]
    <3> HIDE DEF h
    <3>1. reader \in [Readers ->
            {Idle} \cup [at : {"opening"}, file : Files]
              \cup [at : {"loading", "reading", "failed"}, file : Files,
                    handle : Handles]]
      BY DEF IInv, TypeInv
    <3> QED BY <1>1, <1>2, <1>3, <3>1
  <2>4. DOMAIN closed' \subseteq Handles' /\ abandoned' \subseteq Handles'
    BY <1>1, <1>3 DEF IInv, TypeInv
  <2>5. Len(list') <= Capacity
    BY <1>1 DEF IInv, TypeInv
  <2> HIDE DEF h
  <2> QED BY <2>1, <2>2, <2>3, <2>4, <2>5 DEF TypeInv, Idle
<1>5. /\ reader'[r].at = "loading" /\ reader'[r].handle = h
      /\ \A q \in Readers \ {r} : reader'[q] = reader[q]
  BY <1>1 DEF IInv, TypeInv
<1>6. LoadingInv'
  <2>1. h \notin Held \cup DOMAIN closed
    BY <1>3 DEF Held, IInv, TypeInv
  <2> HIDE DEF h
  <2> QED BY <1>1, <1>3, <1>5, <2>1 DEF IInv, LoadingInv, Held, Handled
<1>7. NoneForgotten'
  <2>1. Loading \cup {h} \subseteq Loading'
    BY <1>1, <1>5 DEF Loading
  <2> HIDE DEF h
  <2> QED BY <1>1, <1>3, <2>1 DEF IInv, NoneForgotten, Open, Held
<1>8. ListInv' /\ UsableUnlessEnded'
  BY <1>1 DEF IInv, ListInv, UsableUnlessEnded
<1> QED BY <1>4, <1>6, <1>7, <1>8 DEF IInv

\* Handles are closed, and those of the cache that remain are not among them
\* unless the reason is that an iterator ended.
LEMMA ClosingStep ==
  ASSUME IInv, NEW S \in SUBSET Handles, NEW why, closed' = Close(S, why),
         UNCHANGED <<opened, abandoned>>,
         Held' \subseteq Held,
         Held \cap Open \subseteq Held' \cup S,
         ListInv', TypeInv',
         why = "ended" \/ Held' \cap S = {},
         S \cap Loading = {},
         \A q \in Readers : reader[q].at = "loading" => reader'[q] = reader[q],
         \A q \in Readers : reader'[q] \in {reader[q], Idle}
  PROVE  IInv'
<1>1. /\ DOMAIN closed' = DOMAIN closed \cup S
      /\ \A h \in DOMAIN closed : closed[h] \subseteq closed'[h]
      /\ \A h \in S : why \in closed'[h]
  BY CloseDoes, Zenon
<1>2. Loading' = Loading
      /\ \A q \in Readers : reader'[q].at \in Handled => reader'[q] = reader[q]
  BY DEF Loading, Handled, Idle
<1>3. LoadingInv'
  BY <1>1, <1>2 DEF IInv, LoadingInv, Loading, Handled
<1>4. Open' = Open \ S
  BY <1>1 DEF Open, Handles
<1>5. NoneForgotten'
  BY <1>2, <1>4 DEF IInv, NoneForgotten
<1>6. UsableUnlessEnded'
  <2> SUFFICES ASSUME NEW h \in Held', h \in DOMAIN closed'
               PROVE  "ended" \in closed'[h]
    BY DEF UsableUnlessEnded, Held
  <2>1. CASE h \in S
    BY <1>1, <2>1
  <2>2. CASE h \notin S
    <3>1. h \in DOMAIN closed /\ "ended" \in closed[h]
      BY <1>1, <2>2 DEF IInv, UsableUnlessEnded, Held
    <3> QED BY <1>1, <3>1
  <2> QED BY <2>1, <2>2
<1> QED BY <1>3, <1>5, <1>6 DEF IInv

LEMMA EndEarlyStep ==
  ASSUME IInv, NEW r \in Readers, EndEarly(r)
  PROVE  IInv'
<1>1. /\ UNCHANGED <<list, opened, abandoned>>
      /\ reader[r].at = "reading" /\ closed' = Close({reader[r].handle}, "ended")
      /\ reader' = [reader EXCEPT ![r] = Idle]
  BY DEF EndEarly
<1>2. reader[r].handle \in Handles
  BY <1>1 DEF IInv, TypeInv, Idle
<1>3. /\ Held' = Held /\ ListInv' /\ Handles' = Handles
      /\ DOMAIN closed' = DOMAIN closed \cup {reader[r].handle}
  BY <1>1, CloseDoes DEF Held, IInv, ListInv, Handles
<1>4. TypeInv'
  BY <1>1, <1>2, <1>3 DEF IInv, TypeInv
<1>5. reader[r].handle \notin Loading
  BY <1>1 DEF IInv, LoadingInv, Loading, Handled
<1>6. \A q \in Readers :
        /\ reader[q].at = "loading" => reader'[q] = reader[q]
        /\ reader'[q] \in {reader[q], Idle}
  BY <1>1 DEF IInv, TypeInv
<1> QED BY <1>1, <1>2, <1>3, <1>4, <1>5, <1>6, ClosingStep

LEMMA DestroyStep ==
  ASSUME IInv, Destroy
  PROVE  IInv'
<1>1. UNCHANGED <<opened, abandoned, reader>> /\ list' = <<>>
      /\ closed' = Close(Held, "reset")
  BY DEF Destroy, Held
<1>2. Held \in SUBSET Handles /\ Held \cap Loading = {}
  BY ListTypes DEF IInv, Held, LoadingInv, Loading
<1>3. Held' = {} /\ ListInv' /\ Handles' = Handles
      /\ DOMAIN closed' = DOMAIN closed \cup Held
  <2>1. DOMAIN list' = {}
    BY <1>1
  <2>2. Held' = {} /\ ListInv'
    BY <2>1 DEF Held, ListInv
  <2>3. DOMAIN closed' = DOMAIN closed \cup Held
    <3> HIDE DEF Held
    <3> QED BY <1>1, CloseDoes
  <2> QED BY <1>1, <2>2, <2>3 DEF Handles
<1>4. TypeInv'
  BY <1>1, <1>2, <1>3, TableCacheAssumption DEF IInv, TypeInv
<1> QED BY <1>1, <1>2, <1>3, <1>4, ClosingStep

\* What every way of putting a loaded table into the cache has in common: some
\* handles are taken out and closed, and the new one is put in.
LEMMA InsertStep ==
  ASSUME IInv, NEW r \in Readers, reader[r].at = "loading",
         NEW S \in SUBSET Held, NEW why, closed' = Close(S, why),
         UNCHANGED <<opened, abandoned>>,
         reader' = [reader EXCEPT ![r].at = "reading"],
         Held' = (Held \ S) \cup {reader[r].handle},
         list' \in Seq([file : Files, handle : Handles]), Len(list') <= Capacity,
         ListInv'
  PROVE  IInv'
<1> DEFINE h == reader[r].handle
<1>1. /\ h \notin Held \cup DOMAIN closed
      /\ \A q \in Readers : reader[q].at \in Handled /\ reader[q].handle = h => q = r
  BY DEF IInv, LoadingInv
<1>2. DOMAIN closed' = DOMAIN closed \cup S
      /\ \A k \in DOMAIN closed \ S : closed'[k] = closed[k]
  BY CloseDoes, Zenon
<1>3. Handles' = Handles /\ Held \subseteq Handles
  BY ListTypes DEF Handles, Held, IInv
<1>4. /\ reader[r].file \in Files /\ h \in Handles
      /\ reader'[r] = [at |-> "reading", file |-> reader[r].file, handle |-> h]
      /\ \A q \in Readers \ {r} : reader'[q] = reader[q]
      /\ reader' = [reader EXCEPT ![r] = [at |-> "reading", file |-> reader[r].file,
                                           handle |-> h]]
  <2>1. reader[r] \in [at : {"loading"}, file : Files, handle : Handles]
        /\ reader \in [Readers ->
              {Idle} \cup [at : {"opening"}, file : Files]
                \cup [at : {"loading", "reading", "failed"}, file : Files,
                      handle : Handles]]
    BY DEF IInv, TypeInv, Idle
  <2>2. /\ reader[r].file \in Files /\ h \in Handles
        /\ [reader[r] EXCEPT !.at = "reading"]
             = [at |-> "reading", file |-> reader[r].file, handle |-> h]
    BY <2>1
  <2>3. reader' = [reader EXCEPT ![r] = [reader[r] EXCEPT !.at = "reading"]]
    OBVIOUS
  <2> HIDE DEF h
  <2>4. reader' = [reader EXCEPT ![r] = [at |-> "reading", file |-> reader[r].file,
                                         handle |-> h]]
    BY <2>2, <2>3
  <2> QED BY <2>1, <2>2, <2>4
<1>5. TypeInv'
  <2>1. DOMAIN closed' \subseteq Handles' /\ abandoned' \subseteq Handles'
        /\ opened' \in Seq(Files)
    BY <1>2, <1>3 DEF IInv, TypeInv
  <2>2. reader' \in [Readers ->
          {Idle} \cup [at : {"opening"}, file : Files]
            \cup [at : {"loading", "reading", "failed"}, file : Files,
                  handle : Handles]]
    <3> HIDE DEF h
    <3> QED BY <1>4 DEF IInv, TypeInv
  <2> QED BY <1>3, <2>1, <2>2 DEF TypeInv, Idle
<1>6. LoadingInv'
  <2> SUFFICES ASSUME NEW q \in Readers, reader'[q].at = "loading"
               PROVE  /\ reader'[q].handle \notin Held' \cup DOMAIN closed'
                      /\ \A p \in Readers : reader'[p].at \in Handled
                           /\ reader'[p].handle = reader'[q].handle => p = q
    BY DEF LoadingInv
  <2>1. q # r /\ reader[q].at = "loading" /\ reader'[q] = reader[q]
    BY <1>4
  <2>2. reader[q].handle # h /\ reader[q].handle \notin Held \cup DOMAIN closed
    BY <1>1, <2>1 DEF Handled, IInv, LoadingInv
  <2>3. ASSUME NEW p \in Readers, reader'[p].at \in Handled,
               reader'[p].handle = reader[q].handle
        PROVE  p = q
    <3>1. p # r
      BY <1>4, <2>2, <2>3
    <3>2. reader'[p] = reader[p]
      BY <1>4, <3>1
    <3> QED BY <2>1, <2>3, <3>2 DEF IInv, LoadingInv
  <2> QED BY <1>2, <2>1, <2>2, <2>3
<1>7. NoneForgotten'
  <2>1. Loading \subseteq Loading' \cup {h}
    <3> SUFFICES ASSUME NEW q \in Readers, reader[q].at = "loading", q # r
                 PROVE  reader[q].handle \in Loading'
      BY DEF Loading
    <3>1. reader'[q] = reader[q]
      BY <1>4
    <3> QED BY <3>1 DEF Loading
  <2>2. Open' = Open \ S
    BY <1>2, <1>3 DEF Open
  <2> QED BY <2>1, <2>2 DEF IInv, NoneForgotten
<1>8. UsableUnlessEnded'
  <2> SUFFICES ASSUME NEW k \in Held', k \in DOMAIN closed'
               PROVE  "ended" \in closed'[k]
    BY DEF UsableUnlessEnded, Held
  <2>1. k \in Held \ S /\ k \in DOMAIN closed
    BY <1>1, <1>2
  <2>2. "ended" \in closed[k]
    BY <2>1 DEF IInv, UsableUnlessEnded, Held
  <2> QED BY <1>2, <2>1, <2>2
<1> QED BY <1>5, <1>6, <1>7, <1>8 DEF IInv

\* An entry of the file is overwritten.
LEMMA OverwriteStep ==
  ASSUME IInv, NEW r \in Readers, Loaded(r), Cached(reader[r].file) # {}
  PROVE  IInv'
<1> DEFINE h == reader[r].handle
           f == reader[r].file
<1>1. /\ UNCHANGED <<opened, abandoned>> /\ reader[r].at = "loading"
      /\ reader' = [reader EXCEPT ![r].at = "reading"]
      /\ list' = [i \in DOMAIN list |->
                    IF i \in Cached(f) THEN [list[i] EXCEPT !.handle = h] ELSE list[i]]
      /\ closed' = Close(Disposed(f, h), "replaced")
  BY DEF Loaded, Set
<1>2. PICK i \in DOMAIN list : Cached(f) = {i}
  BY DEF Cached, IInv, ListInv
<1>3. h \in Handles /\ h \notin Held
  <2>1. reader[r] \in [at : {"loading"}, file : Files, handle : Handles]
    BY <1>1 DEF IInv, TypeInv, Idle
  <2> QED BY <1>1, <2>1 DEF IInv, LoadingInv
<1>4. Disposed(f, h) = {list[i].handle} /\ {list[i].handle} \in SUBSET Held
  BY <1>2 DEF Disposed, Held
<1>5. /\ DOMAIN list' = DOMAIN list
      /\ list'[i] = [file |-> list[i].file, handle |-> h]
      /\ \A j \in DOMAIN list \ {i} : list'[j] = list[j]
  <2>1. list[i] = [file |-> list[i].file, handle |-> list[i].handle]
    BY ListTypes DEF IInv
  <2>2. [list[i] EXCEPT !.handle = h] = [file |-> list[i].file, handle |-> h]
    BY <2>1
  <2> QED BY <1>1, <1>2, <2>2
<1>6. list' \in Seq([file : Files, handle : Handles]) /\ Len(list') = Len(list)
  <2>1. Len(list) \in Nat /\ DOMAIN list = 1..Len(list)
    BY DEF IInv, TypeInv
  <2>2. \A j \in DOMAIN list : list'[j] \in [file : Files, handle : Handles]
    <3> TAKE j \in DOMAIN list
    <3>1. list[j] \in [file : Files, handle : Handles] /\ list[j].file \in Files
      BY ElementOf, ListTypes, Zenon DEF IInv, TypeInv
    <3> QED BY <1>3, <1>5, <3>1
  <2> DEFINE E == [file : Files, handle : Handles]
  <2>3. list' \in [1..Len(list) -> E]
    <3> HIDE DEF E
    <3> QED BY <1>1, <2>1, <2>2 DEF E
  <2>4. list' \in Seq(E) /\ Len(list') = Len(list)
    <3> HIDE DEF E
    <3> QED BY <2>1, <2>3, FunctionIsSeq, Zenon
  <2> QED BY <2>4
<1>7. Held' = (Held \ {list[i].handle}) \cup {h}
  <2>1. \A j \in DOMAIN list \ {i} : list[j].handle # list[i].handle
    BY DEF IInv, ListInv
  <2> HIDE DEF h
  <2> QED BY <1>5, <2>1 DEF Held
<1>8. ListInv'
  <2>1. \A j \in DOMAIN list : list'[j].file = list[j].file
    BY <1>5
  <2>2. \A j \in DOMAIN list : list[j].handle # h
    BY <1>3 DEF Held
  <2>3. \A j \in DOMAIN list : list'[j].handle = IF j = i THEN h ELSE list[j].handle
    BY <1>5
  <2> HIDE DEF h
  <2> QED BY <1>5, <2>1, <2>2, <2>3 DEF IInv, ListInv
<1>9. Len(list') <= Capacity
  BY <1>6 DEF IInv, TypeInv
<1> HIDE DEF f, h
<1> QED BY <1>1, <1>4, <1>6, <1>7, <1>8, <1>9, InsertStep DEF h

\* A new entry goes to the front, and the last leaves a cache that was full.
LEMMA FrontStep ==
  ASSUME IInv, NEW r \in Readers, Loaded(r), Cached(reader[r].file) = {}
  PROVE  IInv'
<1> DEFINE h == reader[r].handle
           f == reader[r].file
           e == [file |-> f, handle |-> h]
           all == <<e>> \o list
           n == Len(list)
           m == IF n + 1 > Capacity THEN n - 1 ELSE n
           S == {list[i].handle : i \in (m + 1)..n}
<1>1. /\ UNCHANGED <<opened, abandoned>> /\ reader[r].at = "loading"
      /\ reader' = [reader EXCEPT ![r].at = "reading"]
      /\ list' = Trimmed(all)
      /\ closed' = Close({all[i].handle : i \in DOMAIN all \ DOMAIN list'}, "evicted")
  BY DEF Loaded, Set
<1>2. h \in Handles /\ h \notin Held /\ f \in Files
      /\ e \in [file : Files, handle : Handles]
  <2>1. reader[r] \in [at : {"loading"}, file : Files, handle : Handles]
    BY <1>1 DEF IInv, TypeInv, Idle
  <2> QED BY <1>1, <2>1 DEF IInv, LoadingInv
<1>3. /\ n \in Nat /\ DOMAIN list = 1..n /\ n <= Capacity /\ Capacity \in Nat \ {0}
      /\ m \in Nat /\ m <= n /\ m + 1 <= Capacity
  BY TableCacheAssumption DEF IInv, TypeInv
<1>4. /\ list' \in Seq([file : Files, handle : Handles]) /\ DOMAIN list' = 1..(m + 1)
      /\ Len(list') = m + 1
      /\ list'[1] = e /\ \A i \in 1..m : list'[i + 1] = list[i]
      /\ DOMAIN all = 1..(n + 1) /\ \A i \in 1..n : all[i + 1] = list[i]
  <2> DEFINE E == [file : Files, handle : Handles]
  <2>1. list \in Seq(E) /\ e \in E
    BY <1>2 DEF IInv, TypeInv
  <2> HIDE DEF E, e
  <2>2. /\ all \in Seq(E) /\ Len(all) = n + 1 /\ DOMAIN all = 1..(n + 1)
        /\ all[1] = e /\ \A i \in 1..n : all[i + 1] = list[i]
    BY <2>1
  <2> HIDE DEF all
  <2>3. CASE n + 1 > Capacity
    <3>1. list' = SubSeq(all, 1, n) /\ m = n - 1
      BY <1>1, <1>3, <2>2, <2>3 DEF Trimmed, Front
    <3> HIDE DEF m
    <3>2. list' = SubSeq(all, 1, m + 1) /\ m + 1 \in 1..(n + 1)
      BY <1>3, <3>1
    <3>3. list' \in Seq(E) /\ Len(list') = m + 1 /\ DOMAIN list' = 1..(m + 1)
          /\ \A i \in 1..(m + 1) : list'[i] = all[i]
      BY <1>3, <2>2, <3>2
    <3>4. list'[1] = e /\ \A i \in 1..m : list'[i + 1] = list[i]
      BY <1>3, <2>2, <3>3
    <3> QED BY <2>2, <3>3, <3>4 DEF E
  <2>4. CASE ~(n + 1 > Capacity)
    <3>1. list' = all /\ m = n
      BY <1>1, <1>3, <2>2, <2>4 DEF Trimmed
    <3> HIDE DEF m
    <3>2. list' \in Seq(E) /\ Len(list') = m + 1 /\ DOMAIN list' = 1..(m + 1)
          /\ list'[1] = e /\ \A i \in 1..m : list'[i + 1] = list[i]
      BY <2>2, <3>1
    <3> QED BY <2>2, <3>2 DEF E
  <2> QED BY <2>3, <2>4
<1>5. {all[i].handle : i \in DOMAIN all \ DOMAIN list'} = S
  <2> HIDE DEF all, m, e
  <2>1. DOMAIN all \ DOMAIN list' = (m + 2)..(n + 1)
    BY <1>3, <1>4
  <2>2. \A i \in (m + 2)..(n + 1) : i - 1 \in (m + 1)..n /\ all[i] = list[i - 1]
    <3> TAKE i \in (m + 2)..(n + 1)
    <3>1. i - 1 \in (m + 1)..n /\ i - 1 \in 1..n /\ (i - 1) + 1 = i
      BY <1>3
    <3> QED BY <1>4, <3>1
  <2>3. \A i \in (m + 1)..n : i + 1 \in (m + 2)..(n + 1) /\ all[i + 1] = list[i]
    BY <1>3, <1>4
  <2>4. {all[i].handle : i \in (m + 2)..(n + 1)} \subseteq S
    BY <2>2
  <2>5. S \subseteq {all[i].handle : i \in (m + 2)..(n + 1)}
    BY <2>3
  <2> QED BY <2>1, <2>4, <2>5
<1>6. S \in SUBSET Held
  <2> HIDE DEF m
  <2> QED BY <1>3 DEF Held
<1>7. Held' = (Held \ S) \cup {h}
  <2>1. \A i, j \in 1..n : list[i].handle = list[j].handle => i = j
    BY <1>3 DEF IInv, ListInv
  <2> HIDE DEF m
  <2>2. Held' = {h} \cup {list[i].handle : i \in 1..m}
    <3>1. \A i \in 1..(m + 1) : i = 1 \/ (i - 1 \in 1..m /\ list'[i] = list[i - 1])
      <4> TAKE i \in 1..(m + 1)
      <4>1. i = 1 \/ (i - 1 \in 1..m /\ (i - 1) + 1 = i)
        BY <1>3
      <4> QED BY <1>4, <4>1
    <3>2. \A i \in 1..m : i + 1 \in 1..(m + 1) /\ list'[i + 1] = list[i]
      BY <1>3, <1>4
    <3>3. 1 \in 1..(m + 1) /\ list'[1].handle = h
      BY <1>3, <1>4
    <3> HIDE DEF h, e
    <3>4. Held' \subseteq {h} \cup {list[i].handle : i \in 1..m}
      <4> SUFFICES ASSUME NEW i \in 1..(m + 1)
                   PROVE  list'[i].handle \in {h} \cup {list[j].handle : j \in 1..m}
        BY <1>4 DEF Held
      <4> QED BY <3>1, <3>3
    <3>5. {h} \cup {list[i].handle : i \in 1..m} \subseteq Held'
      BY <1>4, <3>2, <3>3 DEF Held
    <3> QED BY <3>4, <3>5
  <2>3. Held \ S = {list[i].handle : i \in 1..m}
    <3>1. \A i \in 1..n : i \in 1..m \/ i \in (m + 1)..n
      BY <1>3
    <3>2. \A i \in 1..m : i \in 1..n /\ i \notin (m + 1)..n
      BY <1>3
    <3>3. \A i \in 1..m : list[i].handle \notin S
      <4> TAKE i \in 1..m
      <4>1. \A j \in (m + 1)..n : j \in 1..n /\ j # i
        BY <1>3
      <4> QED BY <2>1, <3>2, <4>1
    <3> QED BY <1>3, <3>1, <3>2, <3>3 DEF Held
  <2> QED BY <2>2, <2>3
<1>8. ListInv'
  <2> HIDE DEF m
  <2>1. \A i \in DOMAIN list : list[i].file # f /\ list[i].handle # h
    BY <1>2 DEF Cached, Held
  <2>2. \A i \in 1..(m + 1) :
          \/ i = 1 /\ list'[i].file = f /\ list'[i].handle = h
          \/ i # 1 /\ i - 1 \in DOMAIN list /\ list'[i] = list[i - 1]
    <3> TAKE i \in 1..(m + 1)
    <3>1. i = 1 \/ (i # 1 /\ i - 1 \in 1..m /\ i - 1 \in 1..n /\ (i - 1) + 1 = i)
      BY <1>3
    <3> QED BY <1>3, <1>4, <3>1
  <2> SUFFICES ASSUME NEW i \in 1..(m + 1), NEW j \in 1..(m + 1),
                      list'[i].file = list'[j].file \/ list'[i].handle = list'[j].handle
               PROVE  i = j
    BY <1>4 DEF ListInv
  <2>3. i = 1 <=> j = 1
    BY <2>1, <2>2
  <2>4. CASE i # 1 /\ j # 1
    <3>1. i - 1 = j - 1
      BY <2>2, <2>4 DEF IInv, ListInv
    <3> QED BY <1>3, <3>1
  <2> QED BY <2>3, <2>4
<1>9. closed' = Close(S, "evicted") /\ Len(list') <= Capacity
  BY <1>1, <1>3, <1>4, <1>5
<1>10. list' \in Seq([file : Files, handle : Handles])
  BY <1>4
<1>11. Held' = (Held \ S) \cup {reader[r].handle}
  BY <1>7
<1> HIDE DEF S
<1> QED BY <1>1, <1>6, <1>8, <1>9, <1>10, <1>11, InsertStep

LEMMA NextIInv == IInv /\ [Next]_vars => IInv'
<1> SUFFICES ASSUME IInv, [Next]_vars PROVE IInv'
  OBVIOUS
<1>1. ASSUME NEW r \in Readers,
             \/ \E f \in Files : Find(r, f)
             \/ OpenFails(r) \/ LoadFails(r) \/ Read(r) \/ Failed(r)
      PROVE  IInv'
  BY <1>1, CallSteps
<1>2. ASSUME NEW r \in Readers, Opened(r) PROVE IInv'
  BY <1>2, OpenedStep
<1>3. ASSUME NEW r \in Readers, Loaded(r) PROVE IInv'
  BY <1>3, OverwriteStep, FrontStep
<1>4. ASSUME NEW r \in Readers, EndEarly(r) PROVE IInv'
  BY <1>4, EndEarlyStep
<1>5. CASE Destroy
  BY <1>5, DestroyStep
<1>6. CASE UNCHANGED vars
  BY <1>6 DEF vars, IInv, TypeInv, ListInv, LoadingInv, NoneForgotten,
     UsableUnlessEnded, Handles, Open, Held, Loading
<1> QED BY <1>1, <1>2, <1>3, <1>4, <1>5, <1>6 DEF Next

\* However calls, failures and destroy() interleave, a handle that is open is in
\* the cache, about to be put there, or was left by a table that could not be
\* opened; and the cache has no more than Capacity of them open.
THEOREM NothingLeaks == Spec => []Accounted
<1>1. Spec => []IInv
  BY InitIInv, NextIInv, PTL DEF Spec
<1> QED BY <1>1, InvHolds, PTL

\* A handle in the cache is open unless an iterator that ended early closed it:
\* neither eviction nor replacement nor destroy() leaves a closed one behind.
THEOREM ClosedOnlyByEnd == Spec => []UsableUnlessEnded
<1>1. Spec => []IInv
  BY InitIInv, NextIInv, PTL DEF Spec
<1> QED BY <1>1, InvHolds, PTL

-----------------------------------------------------------------------------
(* How often a table is opened.                                             *)

HandlesOf(f) == {h \in Handles : opened[h] = f}

\* The premise of OpensBounded: no table of the file failed to open, and none
\* of its handles was dropped by the cache.
Undisturbed(f) ==
  \A h \in HandlesOf(f) : h \notin abandoned
    /\ (h \in DOMAIN closed => closed[h] \cap {"evicted", "reset"} = {})

\* Every handle is used for the file that it was opened for.
FilesInv ==
  /\ \A i \in DOMAIN list : opened[list[i].handle] = list[i].file
  /\ \A r \in Readers : reader[r].at \in Handled =>
       opened[reader[r].handle] = reader[r].file

\* A call that opened h will not open its file again: it is about to put it
\* into the cache, or the file is there, where the next look finds it.
Past(f, h, q) ==
  /\ ~(reader[q].at = "opening" /\ reader[q].file = f)
  /\ Cached(f) = {} => reader[q].at = "loading" /\ reader[q].handle = h

\* The handles of a file were opened by different calls.
OpenersInv ==
  \A f \in Files : Undisturbed(f) =>
    \E o \in Injection(HandlesOf(f), Readers) :
      \A h \in HandlesOf(f) : Past(f, h, o[h])

LEMMA InitOpeners == Init => FilesInv /\ OpenersInv
<1> SUFFICES ASSUME Init PROVE FilesInv /\ OpenersInv
  OBVIOUS
<1>1. Handles = {} /\ FilesInv
  BY DEF Init, Handles, FilesInv, Handled, Idle
<1>2. ASSUME NEW f \in Files
      PROVE  \E o \in Injection(HandlesOf(f), Readers) :
               \A h \in HandlesOf(f) : Past(f, h, o[h])
  <2>1. HandlesOf(f) = {}
    BY <1>1 DEF HandlesOf
  <2> DEFINE o == [h \in {} |-> CHOOSE r \in Readers : TRUE]
  <2>2. o \in Injection({}, Readers)
    BY DEF Injection, IsInjective
  <2> HIDE DEF o
  <2> QED BY <2>1, <2>2
<1> QED BY <1>1, <1>2 DEF OpenersInv

\* Handles stay with their files, and nothing that was closed or given up is
\* taken back.
LEMMA Growing ==
  ASSUME IInv, Next
  PROVE  /\ Handles \subseteq Handles'
         /\ \A h \in Handles : opened'[h] = opened[h]
         /\ abandoned \subseteq abandoned'
         /\ DOMAIN closed \subseteq DOMAIN closed'
         /\ \A h \in DOMAIN closed : closed[h] \subseteq closed'[h]
<1> USE DEF Handles
<1>1. CASE \E r \in Readers : Opened(r)
  <2>1. PICK r \in Readers : Opened(r)
    BY <1>1
  <2>2. reader[r].file \in Files
    BY <2>1 DEF Opened, IInv, TypeInv, Idle
  <2> QED BY <2>1, <2>2 DEF Opened, IInv, TypeInv
<1>2. ASSUME NEW S, NEW why, closed' = Close(S, why)
      PROVE  DOMAIN closed \subseteq DOMAIN closed'
             /\ \A h \in DOMAIN closed : closed[h] \subseteq closed'[h]
  BY <1>2, CloseDoes
<1>3. CASE \E r \in Readers : Loaded(r)
  <2>1. \E S, why : closed' = Close(S, why)
    BY <1>3 DEF Loaded, Set
  <2> QED BY <1>2, <1>3, <2>1 DEF Loaded
<1>4. CASE \E r \in Readers : EndEarly(r)
  BY <1>2, <1>4 DEF EndEarly
<1>5. CASE Destroy
  BY <1>2, <1>5 DEF Destroy
<1>6. CASE \E r \in Readers :
             \/ \E f \in Files : Find(r, f)
             \/ OpenFails(r) \/ LoadFails(r) \/ Read(r) \/ Failed(r)
  BY <1>6 DEF Find, OpenFails, LoadFails, Read, Failed
<1> QED BY <1>1, <1>3, <1>4, <1>5, <1>6 DEF Next

LEMMA DisturbedStays ==
  ASSUME IInv, Next, NEW f \in Files, Undisturbed(f)'
  PROVE  Undisturbed(f) /\ HandlesOf(f) \subseteq HandlesOf(f)'
<1>1. HandlesOf(f) \subseteq HandlesOf(f)'
  BY Growing DEF HandlesOf
<1> QED BY <1>1, Growing DEF Undisturbed

\* The handle that the cache has for a file is one of the file's.
LEMMA CachedHandle ==
  ASSUME IInv, FilesInv, NEW f \in Files, NEW i \in Cached(f)
  PROVE  list[i].handle \in HandlesOf(f) /\ list[i].handle \in Held
  BY ListTypes DEF Cached, FilesInv, HandlesOf, Held, IInv

\* What the front of the cache and the rest are after a new entry.
LEMMA FrontDoes ==
  ASSUME IInv, NEW r \in Readers, Loaded(r), Cached(reader[r].file) = {}
  PROVE  /\ list' \in Seq([file : Files, handle : Handles]) /\ Len(list') >= 1
         /\ list'[1] = [file |-> reader[r].file, handle |-> reader[r].handle]
         /\ \A i \in DOMAIN list' \ {1} : i - 1 \in DOMAIN list /\ list'[i] = list[i - 1]
         /\ \A i \in DOMAIN list :
              \/ i + 1 \in DOMAIN list' /\ list'[i + 1] = list[i]
              \/ list[i].handle \in DOMAIN closed'
                 /\ "evicted" \in closed'[list[i].handle]
<1> DEFINE e == [file |-> reader[r].file, handle |-> reader[r].handle]
           all == <<e>> \o list
           n == Len(list)
           E == [file : Files, handle : Handles]
           S == {all[i].handle : i \in DOMAIN all \ DOMAIN list'}
<1>1. reader[r].at = "loading" /\ list' = Trimmed(all) /\ closed' = Close(S, "evicted")
  BY DEF Loaded, Set
<1>2. list \in Seq(E) /\ n \in Nat /\ Capacity \in Nat \ {0} /\ n <= Capacity
  BY TableCacheAssumption DEF IInv, TypeInv
<1>3. e \in E
  <2>1. reader[r] \in [at : {"loading"}, file : Files, handle : Handles]
    BY <1>1 DEF IInv, TypeInv, Idle
  <2> QED BY <2>1
<1>4. \A h \in S : h \in DOMAIN closed' /\ "evicted" \in closed'[h]
  <2>1. closed' = Close(S, "evicted")
    BY <1>1
  <2> HIDE DEF S
  <2>2. \A h \in S : "evicted" \in closed'[h]
    BY <2>1, CloseDoes, Zenon
  <2>3. DOMAIN closed' = DOMAIN closed \cup S
    BY <2>1, CloseDoes, Zenon
  <2> QED BY <2>2, <2>3
<1> HIDE DEF E, e
<1>5. /\ all \in Seq(E) /\ Len(all) = n + 1 /\ DOMAIN all = 1..(n + 1)
      /\ DOMAIN list = 1..n
      /\ all[1] = e /\ \A i \in 1..n : all[i + 1] = list[i]
  BY <1>2, <1>3
<1> HIDE DEF all
<1>6. /\ list' \in Seq(E) /\ Len(list') \in {n, n + 1} /\ Len(list') >= 1
      /\ \A i \in 1..Len(list') : i \in 1..(n + 1) /\ list'[i] = all[i]
  <2>1. CASE n + 1 > Capacity
    <3>1. n >= 1 /\ list' = SubSeq(all, 1, n)
      BY <1>1, <1>2, <1>5, <2>1 DEF Trimmed, Front
    <3> HIDE DEF n
    <3>2. list' \in Seq(E) /\ Len(list') = n /\ \A i \in 1..n : list'[i] = all[i]
      BY <1>2, <1>5, <3>1
    <3> QED BY <1>2, <3>1, <3>2
  <2>2. CASE ~(n + 1 > Capacity)
    <3>1. list' = all
      BY <1>1, <1>2, <1>5, <2>2 DEF Trimmed
    <3> HIDE DEF n
    <3>2. list' \in Seq(E) /\ Len(list') = n + 1
      BY <1>5, <3>1
    <3>3. \A i \in 1..(n + 1) : list'[i] = all[i]
      BY <3>1
    <3> QED BY <1>2, <3>2, <3>3
  <2> QED BY <2>1, <2>2
<1>7. DOMAIN list' = 1..Len(list')
  BY <1>6
<1>8. 1 \in 1..Len(list') /\ list'[1] = e
  BY <1>2, <1>5, <1>6
<1>9. \A i \in DOMAIN list' \ {1} : i - 1 \in DOMAIN list /\ list'[i] = list[i - 1]
  <2> TAKE i \in DOMAIN list' \ {1}
  <2>0. i \in 1..(n + 1) /\ i # 1 /\ list'[i] = all[i]
    BY <1>6, <1>7
  <2>1. i - 1 \in 1..n /\ (i - 1) + 1 = i /\ list'[i] = all[i]
    <3> HIDE DEF n, S
    <3> QED BY <1>2, <2>0
  <2> QED BY <1>5, <2>1
<1>10. ASSUME NEW i \in DOMAIN list
       PROVE  \/ i + 1 \in DOMAIN list' /\ list'[i + 1] = list[i]
              \/ list[i].handle \in DOMAIN closed'
                 /\ "evicted" \in closed'[list[i].handle]
  <2>1. i + 1 \in DOMAIN all /\ all[i + 1] = list[i]
    BY <1>2, <1>5
  <2>2. CASE i + 1 \in DOMAIN list'
    BY <1>6, <1>7, <2>1, <2>2
  <2>3. CASE i + 1 \notin DOMAIN list'
    <3>1. list[i].handle \in S
      BY <2>1, <2>3
    <3> HIDE DEF S
    <3> QED BY <1>4, <3>1
  <2> QED BY <2>2, <2>3
<1> QED BY <1>6, <1>8, <1>9, <1>10 DEF e, E

\* An entry is overwritten where it is.
LEMMA OverwriteDoes ==
  ASSUME IInv, NEW r \in Readers, Loaded(r), Cached(reader[r].file) # {}
  PROVE  /\ DOMAIN list' = DOMAIN list
         /\ \A i \in DOMAIN list :
              /\ list'[i].file = list[i].file
              /\ list'[i].handle = IF list[i].file = reader[r].file
                                     THEN reader[r].handle ELSE list[i].handle
<1> DEFINE f == reader[r].file
           h == reader[r].handle
<1>1. list' = [i \in DOMAIN list |->
                 IF i \in Cached(f) THEN [list[i] EXCEPT !.handle = h] ELSE list[i]]
  BY DEF Loaded, Set
<1>2. ASSUME NEW i \in DOMAIN list
      PROVE  /\ list'[i].file = list[i].file
             /\ list'[i].handle = IF list[i].file = f THEN h ELSE list[i].handle
  <2>1. list[i] = [file |-> list[i].file, handle |-> list[i].handle]
    BY ListTypes DEF IInv
  <2>2. CASE i \in Cached(f)
    <3>1. list'[i] = [list[i] EXCEPT !.handle = h] /\ list[i].file = f
      BY <1>1, <2>2 DEF Cached
    <3>2. [list[i] EXCEPT !.handle = h] = [file |-> list[i].file, handle |-> h]
      BY <2>1
    <3> QED BY <3>1, <3>2
  <2>3. CASE i \notin Cached(f)
    <3>1. list'[i] = list[i] /\ list[i].file # f
      BY <1>1, <2>3 DEF Cached
    <3> QED BY <3>1
  <2> QED BY <2>2, <2>3
<1> QED BY <1>1, <1>2

\* What was loaded is in the cache.
LEMMA LoadedIsCached ==
  ASSUME IInv, NEW r \in Readers, Loaded(r)
  PROVE  \E i \in DOMAIN list' : list'[i].file = reader[r].file
<1> DEFINE f == reader[r].file
<1>1. CASE Cached(f) = {}
  <2>1. list' \in Seq([file : Files, handle : Handles]) /\ Len(list') >= 1
        /\ list'[1] = [file |-> f, handle |-> reader[r].handle]
    BY <1>1, FrontDoes
  <2>2. 1 \in DOMAIN list'
    <3> DEFINE E == [file : Files, handle : Handles]
    <3>1. list' \in Seq(E) /\ Len(list') >= 1
      BY <2>1
    <3> HIDE DEF E
    <3> QED BY <3>1
  <2>3. list'[1].file = f
    BY <2>1
  <2> QED BY <2>2, <2>3
<1>2. CASE Cached(f) # {}
  <2>1. PICK i \in DOMAIN list : list[i].file = f
    BY <1>2 DEF Cached
  <2>2. i \in DOMAIN list' /\ list'[i].file = f
    BY <1>2, <2>1, OverwriteDoes
  <2> QED BY <2>2
<1> QED BY <1>1, <1>2

\* A file leaves the cache by eviction and by destroy() only.
LEMMA LeavingDisturbs ==
  ASSUME IInv, FilesInv, Next, NEW f \in Files, Cached(f) # {}, Undisturbed(f)'
  PROVE  Cached(f)' # {}
<1>1. PICK i \in DOMAIN list : list[i].file = f
  BY DEF Cached
<1>2. list[i].handle \in HandlesOf(f)' /\ list[i].handle \in Held
  BY <1>1, CachedHandle, DisturbedStays DEF Cached
<1>3. ASSUME list[i].handle \in DOMAIN closed',
             closed'[list[i].handle] \cap {"evicted", "reset"} # {}
      PROVE  FALSE
  BY <1>2, <1>3 DEF Undisturbed
<1>4. CASE list' = list
  BY <1>1, <1>4 DEF Cached
<1>5. ASSUME NEW r \in Readers, Loaded(r) PROVE Cached(f)' # {}
  <2>1. CASE Cached(reader[r].file) # {}
    <3>1. i \in DOMAIN list' /\ list'[i].file = f
      BY <1>1, <1>5, <2>1, OverwriteDoes
    <3> QED BY <3>1 DEF Cached
  <2>2. CASE Cached(reader[r].file) = {}
    <3>1. i + 1 \in DOMAIN list' /\ list'[i + 1] = list[i]
      BY <1>3, <1>5, <2>2, FrontDoes
    <3> QED BY <1>1, <3>1 DEF Cached
  <2> QED BY <2>1, <2>2
<1>6. CASE Destroy
  <2>1. list[i].handle \in DOMAIN closed' /\ "reset" \in closed'[list[i].handle]
    <3>1. closed' = Close(Held, "reset")
      BY <1>6 DEF Destroy, Held
    <3>2. \A h \in Held : "reset" \in closed'[h]
      BY <3>1, CloseDoes, Zenon
    <3>3. DOMAIN closed' = DOMAIN closed \cup Held
      BY <3>1, CloseDoes, Zenon
    <3> QED BY <1>2, <3>2, <3>3
  <2> QED BY <1>3, <2>1
<1>7. CASE \E r \in Readers :
             \/ \E g \in Files : Find(r, g)
             \/ Opened(r) \/ OpenFails(r) \/ LoadFails(r)
             \/ Read(r) \/ Failed(r) \/ EndEarly(r)
  <2>1. list' = list
    BY <1>7 DEF Find, Opened, OpenFails, LoadFails, Read, Failed, EndEarly
  <2> QED BY <1>4, <2>1
<1> QED BY <1>5, <1>6, <1>7 DEF Next

LEMMA NextFiles == IInv /\ FilesInv /\ Next => FilesInv'
<1> SUFFICES ASSUME IInv, FilesInv, Next PROVE FilesInv'
  OBVIOUS
<1> USE DEF Handled
<1>1. /\ \A i \in DOMAIN list : opened'[list[i].handle] = list[i].file
      /\ \A q \in Readers : reader[q].at \in Handled => opened'[reader[q].handle] = reader[q].file
  <2>1. \A i \in DOMAIN list : list[i].handle \in Handles
    BY ListTypes DEF IInv
  <2>2. \A q \in Readers : reader[q].at \in Handled => reader[q].handle \in Handles
    BY DEF IInv, TypeInv, Idle
  <2> QED BY <2>1, <2>2, Growing DEF FilesInv
<1>2. reader \in [Readers ->
        {Idle} \cup [at : {"opening"}, file : Files]
          \cup [at : {"loading", "reading", "failed"}, file : Files, handle : Handles]]
  BY DEF IInv, TypeInv
\* A call that changes places keeps its file and its handle or has neither.
<1>3. ASSUME NEW r \in Readers, NEW v, reader' = [reader EXCEPT ![r] = v],
             v.at \in Handled => opened'[v.handle] = v.file
      PROVE  \A q \in Readers : reader'[q].at \in Handled =>
               opened'[reader'[q].handle] = reader'[q].file
  <2> TAKE q \in Readers
  <2>1. reader'[q] = IF q = r THEN v ELSE reader[q]
    BY <1>2, <1>3
  <2> QED BY <1>1, <1>3, <2>1
<1>4. ASSUME NEW r \in Readers, \E f \in Files : Find(r, f)
      PROVE  FilesInv'
  <2>1. PICK f \in Files : Find(r, f)
    BY <1>4
  <2>2. list' = list
    BY <2>1 DEF Find
  <2>3. CASE \E i \in Hits(f) :
               reader' = [reader EXCEPT ![r] =
                 [at |-> "reading", file |-> f, handle |-> list[i].handle]]
    <3>1. PICK i \in Hits(f) :
               reader' = [reader EXCEPT ![r] =
                 [at |-> "reading", file |-> f, handle |-> list[i].handle]]
      BY <2>3
    <3>2. opened'[list[i].handle] = f
      BY <1>1 DEF Hits, Cached
    <3> DEFINE v == [at |-> "reading", file |-> f, handle |-> list[i].handle]
    <3>3. reader' = [reader EXCEPT ![r] = v] /\ opened'[v.handle] = v.file
      BY <3>1, <3>2
    <3> HIDE DEF v
    <3>4. \A q \in Readers : reader'[q].at \in Handled =>
            opened'[reader'[q].handle] = reader'[q].file
      BY <1>3, <3>3
    <3> QED BY <1>1, <2>2, <3>4 DEF FilesInv
  <2>4. CASE reader' = [reader EXCEPT ![r] = [at |-> "opening", file |-> f]]
    <3>1. \A q \in Readers : reader'[q].at \in Handled =>
            opened'[reader'[q].handle] = reader'[q].file
      BY <1>3, <2>4
    <3> QED BY <1>1, <2>2, <3>1 DEF FilesInv
  <2> QED BY <2>1, <2>3, <2>4 DEF Find
<1>5. ASSUME NEW r \in Readers, Opened(r)
      PROVE  FilesInv'
  <2> DEFINE v == [at |-> "loading", file |-> reader[r].file, handle |-> Len(opened')]
  <2>1. list' = list /\ reader' = [reader EXCEPT ![r] = v] /\ reader[r].file \in Files
        /\ opened' = Append(opened, reader[r].file)
    BY <1>2, <1>5 DEF Opened, Idle
  <2>2. opened \in Seq(Files)
    BY DEF IInv, TypeInv
  <2>3. opened'[Len(opened')] = reader[r].file
    BY <2>1, <2>2
  <2>4. opened'[v.handle] = v.file
    BY <2>3
  <2> HIDE DEF v
  <2>5. \A q \in Readers : reader'[q].at \in Handled =>
          opened'[reader'[q].handle] = reader'[q].file
    BY <1>3, <2>1, <2>4
  <2> QED BY <1>1, <2>1, <2>5 DEF FilesInv
<1>6. ASSUME NEW r \in Readers,
             OpenFails(r) \/ LoadFails(r) \/ Failed(r) \/ EndEarly(r)
      PROVE  FilesInv'
  <2>1. list' = list /\ reader' = [reader EXCEPT ![r] = Idle] /\ Idle.at \notin Handled
    BY <1>6 DEF OpenFails, LoadFails, Failed, EndEarly, Idle
  <2>2. \A q \in Readers : reader'[q].at \in Handled =>
          opened'[reader'[q].handle] = reader'[q].file
    BY <1>3, <2>1
  <2> QED BY <1>1, <2>1, <2>2 DEF FilesInv
<1>7. ASSUME NEW r \in Readers, reader[r].at \in Handled, NEW at,
             reader' = [reader EXCEPT ![r] = [reader[r] EXCEPT !.at = at]]
      PROVE  \A q \in Readers : reader'[q].at \in Handled =>
               opened'[reader'[q].handle] = reader'[q].file
  <2> DEFINE v == [reader[r] EXCEPT !.at = at]
  <2>1. v.file = reader[r].file /\ v.handle = reader[r].handle
    <3>1. reader[r] \in [at : {"loading", "reading", "failed"}, file : Files, handle : Handles]
      BY <1>2, <1>7 DEF Idle
    <3> QED BY <3>1
  <2>2. opened'[v.handle] = v.file
    BY <1>1, <1>7, <2>1
  <2> HIDE DEF v
  <2> QED BY <1>3, <1>7, <2>2 DEF v
<1>8. ASSUME NEW r \in Readers, Read(r)
      PROVE  FilesInv'
  <2>1. list' = list /\ reader[r].at \in Handled
    BY <1>8 DEF Read
  <2>2. CASE reader' = [reader EXCEPT ![r] = Idle]
    <3>1. \A q \in Readers : reader'[q].at \in Handled =>
            opened'[reader'[q].handle] = reader'[q].file
      BY <1>3, <2>2 DEF Idle
    <3> QED BY <1>1, <2>1, <3>1 DEF FilesInv
  <2>3. CASE reader' = [reader EXCEPT ![r] = [reader[r] EXCEPT !.at = "failed"]]
    <3>1. \A q \in Readers : reader'[q].at \in Handled =>
            opened'[reader'[q].handle] = reader'[q].file
      BY <1>7, <2>1, <2>3
    <3> QED BY <1>1, <2>1, <3>1 DEF FilesInv
  <2> QED BY <1>8, <2>2, <2>3 DEF Read
<1>9. ASSUME NEW r \in Readers, Loaded(r)
      PROVE  FilesInv'
  <2> DEFINE f == reader[r].file
             h == reader[r].handle
  <2>1. reader[r].at = "loading" /\ reader' = [reader EXCEPT ![r] = [reader[r] EXCEPT !.at = "reading"]]
    BY <1>9 DEF Loaded
  <2>2. \A q \in Readers : reader'[q].at \in Handled =>
          opened'[reader'[q].handle] = reader'[q].file
    BY <1>7, <2>1
  <2>3. opened'[h] = f
    BY <1>1, <2>1
  <2>4. CASE Cached(f) = {}
    <3>1. list'[1] = [file |-> f, handle |-> h]
          /\ \A i \in DOMAIN list' \ {1} : i - 1 \in DOMAIN list /\ list'[i] = list[i - 1]
      BY <1>9, <2>4, FrontDoes
    <3>2. list'[1].file = f /\ list'[1].handle = h
      BY <3>1
    <3> QED BY <1>1, <2>2, <2>3, <3>1, <3>2 DEF FilesInv
  <2>5. CASE Cached(f) # {}
    <3>1. DOMAIN list' = DOMAIN list
          /\ \A i \in DOMAIN list :
               /\ list'[i].file = list[i].file
               /\ list'[i].handle = IF list[i].file = f THEN h ELSE list[i].handle
      BY <1>9, <2>5, OverwriteDoes
    <3> QED BY <1>1, <2>2, <2>3, <3>1 DEF FilesInv
  <2> QED BY <2>4, <2>5
<1>10. CASE Destroy
  <2>1. list' = <<>> /\ reader' = reader
    BY <1>10 DEF Destroy
  <2> QED BY <1>1, <2>1 DEF FilesInv
<1> QED BY <1>4, <1>5, <1>6, <1>8, <1>9, <1>10 DEF Next

\* A step that opens nothing: it is enough that no call that opened a handle
\* gets behind it again.
LEMMA OwnersKept ==
  ASSUME IInv, Next, OpenersInv, opened' = opened,
         \A f \in Files : Undisturbed(f)' =>
           \A h \in HandlesOf(f) : \A q \in Readers : Past(f, h, q) => Past(f, h, q)'
  PROVE  OpenersInv'
<1> SUFFICES ASSUME NEW f \in Files, Undisturbed(f)'
             PROVE  \E o \in Injection(HandlesOf(f)', Readers) :
                      \A h \in HandlesOf(f)' : Past(f, h, o[h])'
  BY DEF OpenersInv
<1>1. Undisturbed(f) /\ HandlesOf(f)' = HandlesOf(f)
  BY DisturbedStays DEF HandlesOf, Handles
<1>2. PICK o \in Injection(HandlesOf(f), Readers) :
        \A h \in HandlesOf(f) : Past(f, h, o[h])
  BY <1>1 DEF OpenersInv
<1>3. \A h \in HandlesOf(f) : o[h] \in Readers
  BY DEF Injection
<1>4. \A h \in HandlesOf(f) : Past(f, h, o[h])'
  BY <1>2, <1>3
<1> QED BY <1>1, <1>4

\* A call that keeps its place stays past the handle as long as the file stays
\* in the cache.
LEMMA PastKept ==
  ASSUME IInv, FilesInv, Next, NEW f \in Files, Undisturbed(f)', NEW h, NEW q \in Readers,
         Past(f, h, q), reader'[q] = reader[q]
  PROVE  Past(f, h, q)'
<1>1. Cached(f)' = {} => Cached(f) = {}
  BY LeavingDisturbs
<1> QED BY <1>1 DEF Past

\* The call that opens a handle of a file has opened no other: who has is past
\* opening it.
LEMMA OpenedOpeners ==
  ASSUME IInv, FilesInv, OpenersInv, NEW r \in Readers, Opened(r)
  PROVE  OpenersInv'
<1> DEFINE g == reader[r].file
<1>0. PICK n : n = Len(opened')
  OBVIOUS
<1>1. /\ reader[r].at = "opening" /\ list' = list
      /\ opened' = Append(opened, g)
      /\ reader' = [reader EXCEPT ![r] = [at |-> "loading", file |-> g, handle |-> n]]
  BY <1>0 DEF Opened
<1>2. g \in Files /\ opened \in Seq(Files)
  BY <1>1 DEF IInv, TypeInv, Idle
<1>3. Handles' = Handles \cup {n} /\ n \notin Handles /\ opened'[n] = g
  BY <1>0, <1>1, <1>2 DEF Handles
<1>4. /\ reader'[r] = [at |-> "loading", file |-> g, handle |-> n]
      /\ \A q \in Readers : q # r => reader'[q] = reader[q]
  <2> HIDE DEF g
  <2> QED BY <1>1 DEF IInv, TypeInv
<1>5. Next
  BY DEF Next
<1> SUFFICES ASSUME NEW f \in Files, Undisturbed(f)'
             PROVE  \E o \in Injection(HandlesOf(f)', Readers) :
                      \A h \in HandlesOf(f)' : Past(f, h, o[h])'
  BY DEF OpenersInv
<1>6. PICK o \in Injection(HandlesOf(f), Readers) :
        \A h \in HandlesOf(f) : Past(f, h, o[h])
  BY <1>5, DisturbedStays DEF OpenersInv
<1>7. o \in [HandlesOf(f) -> Readers] /\ IsInjective(o)
  BY DEF Injection
<1>8. \A q \in Readers, h \in HandlesOf(f) : Past(f, h, q) /\ q # r => Past(f, h, q)'
  BY <1>4, <1>5, PastKept
<1>9. CASE f = g
  <2>1. HandlesOf(f)' = HandlesOf(f) \cup {n} /\ n \notin HandlesOf(f)
    BY <1>3, <1>5, <1>9, Growing DEF HandlesOf
  <2>2. \A h \in HandlesOf(f) : o[h] # r
    BY <1>1, <1>6, <1>9 DEF Past
  <2> PICK p : p = [h \in HandlesOf(f) \cup {n} |-> IF h = n THEN r ELSE o[h]]
    OBVIOUS
  <2>3. p \in Injection(HandlesOf(f) \cup {n}, Readers)
    BY <1>7, <2>1, <2>2 DEF Injection, IsInjective
  <2>4. p[n] = r /\ \A h \in HandlesOf(f) : p[h] = o[h]
    BY <2>1
  <2>5. Past(f, n, r)'
    BY <1>4 DEF Past
  <2>6. \A h \in HandlesOf(f) : Past(f, h, o[h])'
    BY <1>6, <1>7, <1>8, <2>2
  <2>7. ASSUME NEW h \in HandlesOf(f) \cup {n}
        PROVE  Past(f, h, p[h])'
    BY <2>4, <2>5, <2>6
  <2> QED BY <2>1, <2>3, <2>7
<1>10. CASE f # g
  <2>1. HandlesOf(f)' = HandlesOf(f)
    BY <1>3, <1>5, <1>10, Growing DEF HandlesOf
  <2>2. \A h \in HandlesOf(f) : Past(f, h, r) => Past(f, h, r)'
    BY <1>1, <1>4 DEF Past, Cached
  <2>3. \A h \in HandlesOf(f) : Past(f, h, o[h])'
    BY <1>6, <1>7, <1>8, <2>2
  <2> QED BY <2>1, <2>3
<1> QED BY <1>9, <1>10

\* A call that is idle and looks for the file again finds it; one that has
\* loaded it has put it into the cache; one that could not is disturbing.
LEMMA NextOpeners == IInv /\ FilesInv /\ OpenersInv /\ Next => OpenersInv'
<1> SUFFICES ASSUME IInv, FilesInv, OpenersInv, Next PROVE OpenersInv'
  OBVIOUS
<1>1. ASSUME NEW r \in Readers, Opened(r) PROVE OpenersInv'
  BY <1>1, OpenedOpeners
<1>2. ASSUME NEW r \in Readers, opened' = opened,
             \A q \in Readers : q # r => reader'[q] = reader[q],
             \A f \in Files : \A h \in HandlesOf(f) :
               Undisturbed(f)' /\ Past(f, h, r) => Past(f, h, r)'
      PROVE  OpenersInv'
  <2>1. ASSUME NEW f \in Files, Undisturbed(f)', NEW h \in HandlesOf(f),
               NEW q \in Readers, Past(f, h, q)
        PROVE  Past(f, h, q)'
    BY <1>2, <2>1, PastKept
  <2> QED BY <1>2, <2>1, OwnersKept
<1>3. reader \in [Readers ->
        {Idle} \cup [at : {"opening"}, file : Files]
          \cup [at : {"loading", "reading", "failed"}, file : Files, handle : Handles]]
  BY DEF IInv, TypeInv
<1>4. ASSUME NEW r \in Readers, \E g \in Files : Find(r, g) PROVE OpenersInv'
  <2>1. PICK g \in Files : Find(r, g)
    BY <1>4
  <2>2. /\ opened' = opened /\ list' = list /\ reader[r].at = "idle"
        /\ \A q \in Readers : q # r => reader'[q] = reader[q]
    BY <1>3, <2>1 DEF Find, Idle
  <2>3. reader'[r].at = "opening" => reader'[r].file = g /\ Cached(g) = {}
    BY <1>3, <2>1 DEF Find, Hits
  <2>4. ASSUME NEW f \in Files, NEW h \in HandlesOf(f), Past(f, h, r)
        PROVE  Past(f, h, r)'
    <3>1. Cached(f) # {}
      BY <2>2, <2>4 DEF Past
    <3> QED BY <2>2, <2>3, <3>1 DEF Past, Cached
  <2> QED BY <1>2, <2>2, <2>4
<1>5. ASSUME NEW r \in Readers,
             OpenFails(r) \/ Read(r) \/ Failed(r) \/ EndEarly(r)
      PROVE  OpenersInv'
  <2>1. \E v : reader' = [reader EXCEPT ![r] = v] /\ v.at \in {"idle", "failed"}
    <3>1. CASE Read(r)
      <4>1. reader[r] \in [at : {"reading"}, file : Files, handle : Handles]
        BY <1>3, <3>1 DEF Read, Idle
      <4> DEFINE w == [reader[r] EXCEPT !.at = "failed"]
      <4>2. w.at = "failed"
        BY <4>1
      <4>3. reader' = [reader EXCEPT ![r] = Idle] \/ reader' = [reader EXCEPT ![r] = w]
        BY <3>1 DEF Read
      <4> HIDE DEF w
      <4> QED BY <4>2, <4>3 DEF Idle
    <3>2. CASE OpenFails(r) \/ Failed(r) \/ EndEarly(r)
      <4>1. reader' = [reader EXCEPT ![r] = Idle]
        BY <3>2 DEF OpenFails, Failed, EndEarly
      <4>2. Idle.at = "idle"
        BY DEF Idle
      <4> QED BY <4>1, <4>2
    <3> QED BY <1>5, <3>1, <3>2
  <2>2. /\ opened' = opened /\ list' = list
        /\ reader[r].at \in {"opening", "reading", "failed"}
        /\ reader'[r].at # "opening"
        /\ \A q \in Readers : q # r => reader'[q] = reader[q]
    <3>1. opened' = opened /\ list' = list
          /\ reader[r].at \in {"opening", "reading", "failed"}
      BY <1>5 DEF OpenFails, Read, Failed, EndEarly
    <3> QED BY <1>3, <2>1, <3>1
  <2>3. ASSUME NEW f \in Files, NEW h \in HandlesOf(f), Past(f, h, r)
        PROVE  Past(f, h, r)'
    BY <2>2, <2>3 DEF Past, Cached
  <2> QED BY <1>2, <2>2, <2>3
<1>6. ASSUME NEW r \in Readers, LoadFails(r) PROVE OpenersInv'
  <2>1. /\ opened' = opened /\ list' = list /\ reader[r].at = "loading"
        /\ abandoned' = abandoned \cup {reader[r].handle}
        /\ reader'[r].at = "idle"
        /\ \A q \in Readers : q # r => reader'[q] = reader[q]
    BY <1>3, <1>6 DEF LoadFails, Idle
  <2>2. ASSUME NEW f \in Files, NEW h \in HandlesOf(f), Past(f, h, r), Undisturbed(f)'
        PROVE  Past(f, h, r)'
    <3>1. h \in HandlesOf(f)'
      BY <2>2, DisturbedStays
    <3>2. h # reader[r].handle
      BY <2>1, <2>2, <3>1 DEF Undisturbed
    <3> QED BY <2>1, <2>2, <3>2 DEF Past, Cached
  <2> QED BY <1>2, <2>1, <2>2
<1>7. ASSUME NEW r \in Readers, Loaded(r) PROVE OpenersInv'
  <2>1. /\ opened' = opened /\ reader[r].at = "loading"
        /\ reader' = [reader EXCEPT ![r] = [reader[r] EXCEPT !.at = "reading"]]
    BY <1>7 DEF Loaded
  <2>2. reader'[r].at = "reading" /\ \A q \in Readers : q # r => reader'[q] = reader[q]
    <3>1. reader[r] \in [at : {"loading"}, file : Files, handle : Handles]
      BY <1>3, <2>1 DEF Idle
    <3> QED BY <1>3, <2>1, <3>1
  <2>3. opened[reader[r].handle] = reader[r].file
    BY <2>1 DEF FilesInv, Handled
  <2>4. ASSUME NEW f \in Files, NEW h \in HandlesOf(f), Past(f, h, r), Undisturbed(f)'
        PROVE  Past(f, h, r)'
    <3>1. CASE Cached(f) = {}
      <4>1. reader[r].handle = h
        BY <2>4, <3>1 DEF Past
      <4>2. reader[r].file = f
        BY <2>3, <4>1 DEF HandlesOf
      <4>3. Cached(f)' # {}
        BY <1>7, <4>2, LoadedIsCached DEF Cached
      <4> QED BY <2>2, <4>3 DEF Past
    <3>2. CASE Cached(f) # {}
      <4>1. Cached(f)' # {}
        BY <2>4, <3>2, LeavingDisturbs
      <4> QED BY <2>2, <4>1 DEF Past
    <3> QED BY <3>1, <3>2
  <2> QED BY <1>2, <2>1, <2>2, <2>4
<1>8. CASE Destroy
  <2>1. opened' = opened /\ reader' = reader
    BY <1>8 DEF Destroy
  <2>2. ASSUME NEW f \in Files, Undisturbed(f)', NEW h \in HandlesOf(f),
               NEW q \in Readers, Past(f, h, q)
        PROVE  Past(f, h, q)'
    BY <2>1, <2>2, PastKept
  <2> QED BY <2>1, <2>2, OwnersKept
<1> QED BY <1>1, <1>4, <1>5, <1>6, <1>7, <1>8 DEF Next

\* Different calls, and there are so many of them.
LEMMA OpenersBound == OpenersInv => OpensBounded
<1> SUFFICES ASSUME OpenersInv, NEW f \in Files, Undisturbed(f)
             PROVE  Cardinality(HandlesOf(f)) <= Cardinality(Readers)
  BY DEF OpensBounded, Undisturbed, HandlesOf
<1>1. PICK o \in Injection(HandlesOf(f), Readers) : TRUE
  BY DEF OpenersInv
<1>2. IsFiniteSet(Readers)
  BY TableCacheAssumption
<1> QED BY <1>1, <1>2, FS_Injection

\* A table is opened at most once by each call as long as the cache keeps it and
\* no opening fails, however the awaits of findTable() interleave.
THEOREM OpenedOnceEach == Spec => []OpensBounded
<1>1. Init => IInv /\ FilesInv /\ OpenersInv
  BY InitIInv, InitOpeners
<1>2. IInv /\ FilesInv /\ OpenersInv /\ [Next]_vars => (IInv /\ FilesInv /\ OpenersInv)'
  <2>1. CASE Next
    BY <2>1, NextIInv, NextFiles, NextOpeners
  <2>2. ASSUME IInv, FilesInv, OpenersInv, UNCHANGED vars
        PROVE  (IInv /\ FilesInv /\ OpenersInv)'
    <3>1. IInv'
      BY <2>2, NextIInv
    <3>2. FilesInv'
      BY <2>2 DEF vars, FilesInv
    <3>3. opened' = opened /\ list' = list /\ reader' = reader /\ closed' = closed
          /\ abandoned' = abandoned
      BY <2>2 DEF vars
    <3>4. \A f \in Files : Undisturbed(f)' => Undisturbed(f)
      BY <3>3 DEF Undisturbed, HandlesOf, Handles
    <3>5. ASSUME NEW f \in Files, NEW h \in HandlesOf(f), NEW q \in Readers, Past(f, h, q)
          PROVE  Past(f, h, q)'
      BY <3>3, <3>5 DEF Past, Cached
    <3>6. \A f \in Files : HandlesOf(f)' = HandlesOf(f)
      BY <3>3 DEF HandlesOf, Handles
    <3>7. OpenersInv'
      <4> SUFFICES ASSUME NEW f \in Files, Undisturbed(f)'
                   PROVE  (\E o \in Injection(HandlesOf(f), Readers) :
                             \A h \in HandlesOf(f) : Past(f, h, o[h]))'
        BY DEF OpenersInv
      <4>1. PICK o \in Injection(HandlesOf(f), Readers) :
                 \A h \in HandlesOf(f) : Past(f, h, o[h])
        BY <2>2, <3>4 DEF OpenersInv
      <4>2. \A h \in HandlesOf(f) : o[h] \in Readers
        BY <4>1 DEF Injection, IsInjective
      <4>3. \A h \in HandlesOf(f) : Past(f, h, o[h])'
        BY <3>5, <4>1, <4>2
      <4> QED BY <3>6, <4>1, <4>3
    <3> QED BY <3>1, <3>2, <3>7
  <2> QED BY <2>1, <2>2
<1> QED BY <1>1, <1>2, OpenersBound, PTL DEF Spec
=============================================================================
