---------------------------- MODULE ProductsProofs ----------------------------
(***************************************************************************)
(* Proofs about Products, for any number of threads, products, fields and  *)
(* values: the types and the unique names, and that what was answered with *)
(* success is what is stored.                                              *)
(*                                                                         *)
(* AnsweredIsStored is not inductive: an update does not write a field     *)
(* whose value it read already, and relies on that value being there       *)
(* still.  Unmet says so: a field nobody else has written since the read   *)
(* is as it was.                                                           *)
(***************************************************************************)
EXTENDS Products, TLAPS

Unmet ==
  \A t \in Threads : th[t].pc = "update" /\ rows[th[t].id] # None =>
    \A f \in Fields \ th[t].met : rows[th[t].id][f] = th[t].read[f]

DataInv == DataOK /\ Unmet /\ AnsweredIsStored
IInv    == TypeOK /\ Unmet /\ AnsweredIsStored

-----------------------------------------------------------------------------
(* Facts about the operators *)

\* A row laid over with some fields is a row, and has them.
LEMMA OverlayRow ==
  ASSUME NEW row \in Rows, NEW D \in SUBSET Fields, NEW change \in [D -> Values]
  PROVE  /\ Overlay(row, change) \in Rows
         /\ \A f \in D : Overlay(row, change)[f] = change[f]
         /\ \A f \in Fields \ D : Overlay(row, change)[f] = row[f]
BY DEF Overlay, Rows

\* A row is not None, and a change has values for some fields.
LEMMA Kinds ==
  /\ None \notin Rows
  /\ NoField \in Changes
  /\ Rows \subseteq Changes
  /\ \A c : c \in Changes <=> c \in [DOMAIN c -> Values] /\ DOMAIN c \subseteq Fields
<1>1. None \notin Rows BY NoneAssumption DEF Rows
<1>2. \A D \in SUBSET Fields : [D -> Values] \subseteq Changes BY DEF Changes
<1>3. NoField \in [{} -> Values] BY DEF NoField
<1>4. NoField \in Changes BY <1>2, <1>3
<1>5. Rows \subseteq Changes BY <1>2 DEF Rows
<1>6. ASSUME NEW c \in Changes
      PROVE  c \in [DOMAIN c -> Values] /\ DOMAIN c \subseteq Fields
  <2>1. PICK D \in SUBSET Fields : c \in [D -> Values] BY DEF Changes
  <2> QED BY <2>1
<1> QED BY <1>1, <1>2, <1>4, <1>5, <1>6

\* The fields an update writes are among those it names.
LEMMA DirtyFields ==
  ASSUME DataOK, NEW t \in Threads, th[t].pc = "update"
  PROVE  /\ Dirty(t) \subseteq DOMAIN th[t].change /\ Dirty(t) \subseteq Fields
         /\ th[t].change \in [DOMAIN th[t].change -> Values]
         /\ [f \in Dirty(t) |-> th[t].change[f]] \in [Dirty(t) -> Values]
<1>1. th[t].change \in Changes BY DEF DataOK, Txns
<1>2. th[t].change \in [DOMAIN th[t].change -> Values] /\ DOMAIN th[t].change \subseteq Fields
  BY <1>1, Kinds
<1> QED BY <1>2 DEF Dirty

-----------------------------------------------------------------------------
(* The initial states *)

LEMMA InitIInv == Init => IInv
<1> SUFFICES ASSUME Init PROVE IInv OBVIOUS
<1>1. DataOK
  <2>1. th \in [Threads -> Txns] /\ \A t \in Threads : th[t].pc = "idle"
    BY Kinds DEF Init, Idle, Txns
  <2>2. asked \in [Ids -> Changes] BY Kinds DEF Init
  <2> QED BY <2>1, <2>2 DEF Init, DataOK
<1>2. calls = 0 BY DEF Init
<1>3. calls \in 0 .. MaxCalls BY <1>2, CallAssumption
<1>4. pane \in Panes BY DEF Init, Panes
<1>5. Unmet BY DEF Init, Unmet, Idle
<1>6. AnsweredIsStored BY DEF Init, AnsweredIsStored
<1> QED BY <1>1, <1>3, <1>4, <1>5, <1>6 DEF IInv, TypeOK

-----------------------------------------------------------------------------
(* The transactions *)

LEMMA UpdateReadStep ==
  ASSUME DataInv, NEW t \in Threads, NEW i \in Ids, NEW change \in Changes,
         UpdateRead(t, i, change)
  PROVE  DataInv'
<1> USE DEF DataInv
<1>1. i \notin unused /\ rows[i] \in Rows BY DEF UpdateRead, DataOK
<1>2. th' = [th EXCEPT ![t] = [pc |-> "update", id |-> i, change |-> change,
                               read |-> rows[i], met |-> {}]]
      /\ UNCHANGED <<rows, unused, asked>>
  BY DEF UpdateRead
<1>3. DataOK'
  <2>1. [pc |-> "update", id |-> i, change |-> change, read |-> rows[i], met |-> {}] \in Txns
    BY <1>1 DEF Txns
  <2>2. th' \in [Threads -> Txns] BY <1>2, <2>1 DEF DataOK
  <2>3. \A u \in Threads : u # t => th'[u] = th[u] BY <1>2 DEF DataOK
  <2>4. th'[t].id = i /\ th'[t].read = rows[i] BY <1>2 DEF DataOK
  <2> QED BY <1>1, <1>2, <2>2, <2>3, <2>4 DEF DataOK
<1>4. Unmet' BY <1>2 DEF DataOK, Unmet
<1>5. AnsweredIsStored' BY <1>2 DEF AnsweredIsStored
<1> QED BY <1>3, <1>4, <1>5

LEMMA DeleteReadStep ==
  ASSUME DataInv, NEW t \in Threads, NEW i \in Ids, DeleteRead(t, i)
  PROVE  DataInv'
<1> USE DEF DataInv
<1>1. i \notin unused BY DEF DeleteRead, DataOK
<1>2. th' = [th EXCEPT ![t] = [Idle EXCEPT !.pc = "delete", !.id = i]]
      /\ UNCHANGED <<rows, unused, asked>>
  BY DEF DeleteRead
<1>3. DataOK'
  <2>1. [Idle EXCEPT !.pc = "delete", !.id = i] \in Txns BY Kinds DEF Idle, Txns
  <2>2. th' \in [Threads -> Txns] BY <1>2, <2>1 DEF DataOK
  <2>3. \A u \in Threads : u # t => th'[u] = th[u] BY <1>2 DEF DataOK
  <2>4. th'[t].id = i /\ th'[t].pc = "delete" BY <1>2 DEF DataOK, Idle
  <2> QED BY <1>1, <1>2, <2>2, <2>3, <2>4 DEF DataOK
<1>4. Unmet' BY <1>2 DEF DataOK, Unmet, Idle
<1>5. AnsweredIsStored' BY <1>2 DEF AnsweredIsStored
<1> QED BY <1>3, <1>4, <1>5

LEMMA DeleteCommitStep ==
  ASSUME DataInv, NEW t \in Threads, DeleteCommit(t)
  PROVE  DataInv'
<1> USE DEF DataInv
<1> DEFINE i == th[t].id
<1>1. /\ i \in Ids \ unused
      /\ rows' = [rows EXCEPT ![i] = None]
      /\ th' = [th EXCEPT ![t] = Idle]
      /\ UNCHANGED <<unused, asked>>
  BY DEF DeleteCommit, DataOK
<1>2. DataOK'
  <2>1. Idle \in Txns BY Kinds DEF Idle, Txns
  <2>2. th' \in [Threads -> Txns] BY <1>1, <2>1 DEF DataOK
  <2>3. \A u \in Threads : u # t => th'[u] = th[u] BY <1>1 DEF DataOK
  <2>4. th'[t].pc = "idle" BY <1>1 DEF DataOK, Idle
  <2> QED BY <1>1, <2>2, <2>3, <2>4 DEF DataOK
<1>3. Unmet' BY <1>1 DEF DataOK, Unmet, Idle
<1>4. AnsweredIsStored' BY <1>1 DEF DataOK, AnsweredIsStored
<1> QED BY <1>2, <1>3, <1>4

LEMMA CreateStep ==
  ASSUME DataInv, NEW t \in Threads, NEW i \in Ids, NEW row \in Rows,
         CreateProduct(t, i, row)
  PROVE  DataInv'
<1> USE DEF DataInv
<1>1. /\ i \in unused /\ NameFree(i, row[Name])
      /\ rows' = [rows EXCEPT ![i] = row]
      /\ unused' = unused \ {i}
      /\ asked' = [asked EXCEPT ![i] = row]
      /\ th' = th
  BY DEF CreateProduct
<1>2. DataOK'
  <2>1. rows' \in [Ids -> Rows \cup {None}] BY <1>1 DEF DataOK
  <2>2. \A j, k \in Ids :
          rows'[j] # None /\ rows'[k] # None /\ j # k => rows'[j][Name] # rows'[k][Name]
    BY <1>1 DEF DataOK, NameFree
  <2>3. asked' \in [Ids -> Changes] BY <1>1, Kinds DEF DataOK
  <2> QED BY <1>1, <2>1, <2>2, <2>3 DEF DataOK
<1>3. Unmet'
  <2>1. \A u \in Threads : th[u].pc = "update" => th[u].id # i BY <1>1 DEF DataOK
  <2> QED BY <1>1, <2>1 DEF DataOK, Unmet
<1>4. AnsweredIsStored' BY <1>1 DEF DataOK, AnsweredIsStored
<1> QED BY <1>2, <1>3, <1>4

\* What Meet leaves of the other transactions.
LEMMA MeetThreads ==
  ASSUME DataOK, NEW t \in Threads, NEW fs \in SUBSET Fields, Meet(t, fs)
  PROVE  /\ th' \in [Threads -> Txns]
         /\ th'[t] = Idle
         /\ \A u \in Threads \ {t} :
              /\ th'[u].pc = th[u].pc /\ th'[u].id = th[u].id /\ th'[u].read = th[u].read
              /\ th'[u].met \in SUBSET Fields /\ th[u].met \subseteq th'[u].met
              /\ th[u].pc = "update" /\ th[u].id = th[t].id => fs \subseteq th'[u].met
<1>1. Idle \in Txns BY Kinds DEF Idle, Txns
<1>2. \A u \in Threads : th[u] \in Txns /\ [th[u] EXCEPT !.met = @ \cup fs] \in Txns
  BY DEF DataOK, Txns
<1>3. th' \in [Threads -> Txns] BY <1>1, <1>2 DEF Meet
<1>4. th'[t] = Idle BY DEF Meet
<1>5. ASSUME NEW u \in Threads \ {t}
      PROVE  /\ th'[u].pc = th[u].pc /\ th'[u].id = th[u].id /\ th'[u].read = th[u].read
             /\ th'[u].met \in SUBSET Fields /\ th[u].met \subseteq th'[u].met
             /\ th[u].pc = "update" /\ th[u].id = th[t].id => fs \subseteq th'[u].met
  <2>1. th[u] \in Txns BY <1>2
  <2>2. th'[u] = th[u] \/ th'[u] = [th[u] EXCEPT !.met = @ \cup fs] BY DEF Meet
  <2>3. th[u].pc = "update" /\ th[u].id = th[t].id => th'[u] = [th[u] EXCEPT !.met = @ \cup fs]
    BY DEF Meet
  <2> QED BY <2>1, <2>2, <2>3 DEF Txns
<1> QED BY <1>3, <1>4, <1>5

LEMMA UpdateCommitStep ==
  ASSUME DataInv, NEW t \in Threads, UpdateCommit(t)
  PROVE  DataInv'
<1> USE DEF DataInv
<1> DEFINE i == th[t].id
           change == th[t].change
           written == [f \in Dirty(t) |-> change[f]]
           fs == IF Succeeds(t) THEN Dirty(t) ELSE {}
<1>1. /\ th[t].pc = "update" /\ i \in Ids \ unused /\ th[t].read \in Rows
      /\ rows[i] \in Rows \cup {None}
  BY DEF UpdateCommit, DataOK
<1>2. /\ Dirty(t) \subseteq DOMAIN change /\ Dirty(t) \subseteq Fields
      /\ change \in [DOMAIN change -> Values] /\ DOMAIN change \subseteq Fields
      /\ written \in [Dirty(t) -> Values]
  <2>1. change \in Changes BY DEF DataOK, Txns
  <2> QED BY <1>1, <2>1, DirtyFields, Kinds
<1>3. /\ rows' = IF Succeeds(t) /\ Dirty(t) # {}
                 THEN [rows EXCEPT ![i] = Overlay(rows[i], written)] ELSE rows
      /\ asked' = IF Succeeds(t) THEN [asked EXCEPT ![i] = Answer(t)] ELSE asked
      /\ Meet(t, fs) /\ unused' = unused
  BY DEF UpdateCommit
<1>4. fs \in SUBSET Fields BY <1>2
<1>5. /\ th' \in [Threads -> Txns]
      /\ th'[t] = Idle
      /\ \A u \in Threads \ {t} :
           /\ th'[u].pc = th[u].pc /\ th'[u].id = th[u].id /\ th'[u].read = th[u].read
           /\ th'[u].met \in SUBSET Fields /\ th[u].met \subseteq th'[u].met
           /\ th[u].pc = "update" /\ th[u].id = i => fs \subseteq th'[u].met
  BY <1>3, <1>4, MeetThreads
\* the rows after the commit
<1>6. \A j \in Ids : rows'[j] = None <=> rows[j] = None
  <2>1. CASE Succeeds(t) /\ Dirty(t) # {}
    <3>1. rows[i] \in Rows BY <1>1, <2>1 DEF Succeeds
    <3>2. Overlay(rows[i], written) \in Rows BY <1>2, <3>1, OverlayRow
    <3> QED BY <1>1, <1>3, <2>1, <3>1, <3>2, Kinds DEF DataOK
  <2> QED BY <1>3, <2>1
<1>7. \A j \in Ids \ {i} : rows'[j] = rows[j] BY <1>1, <1>3 DEF DataOK
<1>8. rows[i] # None =>
        /\ rows'[i] \in Rows
        /\ \A f \in Fields \ fs : rows'[i][f] = rows[i][f]
        /\ \A f \in fs : rows'[i][f] = change[f]
  <2> SUFFICES ASSUME rows[i] # None
               PROVE  /\ rows'[i] \in Rows
                      /\ \A f \in Fields \ fs : rows'[i][f] = rows[i][f]
                      /\ \A f \in fs : rows'[i][f] = change[f]
    OBVIOUS
  <2>1. rows[i] \in Rows BY <1>1
  <2>2. CASE Succeeds(t) /\ Dirty(t) # {}
    <3>1. rows'[i] = Overlay(rows[i], written) /\ fs = Dirty(t) BY <1>1, <1>3, <2>2 DEF DataOK
    <3>2. \A f \in fs : written[f] = change[f] BY <3>1
    <3>3. /\ Overlay(rows[i], written) \in Rows
          /\ \A f \in Dirty(t) : Overlay(rows[i], written)[f] = written[f]
          /\ \A f \in Fields \ Dirty(t) : Overlay(rows[i], written)[f] = rows[i][f]
      <4>1. Dirty(t) \in SUBSET Fields /\ written \in [Dirty(t) -> Values] BY <1>2
      <4> HIDE DEF written
      <4> QED BY <4>1, <2>1, OverlayRow
    <3> HIDE DEF written, fs, change
    <3> QED BY <3>1, <3>2, <3>3
  <2>3. CASE ~(Succeeds(t) /\ Dirty(t) # {})
    BY <1>3, <2>1, <2>3
  <2> QED BY <2>2, <2>3
<1>9. rows' \in [Ids -> Rows \cup {None}]
  <2>1. CASE Succeeds(t) /\ Dirty(t) # {}
    <3>1. rows[i] # None BY <2>1 DEF Succeeds
    <3>2. Overlay(rows[i], written) \in Rows BY <1>1, <1>2, <3>1, OverlayRow
    <3> QED BY <1>3, <2>1, <3>2 DEF DataOK
  <2>2. CASE ~(Succeeds(t) /\ Dirty(t) # {}) BY <1>3, <2>2 DEF DataOK
  <2> QED BY <2>1, <2>2
\* the answer
<1>10. /\ Answer(t) \in Changes
       /\ DOMAIN Answer(t) =
            (DOMAIN asked[i] \cup DOMAIN change) \ (DOMAIN change \cap th[t].met)
       /\ \A f \in DOMAIN Answer(t) :
            Answer(t)[f] = IF f \in DOMAIN change THEN change[f] ELSE asked[i][f]
  <2>1. asked[i] \in Changes BY <1>1 DEF DataOK
  <2>2. asked[i] \in [DOMAIN asked[i] -> Values] /\ DOMAIN asked[i] \subseteq Fields
    BY <2>1, Kinds
  <2> DEFINE D == (DOMAIN asked[i] \cup DOMAIN change) \ (DOMAIN change \cap th[t].met)
  <2>3. Answer(t) = [f \in D |-> IF f \in DOMAIN change THEN change[f] ELSE asked[i][f]]
    BY DEF Answer
  <2>4. Answer(t) \in [D -> Values] /\ D \subseteq Fields BY <1>2, <2>2, <2>3
  <2>5. DOMAIN Answer(t) = D BY <2>3
  <2>6. Answer(t) \in Changes BY <2>4, <2>5, Kinds
  <2> QED BY <2>3, <2>5, <2>6
<1>11. DataOK'
  <2>1. \A j, k \in Ids :
          rows'[j] # None /\ rows'[k] # None /\ j # k => rows'[j][Name] # rows'[k][Name]
    <3>1. CASE Name \in fs
      <4>1. NameFree(i, change[Name]) /\ rows[i] # None BY <3>1 DEF Succeeds
      <4>2. rows'[i][Name] = change[Name] BY <1>8, <3>1, <4>1
      <4> QED BY <1>1, <1>6, <1>7, <4>1, <4>2 DEF DataOK, NameFree
    <3>2. CASE Name \notin fs
      BY <1>1, <1>6, <1>7, <1>8, <3>2, FieldAssumption DEF DataOK
    <3> QED BY <3>1, <3>2
  <2>2. asked' \in [Ids -> Changes] BY <1>3, <1>10 DEF DataOK
  <2>3. \A u \in Threads :
          /\ th'[u].pc # "idle" => th'[u].id \in Ids \ unused
          /\ th'[u].pc = "update" => th'[u].read \in Rows
    BY <1>5 DEF DataOK, Idle
  <2>4. \A j \in unused : rows'[j] = None BY <1>6 DEF DataOK
  <2> QED BY <1>3, <1>5, <1>9, <2>1, <2>2, <2>3, <2>4 DEF DataOK
<1>12. Unmet'
  <2> SUFFICES ASSUME NEW u \in Threads, th'[u].pc = "update", rows'[th'[u].id] # None,
                      NEW f \in Fields \ th'[u].met
               PROVE  rows'[th'[u].id][f] = th'[u].read[f]
    BY DEF Unmet
  <2>1. u # t BY <1>5 DEF Idle
  <2>2. th[u].pc = "update" /\ th'[u].id = th[u].id /\ th'[u].read = th[u].read
        /\ f \in Fields \ th[u].met /\ (th[u].id = i => f \notin fs)
    BY <1>5, <2>1
  <2>3. th[u].id \in Ids /\ rows[th[u].id] # None BY <1>6, <2>2 DEF DataOK
  <2>4. rows[th[u].id][f] = th[u].read[f] BY <2>2, <2>3 DEF Unmet
  <2>5. rows'[th[u].id][f] = rows[th[u].id][f] BY <1>7, <1>8, <2>2, <2>3
  <2> QED BY <2>2, <2>4, <2>5
<1>13. AnsweredIsStored'
  <2> SUFFICES ASSUME NEW j \in Ids, rows'[j] # None, NEW f \in DOMAIN asked'[j]
               PROVE  rows'[j][f] = asked'[j][f]
    BY DEF AnsweredIsStored
  <2>1. rows[j] # None BY <1>6
  <2>2. CASE j # i
    BY <1>1, <1>3, <1>7, <2>1, <2>2 DEF DataOK, AnsweredIsStored
  <2>3. CASE j = i /\ ~Succeeds(t)
    BY <1>3, <2>1, <2>3 DEF AnsweredIsStored
  <2>4. CASE j = i /\ Succeeds(t)
    <3>1. asked'[i] = Answer(t) /\ fs = Dirty(t) BY <1>1, <1>3, <2>4 DEF DataOK
    <3>2. f \in Fields
      BY <1>10, <2>4, <3>1, Kinds
    <3>3. CASE f \in DOMAIN change
      <4>1. asked'[i][f] = change[f] /\ f \notin th[t].met BY <1>10, <2>4, <3>1, <3>3
      <4>2. CASE f \in Dirty(t) BY <1>8, <2>1, <2>4, <3>1, <4>1, <4>2
      <4>3. CASE f \notin Dirty(t)
        <5>1. change[f] = th[t].read[f] BY <3>3, <4>3 DEF Dirty
        <5>2. rows[i][f] = th[t].read[f] BY <1>1, <2>1, <2>4, <3>2, <4>1 DEF Unmet
        <5>3. rows'[i][f] = rows[i][f] BY <1>8, <2>1, <2>4, <3>1, <3>2, <4>3
        <5> QED BY <2>4, <4>1, <5>1, <5>2, <5>3
      <4> QED BY <4>2, <4>3
    <3>4. CASE f \notin DOMAIN change
      <4>1. f \in DOMAIN asked[i] /\ asked'[i][f] = asked[i][f] BY <1>10, <2>4, <3>1, <3>4
      <4>2. rows[i][f] = asked[i][f] BY <1>1, <2>1, <2>4, <4>1 DEF AnsweredIsStored
      <4>3. rows'[i][f] = rows[i][f] BY <1>2, <1>8, <2>1, <2>4, <3>1, <3>2, <3>4
      <4> QED BY <2>4, <4>1, <4>2, <4>3
    <3> QED BY <3>3, <3>4
  <2> QED BY <2>2, <2>3, <2>4
<1> QED BY <1>11, <1>12, <1>13

-----------------------------------------------------------------------------
(* Every step *)

LEMMA NextIInv == IInv /\ [Next]_vars => IInv'
<1> SUFFICES ASSUME IInv, [Next]_vars PROVE IInv' OBVIOUS
<1>1. DataInv /\ pane \in Panes /\ calls \in 0 .. MaxCalls BY DEF IInv, TypeOK, DataInv
<1>2. IInv' <=> DataInv' /\ pane' \in Panes /\ calls' \in 0 .. MaxCalls
  BY DEF IInv, TypeOK, DataInv
<1>3. ASSUME Call PROVE calls' \in 0 .. MaxCalls
  BY <1>1, <1>3, CallAssumption DEF Call
<1>4. ASSUME UNCHANGED <<rows, unused, th, asked>> PROVE DataInv'
  BY <1>1, <1>4 DEF DataInv, DataOK, Unmet, AnsweredIsStored
<1>5. pane.form # None => pane.id \in Ids /\ pane.form \in Changes
  BY <1>1, Kinds DEF Panes
<1>6. CASE UNCHANGED vars BY <1>1, <1>2, <1>4, <1>6 DEF vars
<1>7. ASSUME NEW t \in Threads, Request(t) PROVE IInv'
  <2>1. ASSUME NEW i \in Ids, NEW row \in Rows, CreateProduct(t, i, row) PROVE IInv'
    <3>1. Call /\ pane' = pane BY <2>1 DEF CreateProduct
    <3> QED BY <1>1, <1>2, <1>3, <2>1, <3>1, CreateStep
  <2>2. ASSUME NEW i \in Ids, NEW change \in Changes, UpdateProduct(t, i, change) PROVE IInv'
    <3>1. Call /\ pane' = pane /\ UpdateRead(t, i, change) BY <2>2 DEF UpdateProduct
    <3> QED BY <1>1, <1>2, <1>3, <3>1, UpdateReadStep
  <2>3. ASSUME NEW i \in Ids, DeleteProduct(t, i) PROVE IInv'
    <3>1. Call /\ pane' = pane /\ DeleteRead(t, i) BY <2>3 DEF DeleteProduct
    <3> QED BY <1>1, <1>2, <1>3, <3>1, DeleteReadStep
  <2> QED BY <1>7, <2>1, <2>2, <2>3 DEF Request
<1>8. ASSUME NEW t \in Threads, Commit(t) PROVE IInv'
  <2>1. UNCHANGED <<pane, calls>> BY <1>8 DEF Commit
  <2>2. CASE UpdateCommit(t) BY <1>1, <1>2, <2>1, <2>2, UpdateCommitStep
  <2>3. CASE DeleteCommit(t) BY <1>1, <1>2, <2>1, <2>3, DeleteCommitStep
  <2> QED BY <1>8, <2>2, <2>3 DEF Commit
<1>9. ASSUME NEW i \in Ids, OpenDetail(i) PROVE IInv'
  <2>1. rows[i] \in Rows \cup {None} BY <1>1 DEF DataInv, DataOK
  <2>2. pane' \in Panes BY <1>9, <2>1 DEF OpenDetail, Panes
  <2> QED BY <1>2, <1>3, <1>4, <1>9, <2>2 DEF OpenDetail
<1>10. ASSUME NEW f \in Fields, NEW v \in Values, Edit(f, v) PROVE IInv'
  <2>1. pane' = [pane EXCEPT !.form[f] = v] /\ pane.form \in Rows
    BY <1>1, <1>10 DEF Edit, Panes
  <2>2. [pane.form EXCEPT ![f] = v] \in Rows BY <2>1 DEF Rows
  <2>3. pane' = [pane EXCEPT !.form = [pane.form EXCEPT ![f] = v]] BY <1>1, <2>1 DEF Panes
  <2>4. pane.form # None /\ pane.id \in Ids BY <1>5, <1>10 DEF Edit
  <2>5. pane.status \in {"", "saved", "failed"} /\ pane = [id |-> pane.id, form |-> pane.form, status |-> pane.status]
    BY <1>1 DEF Panes
  <2>6. pane' = [id |-> pane.id, form |-> [pane.form EXCEPT ![f] = v], status |-> pane.status]
    BY <2>3, <2>5
  <2>7. pane' \in Panes BY <2>2, <2>4, <2>5, <2>6 DEF Panes
  <2> QED BY <1>1, <1>2, <1>4, <1>10, <2>7 DEF Edit
<1>11. CASE SaveForm
  <2>1. Call /\ pane' = pane /\ UpdateRead(Loop, pane.id, pane.form) /\ pane.id \in Ids /\ pane.form \in Changes
    BY <1>5, <1>11 DEF SaveForm
  <2> QED BY <1>1, <1>2, <1>3, <2>1, UpdateReadStep, LoopAssumption
<1>12. CASE SaveRefused
  <2>1. pane' \in Panes BY <1>1, <1>12 DEF SaveRefused, Panes
  <2> QED BY <1>2, <1>3, <1>4, <1>12, <2>1 DEF SaveRefused
<1>13. CASE Saved
  <2>1. pane' \in Panes BY <1>1, <1>13 DEF Saved, Panes
  <2> QED BY <1>1, <1>2, <1>13, <2>1, UpdateCommitStep, LoopAssumption DEF Saved
<1> QED BY <1>6, <1>7, <1>8, <1>9, <1>10, <1>11, <1>12, <1>13 DEF Next, View

-----------------------------------------------------------------------------
(* Theorems *)

\* The rows, the transactions and the form always have their types, ids are not
\* drawn twice, and no two products have the same name (models/product.py).
THEOREM ProductTypes == Spec => []TypeOK
<1>1. IInv => TypeOK BY DEF IInv
<1> QED BY <1>1, InitIInv, NextIInv, PTL DEF Spec

\* What an update was answered with success for is stored, whatever other
\* requests and the detail view read and write between its read and its commit.
THEOREM AnswersAreStored == Spec => []AnsweredIsStored
<1>1. IInv => AnsweredIsStored BY DEF IInv
<1> QED BY <1>1, InitIInv, NextIInv, PTL DEF Spec
=============================================================================
