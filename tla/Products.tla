------------------------------- MODULE Products -------------------------------
(***************************************************************************)
(* Products: the rows of products, the requests of the API that change     *)
(* them, and the form of the detail view.  An update is one transaction:   *)
(* it reads the row, sets what the request names, and at its commit writes *)
(* the columns that differ from what it read; other requests commit in     *)
(* between.                                                                *)
(*                                                                         *)
(* The view runs in the event loop, so its handlers do not overlap; its    *)
(* form has every field, as they were when the view was built.             *)
(*                                                                         *)
(* Abstracted: the fields have the same few values, and only Name, the     *)
(* unique one, is told apart; whoever writes has a token or is signed in;  *)
(* requests that only read, or fail before they write, are left out.       *)
(***************************************************************************)
EXTENDS Naturals

CONSTANTS
  Threads,
  Loop,     \* the event loop's thread
  Ids,      \* the ids that uuid4 can draw: bounds the products ever created
  Fields,   \* "name", "price", "stock_qty", "is_active"
  Name,     \* the unique one
  Values,
  None,     \* no row, no form
  MaxCalls  \* bounds the requests and clicks

ASSUME LoopAssumption  == Loop \in Threads
ASSUME FieldAssumption == Name \in Fields
ASSUME NoneAssumption  == None \notin Ids /\ None \notin [Fields -> Values]
ASSUME CallAssumption  == MaxCalls \in Nat

VARIABLES
  rows,    \* per id: the row, or None
  unused,  \* ids not drawn yet
  th,      \* per thread: the transaction under way
  pane,    \* the detail view: its product, its form, and the status line
  calls,   \* requests and clicks so far
  asked    \* history: per id, the fields that were answered with success and
           \*   their values, the contended ones left out

vars == <<rows, unused, th, pane, calls, asked>>

Rows    == [Fields -> Values]
Changes == UNION {[D -> Values] : D \in SUBSET Fields}
NoField == [f \in {} |-> None]

\* met, history: the fields that others wrote since this transaction read the row
Idle == [pc |-> "idle", id |-> None, change |-> NoField, read |-> None, met |-> {}]
Txns == [pc : {"idle", "update", "delete"}, id : Ids \cup {None},
         change : Changes, read : Rows \cup {None}, met : SUBSET Fields]

\* form is None if there is no such product
Panes == {v \in [id : Ids \cup {None}, form : Rows \cup {None}, status : {"", "saved", "failed"}] :
            v.form # None => v.id \in Ids}

\* rows, unused, th and asked; no two products have the same name
DataOK ==
  /\ rows \in [Ids -> Rows \cup {None}]
  /\ \A i, j \in Ids :
       rows[i] # None /\ rows[j] # None /\ i # j => rows[i][Name] # rows[j][Name]
  /\ unused \subseteq Ids /\ \A i \in unused : rows[i] = None
  /\ th \in [Threads -> Txns]
  /\ \A t \in Threads :
       /\ th[t].pc # "idle" => th[t].id \in Ids \ unused
       /\ th[t].pc = "update" => th[t].read \in Rows
  /\ asked \in [Ids -> Changes]

TypeOK == DataOK /\ pane \in Panes /\ calls \in 0 .. MaxCalls

Init ==
  /\ rows = [i \in Ids |-> None] /\ unused = Ids
  /\ th = [t \in Threads |-> Idle]
  /\ pane = [id |-> None, form |-> None, status |-> ""]
  /\ calls = 0
  /\ asked = [i \in Ids |-> NoField]

-----------------------------------------------------------------------------
(* ProductRepository *)

Call == calls < MaxCalls /\ calls' = calls + 1

\* the name is free, or the product's own
NameFree(i, n) == \A j \in Ids \ {i} : rows[j] # None => rows[j][Name] # n

Overlay(row, change) ==
  [f \in Fields |-> IF f \in DOMAIN change THEN change[f] ELSE row[f]]

\* SQLAlchemy writes the columns whose value differs from what was read
Dirty(t) == {f \in DOMAIN th[t].change : th[t].change[f] # th[t].read[f]}

\* ... and raises if the row is gone or the name is taken by then; with nothing
\* to write, it does not notice
Succeeds(t) ==
  Dirty(t) # {} =>
    /\ rows[th[t].id] # None
    /\ Name \in Dirty(t) => NameFree(th[t].id, th[t].change[Name])

\* the bookkeeping of met at a commit of t that writes the fields fs
Meet(t, fs) ==
  th' = [u \in Threads |->
           IF u = t THEN Idle
           ELSE IF th[u].pc = "update" /\ th[u].id = th[t].id
                THEN [th[u] EXCEPT !.met = @ \cup fs] ELSE th[u]]

\* the bookkeeping of asked when t is answered with success
Answer(t) ==
  LET change == th[t].change
      old    == asked[th[t].id]
  IN  [f \in (DOMAIN old \cup DOMAIN change) \ (DOMAIN change \cap th[t].met) |->
         IF f \in DOMAIN change THEN change[f] ELSE old[f]]

UpdateRead(t, i, change) ==
  /\ th[t] = Idle /\ rows[i] # None
  /\ th' = [th EXCEPT ![t] = [pc |-> "update", id |-> i, change |-> change,
                              read |-> rows[i], met |-> {}]]
  /\ UNCHANGED <<rows, unused, asked>>

\* Mutant of UpdateCommit: the whole row is written, as it was read.
UpdateCommitWhole(t) ==
  LET i == th[t].id
  IN  /\ th[t].pc = "update"
      /\ IF Succeeds(t) /\ Dirty(t) # {}
           THEN /\ rows' = [rows EXCEPT ![i] = Overlay(th[t].read, th[t].change)]
                /\ asked' = [asked EXCEPT ![i] = Answer(t)]
                /\ Meet(t, Dirty(t))
           ELSE Meet(t, {}) /\ UNCHANGED <<rows, asked>>
      /\ UNCHANGED unused

\* Mutant of UpdateCommit: whether the name is free is not looked at.
UpdateCommitTaken(t) ==
  LET i == th[t].id
      written == [f \in Dirty(t) |-> th[t].change[f]]
  IN  /\ th[t].pc = "update"
      /\ rows' = IF rows[i] # None THEN [rows EXCEPT ![i] = Overlay(rows[i], written)] ELSE rows
      /\ Meet(t, Dirty(t))
      /\ UNCHANGED <<unused, asked>>

\* flush and commit
UpdateCommit(t) ==
  LET i == th[t].id
      written == [f \in Dirty(t) |-> th[t].change[f]]
  IN  /\ th[t].pc = "update"
      /\ rows' = IF Succeeds(t) /\ Dirty(t) # {}
                 THEN [rows EXCEPT ![i] = Overlay(rows[i], written)] ELSE rows
      /\ asked' = IF Succeeds(t) THEN [asked EXCEPT ![i] = Answer(t)] ELSE asked
      /\ Meet(t, IF Succeeds(t) THEN Dirty(t) ELSE {})
      /\ UNCHANGED unused

DeleteRead(t, i) ==
  /\ th[t] = Idle /\ rows[i] # None
  /\ th' = [th EXCEPT ![t] = [Idle EXCEPT !.pc = "delete", !.id = i]]
  /\ UNCHANGED <<rows, unused, asked>>

\* a row that is gone already costs a warning, no more
DeleteCommit(t) ==
  /\ th[t].pc = "delete"
  /\ rows' = [rows EXCEPT ![th[t].id] = None]
  /\ th' = [th EXCEPT ![t] = Idle]
  /\ UNCHANGED <<unused, asked>>

-----------------------------------------------------------------------------
(* The routes of the API *)

\* a name that is taken is an IntegrityError: the request fails
CreateProduct(t, i, row) ==
  /\ Call /\ th[t] = Idle
  /\ i \in unused /\ NameFree(i, row[Name])
  /\ rows' = [rows EXCEPT ![i] = row]
  /\ unused' = unused \ {i}
  /\ asked' = [asked EXCEPT ![i] = row]
  /\ UNCHANGED <<th, pane>>

\* PATCH updates the product whose id the body has, if it has one, and the one of
\* the path otherwise
UpdateProduct(t, i, change) ==
  /\ Call /\ UpdateRead(t, i, change)
  /\ UNCHANGED pane

DeleteProduct(t, i) ==
  /\ Call /\ DeleteRead(t, i)
  /\ UNCHANGED pane

-----------------------------------------------------------------------------
(* ProductDetailView *)

LoopFree == th[Loop] = Idle

\* the view is built with the row of today; without one there is no form
OpenDetail(i) ==
  /\ Call /\ LoopFree
  /\ pane' = [id |-> i, form |-> rows[i], status |-> ""]
  /\ UNCHANGED <<rows, unused, th, asked>>

\* the user edits a field; the status line stays
Edit(f, v) ==
  /\ LoopFree /\ pane.form # None
  /\ pane' = [pane EXCEPT !.form[f] = v]
  /\ UNCHANGED <<rows, unused, th, calls, asked>>

\* all fields are sent, edited or not
SaveForm ==
  /\ Call /\ pane.form # None
  /\ UpdateRead(Loop, pane.id, pane.form)
  /\ UNCHANGED pane

\* the product is gone, or a number cannot be read
SaveRefused ==
  /\ Call /\ LoopFree /\ pane.form # None
  /\ pane' = [pane EXCEPT !.status = "failed"]
  /\ UNCHANGED <<rows, unused, th, asked>>

Saved ==
  /\ UpdateCommit(Loop)
  /\ pane' = [pane EXCEPT !.status = IF Succeeds(Loop) THEN "saved" ELSE "failed"]
  /\ UNCHANGED calls

-----------------------------------------------------------------------------
Request(t) ==
  \/ \E i \in Ids, row \in Rows : CreateProduct(t, i, row)
  \/ \E i \in Ids, change \in Changes : UpdateProduct(t, i, change)
  \/ \E i \in Ids : DeleteProduct(t, i)

Commit(t) == (UpdateCommit(t) \/ DeleteCommit(t)) /\ UNCHANGED <<pane, calls>>

View ==
  \/ \E i \in Ids : OpenDetail(i)
  \/ \E f \in Fields, v \in Values : Edit(f, v)
  \/ SaveForm \/ SaveRefused \/ Saved

Next == View \/ \E t \in Threads \ {Loop} : Request(t) \/ Commit(t)

Spec == Init /\ [][Next]_vars

-----------------------------------------------------------------------------
(* Properties *)

\* What a create, a PATCH or a save of the form was answered with success for is
\* what the row holds, until the next one that names the same field: requests
\* for different fields never undo each other, although each of them has read
\* the whole row before the other wrote.  (Two that name the same field and
\* overlap may both succeed, and one of them without effect.)
AnsweredIsStored ==
  \A i \in Ids : rows[i] # None =>
    \A f \in DOMAIN asked[i] : rows[i][f] = asked[i][f]
=============================================================================
