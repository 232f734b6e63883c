-------------------------------- MODULE Probes --------------------------------
(***************************************************************************)
(* Probes: the two admin views, which show the live status of every        *)
(* registered database and of every registered cache, beside the wiring    *)
(* that may replace what they probe.                                       *)
(*                                                                         *)
(* A view fills its cards from a dictionary all views of its class share,  *)
(* and schedules a task; the task runs in the event loop, hands the names  *)
(* without a status to worker threads, and resumes when they are done.     *)
(* Abstracted: a status is the generation of what was probed; whether it   *)
(* was alive, and how fast, no step depends on.                            *)
(***************************************************************************)
EXTENDS Backends

CONSTANTS
  Pages,    \* sessions of the user interface
  MaxTasks  \* bounds the views opened and the refreshes

ASSUME TasksAssumption == MaxTasks \in Nat

VARIABLES
  status,  \* _status_cache of both classes: per name a generation, 0 if absent
  pane,    \* per page: the admin view it shows
  tasks,   \* the probe tasks scheduled so far
  floor    \* history: what was registered at the last refresh that met no probe

probing == <<status, pane, tasks, floor>>
all     == <<wiring, api, probing>>

NamesOf(kind) == CASE kind = "databases" -> Databases [] kind = "caches" -> Caches

NoView == [kind |-> "none", view |-> 0, cards |-> <<>>, met |-> FALSE]

\* a function on some names only
Partial(S, T) == UNION {[D -> T] : D \in SUBSET S}

ProbesTypeOK ==
  /\ TypeOK
  /\ status \in [Names -> Generations] /\ floor \in [Names -> Generations]
  /\ \A p \in Pages :
       /\ pane[p].kind \in {"none", "databases", "caches"}
       /\ pane[p].view \in 0 .. Len(tasks) /\ pane[p].met \in BOOLEAN
       /\ pane[p].cards \in Partial(Names, Generations)
  /\ Len(tasks) <= MaxTasks
  /\ \A i \in DOMAIN tasks :
       /\ tasks[i].pc \in {"scheduled", "measuring", "ended"}
       /\ tasks[i].names \subseteq Names /\ tasks[i].todo \subseteq tasks[i].names
       /\ tasks[i].got \in Partial(tasks[i].todo, Generations \ {0})

ProbesInit ==
  /\ Init
  /\ status = [n \in Names |-> 0] /\ floor = [n \in Names |-> 0]
  /\ pane = [p \in Pages |-> NoView]
  /\ tasks = <<>>

-----------------------------------------------------------------------------
(* The views *)

\* _make_cards: a name without a status is shown as "connecting..." (0)
Cards(names, st) == [n \in names |-> st[n]]

\* page.run_task(_run_probe) for a view on page p
Scheduled(p, kind, view, names) ==
  Append(tasks, [pc |-> "scheduled", page |-> p, kind |-> kind, view |-> view,
                 names |-> names, todo |-> {}, got |-> <<>>])

\* the bookkeeping of met: another view of this kind changed the statuses
Meets(panes, kind, view) ==
  [p \in Pages |->
     [panes[p] EXCEPT !.met = @ \/ (panes[p].kind = kind /\ panes[p].view # view)]]

\* ProtectedView asks for a signed-in user of the backend of today
MayOpen == LoopFree /\ ctx.backend \in sessions /\ Len(tasks) < MaxTasks

\* Mutant of Open: the names that are not registered are listed too.
OpenUnregistered(p, kind) ==
  LET names == NamesOf(kind)
      view  == Len(tasks) + 1
  IN  /\ MayOpen /\ names # {}
      /\ pane' = [pane EXCEPT ![p] = [kind |-> kind, view |-> view, met |-> FALSE,
                                      cards |-> Cards(names, status)]]
      /\ tasks' = Scheduled(p, kind, view, names)
      /\ UNCHANGED <<status, floor>>

\* build_content: a view with nothing to show schedules no task
Open(p, kind) ==
  LET names == {n \in NamesOf(kind) : Registered(registry, n)}
      view  == Len(tasks) + 1
  IN  /\ MayOpen /\ names # {}
      /\ pane' = [pane EXCEPT ![p] = [kind |-> kind, view |-> view, met |-> FALSE,
                                      cards |-> Cards(names, status)]]
      /\ tasks' = Scheduled(p, kind, view, names)
      /\ UNCHANGED <<status, floor>>

OpenDatabases(p) == Open(p, "databases")
OpenCaches(p)    == Open(p, "caches")

\* no probe of the kind has begun that has not written its results
NoneMeasuring(kind) ==
  \A i \in DOMAIN tasks : tasks[i].kind = kind => tasks[i].pc # "measuring"

\* Mutant of Refresh: the statuses are not cleared.
RefreshKeeping(p) ==
  LET v == pane[p]
  IN  /\ LoopFree /\ v # NoView /\ Len(tasks) < MaxTasks
      /\ pane' = Meets(pane, v.kind, v.view)
      /\ tasks' = Scheduled(p, v.kind, v.view, DOMAIN v.cards)
      /\ floor' = [n \in Names |-> IF n \in NamesOf(v.kind) /\ NoneMeasuring(v.kind)
                                   THEN registry[n] ELSE floor[n]]
      /\ UNCHANGED status

\* _on_refresh: the statuses of every view of the kind are cleared, the cards of
\* this one filled again, and its names, not all that are registered, probed
Refresh(p) ==
  LET v == pane[p]
      cleared == [n \in Names |-> IF n \in NamesOf(v.kind) THEN 0 ELSE status[n]]
  IN  /\ LoopFree /\ v # NoView /\ Len(tasks) < MaxTasks
      /\ status' = cleared
      /\ pane' = [Meets(pane, v.kind, v.view) EXCEPT
                    ![p].cards = Cards(DOMAIN v.cards, cleared)]
      /\ tasks' = Scheduled(p, v.kind, v.view, DOMAIN v.cards)
      /\ floor' = [n \in Names |-> IF n \in NamesOf(v.kind) /\ NoneMeasuring(v.kind)
                                   THEN registry[n] ELSE floor[n]]

-----------------------------------------------------------------------------
(* _run_probe *)

Ended(task) == [task EXCEPT !.pc = "ended", !.names = {}, !.todo = {}, !.got = <<>>]

\* up to the await; with every name cached it returns, and the cards stay
StartProbe(i) ==
  LET uncached == {n \in tasks[i].names : status[n] = 0}
  IN  /\ LoopFree /\ tasks[i].pc = "scheduled"
      /\ tasks' = [tasks EXCEPT ![i] =
                     IF uncached = {} THEN Ended(@)
                     ELSE [@ EXCEPT !.pc = "measuring", !.todo = uncached]]
      /\ UNCHANGED <<status, pane, floor>>

\* a worker thread: the tester looks the name up and asks what it finds
Measure(i, n) ==
  /\ n \in tasks[i].todo \ DOMAIN tasks[i].got
  /\ tasks' = [tasks EXCEPT ![i].got =
                 [m \in DOMAIN @ \cup {n} |-> IF m = n THEN registry[n] ELSE @[m]]]
  /\ UNCHANGED <<status, pane, floor>>

TestDatabase(i, n) == n \in Databases /\ Measure(i, n)
TestCache(i, n)    == n \in Caches /\ Measure(i, n)

\* Mutant of EndProbe: the cards are not filled again.
EndProbeSilent(i) ==
  LET task == tasks[i]
      new  == [n \in Names |-> IF n \in task.todo THEN task.got[n] ELSE status[n]]
  IN  /\ LoopFree /\ task.pc = "measuring" /\ DOMAIN task.got = task.todo
      /\ status' = new
      /\ tasks' = [tasks EXCEPT ![i] = Ended(@)]
      /\ pane' = Meets(pane, task.kind, task.view)
      /\ UNCHANGED floor

\* after the await: the results are kept, and the cards of its view filled, if a
\* page still shows it
EndProbe(i) ==
  LET task == tasks[i]
      new  == [n \in Names |-> IF n \in task.todo THEN task.got[n] ELSE status[n]]
      seen == Meets(pane, task.kind, task.view)
  IN  /\ LoopFree /\ task.pc = "measuring" /\ DOMAIN task.got = task.todo
      /\ status' = new
      /\ tasks' = [tasks EXCEPT ![i] = Ended(@)]
      /\ pane' = IF pane[task.page].view = task.view
                 THEN [seen EXCEPT ![task.page].cards = Cards(task.names, new)]
                 ELSE seen
      /\ UNCHANGED floor

-----------------------------------------------------------------------------
Probe(i) ==
  \/ StartProbe(i) \/ EndProbe(i)
  \/ \E n \in Names : TestDatabase(i, n) \/ TestCache(i, n)

AdminViews(p) == OpenDatabases(p) \/ OpenCaches(p) \/ Refresh(p)

ProbeStep ==
  /\ (\E p \in Pages : AdminViews(p)) \/ (\E i \in DOMAIN tasks : Probe(i))
  /\ UNCHANGED <<wiring, api>>

\* requests of the API neither register anything nor sign in: they are left out
ProbesNext ==
  \/ WiringStep /\ UNCHANGED probing
  \/ ProbeStep

ProbesSpec == ProbesInit /\ [][ProbesNext]_all

\* The event loop runs its handlers to the end and resumes its tasks; a worker
\* thread is answered, since the connections have timeouts.
FairProbesSpec ==
  /\ ProbesSpec
  /\ WF_all(Rewire /\ UNCHANGED <<api, probing>>)
  /\ \A i \in 1 .. MaxTasks :
       WF_all(i \in DOMAIN tasks /\ Probe(i) /\ UNCHANGED <<wiring, api>>)

-----------------------------------------------------------------------------
(* Properties *)

Connecting(p, n) == n \in DOMAIN pane[p].cards /\ pane[p].cards[n] = 0

\* A card that says "connecting..." is answered by the probe of its own view,
\* whatever the unlocks of the vault replace meanwhile, unless another view of the
\* same kind clears or writes the statuses.  (Then its task may find every name
\* cached and end without filling the cards.)
ConnectingIsAnswered ==
  \A p \in Pages : \A n \in Names :
    (Connecting(p, n) /\ ~pane[p].met) ~> (~Connecting(p, n) \/ pane[p].met)

\* "Cleared only by the Refresh button": a refresh that meets no probe of its kind
\* under way really renews: no status of anything registered before it is kept or
\* comes back.  (A probe begun before the refresh writes what it found after it.)
RefreshRenews == \A n \in Names : status[n] # 0 => status[n] >= floor[n]
=============================================================================
