------------------------------ MODULE Navigation ------------------------------
(***************************************************************************)
(* Navigation: one NavigationService, one FletNavigationAdapter and one    *)
(* FletRouter serve every browser page that opens the application.         *)
(*                                                                         *)
(* A handler of the user interface runs to its end in the event loop, so a *)
(* step is one handler.  External: Flet.  page.go(url) asks the client to  *)
(* change its URL, and the client answers, later and in order, with a      *)
(* route-change event; an event for the route the page already has is      *)
(* dropped.  The user can change the URL as well: then the event may       *)
(* overtake those whose page.go has not reached the client.                *)
(*                                                                         *)
(* Abstracted: a URL is a model value, its view is a protected one or not; *)
(* the layout of views, query strings and path parameters are left out.    *)
(***************************************************************************)
EXTENDS Naturals, Sequences, SequencesExt

CONSTANTS
  Pages,      \* sessions of the user interface
  NoPage,     \* self._page is None
  Urls,
  Home, Login, Manage,  \* "/", "/login", "/manage/users"
  Protected,  \* the URLs of the subclasses of ProtectedView
  Failing,    \* the URLs whose view may raise while it is built
  MaxSteps,   \* bounds the steps of back and forward
  MaxNavs     \* bounds what the users do

ASSUME UrlAssumption == {Home, Login, Manage} \subseteq Urls /\ Login # Home
ASSUME ProtectedAssumption ==
  Manage \in Protected /\ Protected \subseteq Urls \ {Home, Login} /\ Failing \subseteq Urls
ASSUME PageAssumption  == NoPage \notin Pages
ASSUME BoundAssumption == MaxSteps \in Nat /\ MaxNavs \in Nat

VARIABLES
  nav,       \* self._back_stack and self._forward_stack of the service
  bound,     \* the page of the adapter, the last one that was opened
  route,     \* per page: page.route
  queue,     \* per page: its route-change events under way, and who asked
  shown,     \* per page: the view in page.views: its URL and what came of it
  signedIn,  \* whether the one backend has a current user
  navs,      \* what the users did so far
  overlap    \* history: navigations overlapped since the queues were empty

vars == <<nav, bound, route, queue, shown, signedIn, navs, overlap>>

\* "blank": page.views is empty
Kinds == {"closed", "blank", "view", "form", "empty", "error"}

TypeOK ==
  /\ nav \in [back : Seq(Urls), forward : Seq(Urls)] /\ nav.back # <<>>
  /\ bound \in Pages \cup {NoPage}
  /\ route \in [Pages -> Urls]
  /\ queue \in [Pages -> Seq([url : Urls, by : {"service", "user"}])]
  /\ shown \in [Pages -> [url : Urls, kind : Kinds]]
  /\ signedIn \in BOOLEAN
  /\ navs \in 0 .. MaxNavs
  /\ overlap \in BOOLEAN

Init ==
  /\ nav = [back |-> <<Home>>, forward |-> <<>>]
  /\ bound = NoPage
  /\ route = [p \in Pages |-> Home]
  /\ queue = [p \in Pages |-> <<>>]
  /\ shown = [p \in Pages |-> [url |-> Home, kind |-> "closed"]]
  /\ signedIn = FALSE /\ navs = 0 /\ overlap = FALSE

-----------------------------------------------------------------------------
(* NavigationService: the stacks after an action *)

Current(h) == h.back[Len(h.back)]

\* Mutant of Visit: the forward stack is kept.
VisitKeepsForward(h, u) ==
  IF u = Current(h) THEN h ELSE [h EXCEPT !.back = Append(@, u)]

Visit(h, u) ==
  IF u = Current(h) THEN h ELSE [back |-> Append(h.back, u), forward |-> <<>>]

\* pop from one stack and append to the other, n times
GoBack(h, n) ==
  LET k == Len(h.back) - n
  IN  [back    |-> SubSeq(h.back, 1, k),
       forward |-> h.forward \o Reverse(SubSeq(h.back, k + 1, Len(h.back)))]

GoForward(h, n) ==
  LET k == Len(h.forward) - n
  IN  [back    |-> h.back \o Reverse(SubSeq(h.forward, k + 1, Len(h.forward))),
       forward |-> SubSeq(h.forward, 1, k)]

AtMost(n, limit) == IF n < limit THEN n ELSE limit

-----------------------------------------------------------------------------
(* nav.route_changed, EventBus, FletNavigationAdapter and page.go *)

PageGo(q, p, u, who) == [q EXCEPT ![p] = Append(@, [url |-> u, by |-> who])]

\* Mutant of Announce: the payload is made before the stacks change.
AnnouncePrevious(q, rt, b, h, new) ==
  IF new = h \/ b = NoPage \/ rt[b] = Current(new)
  THEN q ELSE PageGo(q, b, Current(h), "service")

\* The queues after the service went from h to new, with the page b bound: the
\* event leads to page.go unless Flet already knows the URL.
Announce(q, rt, b, h, new) ==
  IF new = h \/ b = NoPage \/ rt[b] = Current(new)
  THEN q ELSE PageGo(q, b, Current(new), "service")

Quiet(q) == \A p \in Pages : q[p] = <<>>

\* the bookkeeping of overlap: a navigation met another one under way
Overlaps(isNew) ==
  overlap' = (/\ ~Quiet(queue')
              /\ \/ overlap
                 \/ isNew /\ ~Quiet(queue)
                 \/ \E p \in Pages : Len(queue'[p]) > 1)

\* a click makes the service go to new, which publishes the event
ClickTo(new) ==
  /\ nav' = new
  /\ queue' = Announce(queue, route, bound, nav, new)
  /\ Overlaps(TRUE)
  /\ UNCHANGED <<bound, route, shown>>

\* a user acts on an open page
Act(p) ==
  /\ shown[p].kind # "closed" /\ navs < MaxNavs
  /\ navs' = navs + 1

-----------------------------------------------------------------------------
(* FletRouter and ProtectedView *)

\* ProtectedView.render asks backend.auth.current_user()
Refused(u) == u \in Protected /\ ~signedIn

\* LoginView shows its form, or who is signed in already
LoginView == IF signedIn THEN "view" ELSE "form"

\* What _resolve makes of a URL: its view, the empty view of a page that asks for
\* a user, or the error page if the view raised.
Rendered(u) ==
  IF Refused(u) THEN {"empty"}
  ELSE {IF u = Login THEN LoginView ELSE "view"} \cup (IF u \in Failing THEN {"error"} ELSE {})

\* Mutant of RouteChange: the redirect is pushed, but not announced.
RouteChangeSilent(p, rt, q, b) ==
  \E kind \in Rendered(rt[p]) :
    LET at   == Visit(nav, rt[p])
        last == IF kind = "empty" THEN Visit(at, Login) ELSE at
    IN  /\ nav' = last
        /\ queue' = Announce(q, rt, b, nav, at)
        /\ route' = rt
        /\ shown' = [shown EXCEPT ![p] = [url |-> rt[p], kind |-> kind]]

\* route_change, with the page's new route in rt: the service visits it, then
\* the view is built, and a protected one may visit /login
RouteChange(p, rt, q, b) ==
  \E kind \in Rendered(rt[p]) :
    LET at   == Visit(nav, rt[p])
        last == IF kind = "empty" THEN Visit(at, Login) ELSE at
    IN  /\ nav' = last
        /\ queue' = Announce(Announce(q, rt, b, nav, at), rt, b, at, last)
        /\ route' = rt
        /\ shown' = [shown EXCEPT ![p] = [url |-> rt[p], kind |-> kind]]

\* flet_main: a new session, opened at some URL, is bound and rendered
Connect(p, u) ==
  /\ shown[p].kind = "closed" /\ navs < MaxNavs
  /\ navs' = navs + 1
  /\ bound' = p
  /\ RouteChange(p, [route EXCEPT ![p] = u], queue, p)
  /\ Overlaps(TRUE)
  /\ UNCHANGED signedIn

\* a route-change event for a new route
Deliver(p) ==
  /\ queue[p] # <<>> /\ Head(queue[p]).url # route[p]
  /\ RouteChange(p, [route EXCEPT ![p] = Head(queue[p]).url],
                 [queue EXCEPT ![p] = Tail(@)], bound)
  /\ Overlaps(FALSE)
  /\ UNCHANGED <<bound, signedIn, navs>>

\* ... and one for the route the page has
DeliverKnown(p) ==
  /\ queue[p] # <<>> /\ Head(queue[p]).url = route[p]
  /\ queue' = [queue EXCEPT ![p] = Tail(@)]
  /\ Overlaps(FALSE)
  /\ UNCHANGED <<nav, bound, route, shown, signedIn, navs>>

\* the browser's own back button, or a URL typed into its address bar
Browse(p, u) ==
  /\ Act(p)
  /\ \E i \in 1 .. Len(queue[p]) + 1 :
       queue' = [queue EXCEPT ![p] = InsertAt(@, i, [url |-> u, by |-> "user"])]
  /\ Overlaps(TRUE)
  /\ UNCHANGED <<nav, bound, route, shown, signedIn>>

\* view_pop: page.views holds one view, so what is left is empty
ViewPop(p) ==
  /\ Act(p)
  /\ shown' = [shown EXCEPT ![p].kind = "blank"]
  /\ UNCHANGED <<nav, bound, route, queue, signedIn, overlap>>

\* "Home" on the error page calls page.go itself
ErrorHome(p) ==
  /\ Act(p) /\ shown[p].kind = "error"
  /\ queue' = PageGo(queue, p, Home, "user")
  /\ Overlaps(TRUE)
  /\ UNCHANGED <<nav, bound, route, shown, signedIn>>

-----------------------------------------------------------------------------
(* Buttons, tabs, the bar of DevNav, and the login view *)

\* app bar, side bar, DevNav and content: what BaseView.render puts around a view
HasControls(p) == shown[p].kind \in {"view", "form"}

\* any button, tab, history entry or URL field
Go(p, u) ==
  /\ Act(p) /\ HasControls(p)
  /\ ClickTo(Visit(nav, u))
  /\ UNCHANGED signedIn

\* fails on the first page, or with less than one step
Back(p, steps) ==
  /\ Act(p) /\ HasControls(p)
  /\ Len(nav.back) > 1 /\ steps >= 1
  /\ ClickTo(GoBack(nav, AtMost(steps, Len(nav.back) - 1)))
  /\ UNCHANGED signedIn

Forward(p, steps) ==
  /\ Act(p) /\ HasControls(p)
  /\ Len(nav.forward) > 0 /\ steps >= 1
  /\ ClickTo(GoForward(nav, AtMost(steps, Len(nav.forward))))
  /\ UNCHANGED signedIn

\* Mutant of Clear: the current page goes too.
ClearAll(p) ==
  /\ Act(p) /\ HasControls(p)
  /\ nav' = [back |-> <<>>, forward |-> <<>>]
  /\ UNCHANGED <<bound, route, queue, shown, signedIn, overlap>>

\* publishes nothing
Clear(p) ==
  /\ Act(p) /\ HasControls(p)
  /\ nav' = [back |-> <<Current(nav)>>, forward |-> <<>>]
  /\ UNCHANGED <<bound, route, queue, shown, signedIn, overlap>>

\* the login succeeds; one that fails changes nothing but a message
SignIn(p) ==
  /\ Act(p) /\ shown[p].kind = "form"
  /\ signedIn' = TRUE
  /\ ClickTo(Visit(nav, Manage))

SignOut(p) ==
  /\ Act(p) /\ shown[p] = [url |-> Login, kind |-> "view"]
  /\ signedIn' = FALSE
  /\ ClickTo(Visit(nav, Home))

-----------------------------------------------------------------------------
Handle(p) == Deliver(p) \/ DeliverKnown(p)

\* what a view can ask of the service
NavActions(p) ==
  \/ \E u \in Urls : Go(p, u)
  \/ \E n \in 0 .. MaxSteps : Back(p, n) \/ Forward(p, n)
  \/ Clear(p)

User(p) ==
  \/ \E u \in Urls : Connect(p, u) \/ Browse(p, u)
  \/ NavActions(p) \/ SignIn(p) \/ SignOut(p) \/ ViewPop(p) \/ ErrorHome(p)

Next == \E p \in Pages : User(p) \/ Handle(p)

Spec == Init /\ [][Next]_vars

\* The client answers every page.go, and the event loop handles the answers.
FairSpec == Spec /\ \A p \in Pages : WF_vars(Handle(p))

-----------------------------------------------------------------------------
(* Properties *)

Past == INSTANCE History WITH
  entries <- nav.back \o Reverse(nav.forward), cursor <- Len(nav.back)

\* Whatever the pages do to the service, its two stacks are one browser-like
\* history with a cursor: going back loses nothing, a visit drops exactly what
\* lies ahead, and no entry is followed by itself.
ImplementsHistory == Past!HistorySpec

\* When the page that is bound has handled its events, it is at the current URL
\* of the service: the URL bar and the history are in sync, however navigations,
\* redirects and the other pages interleave.
BoundPageFollows ==
  bound # NoPage /\ queue[bound] = <<>> => route[bound] = Current(nav)

\* "This prevents double-navigation": the echo of one's own page.go finds the
\* service where it was, so it neither adds an entry nor drops those ahead,
\* unless another navigation started before the echo arrived, or a second page
\* shares the service.
EchoKeepsHistory ==
  \A p \in Pages :
    (/\ ~overlap /\ \A r \in Pages \ {p} : shown[r].kind = "closed"
     /\ queue[p] # <<>> /\ Head(queue[p]).by = "service")
    => Head(queue[p]).url = Current(nav)

\* A visitor who is sent away from a protected view does not stay on its empty
\* page: the redirect arrives, or another page has taken the adapter over.
RedirectArrives ==
  \A p \in Pages :
    shown[p].kind = "empty" /\ bound = p ~> shown[p].kind # "empty" \/ bound # p
=============================================================================
