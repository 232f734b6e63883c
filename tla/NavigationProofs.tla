--------------------------- MODULE NavigationProofs ---------------------------
(***************************************************************************)
(* Proofs about Navigation, for any pages, URLs and bounds: the types, the *)
(* page that is bound follows the service, echoes leave the history alone, *)
(* and the two stacks implement a History.                                 *)
(*                                                                         *)
(* BoundPageFollows speaks of an empty queue only.  What carries it there  *)
(* is Follows: while the page and the service are at different URLs, some  *)
(* event under way will move the page.                                     *)
(***************************************************************************)
EXTENDS Navigation, SequenceTheorems, TLAPS

Histories == {h \in [back : Seq(Urls), forward : Seq(Urls)] : h.back # <<>>}
Events    == [url : Urls, by : {"service", "user"}]
Queues    == [Pages -> Seq(Events)]

\* the page b with the routes rt, its queue in q, and the service in h
Synced(q, rt, b, h) ==
  b \in Pages => rt[b] = Current(h) \/ \E i \in DOMAIN q[b] : q[b][i].url # rt[b]

Follows == Synced(queue, route, bound, nav)

\* nobody is sent to a page that is not open
ClosedIsIdle ==
  \A p \in Pages : shown[p].kind = "closed" => queue[p] = <<>> /\ bound # p

OneUnderWay == ~overlap => \A p \in Pages : Len(queue[p]) <= 1

IInv == TypeOK /\ Follows /\ ClosedIsIdle /\ OneUnderWay /\ EchoKeepsHistory

-----------------------------------------------------------------------------
(* The stacks *)

Entries(h) == h.back \o Reverse(h.forward)

\* one page or several were opened: what lay ahead is gone
Opened(h, new) ==
  /\ Len(new.back) > Len(h.back) /\ new.forward = <<>>
  /\ \A i \in 1 .. Len(h.back) : new.back[i] = h.back[i]
  /\ \A i \in Len(h.back) .. Len(new.back) - 1 : new.back[i] # new.back[i + 1]

LEMMA ReverseProperties ==
  ASSUME NEW S, NEW s \in Seq(S)
  PROVE  /\ Reverse(s) \in Seq(S) /\ Len(Reverse(s)) = Len(s)
         /\ \A i \in 1 .. Len(s) : Reverse(s)[i] = s[Len(s) - i + 1]
<1>1. Len(s) \in Nat /\ \A i \in 1 .. Len(s) : s[i] \in S BY LenProperties
<1>2. \A i \in 1 .. Len(s) : Len(s) - i + 1 \in 1 .. Len(s) BY <1>1
<1>3. Reverse(s) \in [1 .. Len(s) -> S] BY <1>1, <1>2 DEF Reverse
<1> QED BY <1>1, <1>3 DEF Reverse

LEMMA ReverseTwice == ASSUME NEW S, NEW s \in Seq(S) PROVE Reverse(Reverse(s)) = s
<1>1. Len(s) \in Nat BY LenProperties
<1>2. /\ Reverse(s) \in Seq(S) /\ Len(Reverse(s)) = Len(s)
      /\ \A i \in 1 .. Len(s) : Reverse(s)[i] = s[Len(s) - i + 1]
  BY ReverseProperties
<1>3. /\ Reverse(Reverse(s)) \in Seq(S) /\ Len(Reverse(Reverse(s))) = Len(s)
      /\ \A i \in 1 .. Len(s) : Reverse(Reverse(s))[i] = Reverse(s)[Len(s) - i + 1]
  BY <1>2, ReverseProperties
<1>4. ASSUME NEW i \in 1 .. Len(s) PROVE Reverse(Reverse(s))[i] = s[i]
  <2>1. Len(s) - i + 1 \in 1 .. Len(s) /\ Len(s) - (Len(s) - i + 1) + 1 = i BY <1>1
  <2> QED BY <1>2, <1>3, <2>1
<1> QED BY <1>3, <1>4, SeqEqual

LEMMA ReverseConcat ==
  ASSUME NEW S, NEW s \in Seq(S), NEW t \in Seq(S)
  PROVE  Reverse(s \o t) = Reverse(t) \o Reverse(s)
<1> DEFINE st == s \o t
           ts == Reverse(t) \o Reverse(s)
           m == Len(s)
           n == Len(t)
<1>1. m \in Nat /\ n \in Nat BY LenProperties
<1>2. /\ st \in Seq(S) /\ Len(st) = m + n
      /\ \A i \in 1 .. m + n : st[i] = IF i <= m THEN s[i] ELSE t[i - m]
  BY ConcatProperties
<1>3. /\ Reverse(s) \in Seq(S) /\ Len(Reverse(s)) = m
      /\ \A i \in 1 .. m : Reverse(s)[i] = s[m - i + 1]
  BY ReverseProperties
<1>4. /\ Reverse(t) \in Seq(S) /\ Len(Reverse(t)) = n
      /\ \A i \in 1 .. n : Reverse(t)[i] = t[n - i + 1]
  BY ReverseProperties
<1>5. \A x, y \in Seq(S) :
        /\ x \o y \in Seq(S) /\ Len(x \o y) = Len(x) + Len(y)
        /\ \A i \in 1 .. Len(x) + Len(y) : (x \o y)[i] =
             IF i <= Len(x) THEN x[i] ELSE y[i - Len(x)]
  BY ConcatProperties
<1> HIDE DEF m, n
<1>6. ts \in Seq(S) /\ Len(ts) = n + m BY <1>3, <1>4, <1>5
<1>7. \A i \in 1 .. n + m : ts[i] = IF i <= n THEN Reverse(t)[i] ELSE Reverse(s)[i - n]
  <2>1. \A i \in 1 .. Len(Reverse(t)) + Len(Reverse(s)) : ts[i] =
          IF i <= Len(Reverse(t)) THEN Reverse(t)[i] ELSE Reverse(s)[i - Len(Reverse(t))]
    BY <1>3, <1>4, <1>5
  <2> HIDE DEF ts
  <2> QED BY <1>3, <1>4, <2>1
<1> HIDE DEF st, ts
<1>8. /\ Reverse(st) \in Seq(S) /\ Len(Reverse(st)) = Len(st)
      /\ \A i \in 1 .. Len(st) : Reverse(st)[i] = st[Len(st) - i + 1]
  BY <1>2, ReverseProperties
<1>9. ASSUME NEW i \in 1 .. m + n PROVE Reverse(st)[i] = st[m + n - i + 1]
  <2>1. i \in 1 .. Len(st) BY <1>2
  <2>2. Reverse(st)[i] = st[Len(st) - i + 1] BY <1>8, <2>1
  <2>3. Len(st) - i + 1 = m + n - i + 1 BY <1>1, <1>2
  <2> QED BY <2>2, <2>3
<1>10. ASSUME NEW i \in 1 .. m + n PROVE Reverse(st)[i] = ts[i]
  <2>1. CASE i <= n
    <3>1. m + n - i + 1 \in 1 .. m + n /\ ~(m + n - i + 1 <= m)
          /\ m + n - i + 1 - m = n - i + 1 /\ i \in 1 .. n /\ i \in 1 .. n + m
      BY <1>1, <2>1
    <3> DEFINE j == m + n - i + 1
    <3>4. st[j] = IF j <= m THEN s[j] ELSE t[j - m] BY <1>2, <3>1
    <3>2. st[j] = t[n - i + 1] BY <1>1, <3>1, <3>4
    <3>3. ts[i] = t[n - i + 1] BY <1>4, <1>7, <2>1, <3>1
    <3> QED BY <1>9, <3>2, <3>3
  <2>2. CASE i > n
    <3>1. m + n - i + 1 \in 1 .. m + n /\ m + n - i + 1 <= m
          /\ m - (i - n) + 1 = m + n - i + 1 /\ i - n \in 1 .. m /\ ~(i <= n)
          /\ i \in 1 .. n + m
      BY <1>1, <2>2
    <3>2. st[m + n - i + 1] = s[m + n - i + 1] BY <1>2, <3>1
    <3>3. ts[i] = s[m - (i - n) + 1] BY <1>3, <1>7, <3>1
    <3> QED BY <1>9, <3>1, <3>2, <3>3
  <2> QED BY <1>1, <2>1, <2>2
<1>11. Reverse(st) = ts
  <2>1. /\ Len(Reverse(st)) = Len(ts)
        /\ \A i \in 1 .. Len(Reverse(st)) : Reverse(st)[i] = ts[i]
    BY <1>1, <1>2, <1>6, <1>8, <1>10
  <2> QED BY <1>6, <1>8, <2>1, SeqEqual
<1> QED BY <1>11 DEF st, ts

LEMMA SplitSeq ==
  ASSUME NEW S, NEW s \in Seq(S), NEW k \in 0 .. Len(s)
  PROVE  LET left  == SubSeq(s, 1, k)
             right == SubSeq(s, k + 1, Len(s))
         IN  /\ left \in Seq(S) /\ right \in Seq(S) /\ left \o right = s
             /\ Len(left) = k /\ Len(right) = Len(s) - k
<1>1. Len(s) \in Nat /\ \A i \in 1 .. Len(s) : s[i] \in S BY LenProperties
<1>2. SubSeq(s, 1, k) \in Seq(S) /\ Len(SubSeq(s, 1, k)) = k BY <1>1, SubSeqProperties
<1>3. /\ SubSeq(s, k + 1, Len(s)) \in Seq(S)
      /\ Len(SubSeq(s, k + 1, Len(s))) = Len(s) - k
  BY <1>1, SubSeqProperties
<1>4. SubSeq(s, 1, k) \o SubSeq(s, k + 1, Len(s)) = SubSeq(s, 1, Len(s))
  <2>1. 1 \in 1 .. Len(s) + 1 /\ k \in 1 - 1 .. Len(s) /\ Len(s) \in k .. Len(s) BY <1>1
  <2> QED BY <2>1, ConcatAdjacentSubSeq
<1>5. SubSeq(s, 1, Len(s)) = s BY SubSeqFull
<1> QED BY <1>2, <1>3, <1>4, <1>5

LEMMA Associative == \A x, y, z \in Seq(Urls) : (x \o y) \o z = x \o (y \o z)
BY ConcatAssociative

LEMMA CurrentUrl == ASSUME NEW h \in Histories PROVE Current(h) \in Urls /\ Len(h.back) \in Nat \ {0}
BY DEF Histories, Current

\* A visit leads to the URL, and is no step or opens one page.
LEMMA VisitOpens ==
  ASSUME NEW h \in Histories, NEW u \in Urls
  PROVE  /\ Visit(h, u) \in Histories /\ Current(Visit(h, u)) = u
         /\ Visit(h, u) = h \/ Opened(h, Visit(h, u))
<1>1. CASE u = Current(h) BY <1>1 DEF Visit
<1>2. CASE u # Current(h)
  <2>1. Visit(h, u) = [back |-> Append(h.back, u), forward |-> <<>>] BY <1>2 DEF Visit
  <2>2. /\ Append(h.back, u) \in Seq(Urls) /\ Len(Append(h.back, u)) = Len(h.back) + 1
        /\ \A i \in 1 .. Len(h.back) : Append(h.back, u)[i] = h.back[i]
        /\ Append(h.back, u)[Len(h.back) + 1] = u
    BY AppendProperties DEF Histories
  <2>3. Len(h.back) \in Nat \ {0} BY CurrentUrl
  <2>4. Visit(h, u) \in Histories BY <2>1, <2>2, <2>3 DEF Histories
  <2>5. Current(Visit(h, u)) = u BY <2>1, <2>2 DEF Current
  <2>6. Opened(h, Visit(h, u))
    <3>1. Visit(h, u).back = Append(h.back, u) /\ Visit(h, u).forward = <<>> BY <2>1
    <3>2. Len(h.back) .. (Len(h.back) + 1) - 1 = {Len(h.back)} BY <2>3
    <3>3. h.back[Len(h.back)] # u BY <1>2 DEF Current
    <3>4. Len(h.back) \in 1 .. Len(h.back) /\ Len(h.back) + 1 > Len(h.back) BY <2>3
    <3>5. Append(h.back, u)[Len(h.back)] # Append(h.back, u)[Len(h.back) + 1]
      BY <2>2, <3>3, <3>4
    <3> QED BY <2>2, <3>1, <3>2, <3>4, <3>5 DEF Opened
  <2> QED BY <2>4, <2>5, <2>6
<1> QED BY <1>1, <1>2

\* Two visits, a page and the one it redirects to.
LEMMA VisitTwice ==
  ASSUME NEW h \in Histories, NEW u \in Urls, NEW w \in Urls
  PROVE  Visit(Visit(h, u), w) = h \/ Opened(h, Visit(Visit(h, u), w))
<1>1. PICK at \in Histories : at = Visit(h, u) /\ (at = h \/ Opened(h, at)) BY VisitOpens
<1>2. PICK last \in Histories : last = Visit(at, w) /\ (last = at \/ Opened(at, last))
  BY VisitOpens
<1>3. Opened(h, at) /\ Opened(at, last) => Opened(h, last)
  <2>1. /\ Len(h.back) \in Nat \ {0} /\ Len(at.back) \in Nat \ {0}
        /\ Len(last.back) \in Nat \ {0}
    BY CurrentUrl
  <2> QED BY <2>1 DEF Opened
<1>4. last = h \/ Opened(h, last) BY <1>1, <1>2, <1>3
<1> QED BY <1>1, <1>2, <1>4

\* Back and forward move the cursor and keep the entries.
LEMMA BackMoves ==
  ASSUME NEW h \in Histories, NEW n \in 1 .. Len(h.back) - 1
  PROVE  /\ GoBack(h, n) \in Histories
         /\ Entries(GoBack(h, n)) = Entries(h)
         /\ Len(GoBack(h, n).back) = Len(h.back) - n
<1> DEFINE k == Len(h.back) - n
           left == SubSeq(h.back, 1, k)
           moved == SubSeq(h.back, k + 1, Len(h.back))
<1>1. /\ h.back \in Seq(Urls) /\ h.forward \in Seq(Urls) /\ Len(h.back) \in Nat
      /\ k \in 1 .. Len(h.back)
  BY CurrentUrl DEF Histories
<1> HIDE DEF k
<1>2. GoBack(h, n) = [back |-> left, forward |-> h.forward \o Reverse(moved)]
  BY DEF GoBack, k
<1>3. left \in Seq(Urls) /\ Len(left) = k /\ moved \in Seq(Urls) /\ left \o moved = h.back
  BY <1>1, SplitSeq
<1> HIDE DEF left, moved
<1>4. /\ Reverse(h.forward) \in Seq(Urls) /\ Reverse(moved) \in Seq(Urls)
      /\ Reverse(h.forward \o Reverse(moved)) = moved \o Reverse(h.forward)
  <2>1. Reverse(h.forward) \in Seq(Urls) /\ Reverse(moved) \in Seq(Urls)
    BY <1>1, <1>3, ReverseProperties
  <2>2. Reverse(Reverse(moved)) = moved BY <1>3, ReverseTwice
  <2>3. Reverse(h.forward \o Reverse(moved)) = Reverse(Reverse(moved)) \o Reverse(h.forward)
    BY <1>1, <2>1, ReverseConcat
  <2> QED BY <2>1, <2>2, <2>3
<1>5. left \o (moved \o Reverse(h.forward)) = h.back \o Reverse(h.forward)
  <2>1. (left \o moved) \o Reverse(h.forward) = left \o (moved \o Reverse(h.forward))
    BY <1>3, <1>4, Associative
  <2> QED BY <1>3, <2>1
<1>6. h.forward \o Reverse(moved) \in Seq(Urls) BY <1>1, <1>4, ConcatProperties
<1>7. Len(left) = Len(h.back) - n /\ left # <<>> BY <1>1, <1>3 DEF k
<1>8. /\ GoBack(h, n).back = left
      /\ GoBack(h, n).forward = h.forward \o Reverse(moved)
  BY <1>2
<1>9. Entries(GoBack(h, n)) = Entries(h) BY <1>4, <1>5, <1>8 DEF Entries
<1>10. GoBack(h, n) \in Histories BY <1>2, <1>3, <1>6, <1>7 DEF Histories
<1> QED BY <1>7, <1>8, <1>9, <1>10

LEMMA ForwardMoves ==
  ASSUME NEW h \in Histories, NEW n \in 1 .. Len(h.forward)
  PROVE  /\ GoForward(h, n) \in Histories
         /\ Entries(GoForward(h, n)) = Entries(h)
         /\ Len(GoForward(h, n).back) = Len(h.back) + n
<1> DEFINE k == Len(h.forward) - n
           left == SubSeq(h.forward, 1, k)
           moved == SubSeq(h.forward, k + 1, Len(h.forward))
<1>1. /\ h.back \in Seq(Urls) /\ h.forward \in Seq(Urls) /\ Len(h.forward) \in Nat
      /\ k \in 0 .. Len(h.forward) /\ Len(h.back) \in Nat \ {0} /\ Len(h.forward) - k = n
  BY CurrentUrl, LenProperties DEF Histories
<1> HIDE DEF k
<1>2. GoForward(h, n) = [back |-> h.back \o Reverse(moved), forward |-> left]
  BY DEF GoForward, k
<1>3. /\ left \in Seq(Urls) /\ moved \in Seq(Urls) /\ left \o moved = h.forward
      /\ Len(moved) = n
  BY <1>1, SplitSeq
<1> HIDE DEF left, moved
<1>4. /\ Reverse(left) \in Seq(Urls) /\ Reverse(moved) \in Seq(Urls)
      /\ Len(Reverse(moved)) = n
      /\ Reverse(h.forward) = Reverse(moved) \o Reverse(left)
  BY <1>3, ReverseProperties, ReverseConcat
<1>5. (h.back \o Reverse(moved)) \o Reverse(left) = h.back \o Reverse(h.forward)
  <2>1. (h.back \o Reverse(moved)) \o Reverse(left) = h.back \o (Reverse(moved) \o Reverse(left))
    BY <1>1, <1>4, Associative
  <2> QED BY <1>4, <2>1
<1>6. /\ h.back \o Reverse(moved) \in Seq(Urls)
      /\ Len(h.back \o Reverse(moved)) = Len(h.back) + n
  BY <1>1, <1>4, ConcatProperties
<1>7. h.back \o Reverse(moved) # <<>> BY <1>1, <1>6
<1>8. /\ GoForward(h, n).back = h.back \o Reverse(moved)
      /\ GoForward(h, n).forward = left
  BY <1>2
<1>9. Entries(GoForward(h, n)) = Entries(h) BY <1>5, <1>8 DEF Entries
<1>10. GoForward(h, n) \in Histories BY <1>2, <1>3, <1>6, <1>7 DEF Histories
<1> QED BY <1>6, <1>8, <1>9, <1>10

-----------------------------------------------------------------------------
(* The events *)

\* An announcement reaches the page that is bound only, and only if Flet does not
\* know the URL yet.
LEMMA AnnounceSends ==
  ASSUME NEW q \in Queues, NEW rt \in [Pages -> Urls], NEW b \in Pages \cup {NoPage},
         NEW h \in Histories, NEW new \in Histories
  PROVE  /\ Announce(q, rt, b, h, new) \in Queues
         /\ \A p \in Pages \ {b} : Announce(q, rt, b, h, new)[p] = q[p]
         /\ b \in Pages =>
              Announce(q, rt, b, h, new)[b] =
                IF new = h \/ rt[b] = Current(new) THEN q[b]
                ELSE Append(q[b], [url |-> Current(new), by |-> "service"])
<1> DEFINE e == [url |-> Current(new), by |-> "service"]
<1>1. Current(new) \in Urls BY CurrentUrl
<1>2. CASE b \in Pages /\ new # h /\ rt[b] # Current(new)
  <2>1. Announce(q, rt, b, h, new) = [q EXCEPT ![b] = Append(q[b], e)]
    BY <1>2, PageAssumption DEF Announce, PageGo
  <2>2. Append(q[b], e) \in Seq(Events) BY <1>1, <1>2, AppendProperties DEF Queues, Events
  <2> QED BY <1>2, <2>1, <2>2 DEF Queues
<1>3. CASE ~(b \in Pages /\ new # h /\ rt[b] # Current(new))
  <2>1. Announce(q, rt, b, h, new) = q BY <1>3 DEF Announce
  <2> QED BY <1>3, <2>1
<1> QED BY <1>2, <1>3

\* ... and keeps the bound page on its way to the service.
LEMMA AnnounceSyncs ==
  ASSUME NEW q \in Queues, NEW rt \in [Pages -> Urls], NEW b \in Pages \cup {NoPage},
         NEW h \in Histories, NEW new \in Histories, Synced(q, rt, b, h)
  PROVE  Synced(Announce(q, rt, b, h, new), rt, b, new)
<1> SUFFICES ASSUME b \in Pages, rt[b] # Current(new)
             PROVE  \E i \in DOMAIN Announce(q, rt, b, h, new)[b] :
                      Announce(q, rt, b, h, new)[b][i].url # rt[b]
  BY DEF Synced
<1> DEFINE e == [url |-> Current(new), by |-> "service"]
<1>1. Announce(q, rt, b, h, new)[b] = IF new = h THEN q[b] ELSE Append(q[b], e)
  BY AnnounceSends
<1>2. CASE new = h BY <1>1, <1>2 DEF Synced
<1>3. CASE new # h
  <2>1. q[b] \in Seq(Events) /\ e \in Events BY CurrentUrl DEF Queues, Events
  <2>2. /\ Len(Append(q[b], e)) = Len(q[b]) + 1 /\ Len(q[b]) \in Nat
        /\ Append(q[b], e)[Len(q[b]) + 1] = e
        /\ DOMAIN Append(q[b], e) = 1 .. Len(q[b]) + 1
    BY <2>1, AppendProperties, LenProperties
  <2>3. Len(q[b]) + 1 \in DOMAIN Append(q[b], e) BY <2>2
  <2> QED BY <1>1, <1>3, <2>2, <2>3
<1> QED BY <1>2, <1>3

\* What comes of a route-change event for the page p: the service is at the URL,
\* or, for a protected view nobody may see, at the login, on the way to which p
\* is sent if it is bound.
LEMMA Routed ==
  ASSUME TypeOK, NEW p \in Pages, NEW u \in Urls, NEW q \in Queues,
         NEW b \in Pages \cup {NoPage}, b # p => Synced(q, route, b, nav),
         RouteChange(p, [route EXCEPT ![p] = u], q, b)
  PROVE  /\ nav' \in Histories /\ (nav' = nav \/ Opened(nav, nav'))
         /\ route' = [route EXCEPT ![p] = u]
         /\ shown' \in [Pages -> [url : Urls, kind : Kinds]]
         /\ shown'[p].kind # "closed" /\ \A r \in Pages \ {p} : shown'[r] = shown[r]
         /\ queue' \in Queues /\ \A r \in Pages \ {b} : queue'[r] = q[r]
         /\ b = p => queue'[p] = q[p]
                     \/ /\ Current(nav') = Login
                        /\ queue'[p] = Append(q[p], [url |-> Login, by |-> "service"])
         /\ Synced(queue', route', b, nav')
<1> DEFINE rt == [route EXCEPT ![p] = u]
<1>1. nav \in Histories /\ rt \in [Pages -> Urls] /\ rt[p] = u BY DEF TypeOK, Histories
<1>2. PICK kind \in Rendered(u) :
        LET at   == Visit(nav, u)
            last == IF kind = "empty" THEN Visit(at, Login) ELSE at
        IN  /\ nav' = last
            /\ queue' = Announce(Announce(q, rt, b, nav, at), rt, b, at, last)
            /\ route' = rt
            /\ shown' = [shown EXCEPT ![p] = [url |-> u, kind |-> kind]]
  BY <1>1 DEF RouteChange
<1>3. kind \in Kinds /\ kind # "closed" /\ (kind = "empty" => u # Login)
  BY ProtectedAssumption DEF Rendered, Refused, LoginView, Kinds
<1> DEFINE at == Visit(nav, u)
           q1 == Announce(q, rt, b, nav, at)
<1>4. Login \in Urls BY UrlAssumption
<1>5. at \in Histories /\ Current(at) = u /\ (at = nav \/ Opened(nav, at))
  BY <1>1, VisitOpens
<1> HIDE DEF rt, at
<1>6. q1 \in Queues /\ (\A r \in Pages \ {b} : q1[r] = q[r]) /\ (b = p => q1[p] = q[p])
  <2>1. /\ q1 \in Queues /\ \A r \in Pages \ {b} : q1[r] = q[r]
        /\ b \in Pages => q1[b] = IF at = nav \/ rt[b] = Current(at) THEN q[b]
                          ELSE Append(q[b], [url |-> Current(at), by |-> "service"])
    <3>1. nav \in Histories /\ at \in Histories /\ rt \in [Pages -> Urls] BY <1>1, <1>5
    <3>2. q1 \in Queues BY <3>1, AnnounceSends
    <3>3. ASSUME NEW r \in Pages \ {b} PROVE q1[r] = q[r]
      BY DEF q1, Announce, PageGo, Queues
    <3>4. b \in Pages => q1[b] = IF at = nav \/ rt[b] = Current(at) THEN q[b]
                        ELSE Append(q[b], [url |-> Current(at), by |-> "service"])
      BY <3>1, AnnounceSends
    <3> QED BY <3>2, <3>3, <3>4
  <2> HIDE DEF q1
  <2> QED BY <1>1, <1>5, <2>1
<1> HIDE DEF q1
<1>7. Synced(q1, rt, b, at)
  <2>1. CASE b = p BY <1>1, <1>5, <2>1 DEF Synced
  <2>2. CASE b # p
    <3>1. Synced(q, rt, b, nav) BY <2>2 DEF Synced, TypeOK, rt
    <3> QED BY <1>1, <1>5, <3>1, AnnounceSyncs DEF q1
  <2> QED BY <2>1, <2>2
<1>8. CASE kind # "empty"
  <2>1. nav' = at /\ queue' = Announce(q1, rt, b, at, at) BY <1>2, <1>8 DEF q1, at, rt
  <2>2. queue' = q1 BY <2>1 DEF Announce
  <2> QED BY <1>1, <1>2, <1>3, <1>5, <1>6, <1>7, <2>1, <2>2 DEF TypeOK, rt
<1>9. CASE kind = "empty"
  <2>1. nav' = Visit(at, Login) /\ queue' = Announce(q1, rt, b, at, nav')
    BY <1>2, <1>9 DEF q1, at, rt
  <2>2. /\ nav' \in Histories /\ Current(nav') = Login
        /\ nav' = nav \/ Opened(nav, nav')
    BY <1>1, <1>4, <1>5, <2>1, VisitOpens, VisitTwice DEF at
  <2>3. /\ queue' \in Queues /\ \A r \in Pages \ {b} : queue'[r] = q1[r]
        /\ b = p => queue'[p] = Append(q1[p], [url |-> Login, by |-> "service"])
    <3>1. u # Login /\ nav' # at BY <1>3, <1>5, <1>9, <2>2
    <3>2. /\ queue' \in Queues /\ \A r \in Pages \ {b} : queue'[r] = q1[r]
          /\ b \in Pages => queue'[b] = IF nav' = at \/ rt[b] = Current(nav') THEN q1[b]
                            ELSE Append(q1[b], [url |-> Current(nav'), by |-> "service"])
      <4>1. queue' \in Queues BY <1>1, <1>5, <1>6, <2>1, <2>2, AnnounceSends
      <4>2. ASSUME NEW r \in Pages \ {b} PROVE queue'[r] = q1[r]
        BY <1>6, <2>1 DEF Announce, PageGo, Queues
      <4>3. b \in Pages => queue'[b] = IF nav' = at \/ rt[b] = Current(nav') THEN q1[b]
                            ELSE Append(q1[b], [url |-> Current(nav'), by |-> "service"])
        BY <1>1, <1>5, <1>6, <2>1, <2>2, AnnounceSends
      <4> QED BY <4>1, <4>2, <4>3
    <3> QED BY <1>1, <2>2, <3>1, <3>2
  <2>4. Synced(queue', rt, b, nav') BY <1>1, <1>5, <1>6, <1>7, <2>1, <2>2, AnnounceSyncs
  <2> QED BY <1>1, <1>2, <1>3, <1>6, <2>2, <2>3, <2>4 DEF TypeOK, rt
<1> QED BY <1>8, <1>9

\* After the bookkeeping of overlap: one event at most is under way in a page
\* unless navigations overlapped, and a new one met none.
LEMMA OverlapFacts ==
  ASSUME queue' \in Queues, NEW isNew \in BOOLEAN, Overlaps(isNew)
  PROVE  /\ overlap' \in BOOLEAN /\ OneUnderWay'
         /\ ~overlap' => Quiet(queue') \/ (~overlap /\ (isNew => Quiet(queue)))
<1>1. overlap' = (/\ ~Quiet(queue')
                  /\ \/ overlap
                     \/ isNew /\ ~Quiet(queue)
                     \/ \E p \in Pages : Len(queue'[p]) > 1)
  BY DEF Overlaps
<1>2. ASSUME ~overlap', NEW p \in Pages PROVE Len(queue'[p]) <= 1
  <2>1. Len(queue'[p]) \in Nat BY DEF Queues
  <2>2. CASE Quiet(queue') BY <2>2 DEF Quiet
  <2>3. CASE ~Quiet(queue') BY <1>1, <1>2, <2>1, <2>3
  <2> QED BY <2>2, <2>3
<1> QED BY <1>1, <1>2 DEF OneUnderWay

-----------------------------------------------------------------------------
(* The initial states and every step *)

LEMMA InitIInv == Init => IInv
<1> SUFFICES ASSUME Init PROVE IInv OBVIOUS
<1>1. TypeOK
  <2>1. Home \in Urls /\ <<Home>> \in Seq(Urls) /\ <<Home>> # <<>> BY UrlAssumption
  <2>2. nav \in [back : Seq(Urls), forward : Seq(Urls)] /\ nav.back # <<>> BY <2>1 DEF Init
  <2>3. route \in [Pages -> Urls] /\ shown \in [Pages -> [url : Urls, kind : Kinds]]
    BY <2>1 DEF Init, Kinds
  <2>4. queue \in [Pages -> Seq([url : Urls, by : {"service", "user"}])] BY DEF Init
  <2>5. navs \in 0 .. MaxNavs BY BoundAssumption DEF Init
  <2> QED BY <2>2, <2>3, <2>4, <2>5 DEF Init, TypeOK
<1>2. Follows BY PageAssumption DEF Init, Follows, Synced
<1>3. ClosedIsIdle BY PageAssumption DEF Init, ClosedIsIdle
<1>4. OneUnderWay BY DEF Init, OneUnderWay
<1>5. EchoKeepsHistory BY DEF Init, EchoKeepsHistory
<1> QED BY <1>1, <1>2, <1>3, <1>4, <1>5 DEF IInv

\* What a user does counts.
LEMMA Counts == ASSUME TypeOK, navs < MaxNavs, navs' = navs + 1 PROVE navs' \in 0 .. MaxNavs
BY BoundAssumption DEF TypeOK

\* Any click: only the page that is bound is sent somewhere, and to the new URL.
LEMMA ClickStep ==
  ASSUME IInv, NEW new \in Histories, ClickTo(new), navs' \in 0 .. MaxNavs, signedIn' \in BOOLEAN
  PROVE  IInv'
<1> USE DEF IInv
<1>1. /\ nav' = new /\ queue' = Announce(queue, route, bound, nav, new) /\ Overlaps(TRUE)
      /\ UNCHANGED <<bound, route, shown>>
  BY DEF ClickTo
<1>2. /\ nav \in Histories /\ queue \in Queues /\ route \in [Pages -> Urls]
      /\ bound \in Pages \cup {NoPage}
  BY DEF TypeOK, Histories, Queues, Events
<1>3. queue' \in Queues BY <1>1, <1>2, AnnounceSends
<1>4. ASSUME NEW p \in Pages \ {bound} PROVE queue'[p] = queue[p]
  BY <1>1, <1>2 DEF Announce, PageGo, Queues
<1>5. bound \in Pages => queue'[bound] =
        IF new = nav \/ route[bound] = Current(new) THEN queue[bound]
        ELSE Append(queue[bound], [url |-> Current(new), by |-> "service"])
  BY <1>1, <1>2, AnnounceSends
<1>6. /\ overlap' \in BOOLEAN /\ OneUnderWay'
      /\ ~overlap' => Quiet(queue') \/ Quiet(queue)
  BY <1>1, <1>3, OverlapFacts
<1>7. TypeOK' BY <1>1, <1>2, <1>3, <1>6 DEF TypeOK, Histories, Queues, Events
<1>8. Follows'
  <2>1. Synced(queue', route, bound, new) BY <1>1, <1>2, AnnounceSyncs DEF Follows
  <2> QED BY <1>1, <2>1 DEF Follows
<1>9. ClosedIsIdle' BY <1>1, <1>4 DEF ClosedIsIdle
<1>10. EchoKeepsHistory'
  <2> SUFFICES ASSUME NEW p \in Pages, ~overlap', queue'[p] # <<>>
               PROVE  Head(queue'[p]).url = Current(nav')
    BY DEF EchoKeepsHistory
  <2>1. queue[p] = <<>> BY <1>6 DEF Quiet
  <2>2. bound = p /\ queue'[p] = Append(<<>>, [url |-> Current(new), by |-> "service"])
    BY <1>2, <1>4, <1>5, <2>1
  <2> QED BY <1>1, <2>2
<1> QED BY <1>6, <1>7, <1>8, <1>9, <1>10

\* A step that lets the user move a page p, or the client, without the service.
LEMMA AsideStep ==
  ASSUME IInv, NEW p \in Pages, shown[p].kind # "closed",
         queue' \in Queues, \A r \in Pages \ {p} : queue'[r] = queue[r],
         p = bound => Synced(queue', route, bound, nav),
         Overlaps(TRUE), Quiet(queue) => queue'[p] = <<>> \/ Head(queue'[p]).by = "user",
         navs' \in 0 .. MaxNavs, UNCHANGED <<nav, bound, route, shown, signedIn>>
  PROVE  IInv'
<1> USE DEF IInv
<1>1. /\ overlap' \in BOOLEAN /\ OneUnderWay'
      /\ ~overlap' => Quiet(queue') \/ Quiet(queue)
  BY OverlapFacts
<1>2. TypeOK' BY <1>1 DEF TypeOK, Queues, Events
<1>3. Follows' BY DEF Follows, Synced
<1>4. ClosedIsIdle' BY DEF ClosedIsIdle
<1>5. EchoKeepsHistory' BY <1>1 DEF EchoKeepsHistory, Quiet
<1> QED BY <1>1, <1>2, <1>3, <1>4, <1>5

\* A page's new route, from its opening or from an event: what is under way
\* elsewhere stays, and a redirect finds the service at /login.
LEMMA RoutedStep ==
  ASSUME IInv, NEW p \in Pages, NEW u \in Urls, NEW q \in Queues, NEW isNew \in BOOLEAN,
         bound' \in {bound, p},
         \A r \in Pages \ {p} : q[r] = queue[r],
         RouteChange(p, [route EXCEPT ![p] = u], q, bound'),
         Overlaps(isNew), ~overlap /\ (isNew => Quiet(queue)) => q[p] = <<>>,
         navs' \in 0 .. MaxNavs, signedIn' \in BOOLEAN
  PROVE  IInv'
<1> USE DEF IInv
<1>1. bound' \in Pages \cup {NoPage} BY DEF TypeOK
<1>2. bound' # p => Synced(q, route, bound', nav) BY DEF Follows, Synced
<1>3. /\ nav' \in Histories /\ route' = [route EXCEPT ![p] = u]
      /\ shown' \in [Pages -> [url : Urls, kind : Kinds]]
      /\ shown'[p].kind # "closed"
      /\ queue' \in Queues
      /\ bound' = p => queue'[p] = q[p]
                       \/ /\ Current(nav') = Login
                          /\ queue'[p] = Append(q[p], [url |-> Login, by |-> "service"])
      /\ Synced(queue', route', bound', nav')
  BY <1>1, <1>2, Routed
<1>4. /\ \A r \in Pages \ {p} : shown'[r] = shown[r]
      /\ \A r \in Pages \ {bound'} : queue'[r] = q[r]
  BY <1>1, <1>2, Routed
<1>5. /\ overlap' \in BOOLEAN /\ OneUnderWay'
      /\ ~overlap' => Quiet(queue') \/ (~overlap /\ (isNew => Quiet(queue)))
  BY <1>3, OverlapFacts
<1>6. TypeOK' BY <1>1, <1>3, <1>5 DEF TypeOK, Histories, Queues, Events
<1>7. Follows' BY <1>3 DEF Follows
<1>8. ClosedIsIdle'
  <2> SUFFICES ASSUME NEW r \in Pages, shown'[r].kind = "closed"
               PROVE  queue'[r] = <<>> /\ bound' # r
    BY DEF ClosedIsIdle
  <2>1. r # p /\ queue[r] = <<>> /\ bound # r BY <1>3, <1>4 DEF ClosedIsIdle
  <2> QED BY <1>4, <2>1
<1>9. EchoKeepsHistory'
  <2> SUFFICES ASSUME NEW x \in Pages, ~overlap', queue'[x] # <<>>,
                      \A r \in Pages \ {x} : shown'[r].kind = "closed"
               PROVE  Head(queue'[x]).url = Current(nav')
    BY DEF EchoKeepsHistory
  <2>1. x = p BY <1>3
  <2>2. q[p] = <<>> BY <1>5 DEF Quiet
  <2>3. bound' = p BY <1>4, <2>1, <2>2
  <2>4. Current(nav') = Login /\ queue'[p] = <<[url |-> Login, by |-> "service"]>>
    BY <1>3, <2>1, <2>2, <2>3
  <2> QED BY <2>1, <2>4
<1> QED BY <1>5, <1>6, <1>7, <1>8, <1>9

LEMMA ConnectStep == ASSUME IInv, NEW p \in Pages, NEW u \in Urls, Connect(p, u) PROVE IInv'
<1> USE DEF IInv
<1>1. /\ bound' = p /\ RouteChange(p, [route EXCEPT ![p] = u], queue, bound')
      /\ Overlaps(TRUE) /\ navs' \in 0 .. MaxNavs /\ signedIn' \in BOOLEAN
  BY Counts DEF Connect, TypeOK
<1>2. queue \in Queues BY DEF TypeOK, Queues, Events
<1>3. Quiet(queue) => queue[p] = <<>> BY DEF Quiet
<1> QED BY <1>1, <1>2, <1>3, RoutedStep

\* Taking the head of a queue.
LEMMA TailFacts ==
  ASSUME TypeOK, NEW p \in Pages, queue[p] # <<>>
  PROVE  /\ Head(queue[p]) \in Events
         /\ Len(queue[p]) \in Nat \ {0} /\ Len(Tail(queue[p])) = Len(queue[p]) - 1
         /\ \A i \in 1 .. Len(queue[p]) - 1 : Tail(queue[p])[i] = queue[p][i + 1]
         /\ Head(queue[p]) = queue[p][1]
         /\ [queue EXCEPT ![p] = Tail(@)] \in Queues
         /\ Len(queue[p]) <= 1 => Tail(queue[p]) = <<>>
<1>1. queue[p] \in Seq(Events) BY DEF TypeOK, Events
<1>2. /\ Head(queue[p]) \in Events /\ Tail(queue[p]) \in Seq(Events)
      /\ Len(Tail(queue[p])) = Len(queue[p]) - 1
      /\ \A i \in 1 .. Len(queue[p]) - 1 : Tail(queue[p])[i] = queue[p][i + 1]
  BY <1>1, HeadTailProperties
<1>3. Len(queue[p]) \in Nat \ {0} BY <1>1, EmptySeq, LenProperties
<1>4. Head(queue[p]) = queue[p][1] BY <1>1
<1>5. [queue EXCEPT ![p] = Tail(@)] \in Queues BY <1>2 DEF TypeOK, Queues, Events
<1>6. Len(queue[p]) <= 1 => Tail(queue[p]) = <<>> BY <1>2, <1>3, EmptySeq
<1> QED BY <1>2, <1>3, <1>4, <1>5, <1>6

LEMMA DeliverStep == ASSUME IInv, NEW p \in Pages, Deliver(p) PROVE IInv'
<1> USE DEF IInv
<1> DEFINE q == [queue EXCEPT ![p] = Tail(@)]
           u == Head(queue[p]).url
<1>1. /\ RouteChange(p, [route EXCEPT ![p] = u], q, bound) /\ Overlaps(FALSE)
      /\ UNCHANGED <<bound, signedIn, navs>> /\ queue[p] # <<>>
  BY DEF Deliver
<1>2. /\ u \in Urls /\ q \in Queues /\ (Len(queue[p]) <= 1 => q[p] = <<>>)
      /\ \A r \in Pages \ {p} : q[r] = queue[r]
  BY <1>1, TailFacts DEF Events, TypeOK
<1>3. ~overlap => q[p] = <<>> BY <1>2 DEF OneUnderWay
<1> HIDE DEF q, u
<1>4. navs' \in 0 .. MaxNavs /\ signedIn' \in BOOLEAN /\ bound' \in {bound, p}
  BY <1>1 DEF TypeOK
<1> QED BY <1>1, <1>2, <1>3, <1>4, RoutedStep

\* An event for the route the page has is not the one that will move it.
LEMMA DeliverKnownStep == ASSUME IInv, NEW p \in Pages, DeliverKnown(p) PROVE IInv'
<1> USE DEF IInv
<1>1. /\ queue[p] # <<>> /\ Head(queue[p]).url = route[p]
      /\ queue' = [queue EXCEPT ![p] = Tail(@)] /\ Overlaps(FALSE)
      /\ UNCHANGED <<nav, bound, route, shown, signedIn, navs>>
  BY DEF DeliverKnown
<1>2. /\ queue' \in Queues /\ (Len(queue[p]) <= 1 => queue'[p] = <<>>)
      /\ \A r \in Pages \ {p} : queue'[r] = queue[r]
  BY <1>1, TailFacts DEF TypeOK
<1>3. /\ overlap' \in BOOLEAN /\ OneUnderWay' /\ (~overlap' => Quiet(queue') \/ ~overlap)
  BY <1>1, <1>2, OverlapFacts
<1>4. TypeOK' BY <1>1, <1>2, <1>3 DEF TypeOK, Queues, Events
<1>5. Follows'
  <2> SUFFICES ASSUME bound \in Pages, route[bound] # Current(nav)
               PROVE  \E i \in DOMAIN queue'[bound] : queue'[bound][i].url # route[bound]
    BY <1>1 DEF Follows, Synced
  <2>1. PICK i \in DOMAIN queue[bound] : queue[bound][i].url # route[bound]
    BY DEF Follows, Synced
  <2>2. CASE bound # p BY <1>2, <2>1, <2>2
  <2>3. CASE bound = p
    <3>1. /\ Len(queue[p]) \in Nat \ {0} /\ queue'[p] = Tail(queue[p])
          /\ queue'[p] \in Seq(Events) /\ Len(queue'[p]) = Len(queue[p]) - 1
          /\ \A j \in 1 .. Len(queue[p]) - 1 : queue'[p][j] = queue[p][j + 1]
      BY <1>1, <1>2, TailFacts DEF TypeOK, Queues
    <3>2. i \in 1 .. Len(queue[p]) /\ i # 1
      <4>1. DOMAIN queue[p] = 1 .. Len(queue[p]) BY DEF TypeOK
      <4>2. Head(queue[p]) = queue[p][1] BY <1>1, TailFacts
      <4> QED BY <1>1, <2>1, <2>3, <4>1, <4>2
    <3>3. i - 1 \in 1 .. Len(queue[p]) - 1 /\ (i - 1) + 1 = i BY <3>1, <3>2
    <3>4. queue'[p][i - 1] = queue[p][i] BY <3>1, <3>3
    <3>5. i - 1 \in DOMAIN queue'[p] BY <3>1, <3>3
    <3> QED BY <2>1, <2>3, <3>4, <3>5
  <2> QED BY <2>2, <2>3
<1>6. ClosedIsIdle'
  <2> SUFFICES ASSUME NEW r \in Pages, shown[r].kind = "closed" PROVE queue'[r] = <<>> /\ bound # r
    BY <1>1 DEF ClosedIsIdle
  <2> QED BY <1>1, <1>2 DEF ClosedIsIdle
<1>7. EchoKeepsHistory'
  <2> SUFFICES ASSUME NEW x \in Pages, ~overlap', queue'[x] # <<>>, Head(queue'[x]).by = "service",
                      \A r \in Pages \ {x} : shown[r].kind = "closed"
               PROVE  Head(queue'[x]).url = Current(nav)
    BY <1>1 DEF EchoKeepsHistory
  <2>1. ~overlap BY <1>3 DEF Quiet
  <2>2. queue'[p] = <<>> BY <1>2, <2>1 DEF OneUnderWay
  <2> QED BY <1>2, <2>1, <2>2 DEF EchoKeepsHistory
<1> QED BY <1>3, <1>4, <1>5, <1>6, <1>7

LEMMA InsertFacts ==
  ASSUME NEW S, NEW s \in Seq(S), NEW e \in S, NEW i \in 1 .. Len(s) + 1
  PROVE  /\ InsertAt(s, i, e) \in Seq(S) /\ Len(InsertAt(s, i, e)) = Len(s) + 1
         /\ \A j \in 1 .. Len(s) : \E k \in 1 .. Len(s) + 1 : InsertAt(s, i, e)[k] = s[j]
         /\ Len(s) = 0 => InsertAt(s, i, e)[1] = e
<1> DEFINE left == SubSeq(s, 1, i - 1)
           right == SubSeq(s, i, Len(s))
           mid == left \o <<e>>
<1>1. Len(s) \in Nat /\ i - 1 \in 0 .. Len(s) /\ (i - 1) + 1 = i /\ i \in Nat BY LenProperties
<1>2. /\ left \in Seq(S) /\ right \in Seq(S) /\ left \o right = s
      /\ Len(left) = i - 1 /\ Len(right) = Len(s) - (i - 1)
  <2>1. /\ SubSeq(s, 1, i - 1) \in Seq(S) /\ SubSeq(s, (i - 1) + 1, Len(s)) \in Seq(S)
        /\ SubSeq(s, 1, i - 1) \o SubSeq(s, (i - 1) + 1, Len(s)) = s
        /\ Len(SubSeq(s, 1, i - 1)) = i - 1
        /\ Len(SubSeq(s, (i - 1) + 1, Len(s))) = Len(s) - (i - 1)
    BY <1>1, SplitSeq
  <2> QED BY <1>1, <2>1
<1>3. InsertAt(s, i, e) = mid \o right BY DEF InsertAt
<1> HIDE DEF left, right
<1>4. \A x, y \in Seq(S) :
        /\ x \o y \in Seq(S) /\ Len(x \o y) = Len(x) + Len(y)
        /\ \A j \in 1 .. Len(x) + Len(y) : (x \o y)[j] =
             IF j <= Len(x) THEN x[j] ELSE y[j - Len(x)]
  BY ConcatProperties
<1>5. /\ mid \in Seq(S) /\ Len(mid) = i
      /\ \A j \in 1 .. i : mid[j] = IF j <= i - 1 THEN left[j] ELSE <<e>>[j - (i - 1)]
  <2>1. <<e>> \in Seq(S) /\ Len(<<e>>) = 1 OBVIOUS
  <2> QED BY <1>1, <1>2, <1>4, <2>1
<1>6. \A j \in 1 .. Len(s) : s[j] = IF j <= i - 1 THEN left[j] ELSE right[j - (i - 1)]
  <2>1. Len(left) + Len(right) = Len(s) BY <1>1, <1>2
  <2> QED BY <1>2, <1>4, <2>1
<1> HIDE DEF mid
<1>7. /\ mid \o right \in Seq(S) /\ Len(mid \o right) = Len(s) + 1
      /\ \A j \in 1 .. Len(s) + 1 : (mid \o right)[j] =
           IF j <= i THEN mid[j] ELSE right[j - i]
  <2>1. Len(mid) + Len(right) = Len(s) + 1 BY <1>1, <1>2, <1>5
  <2> QED BY <1>2, <1>4, <1>5, <2>1
<1>8. ASSUME NEW j \in 1 .. Len(s)
      PROVE  \E k \in 1 .. Len(s) + 1 : (mid \o right)[k] = s[j]
  <2>1. CASE j <= i - 1
    <3>1. j \in 1 .. Len(s) + 1 /\ j \in 1 .. i /\ j <= i BY <1>1, <2>1
    <3>2. (mid \o right)[j] = s[j] BY <1>5, <1>6, <1>7, <2>1, <3>1
    <3> QED BY <3>1, <3>2
  <2>2. CASE ~(j <= i - 1)
    <3>1. j + 1 \in 1 .. Len(s) + 1 /\ ~(j + 1 <= i) /\ j + 1 - i = j - (i - 1) BY <1>1, <2>2
    <3>2. (mid \o right)[j + 1] = right[j + 1 - i] BY <1>7, <3>1
    <3>3. (mid \o right)[j + 1] = s[j] BY <1>6, <2>2, <3>1, <3>2
    <3> QED BY <3>1, <3>3
  <2> QED BY <2>1, <2>2
<1>9. ASSUME Len(s) = 0 PROVE (mid \o right)[1] = e
  <2>1. i = 1 BY <1>1, <1>9
  <2> QED BY <1>5, <1>7, <1>9, <2>1
<1> QED BY <1>3, <1>7, <1>8, <1>9

\* A queue that gains a user's event, and keeps its own.
LEMMA UserEventStep ==
  ASSUME IInv, NEW p \in Pages, shown[p].kind # "closed", NEW s \in Seq(Events),
         queue' = [queue EXCEPT ![p] = s],
         \A j \in DOMAIN queue[p] : \E k \in DOMAIN s : s[k] = queue[p][j],
         queue[p] = <<>> => Head(s).by = "user",
         Overlaps(TRUE), navs' \in 0 .. MaxNavs,
         UNCHANGED <<nav, bound, route, shown, signedIn>>
  PROVE  IInv'
<1> USE DEF IInv
<1>1. queue' \in Queues /\ queue'[p] = s /\ \A r \in Pages \ {p} : queue'[r] = queue[r]
  BY DEF TypeOK, Queues, Events
<1>2. p = bound => Synced(queue', route, bound, nav)
  BY <1>1 DEF Follows, Synced
<1>3. Quiet(queue) => Head(queue'[p]).by = "user" BY <1>1 DEF Quiet
<1> QED BY <1>1, <1>2, <1>3, AsideStep

LEMMA BrowseStep == ASSUME IInv, NEW p \in Pages, NEW u \in Urls, Browse(p, u) PROVE IInv'
<1> DEFINE e == [url |-> u, by |-> "user"]
<1>1. /\ shown[p].kind # "closed" /\ Overlaps(TRUE)
      /\ navs' \in 0 .. MaxNavs /\ UNCHANGED <<nav, bound, route, shown, signedIn>>
  BY Counts DEF Browse, Act, IInv
<1>2. PICK i \in 1 .. Len(queue[p]) + 1 : queue' = [queue EXCEPT ![p] = InsertAt(@, i, e)]
  BY DEF Browse
<1>3. queue[p] \in Seq(Events) /\ e \in Events BY DEF IInv, TypeOK, Events
<1> HIDE DEF e
<1> DEFINE s == InsertAt(queue[p], i, e)
<1>4. /\ s \in Seq(Events) /\ Len(s) = Len(queue[p]) + 1
      /\ \A j \in 1 .. Len(queue[p]) : \E k \in 1 .. Len(queue[p]) + 1 : s[k] = queue[p][j]
      /\ Len(queue[p]) = 0 => s[1] = e
  <2>1. \A t \in Seq(Events), x \in Events : \A j \in 1 .. Len(t) + 1 :
          /\ InsertAt(t, j, x) \in Seq(Events) /\ Len(InsertAt(t, j, x)) = Len(t) + 1
          /\ \A l \in 1 .. Len(t) : \E k \in 1 .. Len(t) + 1 : InsertAt(t, j, x)[k] = t[l]
          /\ Len(t) = 0 => InsertAt(t, j, x)[1] = x
    BY InsertFacts
  <2> QED BY <1>3, <2>1
<1>5. queue' = [queue EXCEPT ![p] = s] BY <1>2
<1> HIDE DEF s
<1>6. \A j \in DOMAIN queue[p] : \E k \in DOMAIN s : s[k] = queue[p][j]
  <2>1. \A t \in Seq(Events) : DOMAIN t = 1 .. Len(t) BY LenProperties
  <2>2. DOMAIN queue[p] = 1 .. Len(queue[p]) BY <1>3, <2>1
  <2>3. DOMAIN s = 1 .. Len(queue[p]) + 1 BY <1>4, <2>1
  <2> QED BY <1>4, <2>2, <2>3
<1>7. queue[p] = <<>> => Head(s).by = "user"
  <2>1. ASSUME queue[p] = <<>> PROVE Head(s) = e BY <1>4, <2>1
  <2> QED BY <2>1 DEF e
<1> QED BY <1>1, <1>4, <1>5, <1>6, <1>7, UserEventStep

LEMMA ErrorHomeStep == ASSUME IInv, NEW p \in Pages, ErrorHome(p) PROVE IInv'
<1> DEFINE e == [url |-> Home, by |-> "user"]
           s == Append(queue[p], e)
<1>1. /\ shown[p].kind # "closed" /\ Overlaps(TRUE)
      /\ navs' \in 0 .. MaxNavs /\ UNCHANGED <<nav, bound, route, shown, signedIn>>
      /\ queue' = [queue EXCEPT ![p] = s]
  BY Counts DEF ErrorHome, Act, IInv, PageGo
<1>2. queue[p] \in Seq(Events) /\ e \in Events BY UrlAssumption DEF IInv, TypeOK, Events
<1> HIDE DEF e
<1>3. /\ s \in Seq(Events) /\ Len(s) = Len(queue[p]) + 1 /\ Len(queue[p]) \in Nat
      /\ \A j \in 1 .. Len(queue[p]) : s[j] = queue[p][j]
      /\ s[Len(queue[p]) + 1] = e
  BY <1>2, AppendProperties, LenProperties
<1> HIDE DEF s
<1>4. \A j \in DOMAIN queue[p] : \E k \in DOMAIN s : s[k] = queue[p][j]
  <2>1. DOMAIN queue[p] = 1 .. Len(queue[p]) /\ DOMAIN s = 1 .. Len(queue[p]) + 1 BY <1>2, <1>3
  <2> QED BY <1>3, <2>1
<1>5. queue[p] = <<>> => Head(s).by = "user"
  <2>1. ASSUME queue[p] = <<>> PROVE Head(s) = e BY <1>3, <2>1
  <2> QED BY <2>1 DEF e
<1> QED BY <1>1, <1>3, <1>4, <1>5, UserEventStep

LEMMA ViewPopStep == ASSUME IInv, NEW p \in Pages, ViewPop(p) PROVE IInv'
<1> USE DEF IInv
<1>1. /\ shown[p].kind # "closed" /\ navs' \in 0 .. MaxNavs
      /\ shown' = [shown EXCEPT ![p].kind = "blank"]
      /\ UNCHANGED <<nav, bound, route, queue, signedIn, overlap>>
  BY Counts DEF ViewPop, Act
<1>2. shown' \in [Pages -> [url : Urls, kind : Kinds]]
  <2>1. shown' = [shown EXCEPT ![p] = [shown[p] EXCEPT !.kind = "blank"]] BY <1>1
  <2>2. [shown[p] EXCEPT !.kind = "blank"] \in [url : Urls, kind : Kinds] BY DEF TypeOK, Kinds
  <2> QED BY <2>1, <2>2 DEF TypeOK
<1>3. \A r \in Pages : shown'[r].kind = "closed" <=> shown[r].kind = "closed" BY <1>1 DEF TypeOK
<1>4. TypeOK' BY <1>1, <1>2 DEF TypeOK
<1>5. Follows' BY <1>1 DEF Follows, Synced, Current
<1>6. ClosedIsIdle' BY <1>1, <1>3 DEF ClosedIsIdle
<1>7. OneUnderWay' BY <1>1 DEF OneUnderWay
<1>8. EchoKeepsHistory' BY <1>1, <1>3 DEF EchoKeepsHistory, Current
<1> QED BY <1>4, <1>5, <1>6, <1>7, <1>8

\* Clear keeps the current page.
LEMMA ClearKeepsCurrent ==
  ASSUME TypeOK, NEW p \in Pages, Clear(p)
  PROVE  nav' \in Histories /\ nav'.back = <<Current(nav)>> /\ Current(nav') = Current(nav)
<1>1. Current(nav) \in Urls BY CurrentUrl DEF TypeOK, Histories
<1>2. nav' = [back |-> <<Current(nav)>>, forward |-> <<>>] BY DEF Clear
<1> QED BY <1>1, <1>2 DEF Histories, Current

LEMMA ClearStep == ASSUME IInv, NEW p \in Pages, Clear(p) PROVE IInv'
<1> USE DEF IInv
<1>1. /\ navs' \in 0 .. MaxNavs /\ UNCHANGED <<bound, route, queue, shown, overlap>>
      /\ signedIn' = signedIn
  BY Counts DEF Clear, Act
<1>2. nav' \in Histories /\ Current(nav') = Current(nav) BY ClearKeepsCurrent
<1>3. TypeOK' BY <1>1, <1>2 DEF TypeOK, Histories
<1>4. Follows' BY <1>1, <1>2 DEF Follows, Synced
<1>5. ClosedIsIdle' BY <1>1 DEF ClosedIsIdle
<1>6. OneUnderWay' BY <1>1 DEF OneUnderWay
<1>7. EchoKeepsHistory' BY <1>1, <1>2 DEF EchoKeepsHistory
<1> QED BY <1>3, <1>4, <1>5, <1>6, <1>7

\* The buttons that move in the history: where the service goes.
LEMMA StepsBack ==
  ASSUME TypeOK, NEW p \in Pages, NEW n \in 0 .. MaxSteps, Back(p, n)
  PROVE  \E k \in 1 .. Len(nav.back) - 1 : ClickTo(GoBack(nav, k))
<1>1. Len(nav.back) \in Nat BY DEF TypeOK
<1>2. AtMost(n, Len(nav.back) - 1) \in 1 .. Len(nav.back) - 1
  BY <1>1, BoundAssumption DEF Back, AtMost
<1> QED BY <1>2 DEF Back

LEMMA StepsForward ==
  ASSUME TypeOK, NEW p \in Pages, NEW n \in 0 .. MaxSteps, Forward(p, n)
  PROVE  \E k \in 1 .. Len(nav.forward) : ClickTo(GoForward(nav, k))
<1>1. Len(nav.forward) \in Nat BY DEF TypeOK
<1>2. AtMost(n, Len(nav.forward)) \in 1 .. Len(nav.forward)
  BY <1>1, BoundAssumption DEF Forward, AtMost
<1> QED BY <1>2 DEF Forward

\* A click leads to a page that is opened, or back or forward in the history.
LEMMA Clicks ==
  ASSUME TypeOK, NEW p \in Pages,
         \/ \E u \in Urls : Go(p, u)
         \/ \E n \in 0 .. MaxSteps : Back(p, n) \/ Forward(p, n)
         \/ SignIn(p) \/ SignOut(p)
  PROVE  \E new \in Histories :
           /\ ClickTo(new) /\ navs' \in 0 .. MaxNavs /\ signedIn' \in BOOLEAN
           /\ \/ new = nav
              \/ Opened(nav, new)
              \/ /\ Entries(new) = Entries(nav)
                 /\ Len(new.back) \in 1 .. Len(nav.back) + Len(nav.forward)
<1>1. nav \in Histories /\ Len(nav.back) \in Nat \ {0} /\ Len(nav.forward) \in Nat
  BY CurrentUrl DEF TypeOK, Histories
<1>2. navs' \in 0 .. MaxNavs /\ signedIn' \in BOOLEAN
  BY Counts DEF Go, Back, Forward, SignIn, SignOut, Act, TypeOK
<1>3. Home \in Urls /\ Manage \in Urls BY UrlAssumption
<1>4. CASE \E u \in Urls : ClickTo(Visit(nav, u)) BY <1>1, <1>2, <1>4, VisitOpens
<1>5. CASE \E n \in 0 .. MaxSteps : Back(p, n)
  <2>1. PICK k \in 1 .. Len(nav.back) - 1 : ClickTo(GoBack(nav, k)) BY <1>5, StepsBack
  <2>2. /\ GoBack(nav, k) \in Histories /\ Entries(GoBack(nav, k)) = Entries(nav)
        /\ Len(GoBack(nav, k).back) = Len(nav.back) - k
    BY <1>1, BackMoves
  <2>3. \A a, b \in Nat : \A j \in 1 .. a - 1 : a - j \in 1 .. a + b OBVIOUS
  <2> QED BY <1>1, <1>2, <2>1, <2>2, <2>3
<1>6. CASE \E n \in 0 .. MaxSteps : Forward(p, n)
  <2>1. PICK k \in 1 .. Len(nav.forward) : ClickTo(GoForward(nav, k)) BY <1>6, StepsForward
  <2>2. /\ GoForward(nav, k) \in Histories /\ Entries(GoForward(nav, k)) = Entries(nav)
        /\ Len(GoForward(nav, k).back) = Len(nav.back) + k
    BY <1>1, ForwardMoves
  <2>3. \A a, b \in Nat : \A j \in 1 .. b : a + j \in 1 .. a + b OBVIOUS
  <2> QED BY <1>1, <1>2, <2>1, <2>2, <2>3
<1>7. \/ \E u \in Urls : ClickTo(Visit(nav, u))
      \/ \E n \in 0 .. MaxSteps : Back(p, n)
      \/ \E n \in 0 .. MaxSteps : Forward(p, n)
  BY <1>3 DEF Go, SignIn, SignOut
<1> QED BY <1>4, <1>5, <1>6, <1>7

LEMMA NextIInv == IInv /\ [Next]_vars => IInv'
<1> SUFFICES ASSUME IInv, [Next]_vars PROVE IInv' OBVIOUS
<1>1. CASE UNCHANGED vars
  BY <1>1 DEF vars, IInv, TypeOK, Follows, Synced, ClosedIsIdle, OneUnderWay, EchoKeepsHistory,
              Current
<1>2. ASSUME NEW p \in Pages, User(p) \/ Handle(p) PROVE IInv'
  <2>1. CASE \E u \in Urls : Connect(p, u) BY <2>1, ConnectStep
  <2>2. CASE \E u \in Urls : Browse(p, u) BY <2>2, BrowseStep
  <2>3. CASE Clear(p) BY <2>3, ClearStep
  <2>4. CASE ViewPop(p) BY <2>4, ViewPopStep
  <2>5. CASE ErrorHome(p) BY <2>5, ErrorHomeStep
  <2>6. CASE Deliver(p) BY <2>6, DeliverStep
  <2>7. CASE DeliverKnown(p) BY <2>7, DeliverKnownStep
  <2>8. CASE \/ \E u \in Urls : Go(p, u)
             \/ \E n \in 0 .. MaxSteps : Back(p, n) \/ Forward(p, n)
             \/ SignIn(p) \/ SignOut(p)
    <3>1. \E new \in Histories : ClickTo(new) /\ navs' \in 0 .. MaxNavs /\ signedIn' \in BOOLEAN
      BY <2>8, Clicks DEF IInv
    <3> QED BY <3>1, ClickStep
  <2> QED
    BY <1>2, <2>1, <2>2, <2>3, <2>4, <2>5, <2>6, <2>7, <2>8 DEF User, Handle, NavActions
<1> QED BY <1>1, <1>2 DEF Next

-----------------------------------------------------------------------------
(* The steps of a History *)

LEMMA EntriesFacts ==
  ASSUME NEW h \in Histories
  PROVE  /\ Entries(h) \in Seq(Urls) /\ Len(Entries(h)) = Len(h.back) + Len(h.forward)
         /\ Len(h.back) \in Nat \ {0} /\ Len(h.forward) \in Nat
         /\ \A i \in 1 .. Len(h.back) : Entries(h)[i] = h.back[i]
         /\ h.forward = <<>> => Entries(h) = h.back
<1>1. h.back \in Seq(Urls) /\ h.forward \in Seq(Urls) BY DEF Histories
<1>2. Reverse(h.forward) \in Seq(Urls) /\ Len(Reverse(h.forward)) = Len(h.forward)
  BY <1>1, ReverseProperties
<1>3. Len(h.back) \in Nat \ {0} /\ Len(h.forward) \in Nat BY <1>1, CurrentUrl
<1>4. /\ Entries(h) \in Seq(Urls) /\ Len(Entries(h)) = Len(h.back) + Len(h.forward)
      /\ \A i \in 1 .. Len(h.back) + Len(h.forward) : Entries(h)[i] =
           IF i <= Len(h.back) THEN h.back[i] ELSE Reverse(h.forward)[i - Len(h.back)]
  <2>1. \A x, y \in Seq(Urls) :
          /\ x \o y \in Seq(Urls) /\ Len(x \o y) = Len(x) + Len(y)
          /\ \A i \in 1 .. Len(x) + Len(y) : (x \o y)[i] =
               IF i <= Len(x) THEN x[i] ELSE y[i - Len(x)]
    BY ConcatProperties
  <2> DEFINE r == Reverse(h.forward)
  <2>2. /\ h.back \o r \in Seq(Urls) /\ Len(h.back \o r) = Len(h.back) + Len(r)
        /\ \A i \in 1 .. Len(h.back) + Len(r) : (h.back \o r)[i] =
             IF i <= Len(h.back) THEN h.back[i] ELSE r[i - Len(h.back)]
    BY <1>1, <1>2, <2>1
  <2>3. Len(r) = Len(h.forward) /\ Entries(h) = h.back \o r BY <1>2 DEF Entries
  <2> HIDE DEF r
  <2>4. \A i \in 1 .. Len(h.back) + Len(h.forward) : (h.back \o r)[i] =
             IF i <= Len(h.back) THEN h.back[i] ELSE r[i - Len(h.back)]
    BY <2>2, <2>3
  <2> QED BY <2>2, <2>3, <2>4 DEF r
<1>5. ASSUME NEW i \in 1 .. Len(h.back) PROVE Entries(h)[i] = h.back[i]
  <2>1. \A a, b \in Nat : \A j \in 1 .. a : j \in 1 .. a + b /\ j <= a OBVIOUS
  <2> QED BY <1>3, <1>4, <2>1
<1>6. ASSUME h.forward = <<>> PROVE Entries(h) = h.back
  <2>1. Len(h.forward) = 0 BY <1>6
  <2>2. Len(Entries(h)) = Len(h.back) BY <1>3, <1>4, <2>1
  <2>3. \A i \in 1 .. Len(Entries(h)) : Entries(h)[i] = h.back[i] BY <1>5, <2>2
  <2> QED BY <1>1, <1>4, <2>2, <2>3, SeqEqual
<1> QED BY <1>3, <1>4, <1>5, <1>6

LEMMA OpenedIsOpen ==
  ASSUME nav \in Histories, nav' \in Histories, Opened(nav, nav')
  PROVE  Past!Open
<1> DEFINE c == Len(nav.back)
           d == Len(nav'.back)
           e == Entries(nav)
           f == nav'.back
<1>1. /\ e \in Seq(Urls) /\ Len(e) = c + Len(nav.forward)
      /\ c \in Nat \ {0} /\ Len(nav.forward) \in Nat
      /\ \A i \in 1 .. c : e[i] = nav.back[i]
  BY EntriesFacts
<1>2. Entries(nav') = f /\ d \in Nat BY EntriesFacts DEF Opened
<1>3. /\ f \in Seq(Urls) /\ d > c /\ \A i \in 1 .. c : f[i] = nav.back[i]
      /\ \A i \in c .. d - 1 : f[i] # f[i + 1]
  BY DEF Opened, Histories
<1>4. d = Len(f) OBVIOUS
<1> HIDE DEF c, d, e, f
<1>5. SubSeq(f, 1, c) = SubSeq(e, 1, c)
  <2>1. c <= Len(f) /\ c <= Len(e) BY <1>1, <1>2, <1>3, <1>4
  <2>2. \A s \in Seq(Urls) : c <= Len(s) =>
          /\ SubSeq(s, 1, c) \in Seq(Urls) /\ Len(SubSeq(s, 1, c)) = c
          /\ \A i \in 1 .. c : SubSeq(s, 1, c)[i] = s[i]
    <3> SUFFICES ASSUME NEW s \in Seq(Urls), c <= Len(s)
                 PROVE  /\ SubSeq(s, 1, c) \in Seq(Urls) /\ Len(SubSeq(s, 1, c)) = c
                        /\ \A i \in 1 .. c : SubSeq(s, 1, c)[i] = s[i]
      OBVIOUS
    <3>1. Len(s) \in Nat /\ \A i \in 1 .. Len(s) : s[i] \in Urls BY LenProperties
    <3> QED BY <1>1, <3>1
  <2>3. /\ SubSeq(f, 1, c) \in Seq(Urls) /\ SubSeq(e, 1, c) \in Seq(Urls)
        /\ Len(SubSeq(f, 1, c)) = c /\ Len(SubSeq(e, 1, c)) = c
        /\ \A i \in 1 .. c : SubSeq(f, 1, c)[i] = SubSeq(e, 1, c)[i]
    BY <1>1, <1>3, <2>1, <2>2
  <2> QED BY <2>3, SeqEqual
<1>6. /\ d = Len(Entries(nav')) /\ d > c
      /\ SubSeq(Entries(nav'), 1, c) = SubSeq(Entries(nav), 1, c)
      /\ \A i \in c .. d - 1 : Entries(nav')[i] # Entries(nav')[i + 1]
  BY <1>2, <1>3, <1>4, <1>5 DEF e
<1> QED BY <1>6 DEF Past!Open, Entries, c, d

LEMMA NextPast == IInv /\ [Next]_vars => [Past!Next]_<<Entries(nav), Len(nav.back)>>
<1> SUFFICES ASSUME IInv, [Next]_vars, ~UNCHANGED <<Entries(nav), Len(nav.back)>>
             PROVE  Past!Next
  OBVIOUS
<1> USE DEF IInv
<1>1. nav \in Histories /\ nav' # nav BY DEF TypeOK, Histories, Entries
<1>2. nav' \in Histories BY NextIInv DEF TypeOK, Histories
<1>3. ASSUME Opened(nav, nav') PROVE Past!Next BY <1>1, <1>2, <1>3, OpenedIsOpen DEF Past!Next
<1>4. PICK p \in Pages : User(p) \/ Handle(p) BY <1>1 DEF Next, vars
<1>5. CASE \E u \in Urls : Connect(p, u)
  <2>1. PICK u \in Urls : RouteChange(p, [route EXCEPT ![p] = u], queue, p) BY <1>5 DEF Connect
  <2>2. queue \in Queues BY DEF TypeOK, Queues, Events
  <2>3. nav' = nav \/ Opened(nav, nav') BY <2>1, <2>2, Routed
  <2> QED BY <1>1, <1>3, <2>3
<1>6. CASE Deliver(p)
  <2> DEFINE q == [queue EXCEPT ![p] = Tail(@)]
             u == Head(queue[p]).url
  <2>1. RouteChange(p, [route EXCEPT ![p] = u], q, bound) /\ queue[p] # <<>> BY <1>6 DEF Deliver
  <2>2. u \in Urls /\ q \in Queues /\ \A r \in Pages \ {p} : q[r] = queue[r]
    BY <2>1, TailFacts DEF Events, TypeOK
  <2>3. bound # p => Synced(q, route, bound, nav) BY <2>2 DEF Follows, Synced
  <2>4. bound \in Pages \cup {NoPage} BY DEF TypeOK
  <2> HIDE DEF q, u
  <2>5. nav' = nav \/ Opened(nav, nav') BY <2>1, <2>2, <2>3, <2>4, Routed
  <2> QED BY <1>1, <1>3, <2>5
<1>7. CASE Clear(p)
  <2>1. nav'.back = <<Current(nav)>> /\ nav'.forward = <<>>
    BY <1>7, ClearKeepsCurrent DEF Clear
  <2>2. Entries(nav') = <<Current(nav)>> /\ Len(nav'.back) = 1
    BY <1>2, <2>1, EntriesFacts
  <2>3. Entries(nav)[Len(nav.back)] = Current(nav)
    <3>1. Len(nav.back) \in 1 .. Len(nav.back) BY <1>1, CurrentUrl
    <3> QED BY <1>1, <3>1, EntriesFacts DEF Current
  <2>4. Past!Forget BY <2>2, <2>3 DEF Past!Forget, Entries
  <2> QED BY <2>4 DEF Past!Next
<1>8. CASE \/ \E u \in Urls : Go(p, u)
           \/ \E n \in 0 .. MaxSteps : Back(p, n) \/ Forward(p, n)
           \/ SignIn(p) \/ SignOut(p)
  <2>1. \/ nav' = nav
        \/ Opened(nav, nav')
        \/ /\ Entries(nav') = Entries(nav)
           /\ Len(nav'.back) \in 1 .. Len(nav.back) + Len(nav.forward)
    BY <1>8, Clicks DEF ClickTo
  <2>2. CASE Entries(nav') = Entries(nav) /\ Len(nav'.back) \in 1 .. Len(Entries(nav))
    BY <2>2 DEF Past!Next, Past!Move, Entries
  <2> QED BY <1>1, <1>3, <2>1, <2>2, EntriesFacts
<1> QED
  BY <1>1, <1>4, <1>5, <1>6, <1>7, <1>8
  DEF User, Handle, NavActions, Browse, ViewPop, ErrorHome, DeliverKnown

-----------------------------------------------------------------------------
\* Every reachable state is one of the invariant.
LEMMA IInvHolds == Spec => []IInv
<1>1. Init => IInv BY InitIInv
<1>2. IInv /\ [Next]_vars => IInv' BY NextIInv
<1> QED BY <1>1, <1>2, PTL DEF Spec

\* The stacks hold URLs, and the service is always at one of them: no sequence of
\* visits, steps back, clears and redirects empties the back stack.
THEOREM TypeCorrect == Spec => []TypeOK
<1>1. IInv => TypeOK BY DEF IInv
<1> QED BY <1>1, IInvHolds, PTL

\* The bound page that has handled its events is where the service is.
THEOREM BoundFollows == Spec => []BoundPageFollows
<1>1. IInv => BoundPageFollows
  <2> SUFFICES ASSUME IInv, bound # NoPage, queue[bound] = <<>>
               PROVE  route[bound] = Current(nav)
    BY DEF BoundPageFollows
  <2>1. bound \in Pages /\ DOMAIN queue[bound] = {} BY DEF IInv, TypeOK
  <2> QED BY <2>1 DEF IInv, Follows, Synced
<1> QED BY <1>1, IInvHolds, PTL

\* The echo of the service's own page.go finds it where it was, with one page
\* open and no other navigation under way.
THEOREM EchoLeavesHistory == Spec => []EchoKeepsHistory
<1>1. IInv => EchoKeepsHistory BY DEF IInv
<1> QED BY <1>1, IInvHolds, PTL

\* The two stacks implement one history with a cursor.
THEOREM Refinement == Spec => ImplementsHistory
<1>1. Init => Past!Init
  <2>1. ASSUME Init PROVE Entries(nav) = <<Home>> /\ Len(nav.back) = 1
    <3>1. nav \in Histories /\ nav.forward = <<>> /\ nav.back = <<Home>>
      BY <2>1, InitIInv DEF Init, IInv, TypeOK, Histories
    <3> QED BY <3>1, EntriesFacts
  <2> QED BY <2>1 DEF Past!Init, Entries
<1>2. IInv /\ [Next]_vars
        => [Past!Next]_<<nav.back \o Reverse(nav.forward), Len(nav.back)>>
  BY NextPast DEF Entries
<1> QED BY <1>1, <1>2, IInvHolds, PTL DEF Spec, ImplementsHistory, Past!HistorySpec
=============================================================================
