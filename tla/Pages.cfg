SPECIFICATION FairSpec
CONSTANTS
  Pages = {p1, p2}
  NoPage = NoPage
  Urls = {home, login, manage}
  Home = home
  Login = login
  Manage = manage
  Protected = {manage}
  Failing = {manage}
  MaxSteps = 2
  MaxNavs = 5
INVARIANTS TypeOK BoundPageFollows EchoKeepsHistory
PROPERTIES ImplementsHistory RedirectArrives
CHECK_DEADLOCK FALSE
