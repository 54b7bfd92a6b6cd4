------------------------------ MODULE WebRoutes ------------------------------
(***************************************************************************)
(* The pages of the web application (App.tsx, FeedRoute, TransactionRoute) *)
(* and the API client they load from (api/client.ts).  A page is a         *)
(* component with one view.  React commits the new page first and runs its *)
(* effect later: in between the component still shows what it showed       *)
(* before.  The effect aborts the request of the previous page and sends   *)
(* its own; answers arrive at any moment, also for a page the reader left. *)
(*                                                                         *)
(* A request goes through two waits of the client, for the headers and for *)
(* the body.  The promise callbacks after the second one run before the    *)
(* browser handles anything else, so a body and the view it sets are one   *)
(* step; so are an abort and the rejection it causes.                      *)
(***************************************************************************)
EXTENDS Naturals, FiniteSets

CONSTANTS
  Valid,      \* transaction ids that TXID_PATTERN accepts
  Invalid,    \* what else may follow /tx/ in the address
  Feed,       \* the index page
  NotFound    \* any other address

VARIABLES
  route,      \* the address the reader is at
  view,       \* the state of the mounted page component
  due,        \* its effect has not run since the last commit
  requests    \* the requests whose answer the component still listens to

webVars == <<route, view, due, requests>>

Pages == Valid \cup Invalid \cup {Feed, NotFound}

(***************************************************************************)
(* The component the router mounts: addresses under /tx/ share one, which  *)
(* is not mounted anew, and keeps its view, when only the id changes.      *)
(***************************************************************************)
Component(page) == IF page \in Valid \cup Invalid THEN "transaction" ELSE page

Loading == [kind |-> "loading"]
Loaded(page) == [kind |-> "loaded", page |-> page]
Failed(code) == [kind |-> "error", code |-> code]

(* The pages that ask the API for something. *)
Fetches(page) == page \in Valid \cup {Feed}

-----------------------------------------------------------------------------
(***************************************************************************)
(* The client.  "sent" waits for the headers; "body" reads the JSON of a   *)
(* successful answer, "refusal" the text of another one.                   *)
(***************************************************************************)
Request(page) == [page |-> page, stage |-> "sent"]
Stages == {"sent", "body", "refusal"}
Codes == {"NETWORK_ERROR", "HTTP_ERROR", "MALFORMED_JSON",
          "INVALID_RESPONSE", "OTHER"}

(***************************************************************************)
(* What the page makes of a request that an abort ends: fetch and text()   *)
(* reject with an AbortError, which the page ignores; parseJson turns the  *)
(* rejection of json() into an error like any other.                       *)
(***************************************************************************)
AfterAbort(was) ==
  IF \E request \in requests : request.stage = "body"
  THEN Failed("MALFORMED_JSON")
  ELSE was

(* Mutant: the cleanup forgets to abort. *)
NothingAborted == requests

(* What the component still listens to once the cleanup has run. *)
Aborted == {}

-----------------------------------------------------------------------------
WebInit ==
  /\ route \in Pages
  /\ view = Loading
  /\ due = TRUE
  /\ requests = {}

(***************************************************************************)
(* The reader follows a link or the history.  React runs what is left of   *)
(* the last commit's effects before it renders again.                      *)
(***************************************************************************)
Navigate(page) ==
  /\ ~due
  /\ page # route
  /\ route' = page
  /\ due' = TRUE
  /\ IF Component(page) = Component(route)
     THEN UNCHANGED <<view, requests>>
     ELSE view' = Loading /\ requests' = {}

(* Retry, the button of the error view, changes the effect's reloadKey. *)
Retry ==
  /\ ~due
  /\ Fetches(route)
  /\ view.kind = "error"
  /\ due' = TRUE
  /\ UNCHANGED <<route, view, requests>>

(***************************************************************************)
(* The cleanup of the last effect, then the effect of the page: an invalid *)
(* id sets no view and asks for nothing.  The rejections of the aborted    *)
(* request come after both.                                                *)
(***************************************************************************)
RunEffect ==
  /\ due
  /\ due' = FALSE
  /\ IF Fetches(route)
     THEN /\ view' = AfterAbort(Loading)
          /\ requests' = Aborted \cup {Request(route)}
     ELSE /\ view' = AfterAbort(view)
          /\ requests' = Aborted
  /\ UNCHANGED route

(* The headers of an answer: fetch resolves. *)
Responds(request, stage) ==
  /\ request.stage = "sent"
  /\ stage \in Stages \ {"sent"}
  /\ requests' = (requests \ {request}) \cup {[request EXCEPT !.stage = stage]}
  /\ UNCHANGED <<route, view, due>>

(* Mutant: a failed connection is taken for an abort. *)
SettledQuietly(request, answer) ==
  /\ requests' = requests \ {request}
  /\ view' = IF answer = Failed("NETWORK_ERROR") THEN view ELSE answer
  /\ UNCHANGED <<route, due>>

(* The request is over: then or catch sets the view, whatever it was. *)
Settled(request, answer) ==
  /\ requests' = requests \ {request}
  /\ view' = answer
  /\ UNCHANGED <<route, due>>

(* No connection. *)
Unreachable(request) ==
  /\ request.stage = "sent"
  /\ Settled(request, Failed("NETWORK_ERROR"))

(* The body: JSON the guard accepts, JSON it refuses, or no JSON at all. *)
Answers(request) ==
  /\ request.stage = "body"
  /\ \E answer \in {Loaded(request.page), Failed("INVALID_RESPONSE"),
                    Failed("MALFORMED_JSON")} :
       Settled(request, answer)

(* The body of a refusal, whether or not it is an error of the API; or the
   connection is lost while it is read, which only the page catches. *)
Refuses(request) ==
  /\ request.stage = "refusal"
  /\ \E code \in {"HTTP_ERROR", "OTHER"} : Settled(request, Failed(code))

WebNext ==
  \/ \E page \in Pages : Navigate(page)
  \/ Retry
  \/ RunEffect
  \/ \E request \in requests :
       \/ \E stage \in Stages : Responds(request, stage)
       \/ Unreachable(request)
       \/ Answers(request)
       \/ Refuses(request)

WebSpec == WebInit /\ [][WebNext]_webVars

-----------------------------------------------------------------------------
WebTypeOK ==
  /\ route \in Pages
  /\ view \in {Loading} \cup {Loaded(page) : page \in Pages}
                        \cup {Failed(code) : code \in Codes}
  /\ due \in BOOLEAN
  /\ requests \subseteq [page : Pages, stage : Stages]

(***************************************************************************)
(* What a settled page shows is of the address it is at: the answer to a   *)
(* page the reader left never replaces the one he is on, however late it   *)
(* comes (the aborts of FeedRoute and TransactionRoute).                   *)
(***************************************************************************)
ShowsItsPage ==
  ~due /\ Fetches(route) /\ view.kind = "loaded" => view.page = route

(***************************************************************************)
(* A page says it is loading only while a request for it is under way:     *)
(* every way a request can end, and every way one can be given up, leaves  *)
(* the reader a view or a request (the catch of the two pages and the      *)
(* dependencies of their effects).                                         *)
(***************************************************************************)
LoadingIsUnderWay ==
  ~due /\ Fetches(route) /\ view.kind = "loading"
    => \E request \in requests : request.page = route

(***************************************************************************)
(* Not kept: an error shown for a page is about a request of that page.    *)
(* A page left while the body of its answer is read fails as malformed     *)
(* JSON on the next page, until that page's own answer comes.              *)
(***************************************************************************)
ErrorIsOfItsPage ==
  ~due /\ view.kind = "error" => \A request \in requests : request.page # route
=============================================================================
