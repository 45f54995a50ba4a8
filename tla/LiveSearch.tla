---------------------------- MODULE LiveSearch ----------------------------
(***************************************************************************)
(* static/js/live-search.js on a state or county page, which carries two   *)
(* forms: the market finder, whose action is /markets/, and the browse     *)
(* form, which has none and so asks the address of the document.  Both     *)
(* rewrite that address with history.replaceState.  A form is a process of *)
(* its own: input handlers, a timer, and the continuations of its fetches. *)
(***************************************************************************)
EXTENDS Naturals, FiniteSets

CONSTANTS
    Words,          \* what may be typed into the text control of a form
    Intents,        \* the intents other than the default one
    Refused,        \* the words a form of the server does not accept: status 400
    MaxRequests     \* bounds the fetches of a form (no counterpart in the code)

ASSUME LiveSearchAssumption ==
    /\ {"", "offer"} \cap (Words \cup Intents) = {} /\ Refused \subseteq Words /\ MaxRequests \in Nat

SearchForms == {"market", "browse"}

\* A parameter that is "" is not in the query.
Url == [path : {"/markets/", "/page/"}, q : Words \cup {""}, intent : Intents \cup {""},
        page : {"", "2"}]

NoUrl == [path |-> "", q |-> "", intent |-> "", page |-> ""]

VARIABLES
    address,    \* the URL of the document
    typed,      \* the text control of each form
    chosen,     \* the intent control of the browse form, "offer" by default
    timer,      \* forms whose debounce timer runs
    requests,   \* of each form, the fetches not yet continued: url, number, aborted
    controller, \* of each form, the number of the fetch that requestController aborts
    lastUrl,
    region,     \* what the result region of each form shows, NoUrl when it is gone
    answers,    \* history: the number of the fetch whose answer the region shows
    told        \* the status line of each form

liveVars == <<address, typed, chosen, timer, requests, controller, lastUrl, region, answers,
              told>>

Finder == [NoUrl EXCEPT !.path = "/markets/"]
IntentOf(u) == IF u.intent = "" THEN "offer" ELSE u.intent

\* A page is loaded with its forms bound to the query of its address.
LiveInit ==
    /\ address \in {u \in Url : u.path = "/page/" /\ u.q \notin Refused}
    /\ typed = [market |-> "", browse |-> address.q]
    /\ chosen = IntentOf(address)
    /\ timer = {}
    /\ requests = [f \in SearchForms |-> {}]
    /\ controller = [f \in SearchForms |-> 0]
    /\ lastUrl = [f \in SearchForms |-> NoUrl]
    /\ region = [market |-> Finder, browse |-> address]
    /\ answers = [f \in SearchForms |-> 0]
    /\ told = [f \in SearchForms |-> ""]

(***************************************************************************)
(* formUrl.                                                                *)
(***************************************************************************)

\* form.action: the attribute, or the URL of the document when there is none.
FormAction(f) == IF f = "market" THEN Finder ELSE address

BugKeepsPage(f, intent) ==
    [FormAction(f) EXCEPT !.q = IF typed[f] # "" THEN typed[f] ELSE @,
                          !.intent = IF f = "browse" /\ intent # "offer" THEN intent ELSE @]

\* Controls with a value are set on what is there, empty and default ones are
\* passed over; only the browse form resets the page.
FormUrl(f, intent) ==
    [FormAction(f) EXCEPT !.q = IF typed[f] # "" THEN typed[f] ELSE @,
                          !.intent = IF f = "browse" /\ intent # "offer" THEN intent ELSE @,
                          !.page = IF f = "browse" THEN "" ELSE @]

(***************************************************************************)
(* update: a synchronous part, and the continuation of its fetch.          *)
(***************************************************************************)

BugForgetsToAbort(f) == requests[f]

\* requestController?.abort()
Aborted(f) == {[r EXCEPT !.aborted = @ \/ r.number = controller[f]] : r \in requests[f]}

Update(f, intent) ==
    LET url == FormUrl(f, intent) IN
    IF (f = "market" /\ url.q = "") \/ url = lastUrl[f]
    THEN UNCHANGED <<requests, controller, told>>
    ELSE /\ controller[f] < MaxRequests
         /\ requests' = [requests EXCEPT ![f] = Aborted(f) \cup
                            {[url |-> url, number |-> controller[f] + 1, aborted |-> FALSE]}]
         /\ controller' = [controller EXCEPT ![f] = @ + 1]
         /\ told' = [told EXCEPT ![f] = "loading"]

Type(f, word) ==
    /\ word # typed[f]
    /\ typed' = [typed EXCEPT ![f] = word]
    /\ timer' = timer \cup {f}
    /\ UNCHANGED <<address, chosen, requests, controller, lastUrl, region, answers, told>>

TimerFires(f) ==
    /\ f \in timer
    /\ timer' = timer \ {f}
    /\ Update(f, chosen)
    /\ UNCHANGED <<address, typed, chosen, lastUrl, region, answers>>

\* The submit handler leaves a timer running.
Submit(f) ==
    /\ Update(f, chosen)
    /\ UNCHANGED <<address, typed, chosen, timer, lastUrl, region, answers>>

Choose(intent) ==
    /\ intent # chosen
    /\ chosen' = intent
    /\ Update("browse", intent)
    /\ UNCHANGED <<address, typed, timer, lastUrl, region, answers>>

BugFinallyAlways(f, r) == ""

\* finally: the status line is cleared, a message of the catch block included,
\* unless a newer request has taken over.
Settled(f, r) == IF controller[f] = r.number /\ ~ r.aborted THEN "" ELSE told[f]

Continue(f, r) ==
    /\ r \in requests[f]
    /\ requests' = [requests EXCEPT ![f] = @ \ {r}]
    /\ told' = [told EXCEPT ![f] = Settled(f, r)]
    /\ UNCHANGED <<typed, chosen, timer, controller>>

\* _browse_response and the market finder answer a form with errors with status 400.
ServerTakes(u) == u.q \notin Refused

\* The region is replaced by what the server made of the path: when the browse form
\* has asked /markets/, its own region is gone and a second one of the finder is there.
Answered(f, r) ==
    /\ ~ r.aborted /\ ServerTakes(r.url)
    /\ region[f] # NoUrl
    /\ region' = [region EXCEPT ![f] = IF f = "browse" /\ r.url.path = "/markets/" THEN NoUrl
                                       ELSE r.url]
    /\ answers' = [answers EXCEPT ![f] = r.number]
    /\ lastUrl' = [lastUrl EXCEPT ![f] = r.url]
    /\ address' = r.url
    /\ Continue(f, r)

\* An aborted fetch, a status that is not ok, no network, or no region to replace.
Fails(f, r) ==
    /\ Continue(f, r)
    /\ UNCHANGED <<address, lastUrl, region, answers>>

\* A link, the back button or the slider of the nearby rail load the page anew.
Load(u) ==
    /\ u.path = "/page/" /\ u.q \notin Refused
    /\ address' = u
    /\ typed' = [market |-> "", browse |-> u.q]
    /\ chosen' = IntentOf(u)
    /\ timer' = {}
    /\ requests' = [f \in SearchForms |-> {}]
    /\ lastUrl' = [f \in SearchForms |-> NoUrl]
    /\ region' = [market |-> Finder, browse |-> u]
    /\ answers' = [f \in SearchForms |-> 0]
    /\ told' = [f \in SearchForms |-> ""]
    /\ UNCHANGED controller

LiveNext ==
    \/ \E f \in SearchForms :
          \/ TimerFires(f) \/ Submit(f)
          \/ \E word \in Words \cup {""} : Type(f, word)
          \/ \E r \in requests[f] : Answered(f, r) \/ Fails(f, r)
    \/ \E intent \in Intents \cup {"offer"} : Choose(intent)
    \/ \E u \in Url : Load(u)

LiveSpec == LiveInit /\ [][LiveNext]_liveVars

(***************************************************************************)
(* Properties.                                                             *)
(***************************************************************************)

LiveTypeOK ==
    /\ address \in Url
    /\ typed \in [SearchForms -> Words \cup {""}]
    /\ chosen \in Intents \cup {"offer"}
    /\ timer \subseteq SearchForms
    /\ \A f \in SearchForms :
          /\ requests[f] \subseteq [url : Url, number : 1 .. MaxRequests, aborted : BOOLEAN]
          /\ controller[f] \in 0 .. MaxRequests /\ answers[f] \in 0 .. controller[f]
          /\ {lastUrl[f], region[f]} \subseteq Url \cup {NoUrl}
          /\ told[f] \in {"", "loading"}

\* Results are replaced in the order in which they were asked for, however late the
\* server answers: an earlier answer never covers a later one (live-search.js:45, 58).
AnswersInOrder ==
    [][\A f \in SearchForms : region'[f] # region[f] /\ answers'[f] # 0
           => answers'[f] > answers[f] /\ answers'[f] = controller[f]]_liveVars

\* A form is announced as busy exactly while an answer is awaited that will be used: an
\* aborted fetch never clears the mark of the one that replaced it (live-search.js:68).
BusyWhileAwaiting ==
    \A f \in SearchForms : told[f] = "loading" <=> \E r \in requests[f] : ~ r.aborted

\* What a plain submission of the form would ask on the page it is on.
PlainUrl(f) ==
    [path |-> IF f = "market" THEN "/markets/" ELSE "/page/", q |-> typed[f],
     intent |-> IF f = "browse" /\ chosen # "offer" THEN chosen ELSE "", page |-> ""]

\* What a form asks by itself is what a submission without the script would ask
\* (docs/04-URL-SEARCH-SEO.md:93), but for two deviations of the browse form: it keeps a
\* parameter of the address whose control has been set back to its default, and it asks
\* /markets/ once the finder has rewritten the address.
AsksWhatIsChosen ==
    [][\A f \in SearchForms : \A r \in requests'[f] \ requests[f] :
           \/ r.aborted
           \/ r.url = PlainUrl(f)'
           \/ f = "browse" /\ address.path = "/markets/"
           \/ /\ f = "browse" /\ r.url.path = "/page/" /\ r.url.page = ""
              /\ r.url.q = typed'[f] \/ (typed'[f] = "" /\ r.url.q = address.q)
              /\ IntentOf(r.url) = chosen' \/ (chosen' = "offer" /\ r.url.intent = address.intent)
      ]_liveVars
=============================================================================
