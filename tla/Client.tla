------------------------------- MODULE Client -------------------------------
(***************************************************************************)
(* internal/unifi: the client of the integration API.  A goroutine makes a *)
(* client for a site (NewClient) and calls it; a call finds the base of    *)
(* the API and the id of the site first, unless the client knows them.     *)
(* Each request (doRequest) and each answer is a step: in between the      *)
(* controller serves others, is edited, upgraded, or fails.                *)
(*                                                                         *)
(* Data: a site has one list, whose content is a value.  A caller c writes *)
(* the content c.  A label is what the settings may say for a site: a      *)
(* name, an internal reference, or the id itself, which is told by its     *)
(* form.  An answer is good, an error (no answer, a status that is not     *)
(* 2xx, a body that does not parse), or an HTML page such as a login page. *)
(***************************************************************************)
EXTENDS Naturals, Sequences

CONSTANTS
  Callers,      \* goroutines with a client
  SiteIDs,      \* ids of sites
  Labels,       \* what a client may be told to use
  Edits,        \* what administrators write
  SiteTables,   \* the sites a controller may have, in the order it lists them
  PageLimit,    \* sites on the page a client asks for
  NoSite, NoLabel, Failed

ASSUME ClientAssumption ==
  /\ SiteIDs \subseteq Labels
  /\ NoSite \notin SiteIDs /\ NoLabel \notin Labels /\ Failed \notin Callers \cup Edits
  /\ SiteTables \subseteq Seq([id : SiteIDs, called : SUBSET Labels])
  /\ PageLimit \in Nat \ {0}

VARIABLES
  lists,    \* the controller: site -> what its list holds
  sites,    \* the controller: its sites
  served,   \* the controller: the bases where it serves the API
  client    \* per caller: the Client and where a call of it is

vars == <<lists, sites, served, client>>

Bases    == 1 .. 2                      \* the candidates of detectAPIBase
Ops      == {"list", "get", "put"}      \* ListNetworkLists, GetNetworkList, UpdateNetworkList
Requests == {"probe", "sites", "op"}
Texts    == Callers \cup Edits

NoReply   == [kind |-> "none"]
Error     == [kind |-> "error"]
Html      == [kind |-> "html"]
Page(p)   == [kind |-> "page", page |-> p]
Holds(t)  == [kind |-> "list", text |-> t]
Pages     == UNION {[1 .. n -> [id : SiteIDs, called : SUBSET Labels]] : n \in 0 .. PageLimit}
Replies   == {NoReply, Error, Html} \cup {Page(p) : p \in Pages} \cup {Holds(t) : t \in Texts}

NoClient == [label |-> NoLabel, base |-> 0, siteID |-> NoSite, op |-> "none", req |-> "none",
             try |-> 0, reply |-> NoReply, wrote |-> FALSE, result |-> Failed]
-----------------------------------------------------------------------------
(* The client *)

Idle(c)    == client[c].op = "none"
Becomes(c, local) == client' = [client EXCEPT ![c] = local] /\ UNCHANGED <<lists, sites, served>>

Ask(local, req)   == [local EXCEPT !.req = req, !.reply = NoReply]
Probe(local, b)   == [Ask(local, "probe") EXCEPT !.try = b]
Finish(local, res) == [local EXCEPT !.op = "none", !.req = "none", !.try = 0, !.reply = NoReply,
                                    !.wrote = FALSE, !.result = res]

(* resolveSiteID and detectAPIBase: what the call asks for next *)
Proceed(local) ==
  CASE local.siteID # NoSite -> Ask(local, "op")
    [] local.siteID = NoSite /\ local.base = 0 -> Probe(local, 1)
    [] local.siteID = NoSite /\ local.base # 0 /\ local.label \in SiteIDs ->
         Ask([local EXCEPT !.siteID = local.label], "op")
    [] OTHER -> Ask(local, "sites")

(* NewClient, with an address and a key it accepts *)
Open(c, l) ==
  /\ Idle(c)
  /\ Becomes(c, [NoClient EXCEPT !.label = l])

Call(c, op) ==
  /\ Idle(c) /\ client[c].label # NoLabel
  /\ Becomes(c, Proceed([client[c] EXCEPT !.op = op, !.result = Failed]))

\* mutated: HTML is not told from an answer, where nothing is read from it
GoodUnchecked(c, req) ==
  /\ client[c].req = req
  /\ \/ client[c].reply.kind \in {"page", "list"}
     \/ client[c].reply.kind = "html" /\ client[c].op = "put" /\ req = "op"

(* doRequest returns a body, or an error: HTML is one, "the API key is      *)
(* wrong or the URL is pointing at the wrong endpoint"                      *)
Good(c, req) == client[c].req = req /\ client[c].reply.kind \in {"page", "list"}
Bad(c, req)  == client[c].req = req /\ client[c].reply # NoReply /\ ~Good(c, req)

(* the first base that answers is kept *)
FoundBase(c) ==
  /\ Good(c, "probe")
  /\ Becomes(c, Proceed([client[c] EXCEPT !.base = client[c].try]))

\* mutated: no end to the candidates, and the same one again
NextBaseUnbounded(c) ==
  /\ Bad(c, "probe")
  /\ Becomes(c, Probe(client[c], client[c].try + 1))
NextBaseSame(c) ==
  /\ Bad(c, "probe")
  /\ Becomes(c, Probe(client[c], client[c].try))

NextBase(c) ==
  /\ Bad(c, "probe")
  /\ Becomes(c, IF client[c].try + 1 \in Bases THEN Probe(client[c], client[c].try + 1)
                ELSE Finish(client[c], Failed))

\* mutated: the first site on the page, whatever it is called
FirstMatchAny(local, i) == i = 1

(* resolveSiteID takes the first site on the page that has the label as its *)
(* name, its reference or its id                                            *)
Matches(local, i) == local.label \in local.reply.page[i].called \cup {local.reply.page[i].id}
FirstMatch(local, i) == Matches(local, i) /\ \A k \in 1 .. i - 1 : ~Matches(local, k)

FoundSite(c) ==
  /\ Good(c, "sites")
  /\ \E i \in DOMAIN client[c].reply.page :
       /\ FirstMatch(client[c], i)
       /\ Becomes(c, Proceed([client[c] EXCEPT !.siteID = client[c].reply.page[i].id]))

NoSuchSite(c) ==
  /\ \/ Bad(c, "sites")
     \/ Good(c, "sites") /\ \A i \in DOMAIN client[c].reply.page : ~FirstMatch(client[c], i)
  /\ Becomes(c, Finish(client[c], Failed))

(* the body of an update's answer is not read *)
Return(c) ==
  \/ /\ Good(c, "op")
     /\ Becomes(c, Finish(client[c], IF client[c].op = "put" THEN c ELSE client[c].reply.text))
  \/ /\ Bad(c, "op")
     /\ Becomes(c, Finish(client[c], Failed))
-----------------------------------------------------------------------------
(* The controller *)

Waiting(c) == client[c].req # "none" /\ client[c].reply = NoReply
BaseOf(local) == IF local.req = "probe" THEN local.try ELSE local.base
Reply(c, reply) == client' = [client EXCEPT ![c].reply = reply]
Present(s) == \E i \in DOMAIN sites : sites[i].id = s

(* a page of sites; what is on it does not matter to a probe *)
FirstPage == SubSeq(sites, 1, IF PageLimit < Len(sites) THEN PageLimit ELSE Len(sites))
AnswerSites(c) ==
  /\ \/ client[c].req = "probe" /\ Reply(c, Page(<<>>))
     \/ client[c].req = "sites" /\ Reply(c, Page(FirstPage))
  /\ UNCHANGED lists

AnswerRead(c) ==
  /\ client[c].req = "op" /\ client[c].op # "put" /\ Present(client[c].siteID)
  /\ Reply(c, Holds(lists[client[c].siteID]))
  /\ UNCHANGED lists

(* an update takes effect; its answer may get lost *)
AnswerPut(c) ==
  /\ client[c].req = "op" /\ client[c].op = "put" /\ Present(client[c].siteID)
  /\ lists' = [lists EXCEPT ![client[c].siteID] = c]
  /\ \E reply \in {Holds(c), Error} :
       client' = [client EXCEPT ![c].reply = reply, ![c].wrote = TRUE]

Answer(c) ==
  /\ Waiting(c) /\ BaseOf(client[c]) \in served
  /\ AnswerSites(c) \/ AnswerRead(c) \/ AnswerPut(c)
  /\ UNCHANGED <<sites, served>>

(* no API at this base, no such site, or anything that goes wrong *)
Refuse(c) ==
  /\ Waiting(c)
  /\ \E reply \in {Error, Html} : Reply(c, reply)
  /\ UNCHANGED <<lists, sites, served>>

(* administrators *)
Edit(s, text) ==
  /\ Present(s)
  /\ lists' = [lists EXCEPT ![s] = text]
  /\ UNCHANGED <<sites, served, client>>

Arrange(table) ==
  /\ sites' = table
  /\ UNCHANGED <<lists, served, client>>

Upgrade(bases) ==
  /\ served' = bases
  /\ UNCHANGED <<lists, sites, client>>
-----------------------------------------------------------------------------
Init ==
  /\ lists \in [SiteIDs -> Edits]
  /\ sites \in SiteTables
  /\ served \in SUBSET Bases
  /\ client = [c \in Callers |-> NoClient]

Receive(c) == FoundBase(c) \/ NextBase(c) \/ FoundSite(c) \/ NoSuchSite(c) \/ Return(c)
Serve(c)   == Answer(c) \/ Refuse(c)

Next ==
  \/ \E c \in Callers : \/ \E l \in Labels : Open(c, l)
                        \/ \E op \in Ops : Call(c, op)
                        \/ Receive(c) \/ Serve(c)
  \/ \E s \in SiteIDs, text \in Edits : Edit(s, text)
  \/ \E table \in SiteTables : Arrange(table)
  \/ \E bases \in SUBSET Bases : Upgrade(bases)

Spec == Init /\ [][Next]_vars

(* A request is answered or fails: the HTTP client has no timeout, so that  *)
(* is for the network to see to.                                            *)
FairSpec == Spec /\ \A c \in Callers : WF_vars(Receive(c)) /\ WF_vars(Serve(c))
-----------------------------------------------------------------------------
ClientType ==
  [label : Labels \cup {NoLabel}, base : Bases \cup {0}, siteID : SiteIDs \cup {NoSite},
   op : Ops \cup {"none"}, req : Requests \cup {"none"}, try : Bases \cup {0},
   reply : Replies, wrote : BOOLEAN, result : Texts \cup {Failed}]

TypeOK ==
  /\ lists \in [SiteIDs -> Texts]
  /\ sites \in SiteTables
  /\ served \in SUBSET Bases
  /\ client \in [Callers -> ClientType]

(* The client does for its caller what ListAccess promises: one site for    *)
(* all its calls, the one the settings name, and no update that fails       *)
(* silently, happens twice or happens elsewhere, while answers are lost,    *)
(* login pages come back, and sites are renamed (resolveSiteID, doRequest,  *)
(* UpdateNetworkList).                                                      *)
Candidates(local) ==
  IF local.req = "sites" /\ local.reply.kind = "page"
  THEN {i \in DOMAIN local.reply.page : FirstMatch(local, i)} ELSE {}
Place(local) ==
  IF Candidates(local) = {} THEN local.siteID
  ELSE local.reply.page[CHOOSE i \in Candidates(local) : TRUE].id
Done(local) == local.req = "op" /\ (local.reply.kind = "list" \/ local.wrote)
CallOf(c, local) ==
  [op   |-> local.op, done |-> Done(local),
   got  |-> IF ~Done(local) THEN Failed ELSE IF local.wrote THEN c ELSE local.reply.text]

Access == INSTANCE ListAccess WITH
  names  <- [s \in SiteIDs |-> UNION {sites[i].called : i \in {k \in DOMAIN sites : sites[k].id = s}}],
  label  <- [c \in Callers |-> client[c].label],
  place  <- [c \in Callers |-> Place(client[c])],
  call   <- [c \in Callers |-> CallOf(c, client[c])],
  result <- [c \in Callers |-> client[c].result]
ImplementsListAccess == Access!Spec

(* Every call returns, whatever the controller answers and whatever state   *)
(* earlier calls have left the client in (detectAPIBase, resolveSiteID).    *)
CallsReturn == \A c \in Callers : (client[c].op # "none") ~> (client[c].op = "none")
-----------------------------------------------------------------------------
(* The inductive invariant behind the refinement *)

\* a request belongs to a call, an answer to the request it is for
CallInv(local) ==
  /\ local.op = "none" <=> local.req = "none"
  /\ local.req = "none" => local.reply = NoReply
  /\ local.reply.kind = "page" => local.req \in {"probe", "sites"}
  /\ local.reply.kind = "list" => local.req = "op"

\* the site is known before the list is asked for, and not looked up again
PlaceInv(local) ==
  /\ local.req = "op" => local.siteID # NoSite
  /\ local.req \in {"probe", "sites"} => local.siteID = NoSite
  /\ local.base # 0 /\ local.label \in SiteIDs => local.siteID # NoSite

\* wrote tells of an update that took effect
WroteInv(local) ==
  /\ local.wrote => local.req = "op" /\ local.op = "put" /\ local.reply.kind \in {"list", "error"}
  /\ local.reply.kind = "list" /\ local.op = "put" => local.wrote

LocalInv(local) == CallInv(local) /\ PlaceInv(local) /\ WroteInv(local)
ClientInv == TypeOK /\ \A c \in Callers : LocalInv(client[c])
=============================================================================
