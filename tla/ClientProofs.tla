---------------------------- MODULE ClientProofs ----------------------------
(***************************************************************************)
(* Client implements ListAccess, for any callers, labels, tables of sites, *)
(* size of a page and behaviour of the controller.                         *)
(***************************************************************************)
EXTENDS Client, SequenceTheorems, TLAPS

(* What one caller and the controller may do to that caller's client *)
Receives(c, local) ==
  /\ local \in ClientType /\ LocalInv(local)
  /\ client' = [client EXCEPT ![c] = local]

LEMMA ReplyTypes ==
  /\ NoReply \in Replies /\ Error \in Replies /\ Html \in Replies
  /\ \A p \in Pages : Page(p) \in Replies /\ Page(p).page = p /\ Page(p).kind = "page"
  /\ \A t \in Texts : Holds(t) \in Replies /\ Holds(t).text = t /\ Holds(t).kind = "list"
  /\ NoReply.kind = "none" /\ Error.kind = "error" /\ Html.kind = "html"
  /\ \A r \in Replies : /\ r.kind = "page" => r.page \in Pages
                        /\ r.kind = "list" => r.text \in Texts
                        /\ r # NoReply => r.kind # "none"
<1>1. NoReply.kind = "none" /\ Error.kind = "error" /\ Html.kind = "html"
  BY DEF NoReply, Error, Html
<1>2. \A p : Page(p).page = p /\ Page(p).kind = "page"
  BY DEF Page
<1>3. \A t : Holds(t).text = t /\ Holds(t).kind = "list"
  BY DEF Holds
<1>4. /\ NoReply \in Replies /\ Error \in Replies /\ Html \in Replies
      /\ \A p \in Pages : Page(p) \in Replies
      /\ \A t \in Texts : Holds(t) \in Replies
  BY DEF Replies
<1>5. ASSUME NEW r \in Replies
      PROVE  /\ r.kind = "page" => r.page \in Pages
             /\ r.kind = "list" => r.text \in Texts
             /\ r # NoReply => r.kind # "none"
  <2>1. CASE r \in {NoReply, Error, Html}
    BY <1>1, <2>1
  <2>2. CASE \E p \in Pages : r = Page(p)
    BY <1>2, <2>2
  <2>3. CASE \E t \in Texts : r = Holds(t)
    BY <1>3, <2>3
  <2> QED BY <2>1, <2>2, <2>3 DEF Replies
<1> QED BY <1>1, <1>2, <1>3, <1>4, <1>5

LEMMA PageTypes ==
  ASSUME NEW p \in Pages
  PROVE  \A i \in DOMAIN p : i \in Nat /\ p[i].id \in SiteIDs
  BY ClientAssumption DEF Pages

LEMMA TableTypes ==
  ASSUME NEW table \in SiteTables
  PROVE  \A i \in DOMAIN table : table[i].called \subseteq Labels
<1> DEFINE Site == [id : SiteIDs, called : SUBSET Labels]
<1>1. \A site \in Site : site.called \subseteq Labels
  OBVIOUS
<1> HIDE DEF Site
<1>2. table \in Seq(Site)
  BY ClientAssumption DEF Site
<1>3. \A i \in DOMAIN table : table[i] \in Site
  BY <1>2, LenProperties
<1> QED BY <1>1, <1>3

LEMMA FirstPageType == ASSUME sites \in SiteTables PROVE FirstPage \in Pages
<1>1. sites \in Seq([id : SiteIDs, called : SUBSET Labels]) /\ PageLimit \in Nat
  BY ClientAssumption
<1>2. PICK n \in 0 .. PageLimit : n <= Len(sites) /\ FirstPage = SubSeq(sites, 1, n)
  BY <1>1 DEF FirstPage
<1>3. FirstPage \in [1 .. n -> [id : SiteIDs, called : SUBSET Labels]]
  <2> DEFINE Site == [id : SiteIDs, called : SUBSET Labels]
  <2> HIDE DEF Site
  <2>1. sites \in Seq(Site) /\ n \in Nat
    BY <1>1, <1>2 DEF Site
  <2>2. \A i \in 1 .. n : sites[i] \in Site
    BY <1>2, <2>1, LenProperties
  <2>3. FirstPage \in Seq(Site) /\ Len(FirstPage) = IF 1 <= n THEN n - 1 + 1 ELSE 0
    BY <1>2, <2>1, <2>2, SubSeqProperties
  <2>4. Len(FirstPage) = n
    BY <2>1, <2>3
  <2>5. FirstPage \in [1 .. n -> Site]
    BY <2>3, <2>4, LenProperties
  <2> QED BY <2>5 DEF Site
<1> QED BY <1>2, <1>3 DEF Pages

LEMMA OnFirstPage ==
  ASSUME sites \in SiteTables, NEW i \in DOMAIN FirstPage
  PROVE  i \in DOMAIN sites /\ FirstPage[i] = sites[i]
<1> DEFINE Site == [id : SiteIDs, called : SUBSET Labels]
<1> HIDE DEF Site
<1>1. sites \in Seq(Site) /\ PageLimit \in Nat
  BY ClientAssumption DEF Site
<1>2. PICK n \in Nat : n <= Len(sites) /\ FirstPage = SubSeq(sites, 1, n)
  BY <1>1, LenProperties DEF FirstPage
<1>3. \A k \in 1 .. n : sites[k] \in Site
  BY <1>1, <1>2, LenProperties
<1>4. /\ SubSeq(sites, 1, n) \in Seq(Site) /\ Len(SubSeq(sites, 1, n)) = n
      /\ \A k \in 1 .. n : SubSeq(sites, 1, n)[k] = sites[k]
  BY <1>1, <1>2, <1>3, SubSeqProperties
<1>5. i \in 1 .. n
  BY <1>2, <1>4, LenProperties
<1> QED BY <1>1, <1>2, <1>4, <1>5, LenProperties

(* The invariant after a step that replaces one client. *)
LEMMA OneClient ==
  ASSUME ClientInv, NEW c \in Callers, NEW local, Receives(c, local),
         lists' \in [SiteIDs -> Texts], sites' \in SiteTables, served' \in SUBSET Bases
  PROVE  ClientInv'
<1>1. client' \in [Callers -> ClientType]
  BY DEF Receives, ClientInv, TypeOK
<1>2. \A d \in Callers : client'[d] = IF d = c THEN local ELSE client[d]
  BY DEF Receives, ClientInv, TypeOK
<1>3. \A d \in Callers : LocalInv(client'[d])
  BY <1>2 DEF Receives, ClientInv
<1>4. \A d \in Callers : LocalInv(client[d])'
  BY <1>3 DEF LocalInv, CallInv, PlaceInv, WroteInv
<1> QED BY <1>1, <1>4 DEF ClientInv, TypeOK

(* What asking for something leaves as it was. *)
LEMMA AskFields ==
  ASSUME NEW local \in ClientType, NEW q \in Requests
  PROVE  /\ Ask(local, q) \in ClientType
         /\ Ask(local, q).req = q /\ Ask(local, q).reply = NoReply
         /\ Ask(local, q).label = local.label /\ Ask(local, q).base = local.base
         /\ Ask(local, q).siteID = local.siteID /\ Ask(local, q).op = local.op
         /\ Ask(local, q).wrote = local.wrote /\ Ask(local, q).result = local.result
         /\ Ask(local, q).try = local.try
<1>1. NoReply \in Replies
  BY ReplyTypes
<1> QED BY <1>1 DEF Ask, ClientType

LEMMA ProbeFields ==
  ASSUME NEW local \in ClientType, NEW b \in Bases
  PROVE  /\ Probe(local, b) \in ClientType
         /\ Probe(local, b).req = "probe" /\ Probe(local, b).reply = NoReply
         /\ Probe(local, b).label = local.label /\ Probe(local, b).base = local.base
         /\ Probe(local, b).siteID = local.siteID /\ Probe(local, b).op = local.op
         /\ Probe(local, b).wrote = local.wrote /\ Probe(local, b).result = local.result
<1>1. PICK asked \in ClientType : asked = Ask(local, "probe")
  BY AskFields DEF Requests
<1>2. Probe(local, b) = [asked EXCEPT !.try = b]
  BY <1>1 DEF Probe
<1>3. /\ Probe(local, b) \in ClientType
      /\ Probe(local, b).req = asked.req /\ Probe(local, b).reply = asked.reply
      /\ Probe(local, b).label = asked.label /\ Probe(local, b).base = asked.base
      /\ Probe(local, b).siteID = asked.siteID /\ Probe(local, b).op = asked.op
      /\ Probe(local, b).wrote = asked.wrote /\ Probe(local, b).result = asked.result
  BY <1>2 DEF ClientType
<1> QED BY <1>1, <1>3, AskFields DEF Requests

LEMMA FinishFields ==
  ASSUME NEW local \in ClientType, NEW res \in Texts \cup {Failed}
  PROVE  /\ Finish(local, res) \in ClientType
         /\ Finish(local, res).op = "none" /\ Finish(local, res).req = "none"
         /\ Finish(local, res).reply = NoReply /\ Finish(local, res).wrote = FALSE
         /\ Finish(local, res).label = local.label /\ Finish(local, res).base = local.base
         /\ Finish(local, res).siteID = local.siteID /\ Finish(local, res).result = res
<1>1. NoReply \in Replies
  BY ReplyTypes
<1> QED BY <1>1 DEF Finish, ClientType

(* What is asked for next fits what is known; the site becomes known now,   *)
(* if the settings give its id and the base is known.                       *)
LEMMA ProceedFields ==
  ASSUME NEW local \in ClientType, local.op \in Ops, ~local.wrote
  PROVE  LET new == Proceed(local) IN
         /\ new \in ClientType /\ LocalInv(new)
         /\ new.label = local.label /\ new.op = local.op /\ new.result = local.result
         /\ new.wrote = FALSE /\ new.reply = NoReply
         /\ \/ new.siteID = local.siteID
            \/ /\ local.siteID = NoSite /\ local.base # 0
               /\ local.label \in SiteIDs /\ new.siteID = local.label
<1> DEFINE new == Proceed(local)
<1>0. NoReply.kind = "none" /\ NoSite \notin SiteIDs /\ "none" \notin Ops /\ local.wrote = FALSE
  BY ReplyTypes, ClientAssumption DEF Ops, ClientType
<1>1. CASE local.siteID # NoSite
  <2>1. new = Ask(local, "op")
    BY <1>1 DEF Proceed
  <2> QED BY <1>0, <1>1, <2>1, AskFields DEF Requests, LocalInv, CallInv, PlaceInv, WroteInv
<1>2. CASE local.siteID = NoSite /\ local.base = 0
  <2>1. new = Probe(local, 1) /\ 1 \in Bases
    BY <1>2 DEF Proceed, Bases
  <2> QED BY <1>0, <1>2, <2>1, ProbeFields DEF LocalInv, CallInv, PlaceInv, WroteInv
<1>3. CASE local.siteID = NoSite /\ local.base # 0 /\ local.label \in SiteIDs
  <2>1. PICK known \in ClientType : known = [local EXCEPT !.siteID = local.label]
    BY <1>3 DEF ClientType
  <2>2. /\ known.siteID = local.label /\ known.label = local.label /\ known.op = local.op
        /\ known.wrote = local.wrote /\ known.result = local.result
    BY <2>1 DEF ClientType
  <2>3. new = Ask(known, "op")
    BY <1>3, <2>1 DEF Proceed
  <2> QED BY <1>0, <1>3, <2>2, <2>3, AskFields DEF Requests, LocalInv, CallInv, PlaceInv, WroteInv
<1>4. CASE local.siteID = NoSite /\ local.base # 0 /\ local.label \notin SiteIDs
  <2>1. new = Ask(local, "sites")
    BY <1>4 DEF Proceed
  <2> QED BY <1>0, <1>4, <2>1, AskFields DEF Requests, LocalInv, CallInv, PlaceInv, WroteInv
<1> QED BY <1>1, <1>2, <1>3, <1>4
-----------------------------------------------------------------------------
(* The variables of ListAccess, as Client computes them *)
NamesBar  == [s \in SiteIDs |-> UNION {sites[i].called : i \in {k \in DOMAIN sites : sites[k].id = s}}]
LabelBar  == [c \in Callers |-> client[c].label]
PlaceBar  == [c \in Callers |-> Place(client[c])]
CallBar   == [c \in Callers |-> CallOf(c, client[c])]
ResultBar == [c \in Callers |-> client[c].result]

AccessStep == Access!Next \/ UNCHANGED <<lists, NamesBar, LabelBar, PlaceBar, CallBar, ResultBar>>

LEMMA StepIsAccess == AccessStep <=> [Access!Next]_(Access!accessVars)
  BY DEF AccessStep, Access!accessVars, NamesBar, LabelBar, PlaceBar, CallBar, ResultBar

(* A site is known, or just being found: the first on the page that bears   *)
(* the label is one and no other.                                           *)
LEMMA PlaceKnown ==
  ASSUME NEW local, local.req # "sites" \/ local.reply.kind # "page"
  PROVE  Place(local) = local.siteID
  BY DEF Place, Candidates

LEMMA PlaceUnfound ==
  ASSUME NEW local, \A i \in DOMAIN local.reply.page : ~FirstMatch(local, i)
  PROVE  Place(local) = local.siteID
  BY DEF Place, Candidates

LEMMA PlaceFound ==
  ASSUME NEW local \in ClientType, local.req = "sites", local.reply.kind = "page",
         NEW i \in DOMAIN local.reply.page, FirstMatch(local, i)
  PROVE  Place(local) = local.reply.page[i].id /\ local.reply.page[i].id \in SiteIDs
<1>1. local.reply.page \in Pages
  BY ReplyTypes DEF ClientType
<1>2. \A k \in DOMAIN local.reply.page : k \in Nat /\ k >= 1
  BY <1>1 DEF Pages
<1>3. \A k \in DOMAIN local.reply.page : FirstMatch(local, k) => k = i
  <2> SUFFICES ASSUME NEW k \in DOMAIN local.reply.page, FirstMatch(local, k), k # i
               PROVE  FALSE
    OBVIOUS
  <2>1. CASE k < i
    BY <1>2, <2>1 DEF FirstMatch
  <2>2. CASE i < k
    BY <1>2, <2>2 DEF FirstMatch
  <2> QED BY <1>2, <2>1, <2>2
<1>4. Candidates(local) = {i}
  BY <1>3 DEF Candidates
<1> QED BY <1>1, <1>4, PageTypes DEF Place

(* What the step of one client does to those variables. *)
Barred(c, new) ==
  /\ LabelBar' = [LabelBar EXCEPT ![c] = new.label] /\ LabelBar[c] = client[c].label
  /\ PlaceBar' = [PlaceBar EXCEPT ![c] = Place(new)] /\ PlaceBar[c] = Place(client[c])
  /\ CallBar' = [CallBar EXCEPT ![c] = CallOf(c, new)] /\ CallBar[c] = CallOf(c, client[c])
  /\ ResultBar' = [ResultBar EXCEPT ![c] = new.result] /\ ResultBar[c] = client[c].result

LEMMA Bars ==
  ASSUME client \in [Callers -> ClientType], NEW c \in Callers, NEW new,
         client' = [client EXCEPT ![c] = new]
  PROVE  Barred(c, new)
<1>1. client'[c] = new /\ \A d \in Callers \ {c} : client'[d] = client[d]
  OBVIOUS
<1>2. LabelBar' = [LabelBar EXCEPT ![c] = new.label]
  BY <1>1 DEF LabelBar
<1>3. PlaceBar' = [PlaceBar EXCEPT ![c] = Place(new)]
  <2>1. PlaceBar' = [d \in Callers |-> Place(client'[d])]
    BY DEF PlaceBar, Place, Candidates, FirstMatch, Matches
  <2> QED BY <1>1, <2>1 DEF PlaceBar
<1>4. CallBar' = [CallBar EXCEPT ![c] = CallOf(c, new)]
  <2>1. CallBar' = [d \in Callers |-> CallOf(d, client'[d])]
    BY DEF CallBar, CallOf, Done
  <2> QED BY <1>1, <2>1 DEF CallBar
<1>5. ResultBar' = [ResultBar EXCEPT ![c] = new.result]
  BY <1>1 DEF ResultBar
<1> QED BY <1>2, <1>3, <1>4, <1>5 DEF Barred, LabelBar, PlaceBar, CallBar, ResultBar

LEMMA CallOp == ASSUME NEW c, NEW local PROVE CallOf(c, local).op = local.op
<1>1. PICK d : d = Done(local)
  OBVIOUS
<1>2. PICK got : got = IF ~Done(local) THEN Failed ELSE IF local.wrote THEN c ELSE local.reply.text
  OBVIOUS
<1>3. CallOf(c, local) = [op |-> local.op, done |-> d, got |-> got]
  BY <1>1, <1>2, Zenon DEF CallOf
<1> QED BY <1>3

LEMMA NamesKept == ASSUME UNCHANGED sites PROVE UNCHANGED NamesBar
  BY DEF NamesBar

(* Steps of one client, by what they are in ListAccess *)
Moves(c, new) ==
  /\ client \in [Callers -> ClientType]
  /\ client' = [client EXCEPT ![c] = new]
  /\ UNCHANGED sites

\* a step that nobody can tell
LEMMA Unseen ==
  ASSUME NEW c \in Callers, NEW new, Moves(c, new), UNCHANGED lists,
         new.label = client[c].label, Place(new) = Place(client[c]),
         CallOf(c, new) = CallOf(c, client[c]), new.result = client[c].result
  PROVE  AccessStep
<1>0. Barred(c, new)
  BY Bars DEF Moves
<1>1. /\ LabelBar' = [LabelBar EXCEPT ![c] = LabelBar[c]]
      /\ PlaceBar' = [PlaceBar EXCEPT ![c] = PlaceBar[c]]
      /\ CallBar' = [CallBar EXCEPT ![c] = CallBar[c]]
      /\ ResultBar' = [ResultBar EXCEPT ![c] = ResultBar[c]]
  BY <1>0 DEF Barred
<1>2. UNCHANGED LabelBar
  BY <1>1 DEF LabelBar
<1>3. UNCHANGED PlaceBar
  BY <1>1 DEF PlaceBar
<1>4. UNCHANGED CallBar
  BY <1>1 DEF CallBar
<1>5. UNCHANGED ResultBar
  BY <1>1 DEF ResultBar
<1> QED BY <1>2, <1>3, <1>4, <1>5, NamesKept DEF Moves, AccessStep

LEMMA IsOpen ==
  ASSUME NEW c \in Callers, NEW new, Moves(c, new), UNCHANGED lists, NEW l \in Labels,
         CallOf(c, client[c]) = Access!NoCall, CallOf(c, new) = Access!NoCall,
         new.label = l, Place(new) = NoSite, new.result = Failed
  PROVE  AccessStep
<1>0. Barred(c, new)
  BY Bars DEF Moves
<1>1. /\ LabelBar' = [LabelBar EXCEPT ![c] = l]
      /\ PlaceBar' = [PlaceBar EXCEPT ![c] = NoSite]
      /\ CallBar' = [CallBar EXCEPT ![c] = CallBar[c]] /\ CallBar[c] = Access!NoCall
      /\ ResultBar' = [ResultBar EXCEPT ![c] = Failed]
  BY <1>0 DEF Barred
<1>2. UNCHANGED <<CallBar, NamesBar>>
  BY <1>1, NamesKept DEF CallBar, Moves
<1>3. Access!Open(c, l)
  BY <1>1, <1>2 DEF Access!Open, LabelBar, PlaceBar, CallBar, ResultBar, NamesBar
<1> QED BY <1>3 DEF AccessStep, Access!Next, Access!Act

LEMMA IsBegin ==
  ASSUME NEW c \in Callers, NEW new, Moves(c, new), UNCHANGED lists, NEW op \in Ops,
         client[c].label # NoLabel, CallOf(c, client[c]) = Access!NoCall,
         CallOf(c, new) = Access!Begun(op),
         new.label = client[c].label, Place(new) = Place(client[c]), new.result = Failed
  PROVE  AccessStep
<1>0. Barred(c, new)
  BY Bars DEF Moves
<1>1. /\ LabelBar' = [LabelBar EXCEPT ![c] = LabelBar[c]] /\ LabelBar[c] # NoLabel
      /\ PlaceBar' = [PlaceBar EXCEPT ![c] = PlaceBar[c]]
      /\ CallBar' = [CallBar EXCEPT ![c] = CallOf(c, new)] /\ CallBar[c] = Access!NoCall
      /\ ResultBar' = [ResultBar EXCEPT ![c] = Failed]
  BY <1>0 DEF Barred
<1>2. UNCHANGED LabelBar
  BY <1>1 DEF LabelBar
<1>3. UNCHANGED PlaceBar
  BY <1>1 DEF PlaceBar
<1>5. Access!Begin(c, op)
  BY <1>1, <1>2, <1>3, NamesKept DEF Moves, Access!Begin, LabelBar, PlaceBar, CallBar, ResultBar, NamesBar
<1>6. op \in Access!Reads \cup {"put"}
  BY DEF Ops, Access!Reads
<1> QED BY <1>5, <1>6 DEF AccessStep, Access!Next, Access!Act

LEMMA IsLocate ==
  ASSUME NEW c \in Callers, NEW new, Moves(c, new), UNCHANGED lists, NEW s \in SiteIDs,
         client[c].op # "none", Place(client[c]) = NoSite, Place(new) = s,
         client[c].label \in NamesBar[s] \cup {s},
         new.label = client[c].label,
         CallOf(c, new) = CallOf(c, client[c]), new.result = client[c].result
  PROVE  AccessStep
<1>0. Barred(c, new)
  BY Bars DEF Moves
<1>1. /\ LabelBar' = [LabelBar EXCEPT ![c] = LabelBar[c]] /\ LabelBar[c] = client[c].label
      /\ PlaceBar' = [PlaceBar EXCEPT ![c] = s] /\ PlaceBar[c] = NoSite
      /\ CallBar' = [CallBar EXCEPT ![c] = CallBar[c]] /\ CallBar[c].op # "none"
      /\ ResultBar' = [ResultBar EXCEPT ![c] = ResultBar[c]]
  BY <1>0, CallOp DEF Barred
<1>2. UNCHANGED LabelBar
  BY <1>1 DEF LabelBar
<1>3. UNCHANGED CallBar
  BY <1>1 DEF CallBar
<1>4. UNCHANGED ResultBar
  BY <1>1 DEF ResultBar
<1>5. Access!Locate(c, s)
  BY <1>1, <1>2, <1>3, <1>4, NamesKept DEF Moves, Access!Locate, LabelBar, PlaceBar, CallBar, ResultBar, NamesBar
<1> QED BY <1>5 DEF AccessStep, Access!Next, Access!Act

LEMMA IsReturn ==
  ASSUME NEW c \in Callers, NEW new, Moves(c, new), UNCHANGED lists,
         client[c].op # "none", CallOf(c, new) = Access!NoCall,
         \/ new.result = Failed
         \/ CallOf(c, client[c]).done /\ new.result = CallOf(c, client[c]).got,
         new.label = client[c].label, Place(new) = Place(client[c])
  PROVE  AccessStep
<1>0. Barred(c, new)
  BY Bars DEF Moves
<1>1. /\ LabelBar' = [LabelBar EXCEPT ![c] = LabelBar[c]]
      /\ PlaceBar' = [PlaceBar EXCEPT ![c] = PlaceBar[c]]
      /\ CallBar' = [CallBar EXCEPT ![c] = Access!NoCall] /\ CallBar[c] = CallOf(c, client[c])
      /\ ResultBar' = [ResultBar EXCEPT ![c] = new.result]
  BY <1>0 DEF Barred
<1>2. UNCHANGED LabelBar
  BY <1>1 DEF LabelBar
<1>3. UNCHANGED PlaceBar
  BY <1>1 DEF PlaceBar
<1>4. CallBar[c].op # "none"
  BY <1>1, CallOp
<1>5. \/ ResultBar' = [ResultBar EXCEPT ![c] = Failed]
      \/ CallBar[c].done /\ ResultBar' = [ResultBar EXCEPT ![c] = CallBar[c].got]
  <2>1. CASE new.result = Failed
    BY <1>1, <2>1
  <2>2. CASE CallOf(c, client[c]).done /\ new.result = CallOf(c, client[c]).got
    BY <1>1, <2>2
  <2> QED BY <2>1, <2>2
<1>6. Access!Return(c)
  BY <1>1, <1>2, <1>3, <1>4, <1>5, NamesKept DEF Moves, Access!Return, LabelBar, PlaceBar, CallBar, ResultBar, NamesBar
<1> QED BY <1>6 DEF AccessStep, Access!Next, Access!Act

\* a read, or an update, takes effect
LEMMA IsEffect ==
  ASSUME NEW c \in Callers, NEW new, Moves(c, new),
         CallOf(c, client[c]).done = FALSE, Place(client[c]) # NoSite,
         CallOf(c, client[c]).op \in Ops,
         \/ /\ CallOf(c, client[c]).op # "put" /\ UNCHANGED lists
            /\ CallOf(c, new) = Access!Effected(CallOf(c, client[c]).op, lists[Place(client[c])])
         \/ /\ CallOf(c, client[c]).op = "put" /\ lists' = [lists EXCEPT ![Place(client[c])] = c]
            /\ CallOf(c, new) = Access!Effected("put", c),
         new.label = client[c].label, Place(new) = Place(client[c]), new.result = client[c].result
  PROVE  AccessStep
<1>0. Barred(c, new)
  BY Bars DEF Moves
<1>1. /\ LabelBar' = [LabelBar EXCEPT ![c] = LabelBar[c]]
      /\ PlaceBar' = [PlaceBar EXCEPT ![c] = PlaceBar[c]] /\ PlaceBar[c] = Place(client[c])
      /\ CallBar' = [CallBar EXCEPT ![c] = CallOf(c, new)] /\ CallBar[c] = CallOf(c, client[c])
      /\ ResultBar' = [ResultBar EXCEPT ![c] = ResultBar[c]]
  BY <1>0 DEF Barred
<1>2. UNCHANGED LabelBar
  BY <1>1 DEF LabelBar
<1>3. UNCHANGED PlaceBar
  BY <1>1 DEF PlaceBar
<1>4. UNCHANGED ResultBar
  BY <1>1 DEF ResultBar
<1>5. CASE CallBar[c].op # "put"
  <2>2. CallBar' = [CallBar EXCEPT ![c] = Access!Effected(CallBar[c].op, lists[PlaceBar[c]])]
    BY <1>1, <1>5
  <2>3. UNCHANGED lists /\ CallBar[c].op \in Access!Reads
    BY <1>1, <1>5 DEF Ops, Access!Reads
  <2>4. Access!Read(c)
    BY <1>1, <1>2, <1>3, <1>4, <2>2, <2>3, NamesKept
       DEF Moves, Access!Read, LabelBar, PlaceBar, CallBar, ResultBar, NamesBar
  <2> QED BY <2>4 DEF AccessStep, Access!Next, Access!Act
<1>6. CASE CallBar[c].op = "put"
  <2>2. CallBar' = [CallBar EXCEPT ![c] = Access!Effected("put", c)]
    BY <1>1, <1>6
  <2>3. lists' = [lists EXCEPT ![PlaceBar[c]] = c]
    BY <1>1, <1>6
  <2>4. Access!Write(c)
    BY <1>1, <1>2, <1>3, <1>4, <1>6, <2>2, <2>3, NamesKept
       DEF Moves, Access!Write, LabelBar, PlaceBar, CallBar, ResultBar, NamesBar
  <2> QED BY <2>4 DEF AccessStep, Access!Next, Access!Act
<1> QED BY <1>5, <1>6
-----------------------------------------------------------------------------
(* The actions, one by one *)

LEMMA Own ==
  ASSUME ClientInv, NEW c \in Callers
  PROVE  client[c] \in ClientType /\ LocalInv(client[c]) /\ client \in [Callers -> ClientType]
  BY DEF ClientInv, TypeOK

LEMMA Undone ==
  ASSUME NEW local \in ClientType, NEW c, ~Done(local)
  PROVE  CallOf(c, local) = Access!Begun(local.op)
<1>1. Done(local) = FALSE
  BY DEF Done
<1>2. (IF ~Done(local) THEN Failed ELSE IF local.wrote THEN c ELSE local.reply.text) = Failed
  OBVIOUS
<1>3. CallOf(c, local) = [op |-> local.op, done |-> FALSE, got |-> Failed]
  BY <1>1, <1>2, Zenon DEF CallOf
<1> QED BY <1>3 DEF Access!Begun

\* while there is no answer nothing has happened yet
LEMMA Unanswered ==
  ASSUME NEW local \in ClientType, NEW c, local.reply = NoReply, ~local.wrote
  PROVE  /\ CallOf(c, local) = Access!Begun(local.op)
         /\ Place(local) = local.siteID
         /\ ~Done(local)
<1>1. local.reply.kind = "none"
  BY ReplyTypes
<1> QED BY <1>1, Undone, PlaceKnown DEF Done

(* A step of the client leaves the controller as it is. *)
LEMMA Keeps ==
  ASSUME ClientInv, NEW c \in Callers, NEW new \in ClientType, LocalInv(new), Becomes(c, new)
  PROVE  ClientInv' /\ Moves(c, new) /\ UNCHANGED lists
<1>1. client' = [client EXCEPT ![c] = new] /\ UNCHANGED <<lists, sites, served>>
  BY DEF Becomes
<1>2. Receives(c, new)
  BY <1>1 DEF Receives
<1>3. ClientInv'
  BY <1>1, <1>2, OneClient DEF ClientInv, TypeOK
<1> QED BY <1>1, <1>3, Own DEF Moves

LEMMA StepOpen ==
  ASSUME ClientInv, NEW c \in Callers, NEW l \in Labels, Open(c, l)
  PROVE  ClientInv' /\ AccessStep
<1>1. PICK new : new = [NoClient EXCEPT !.label = l]
  OBVIOUS
<1>2. /\ new.label = l /\ new.base = 0 /\ new.siteID = NoSite /\ new.op = "none"
      /\ new.req = "none" /\ new.reply = NoReply /\ new.wrote = FALSE /\ new.result = Failed
  BY <1>1 DEF NoClient
<1>3. new \in ClientType
  BY <1>1, ReplyTypes DEF NoClient, ClientType
<1>4. LocalInv(new)
  BY <1>2, ReplyTypes DEF LocalInv, CallInv, PlaceInv, WroteInv
<1>5. ClientInv' /\ Moves(c, new) /\ UNCHANGED lists
  BY <1>1, <1>3, <1>4, Keeps DEF Open
<1>6. client[c].op = "none" /\ client[c].reply = NoReply /\ ~client[c].wrote
  BY Own DEF Open, Idle, LocalInv, CallInv, WroteInv
<1>7. CallOf(c, client[c]) = Access!NoCall /\ CallOf(c, new) = Access!NoCall /\ Place(new) = NoSite
  BY <1>2, <1>3, <1>6, Own, Unanswered DEF Access!NoCall
<1> QED BY <1>2, <1>5, <1>7, IsOpen

LEMMA StepCall ==
  ASSUME ClientInv, NEW c \in Callers, NEW op \in Ops, Call(c, op)
  PROVE  ClientInv' /\ AccessStep
<1>1. PICK called \in ClientType : called = [client[c] EXCEPT !.op = op, !.result = Failed]
  BY Own DEF ClientType
<1>2. /\ called.op = op /\ called.result = Failed /\ called.wrote = client[c].wrote
      /\ called.label = client[c].label /\ called.siteID = client[c].siteID
      /\ called.base = client[c].base
  BY <1>1, Own DEF ClientType
<1>3. /\ client[c].op = "none" /\ client[c].reply = NoReply /\ ~client[c].wrote
      /\ client[c].label # NoLabel
  BY Own DEF Call, Idle, LocalInv, CallInv, WroteInv
<1>4. PICK new : new = Proceed(called)
  OBVIOUS
<1>5. /\ new \in ClientType /\ LocalInv(new)
      /\ new.label = client[c].label /\ new.op = op /\ new.result = Failed
      /\ new.wrote = FALSE /\ new.reply = NoReply
      /\ new.siteID = client[c].siteID
  <2>1. called.op \in Ops /\ ~called.wrote
    BY <1>2, <1>3
  <2>2. /\ new \in ClientType /\ LocalInv(new)
        /\ new.label = called.label /\ new.op = called.op /\ new.result = called.result
        /\ new.wrote = FALSE /\ new.reply = NoReply
        /\ \/ new.siteID = called.siteID
           \/ /\ called.siteID = NoSite /\ called.base # 0
              /\ called.label \in SiteIDs /\ new.siteID = called.label
    BY <1>4, <2>1, ProceedFields
  <2>3. client[c].base # 0 /\ client[c].label \in SiteIDs => client[c].siteID # NoSite
    BY Own DEF LocalInv, PlaceInv
  <2> QED BY <1>2, <2>2, <2>3
<1>6. ClientInv' /\ Moves(c, new) /\ UNCHANGED lists
  BY <1>1, <1>4, <1>5, Keeps DEF Call
<1>7. /\ CallOf(c, client[c]) = Access!NoCall /\ CallOf(c, new) = Access!Begun(op)
      /\ Place(new) = Place(client[c])
  BY <1>3, <1>5, Own, Unanswered DEF Access!NoCall
<1> QED BY <1>3, <1>5, <1>6, <1>7, IsBegin

\* during a call, before its operation is asked for
LEMMA Searching ==
  ASSUME ClientInv, NEW c \in Callers, client[c].req \in {"probe", "sites"}
  PROVE  /\ client[c].op \in Ops /\ client[c].op # "none" /\ client[c].wrote = FALSE
         /\ client[c].siteID = NoSite
         /\ CallOf(c, client[c]) = Access!Begun(client[c].op)
<1>1. client[c].op \in Ops /\ client[c].op # "none"
  BY Own DEF LocalInv, CallInv, ClientType, Ops
<1>2. client[c].wrote = FALSE
  BY Own DEF LocalInv, WroteInv, ClientType
<1>3. client[c].siteID = NoSite
  BY Own DEF LocalInv, PlaceInv
<1>4. ~Done(client[c])
  BY DEF Done
<1> QED BY <1>1, <1>2, <1>3, <1>4, Own, Undone

LEMMA StepFoundBase ==
  ASSUME ClientInv, NEW c \in Callers, FoundBase(c)
  PROVE  ClientInv' /\ AccessStep
<1>1. client[c].req = "probe"
  BY DEF FoundBase, Good
<1>2. PICK known \in ClientType : known = [client[c] EXCEPT !.base = client[c].try]
  BY Own DEF ClientType
<1>3. /\ known.op = client[c].op /\ known.result = client[c].result /\ known.wrote = client[c].wrote
      /\ known.label = client[c].label /\ known.siteID = client[c].siteID
  BY <1>2, Own DEF ClientType
<1>4. PICK new : new = Proceed(known)
  OBVIOUS
<1>5. known.op \in Ops /\ ~known.wrote /\ known.siteID = NoSite /\ client[c].op # "none"
  BY <1>1, <1>3, Searching
<1>6. /\ new \in ClientType /\ LocalInv(new)
      /\ new.label = known.label /\ new.op = known.op /\ new.result = known.result
      /\ new.wrote = FALSE /\ new.reply = NoReply
      /\ \/ new.siteID = known.siteID
         \/ known.label \in SiteIDs /\ new.siteID = known.label
  BY <1>4, <1>5, ProceedFields
<1>7. ClientInv' /\ Moves(c, new) /\ UNCHANGED lists
  BY <1>2, <1>4, <1>6, Keeps DEF FoundBase
<1>8. CallOf(c, new) = CallOf(c, client[c]) /\ Place(new) = new.siteID
  BY <1>1, <1>3, <1>6, Searching, Unanswered
<1>9. Place(client[c]) = NoSite
  BY <1>1, Searching, PlaceKnown
<1>10. CASE new.siteID = known.siteID
  BY <1>3, <1>5, <1>6, <1>7, <1>8, <1>9, <1>10, Unseen
<1>11. CASE known.label \in SiteIDs /\ new.siteID = known.label
  <2>1. PICK s \in SiteIDs : s = known.label
    BY <1>11
  <2>2. client[c].label \in NamesBar[s] \cup {s}
    BY <1>3, <2>1
  <2>3. Place(new) = s
    BY <1>8, <1>11, <2>1
  <2> QED BY <1>3, <1>5, <1>6, <1>7, <1>8, <1>9, <2>2, <2>3, IsLocate
<1> QED BY <1>6, <1>10, <1>11

(* The end of a call, with what it has come to or with an error *)
LEMMA Ends ==
  ASSUME ClientInv, NEW c \in Callers, NEW res \in Texts \cup {Failed},
         Becomes(c, Finish(client[c], res)), client[c].op # "none",
         Place(client[c]) = client[c].siteID,
         \/ res = Failed
         \/ CallOf(c, client[c]).done /\ res = CallOf(c, client[c]).got
  PROVE  ClientInv' /\ AccessStep
<1>1. PICK new : new = Finish(client[c], res)
  OBVIOUS
<1>2. /\ new \in ClientType /\ new.op = "none" /\ new.req = "none"
      /\ new.reply = NoReply /\ new.wrote = FALSE
      /\ new.label = client[c].label /\ new.base = client[c].base
      /\ new.siteID = client[c].siteID /\ new.result = res
  BY <1>1, Own, FinishFields
<1>3. LocalInv(new)
  <2>1. new.base # 0 /\ new.label \in SiteIDs => new.siteID # NoSite
    BY <1>2, Own DEF LocalInv, PlaceInv
  <2> QED BY <1>2, <2>1, ReplyTypes DEF LocalInv, CallInv, PlaceInv, WroteInv
<1>4. ClientInv' /\ Moves(c, new) /\ UNCHANGED lists
  BY <1>1, <1>2, <1>3, Keeps
<1>5. CallOf(c, new) = Access!NoCall /\ Place(new) = Place(client[c])
  BY <1>2, Unanswered DEF Access!NoCall
<1>6. \/ new.result = Failed
      \/ CallOf(c, client[c]).done /\ new.result = CallOf(c, client[c]).got
  BY <1>2
<1> QED BY <1>2, <1>4, <1>5, <1>6, IsReturn

LEMMA StepNextBase ==
  ASSUME ClientInv, NEW c \in Callers, NextBase(c)
  PROVE  ClientInv' /\ AccessStep
<1>1. client[c].req = "probe"
  BY DEF NextBase, Bad
<1>2. Place(client[c]) = client[c].siteID
  BY <1>1, PlaceKnown
<1>3. CASE client[c].try + 1 \in Bases
  <2>1. PICK b \in Bases : b = client[c].try + 1
    BY <1>3
  <2>2. PICK new : new = Probe(client[c], b)
    OBVIOUS
  <2>3. /\ new \in ClientType /\ new.req = "probe" /\ new.reply = NoReply
        /\ new.label = client[c].label /\ new.base = client[c].base
        /\ new.siteID = client[c].siteID /\ new.op = client[c].op
        /\ new.wrote = client[c].wrote /\ new.result = client[c].result
    BY <2>2, Own, ProbeFields
  <2>4. LocalInv(new)
    <3>1. new.base # 0 /\ new.label \in SiteIDs => new.siteID # NoSite
      BY <2>3, Own DEF LocalInv, PlaceInv
    <3>2. new.op # "none" /\ ~new.wrote /\ new.siteID = NoSite
      BY <1>1, <2>3, Searching
    <3> QED BY <2>3, <3>1, <3>2, ReplyTypes DEF LocalInv, CallInv, PlaceInv, WroteInv
  <2>5. ClientInv' /\ Moves(c, new) /\ UNCHANGED lists
    BY <1>3, <2>1, <2>2, <2>3, <2>4, Keeps DEF NextBase
  <2>6. CallOf(c, new) = CallOf(c, client[c]) /\ Place(new) = Place(client[c])
    BY <1>1, <1>2, <2>3, Searching, Unanswered
  <2> QED BY <2>3, <2>5, <2>6, Unseen
<1>4. CASE client[c].try + 1 \notin Bases
  <2>1. Becomes(c, Finish(client[c], Failed)) /\ client[c].op # "none"
    BY <1>1, <1>4, Searching DEF NextBase
  <2> QED BY <1>2, <2>1, Ends
<1> QED BY <1>3, <1>4

LEMMA StepFoundSite ==
  ASSUME ClientInv, NEW c \in Callers, FoundSite(c)
  PROVE  ClientInv' /\ AccessStep
<1>1. client[c].req = "sites" /\ client[c].reply.kind = "page"
  BY Own DEF FoundSite, Good, LocalInv, CallInv
<1>2. PICK i \in DOMAIN client[c].reply.page :
        /\ FirstMatch(client[c], i)
        /\ Becomes(c, Proceed([client[c] EXCEPT !.siteID = client[c].reply.page[i].id]))
  BY DEF FoundSite
<1>3. PICK s \in SiteIDs : s = client[c].reply.page[i].id /\ Place(client[c]) = s
  BY <1>1, <1>2, Own, PlaceFound
<1>4. PICK known \in ClientType : known = [client[c] EXCEPT !.siteID = s]
  BY Own DEF ClientType
<1>5. /\ known.op = client[c].op /\ known.result = client[c].result /\ known.wrote = client[c].wrote
      /\ known.label = client[c].label /\ known.siteID = s
  BY <1>4, Own DEF ClientType
<1>6. PICK new : new = Proceed(known)
  OBVIOUS
<1>7. known.op \in Ops /\ ~known.wrote /\ s # NoSite
  BY <1>1, <1>5, Searching, ClientAssumption
<1>8. /\ new \in ClientType /\ LocalInv(new)
      /\ new.label = known.label /\ new.op = known.op /\ new.result = known.result
      /\ new.wrote = FALSE /\ new.reply = NoReply /\ new.siteID = s
  <2>1. /\ new \in ClientType /\ LocalInv(new)
        /\ new.label = known.label /\ new.op = known.op /\ new.result = known.result
        /\ new.wrote = FALSE /\ new.reply = NoReply
        /\ \/ new.siteID = known.siteID
           \/ known.siteID = NoSite
    BY <1>6, <1>7, ProceedFields
  <2> QED BY <1>5, <1>7, <2>1
<1>9. ClientInv' /\ Moves(c, new) /\ UNCHANGED lists
  BY <1>2, <1>3, <1>4, <1>6, <1>8, Keeps
<1>10. CallOf(c, new) = CallOf(c, client[c]) /\ Place(new) = Place(client[c])
  BY <1>1, <1>3, <1>5, <1>8, Searching, Unanswered
<1> QED BY <1>5, <1>8, <1>9, <1>10, Unseen

LEMMA StepNoSuchSite ==
  ASSUME ClientInv, NEW c \in Callers, NoSuchSite(c)
  PROVE  ClientInv' /\ AccessStep
<1>1. client[c].req = "sites" /\ Becomes(c, Finish(client[c], Failed))
  BY DEF NoSuchSite, Good, Bad
<1>2. client[c].op # "none"
  BY <1>1, Searching
<1>3. Place(client[c]) = client[c].siteID
  <2>1. CASE Bad(c, "sites")
    BY <2>1, PlaceKnown DEF Bad, Good
  <2>2. CASE \A i \in DOMAIN client[c].reply.page : ~FirstMatch(client[c], i)
    BY <2>2, PlaceUnfound
  <2> QED BY <2>1, <2>2 DEF NoSuchSite
<1> QED BY <1>1, <1>2, <1>3, Ends

LEMMA StepReturn ==
  ASSUME ClientInv, NEW c \in Callers, Return(c)
  PROVE  ClientInv' /\ AccessStep
<1>1. client[c].req = "op"
  BY DEF Return, Good, Bad
<1>2. client[c].op # "none" /\ Place(client[c]) = client[c].siteID
  BY <1>1, Own, PlaceKnown DEF LocalInv, CallInv
<1>3. CASE Good(c, "op") /\ Becomes(c, Finish(client[c], IF client[c].op = "put" THEN c
                                                         ELSE client[c].reply.text))
  <2>1. client[c].reply.kind = "list"
    BY <1>1, <1>3, Own DEF Good, LocalInv, CallInv
  <2>2. client[c].reply.text \in Texts
    BY <2>1, Own, ReplyTypes DEF ClientType
  <2>3. PICK res \in Texts : res = IF client[c].op = "put" THEN c ELSE client[c].reply.text
    BY <2>2 DEF Texts
  <2>4. Done(client[c]) = TRUE
    BY <1>1, <2>1 DEF Done
  <2>5. client[c].wrote <=> client[c].op = "put"
    BY <2>1, Own DEF LocalInv, WroteInv
  <2>6. (IF ~Done(client[c]) THEN Failed
         ELSE IF client[c].wrote THEN c ELSE client[c].reply.text) = res
    BY <2>3, <2>4, <2>5
  <2>7. CallOf(c, client[c]) = [op |-> client[c].op, done |-> TRUE, got |-> res]
    BY <2>4, <2>6, Zenon DEF CallOf
  <2>8. CallOf(c, client[c]).done /\ res = CallOf(c, client[c]).got
    BY <2>7
  <2>9. Becomes(c, Finish(client[c], res))
    BY <1>3, <2>3
  <2> QED BY <1>2, <2>8, <2>9, Ends
<1>4. CASE Bad(c, "op") /\ Becomes(c, Finish(client[c], Failed))
  BY <1>2, <1>4, Ends
<1> QED BY <1>3, <1>4 DEF Return
-----------------------------------------------------------------------------
(* The controller *)

LEMMA BegunFields == \A op : Access!Begun(op).op = op /\ Access!Begun(op).done = FALSE
  BY DEF Access!Begun

LEMMA Pending ==
  ASSUME ClientInv, NEW c \in Callers, Waiting(c)
  PROVE  /\ client[c].op # "none" /\ client[c].wrote = FALSE /\ client[c].reply = NoReply
         /\ CallOf(c, client[c]) = Access!Begun(client[c].op)
         /\ Place(client[c]) = client[c].siteID
<1>1. client[c].req # "none" /\ client[c].reply = NoReply /\ client[c].op # "none"
  BY Own DEF Waiting, LocalInv, CallInv
<1>2. client[c].wrote = FALSE
  BY <1>1, Own, ReplyTypes DEF LocalInv, WroteInv, ClientType
<1> QED BY <1>1, <1>2, Own, Unanswered

\* an answer without an effect on the list
Fits(c, r) ==
  /\ r.kind = "page" => client[c].req \in {"probe", "sites"}
  /\ r.kind = "list" => client[c].req = "op" /\ client[c].op # "put"
Answered(c, r, new) ==
  /\ new \in ClientType /\ LocalInv(new)
  /\ new.reply = r /\ new.wrote = FALSE
  /\ new.label = client[c].label /\ new.siteID = client[c].siteID
  /\ new.op = client[c].op /\ new.req = client[c].req /\ new.result = client[c].result

LEMMA Replied ==
  ASSUME ClientInv, NEW c \in Callers, Waiting(c), NEW r \in Replies,
         Fits(c, r)
  PROVE  Answered(c, r, [client[c] EXCEPT !.reply = r])
<1>0. PICK new : new = [client[c] EXCEPT !.reply = r]
  OBVIOUS
<1>1. /\ new \in ClientType
      /\ new.reply = r /\ new.wrote = client[c].wrote
      /\ new.label = client[c].label /\ new.siteID = client[c].siteID
      /\ new.base = client[c].base
      /\ new.op = client[c].op /\ new.req = client[c].req /\ new.result = client[c].result
  BY <1>0, Own DEF ClientType
<1>2. new.wrote = FALSE /\ new.req # "none"
  BY <1>1, Pending DEF Waiting
<1>3. CallInv(new)
  BY <1>1, <1>2, Own DEF Fits, LocalInv, CallInv
<1>4. PlaceInv(new)
  BY <1>1, Own DEF LocalInv, PlaceInv
<1>5. WroteInv(new)
  BY <1>1, <1>2 DEF Fits, WroteInv
<1> QED BY <1>0, <1>1, <1>2, <1>3, <1>4, <1>5 DEF LocalInv, Answered

LEMMA Serves ==
  ASSUME ClientInv, NEW c \in Callers, NEW new \in ClientType, LocalInv(new),
         client' = [client EXCEPT ![c] = new],
         lists' \in [SiteIDs -> Texts], UNCHANGED <<sites, served>>
  PROVE  ClientInv' /\ Moves(c, new)
<1>1. Receives(c, new)
  BY DEF Receives
<1>2. ClientInv'
  BY <1>1, OneClient DEF ClientInv, TypeOK
<1> QED BY <1>2, Own DEF Moves

LEMMA StepAnswerSites ==
  ASSUME ClientInv, NEW c \in Callers, Answer(c), AnswerSites(c)
  PROVE  ClientInv' /\ AccessStep
<1>1. PICK p \in Pages :
        /\ Waiting(c) /\ UNCHANGED <<lists, sites, served>> /\ Reply(c, Page(p))
        /\ client[c].req \in {"probe", "sites"}
        /\ client[c].req = "sites" => p = FirstPage
  <2>1. <<>> \in Pages
    BY ClientAssumption DEF Pages
  <2>2. FirstPage \in Pages
    BY FirstPageType DEF ClientInv, TypeOK
  <2>3. CASE client[c].req = "probe" /\ Reply(c, Page(<<>>))
    BY <2>1, <2>3 DEF Answer, AnswerSites
  <2>4. CASE client[c].req = "sites" /\ Reply(c, Page(FirstPage))
    BY <2>2, <2>4 DEF Answer, AnswerSites
  <2> QED BY <2>3, <2>4 DEF AnswerSites
<1>2. Page(p) \in Replies /\ Page(p).page = p /\ Page(p).kind = "page"
  BY ReplyTypes
<1>3. PICK new : new = [client[c] EXCEPT !.reply = Page(p)]
  OBVIOUS
<1>4. /\ new \in ClientType /\ LocalInv(new)
      /\ new.reply = Page(p) /\ new.wrote = FALSE
      /\ new.label = client[c].label /\ new.siteID = client[c].siteID
      /\ new.op = client[c].op /\ new.req = client[c].req /\ new.result = client[c].result
  <2>1. Fits(c, Page(p))
    BY <1>1, <1>2 DEF Fits
  <2>2. Answered(c, Page(p), [client[c] EXCEPT !.reply = Page(p)])
    BY <1>1, <1>2, <2>1, Replied
  <2> QED BY <1>3, <2>2 DEF Answered
<1>5. ClientInv' /\ Moves(c, new)
  <2>1. client' = [client EXCEPT ![c] = new]
    BY <1>1, <1>3 DEF Reply
  <2> QED BY <1>1, <1>4, <2>1, Serves DEF ClientInv, TypeOK
<1>6. CallOf(c, new) = CallOf(c, client[c])
  <2>1. ~Done(new)
    BY <1>1, <1>4 DEF Done
  <2> QED BY <1>1, <1>4, <2>1, Undone, Pending
<1>7. UNCHANGED lists /\ new.label = client[c].label /\ new.result = client[c].result
  BY <1>1, <1>4
<1>8. CASE Candidates(new) = {}
  <2>1. Place(new) = Place(client[c])
    BY <1>1, <1>4, <1>8, Pending DEF Place
  <2> QED BY <1>5, <1>6, <1>7, <2>1, Unseen
<1>9. CASE Candidates(new) # {}
  <2>1. PICK i \in DOMAIN new.reply.page : FirstMatch(new, i) /\ new.req = "sites"
    BY <1>9 DEF Candidates
  <2>2. PICK s \in SiteIDs : s = p[i].id /\ Place(new) = s
    BY <1>2, <1>4, <2>1, PlaceFound
  <2>3. i \in DOMAIN sites /\ p[i] = sites[i]
    <3>1. p = FirstPage
      BY <1>1, <1>4, <2>1
    <3>2. i \in DOMAIN p
      BY <1>2, <1>4, <2>1
    <3> QED BY <3>1, <3>2, OnFirstPage DEF ClientInv, TypeOK
  <2>4. client[c].label \in p[i].called \cup {p[i].id}
    BY <1>2, <1>4, <2>1 DEF FirstMatch, Matches
  <2>5. client[c].label \in NamesBar[s] \cup {s}
    BY <2>2, <2>3, <2>4 DEF NamesBar
  <2>6. Place(client[c]) = NoSite /\ client[c].op # "none"
    BY <1>1, Searching, Pending
  <2> QED BY <1>5, <1>6, <1>7, <2>2, <2>5, <2>6, IsLocate
<1> QED BY <1>8, <1>9

LEMMA StepAnswerRead ==
  ASSUME ClientInv, NEW c \in Callers, Answer(c), AnswerRead(c)
  PROVE  ClientInv' /\ AccessStep
<1>1. /\ Waiting(c) /\ client[c].req = "op" /\ client[c].op # "put"
      /\ UNCHANGED <<lists, sites, served>>
      /\ Reply(c, Holds(lists[client[c].siteID]))
  BY DEF Answer, AnswerRead
<1>2. client[c].siteID \in SiteIDs /\ client[c].op \in Ops
  BY <1>1, Own, Pending DEF LocalInv, PlaceInv, ClientType
<1>3. PICK t \in Texts : t = lists[client[c].siteID]
  BY <1>2 DEF ClientInv, TypeOK
<1>4. Holds(t) \in Replies /\ Holds(t).kind = "list" /\ Holds(t).text = t
  BY ReplyTypes
<1>5. PICK new : new = [client[c] EXCEPT !.reply = Holds(t)]
  OBVIOUS
<1>6. /\ new \in ClientType /\ LocalInv(new)
      /\ new.reply = Holds(t) /\ new.wrote = FALSE
      /\ new.label = client[c].label /\ new.siteID = client[c].siteID
      /\ new.op = client[c].op /\ new.req = client[c].req /\ new.result = client[c].result
  <2>1. Fits(c, Holds(t))
    BY <1>1, <1>4 DEF Fits
  <2>2. Answered(c, Holds(t), [client[c] EXCEPT !.reply = Holds(t)])
    BY <1>1, <1>4, <2>1, Replied
  <2> QED BY <1>5, <2>2 DEF Answered
<1>7. ClientInv' /\ Moves(c, new)
  <2>1. client' = [client EXCEPT ![c] = new]
    BY <1>1, <1>3, <1>5 DEF Reply
  <2> QED BY <1>1, <1>6, <2>1, Serves DEF ClientInv, TypeOK
<1>8. CallOf(c, new) = Access!Effected(client[c].op, t)
  <2>1. Done(new) = TRUE
    BY <1>1, <1>4, <1>6 DEF Done
  <2>2. (IF ~Done(new) THEN Failed ELSE IF new.wrote THEN c ELSE new.reply.text) = t
    BY <1>4, <1>6, <2>1
  <2>3. CallOf(c, new) = [op |-> client[c].op, done |-> TRUE, got |-> t]
    BY <1>6, <2>1, <2>2, Zenon DEF CallOf
  <2> QED BY <2>3 DEF Access!Effected
<1>9. Place(new) = client[c].siteID
  BY <1>1, <1>6, PlaceKnown
<1>10. /\ CallOf(c, client[c]).op = client[c].op /\ CallOf(c, client[c]).done = FALSE
       /\ Place(client[c]) = client[c].siteID /\ client[c].siteID # NoSite
  <2>1. CallOf(c, client[c]) = Access!Begun(client[c].op)
    BY <1>1, Pending
  <2> QED BY <1>1, <1>2, <2>1, Pending, BegunFields, ClientAssumption
<1>11. CallOf(c, new) = Access!Effected(CallOf(c, client[c]).op, lists[Place(client[c])])
  BY <1>3, <1>8, <1>10
<1>12. /\ CallOf(c, client[c]).op # "put" /\ CallOf(c, client[c]).op \in Ops
       /\ Place(client[c]) # NoSite /\ Place(new) = Place(client[c]) /\ UNCHANGED lists
  BY <1>1, <1>2, <1>9, <1>10
<1>13. new.label = client[c].label /\ new.result = client[c].result /\ Moves(c, new)
  BY <1>6, <1>7
<1> QED BY <1>7, <1>10, <1>11, <1>12, <1>13, IsEffect

(* An update takes effect whether or not its answer arrives. *)
LEMMA StepAnswerPut ==
  ASSUME ClientInv, NEW c \in Callers, Answer(c), AnswerPut(c)
  PROVE  ClientInv' /\ AccessStep
<1>1. PICK r \in {Holds(c), Error} :
        /\ Waiting(c) /\ client[c].req = "op" /\ client[c].op = "put"
        /\ UNCHANGED <<sites, served>>
        /\ lists' = [lists EXCEPT ![client[c].siteID] = c]
        /\ client' = [client EXCEPT ![c].reply = r, ![c].wrote = TRUE]
  BY DEF Answer, AnswerPut
<1>2. r \in Replies /\ r.kind \in {"list", "error"}
  BY <1>1, ReplyTypes DEF Texts
<1>3. client[c].siteID \in SiteIDs
  BY <1>1, Own DEF LocalInv, PlaceInv, ClientType
<1>4. PICK new \in ClientType : new = [client[c] EXCEPT !.reply = r, !.wrote = TRUE]
  BY <1>2, Own DEF ClientType
<1>5. /\ new.reply = r /\ new.wrote = TRUE
      /\ new.label = client[c].label /\ new.siteID = client[c].siteID /\ new.base = client[c].base
      /\ new.op = client[c].op /\ new.req = client[c].req /\ new.result = client[c].result
  BY <1>4, Own DEF ClientType
<1>6. LocalInv(new)
  <2>1. CallInv(new)
    BY <1>1, <1>2, <1>5, Own DEF LocalInv, CallInv
  <2>2. PlaceInv(new)
    BY <1>5, Own DEF LocalInv, PlaceInv
  <2>3. WroteInv(new)
    BY <1>1, <1>2, <1>5 DEF WroteInv
  <2> QED BY <2>1, <2>2, <2>3 DEF LocalInv
<1>7. client' = [client EXCEPT ![c] = new]
  BY <1>1, <1>4
<1>8. lists' \in [SiteIDs -> Texts]
  BY <1>1, <1>3 DEF ClientInv, TypeOK, Texts
<1>9. ClientInv' /\ Moves(c, new)
  BY <1>1, <1>6, <1>7, <1>8, Serves
<1>10. CallOf(c, new) = Access!Effected("put", c)
  <2>1. Done(new) = TRUE
    BY <1>1, <1>5 DEF Done
  <2>2. (IF ~Done(new) THEN Failed ELSE IF new.wrote THEN c ELSE new.reply.text) = c
    BY <1>5, <2>1
  <2>3. CallOf(c, new) = [op |-> client[c].op, done |-> TRUE, got |-> c]
    BY <1>5, <2>1, <2>2, Zenon DEF CallOf
  <2> QED BY <1>1, <2>3 DEF Access!Effected
<1>11. Place(new) = client[c].siteID
  BY <1>1, <1>5, PlaceKnown
<1>12. /\ CallOf(c, client[c]).op = "put" /\ CallOf(c, client[c]).done = FALSE
       /\ Place(client[c]) = client[c].siteID /\ client[c].siteID # NoSite
  <2>1. CallOf(c, client[c]) = Access!Begun(client[c].op)
    BY <1>1, Pending
  <2> QED BY <1>1, <1>3, <2>1, Pending, BegunFields, ClientAssumption
<1>13. CallOf(c, client[c]).op \in Ops
  BY <1>12 DEF Ops
<1>14. lists' = [lists EXCEPT ![Place(client[c])] = c] /\ Place(new) = Place(client[c])
  BY <1>1, <1>11, <1>12
<1>15. new.label = client[c].label /\ new.result = client[c].result /\ Moves(c, new)
  BY <1>5, <1>9
<1>16. Place(client[c]) # NoSite /\ CallOf(c, client[c]).op = "put"
  BY <1>12
<1> QED BY <1>9, <1>10, <1>12, <1>13, <1>14, <1>15, <1>16, IsEffect

LEMMA StepRefuse ==
  ASSUME ClientInv, NEW c \in Callers, Refuse(c)
  PROVE  ClientInv' /\ AccessStep
<1>1. PICK r \in {Error, Html} : /\ Waiting(c) /\ UNCHANGED <<lists, sites, served>>
                                 /\ Reply(c, r)
  BY DEF Refuse
<1>2. r \in Replies /\ r.kind \in {"error", "html"}
  BY <1>1, ReplyTypes
<1>3. PICK new : new = [client[c] EXCEPT !.reply = r]
  OBVIOUS
<1>4. /\ new \in ClientType /\ LocalInv(new)
      /\ new.reply = r /\ new.wrote = FALSE
      /\ new.label = client[c].label /\ new.siteID = client[c].siteID
      /\ new.op = client[c].op /\ new.req = client[c].req /\ new.result = client[c].result
  <2>1. Fits(c, r)
    BY <1>1, <1>2 DEF Fits
  <2>2. Answered(c, r, [client[c] EXCEPT !.reply = r])
    BY <1>1, <1>2, <2>1, Replied
  <2> QED BY <1>3, <2>2 DEF Answered
<1>5. ClientInv' /\ Moves(c, new)
  <2>1. client' = [client EXCEPT ![c] = new]
    BY <1>1, <1>3 DEF Reply
  <2> QED BY <1>1, <1>4, <2>1, Serves DEF ClientInv, TypeOK
<1>6. CallOf(c, new) = Access!Begun(client[c].op) /\ Place(new) = client[c].siteID
  BY <1>2, <1>4, Undone, PlaceKnown DEF Done
<1> QED BY <1>1, <1>4, <1>5, <1>6, Pending, Unseen

(* Administrators *)
LEMMA StepAdmin ==
  ASSUME ClientInv, UNCHANGED client,
         \/ \E s \in SiteIDs, text \in Edits : Edit(s, text)
         \/ \E table \in SiteTables : Arrange(table)
         \/ \E bases \in SUBSET Bases : Upgrade(bases)
  PROVE  ClientInv' /\ AccessStep
<1>1. \A c \in Callers : LocalInv(client[c])'
  BY DEF ClientInv, LocalInv, CallInv, PlaceInv, WroteInv
<1>2. UNCHANGED <<LabelBar, PlaceBar, CallBar, ResultBar>>
  BY DEF LabelBar, PlaceBar, CallBar, ResultBar, Place, Candidates, FirstMatch, Matches, CallOf, Done
<1>3. ASSUME NEW s \in SiteIDs, NEW text \in Edits, Edit(s, text)
      PROVE  ClientInv' /\ AccessStep
  <2>1. lists' = [lists EXCEPT ![s] = text] /\ UNCHANGED <<sites, served>>
    BY <1>3 DEF Edit
  <2>2. ClientInv'
    BY <1>1, <2>1 DEF ClientInv, TypeOK, Texts
  <2>3. Access!Edit(s, text)
    BY <1>2, <2>1, NamesKept DEF Access!Edit, LabelBar, PlaceBar, CallBar, ResultBar, NamesBar
  <2> QED BY <2>2, <2>3 DEF AccessStep, Access!Next
<1>4. ASSUME NEW table \in SiteTables, Arrange(table)
      PROVE  ClientInv' /\ AccessStep
  <2>1. sites' = table /\ UNCHANGED <<lists, served>>
    BY <1>4 DEF Arrange
  <2>2. ClientInv'
    BY <1>1, <2>1 DEF ClientInv, TypeOK
  <2>3. NamesBar' \in [SiteIDs -> SUBSET Labels]
    <3>1. \A i \in DOMAIN table : table[i].called \subseteq Labels
      BY TableTypes
    <3> QED BY <2>1, <3>1 DEF NamesBar
  <2>4. Access!Rename
    BY <1>2, <2>1, <2>3 DEF Access!Rename, LabelBar, PlaceBar, CallBar, ResultBar, NamesBar
  <2> QED BY <2>2, <2>4 DEF AccessStep, Access!Next
<1>5. ASSUME NEW bases \in SUBSET Bases, Upgrade(bases)
      PROVE  ClientInv' /\ AccessStep
  BY <1>1, <1>2, <1>5, NamesKept DEF Upgrade, ClientInv, TypeOK, AccessStep
<1> QED BY <1>3, <1>4, <1>5
-----------------------------------------------------------------------------
LEMMA InitClient == Init => ClientInv
<1> SUFFICES ASSUME Init PROVE ClientInv
  OBVIOUS
<1>1. NoClient \in ClientType
  BY ReplyTypes DEF NoClient, ClientType
<1>2. LocalInv(NoClient)
  BY ReplyTypes DEF NoClient, LocalInv, CallInv, PlaceInv, WroteInv
<1>3. client = [c \in Callers |-> NoClient] /\ lists \in [SiteIDs -> Texts]
      /\ sites \in SiteTables /\ served \in SUBSET Bases
  BY DEF Init, Texts
<1>4. \A c \in Callers : client[c] = NoClient
  BY <1>3
<1> QED BY <1>1, <1>2, <1>3, <1>4 DEF ClientInv, TypeOK

LEMMA NextClient == ASSUME ClientInv, [Next]_vars PROVE ClientInv' /\ AccessStep
<1>1. ASSUME NEW c \in Callers, NEW l \in Labels, Open(c, l) PROVE ClientInv' /\ AccessStep
  BY <1>1, StepOpen
<1>2. ASSUME NEW c \in Callers, NEW op \in Ops, Call(c, op) PROVE ClientInv' /\ AccessStep
  BY <1>2, StepCall
<1>3. ASSUME NEW c \in Callers, Receive(c) PROVE ClientInv' /\ AccessStep
  BY <1>3, StepFoundBase, StepNextBase, StepFoundSite, StepNoSuchSite, StepReturn DEF Receive
<1>4. ASSUME NEW c \in Callers, Serve(c) PROVE ClientInv' /\ AccessStep
  <2>1. CASE Answer(c)
    BY <2>1, StepAnswerSites, StepAnswerRead, StepAnswerPut DEF Answer
  <2>2. CASE Refuse(c)
    BY <2>2, StepRefuse
  <2> QED BY <1>4, <2>1, <2>2 DEF Serve
<1>5. ASSUME NEW s \in SiteIDs, NEW text \in Edits, Edit(s, text) PROVE ClientInv' /\ AccessStep
  BY <1>5, StepAdmin DEF Edit
<1>6. ASSUME NEW table \in SiteTables, Arrange(table) PROVE ClientInv' /\ AccessStep
  BY <1>6, StepAdmin DEF Arrange
<1>7. ASSUME NEW bases \in SUBSET Bases, Upgrade(bases) PROVE ClientInv' /\ AccessStep
  BY <1>7, StepAdmin DEF Upgrade
<1>8. CASE UNCHANGED vars
  <2>1. ClientInv'
    BY <1>8 DEF vars, ClientInv, TypeOK, LocalInv, CallInv, PlaceInv, WroteInv
  <2>2. UNCHANGED <<LabelBar, PlaceBar, CallBar, ResultBar>>
    BY <1>8 DEF vars, LabelBar, PlaceBar, CallBar, ResultBar, Place, Candidates, FirstMatch, Matches,
               CallOf, Done
  <2> QED BY <1>8, <2>1, <2>2, NamesKept DEF vars, AccessStep
<1> QED BY <1>1, <1>2, <1>3, <1>4, <1>5, <1>6, <1>7, <1>8 DEF Next

(* Type correctness of clients and controller, pages and answers included.  *)
THEOREM TypeCorrect == Spec => []TypeOK
<1>1. ClientInv /\ [Next]_vars => ClientInv'
  BY NextClient
<1>2. ClientInv => TypeOK
  BY DEF ClientInv
<1> QED BY <1>1, <1>2, InitClient, PTL DEF Spec

LEMMA InitAccess == Init => Access!Init
<1> SUFFICES ASSUME Init PROVE Access!Init
  OBVIOUS
<1>1. \A c \in Callers : client[c] = NoClient
  BY DEF Init
<1>2. /\ \A c \in Callers : CallOf(c, NoClient) = Access!NoCall
      /\ Place(NoClient) = NoSite
      /\ NoClient.label = NoLabel /\ NoClient.result = Failed
  <2>1. NoClient \in ClientType
    BY ReplyTypes DEF NoClient, ClientType
  <2>2. NoClient.reply = NoReply /\ ~NoClient.wrote /\ NoClient.op = "none" /\ NoClient.siteID = NoSite
        /\ NoClient.label = NoLabel /\ NoClient.result = Failed
    BY DEF NoClient
  <2> QED BY <2>1, <2>2, Unanswered DEF Access!NoCall
<1>3. \A i \in DOMAIN sites : sites[i].called \subseteq Labels
  BY TableTypes DEF Init
<1>4. NamesBar \in [SiteIDs -> SUBSET Labels]
  BY <1>3 DEF NamesBar
<1>5. lists \in [SiteIDs -> Edits]
  BY DEF Init
<1>6. /\ LabelBar = [c \in Callers |-> NoLabel]
      /\ PlaceBar = [c \in Callers |-> NoSite]
      /\ CallBar = [c \in Callers |-> Access!NoCall]
      /\ ResultBar = [c \in Callers |-> Failed]
  BY <1>1, <1>2 DEF LabelBar, PlaceBar, CallBar, ResultBar
<1> QED BY <1>4, <1>5, <1>6 DEF Access!Init, LabelBar, PlaceBar, CallBar, ResultBar, NamesBar

(* The client implements ListAccess: a call acts on one site that bears the *)
(* configured name, takes effect at most once, and reports success only if  *)
(* it did.                                                                  *)
THEOREM ClientImplementsAccess == Spec => ImplementsListAccess
<1>1. ClientInv /\ [Next]_vars => ClientInv' /\ [Access!Next]_(Access!accessVars)
  BY NextClient, StepIsAccess
<1> QED BY <1>1, InitClient, InitAccess, PTL DEF Spec, ImplementsListAccess, Access!Spec
=============================================================================
