----------------------------- MODULE ListAccess -----------------------------
(***************************************************************************)
(* What internal/unifi promises to Syncer.execute and to the handlers that *)
(* browse a controller.  A client belongs to one site, one that bore the   *)
(* configured name when the client asked; every call of it goes there,     *)
(* however the sites are renamed.  A call takes effect at once and at most *)
(* once: a read returns what the list held at some moment of the call, an  *)
(* update that reports success has replaced the list, one that reports an  *)
(* error may have.                                                         *)
(***************************************************************************)
CONSTANTS
  Callers,           \* whoever has a client; an update of c makes the list read c
  SiteIDs, Labels,   \* sites by their id, and what a client may be told to use
  Edits,             \* what administrators write
  NoSite, NoLabel, Failed

VARIABLES
  lists,    \* site -> what its list holds
  names,    \* site -> the labels it bears, none if there is no such site
  label,    \* client -> what it was told to use
  place,    \* client -> the site it has found
  call,     \* client -> its call: what it does, whether it took effect, what it read
  result    \* client -> what its last call returned

accessVars == <<lists, names, label, place, call, result>>

Reads  == {"list", "get"}
Begun(op)        == [op |-> op, done |-> FALSE, got |-> Failed]
Effected(op, it) == [op |-> op, done |-> TRUE, got |-> it]
NoCall == Begun("none")

Open(c, l) ==
  /\ call[c] = NoCall
  /\ label' = [label EXCEPT ![c] = l]
  /\ place' = [place EXCEPT ![c] = NoSite]
  /\ result' = [result EXCEPT ![c] = Failed]
  /\ UNCHANGED <<lists, names, call>>

Begin(c, op) ==
  /\ label[c] # NoLabel /\ call[c] = NoCall
  /\ call' = [call EXCEPT ![c] = Begun(op)]
  /\ result' = [result EXCEPT ![c] = Failed]
  /\ UNCHANGED <<lists, names, label, place>>

Locate(c, s) ==
  /\ call[c].op # "none" /\ place[c] = NoSite
  /\ label[c] \in names[s] \cup {s}
  /\ place' = [place EXCEPT ![c] = s]
  /\ UNCHANGED <<lists, names, label, call, result>>

Read(c) ==
  /\ call[c].op \in Reads /\ ~call[c].done /\ place[c] # NoSite
  /\ call' = [call EXCEPT ![c] = Effected(call[c].op, lists[place[c]])]
  /\ UNCHANGED <<lists, names, label, place, result>>

Write(c) ==
  /\ call[c].op = "put" /\ ~call[c].done /\ place[c] # NoSite
  /\ lists' = [lists EXCEPT ![place[c]] = c]
  /\ call' = [call EXCEPT ![c] = Effected("put", c)]
  /\ UNCHANGED <<names, label, place, result>>

Return(c) ==
  /\ call[c].op # "none"
  /\ \/ call[c].done /\ result' = [result EXCEPT ![c] = call[c].got]
     \/ result' = [result EXCEPT ![c] = Failed]
  /\ call' = [call EXCEPT ![c] = NoCall]
  /\ UNCHANGED <<lists, names, label, place>>

Edit(s, text) ==
  /\ lists' = [lists EXCEPT ![s] = text]
  /\ UNCHANGED <<names, label, place, call, result>>

Rename ==
  /\ names' \in [SiteIDs -> SUBSET Labels]
  /\ UNCHANGED <<lists, label, place, call, result>>

Init ==
  /\ lists \in [SiteIDs -> Edits]
  /\ names \in [SiteIDs -> SUBSET Labels]
  /\ label = [c \in Callers |-> NoLabel]
  /\ place = [c \in Callers |-> NoSite]
  /\ call = [c \in Callers |-> NoCall]
  /\ result = [c \in Callers |-> Failed]

Act(c) ==
  \/ \E l \in Labels : Open(c, l)
  \/ \E op \in Reads \cup {"put"} : Begin(c, op)
  \/ \E s \in SiteIDs : Locate(c, s)
  \/ Read(c) \/ Write(c) \/ Return(c)

Next ==
  \/ \E c \in Callers : Act(c)
  \/ \E s \in SiteIDs, text \in Edits : Edit(s, text)
  \/ Rename

Spec == Init /\ [][Next]_accessVars
=============================================================================
