--------------------------- MODULE ResolverProofs ---------------------------
(***************************************************************************)
(* Types and results of Resolver, for any names, servers, answers, budget  *)
(* and depth.                                                              *)
(***************************************************************************)
EXTENDS Resolver, Integers, SequenceTheorems, TLAPS

LEMMA Stack ==
  ASSUME TypeOK, stack # <<>>
  PROVE  /\ stack \in Seq(CallType) /\ Len(stack) \in Nat \ {0} /\ Top \in CallType
         /\ Len(stack) <= MaxDepth + 1
<1>1. stack \in Seq(CallType) /\ Len(stack) <= MaxDepth + 1
  BY DEF TypeOK
<1>2. Len(stack) \in Nat \ {0}
  BY <1>1, EmptySeq
<1>3. Top \in CallType
  BY <1>1, <1>2, ElementOfSeq DEF Top
<1> QED BY <1>1, <1>2, <1>3

LEMMA CallTyped ==
  ASSUME NEW n \in Names, NEW servers \in SUBSET Addrs
  PROVE  Call(n, servers) \in CallType /\ Call(n, servers).addrs = {}
  BY DEF Call, CallType

(* The call on top changes, those below do not. *)
LEMMA SetTopStack ==
  ASSUME TypeOK, stack # <<>>, NEW c \in CallType
  PROVE  /\ SetTop(c) \in Seq(CallType) /\ Len(SetTop(c)) = Len(stack) /\ SetTop(c) # <<>>
         /\ SetTop(c)[Len(stack)] = c
         /\ \A i \in 1 .. Len(stack) - 1 : SetTop(c)[i] = stack[i]
<1>1. stack \in Seq(CallType) /\ Len(stack) \in Nat \ {0} /\ Len(stack) \in 1 .. Len(stack)
  BY Stack
<1>2. SetTop(c) \in Seq(CallType) /\ Len(SetTop(c)) = Len(stack)
      /\ \A j \in 1 .. Len(stack) : SetTop(c)[j] = IF j = Len(stack) THEN c ELSE stack[j]
  BY <1>1, ExceptSeq DEF SetTop
<1>3. SetTop(c) # <<>>
  BY <1>1, <1>2, EmptySeq
<1> QED BY <1>1, <1>2, <1>3

(* What the first n calls have found *)
Found(calls, n) == UNION {calls[i].addrs : i \in 1 .. n}
Below(calls) == Found(calls, Len(calls) - 1)

LEMMA FoundSplit ==
  ASSUME NEW calls, NEW n \in Nat \ {0}
  PROVE  Found(calls, n) = Found(calls, n - 1) \cup calls[n].addrs
<1>1. \A i : i \in 1 .. n <=> i \in 1 .. n - 1 \/ i = n
  OBVIOUS
<1>2. \A x : x \in Found(calls, n) <=> \E i \in 1 .. n : x \in calls[i].addrs
  BY Zenon DEF Found
<1>3. \A x : x \in Found(calls, n - 1) <=> \E i \in 1 .. n - 1 : x \in calls[i].addrs
  BY Zenon DEF Found
<1>4. \A x : x \in Found(calls, n) <=> x \in Found(calls, n - 1) \/ x \in calls[n].addrs
  BY <1>1, <1>2, <1>3, Zenon
<1> QED BY <1>4, Zenon

LEMMA FoundSame ==
  ASSUME NEW calls, NEW others, NEW n \in Nat, \A i \in 1 .. n : calls[i] = others[i]
  PROVE  Found(calls, n) = Found(others, n)
<1>1. {calls[i].addrs : i \in 1 .. n} = {others[i].addrs : i \in 1 .. n}
  BY Zenon
<1> QED BY <1>1 DEF Found

LEMMA GatheredSplit ==
  ASSUME NEW calls, Len(calls) \in Nat \ {0}
  PROVE  Gathered(calls) = Below(calls) \cup calls[Len(calls)].addrs
<1>1. Gathered(calls) = Found(calls, Len(calls))
  BY DEF Gathered, Found
<1> QED BY <1>1, FoundSplit DEF Below

LEMMA GatheredSetTop ==
  ASSUME TypeOK, stack # <<>>, NEW c \in CallType
  PROVE  Gathered(SetTop(c)) = Below(stack) \cup c.addrs
<1>1. Len(stack) \in Nat \ {0} /\ Len(SetTop(c)) = Len(stack) /\ SetTop(c)[Len(stack)] = c
      /\ \A i \in 1 .. Len(stack) - 1 : SetTop(c)[i] = stack[i]
  BY Stack, SetTopStack
<1>2. Below(SetTop(c)) = Below(stack)
  BY <1>1, FoundSame DEF Below
<1> QED BY <1>1, <1>2, GatheredSplit

(* What the call on top has found is all that has been heard, with the rest *)
LEMMA GatheredTop ==
  ASSUME TypeOK, stack # <<>>
  PROVE  Gathered(stack) = Below(stack) \cup Top.addrs
  BY Stack, GatheredSplit DEF Top
-----------------------------------------------------------------------------
LEMMA InitInv == Init => ResolveInv
<1> SUFFICES ASSUME Init PROVE ResolveInv
  OBVIOUS
<1> USE ResolverAssumption
<1>1. stack \in Seq(CallType) /\ Len(stack) <= MaxDepth + 1
  <2>1. stack = <<>> /\ stack \in Seq(CallType) /\ Len(stack) = 0
    BY EmptySeq DEF Init
  <2> QED BY <2>1
<1>2. TypeOK
  BY <1>1 DEF Init, TypeOK
<1>3. ControlInv /\ HeardInv
  BY DEF Init, ControlInv, HeardInv
<1>4. SourcesExact
  BY DEF Init, SourcesExact, Over
<1> QED BY <1>2, <1>3, <1>4 DEF ResolveInv

LEMMA TimeTyped ==
  ASSUME TypeOK, NEW s, Answers(s) \/ Fails(s)
  PROVE  spent' \in 0 .. Budget
<1> USE ResolverAssumption
<1>1. spent \in Nat /\ spent <= Budget
  BY DEF TypeOK
<1>2. PICK d \in Nat : \/ spent + d < Budget /\ spent' = spent + d
                       \/ spent' = IF spent + d < Budget THEN spent + d ELSE Budget
  <2>1. CASE Answers(s)
    BY <2>1 DEF Answers
  <2>2. CASE Fails(s)
    BY <2>2 DEF Fails
  <2> QED BY <2>1, <2>2
<1> QED BY <1>1, <1>2

Looking == phase \in {"ns", "nsaddr", "addr"}

(* Steps within the look-up of one name leave the result alone. *)
LEMMA SameResult ==
  ASSUME ResolveInv, Looking, Looking', UNCHANGED <<lines, sources, host>>,
         \A h \in Hosts \ {host} : heard'[h] = heard[h]
  PROVE  /\ SourcesExact' /\ (\A h \in Hosts \cap lines : heard[h] = {})'
         /\ host' \in Hosts \ lines'
<1>1. host \in Hosts \ lines
  BY DEF ResolveInv, ControlInv, Looking
<1>2. \A h \in Hosts : Over(h)' <=> Over(h)
  BY DEF Over, Looking
<1>3. \A h \in Hosts : Over(h) => heard'[h] = heard[h]
  BY DEF Over, Looking
<1>4. SourcesExact'
  <2> SUFFICES ASSUME NEW a \in Addrs
               PROVE  sources'[a] = {l \in Literals \ lines' : l = a}
                                    \cup {h \in Hosts : Over(h)' /\ a \in heard'[h]}
    BY DEF SourcesExact
  <2>1. sources[a] = {l \in Literals \ lines : l = a} \cup {h \in Hosts : Over(h) /\ a \in heard[h]}
    BY DEF ResolveInv, SourcesExact
  <2>2. {h \in Hosts : Over(h)' /\ a \in heard'[h]} = {h \in Hosts : Over(h) /\ a \in heard[h]}
    BY <1>2, <1>3
  <2> QED BY <2>1, <2>2
<1> QED BY <1>1, <1>4 DEF ResolveInv, HeardInv

LEMMA AskNSStep ==
  ASSUME ResolveInv, NEW s \in Addrs, AskNS(s)
  PROVE  ResolveInv'
<1> USE ResolverAssumption
<1>1. spent' \in 0 .. Budget
  BY TimeTyped DEF AskNS, ResolveInv
<1>2. SourcesExact' /\ (\A h \in Hosts \cap lines : heard[h] = {})' /\ host' \in Hosts \ lines'
  BY SameResult DEF AskNS, Looking
<1>3. nsHosts' \subseteq Names
  <2>1. nsHosts \subseteq Names /\ zone \in 1 .. Len(Zones[host]) /\ Zones[host] \in Seq(Names)
    <3>1. host \in Hosts /\ zone <= Len(Zones[host]) /\ zone \in Nat \ {0} /\ nsHosts \subseteq Names
      BY DEF AskNS, ResolveInv, ControlInv, TypeOK
    <3>2. Len(Zones[host]) \in Nat
      BY <3>1, LenProperties
    <3> QED BY <3>1, <3>2
  <2>2. Zones[host][zone] \in Names
    BY <2>1, ElementOfSeq
  <2>3. NSAnswers[Zones[host][zone]] \subseteq SUBSET Names
    BY <2>2
  <2>4. nsHosts' = nsHosts \/ \E ns \in NSAnswers[Zones[host][zone]] : nsHosts' = nsHosts \cup ns
    BY DEF AskNS
  <2> QED BY <2>1, <2>3, <2>4
<1>4. TypeOK'
  BY <1>1, <1>3 DEF AskNS, ResolveInv, TypeOK
<1>5. ControlInv' /\ HeardInv'
  BY <1>2 DEF AskNS, ResolveInv, ControlInv, HeardInv
<1> QED BY <1>2, <1>4, <1>5 DEF ResolveInv

(* Of the two ways on from a zone, one starts the look-up of the name. *)
LEMMA OneCall ==
  ASSUME NEW n \in Names, NEW servers \in SUBSET Addrs, stack' = <<Call(n, servers)>>
  PROVE  stack' \in Seq(CallType) /\ Len(stack') = 1 /\ Gathered(stack') = {} /\ stack' # <<>>
<1>1. PICK c \in CallType : c = Call(n, servers) /\ c.addrs = {}
  BY CallTyped
<1>2. stack' = <<c>> /\ <<c>> \in Seq(CallType) /\ Len(<<c>>) = 1 /\ <<c>>[1] = c /\ <<c>> # <<>>
  BY <1>1
<1>3. 1 .. 1 = {1}
  OBVIOUS
<1> QED BY <1>1, <1>2, <1>3 DEF Gathered

LEMMA OnwardStep ==
  ASSUME ResolveInv, phase \in {"ns", "nsaddr"}, stack = <<>>, NextZone \/ LookupHost,
         UNCHANGED <<lines, sources, host, spent, auth, heard, asked>>
  PROVE  ResolveInv'
<1> USE ResolverAssumption
<1>1. host \in Hosts \ lines /\ heard[host] = {} /\ zone <= Len(Zones[host]) /\ zone \in Nat \ {0}
      /\ Len(Zones[host]) \in Nat
  <2>1. host \in Hosts \ lines /\ heard[host] = {} /\ zone <= Len(Zones[host]) /\ zone \in Nat \ {0}
    BY DEF ResolveInv, ControlInv, HeardInv, TypeOK
  <2>2. Len(Zones[host]) \in Nat
    BY <2>1, LenProperties
  <2> QED BY <2>1, <2>2
<1>2. CASE LookupHost
  <2>1. phase' = "addr" /\ UNCHANGED zoneVs /\ stack' = <<Call(host, Configured \cup auth)>>
    BY <1>2 DEF LookupHost
  <2>2. stack' \in Seq(CallType) /\ Len(stack') = 1 /\ Gathered(stack') = {} /\ stack' # <<>>
    <3>1. host \in Names /\ Configured \cup auth \in SUBSET Addrs
      BY <1>1 DEF ResolveInv, TypeOK
    <3> QED BY <2>1, <3>1, OneCall
  <2>3. SourcesExact' /\ (\A h \in Hosts \cap lines : heard[h] = {})' /\ host' \in Hosts \ lines'
    BY <2>1, SameResult DEF Looking
  <2>4. Len(stack') <= MaxDepth + 1
    BY <2>2
  <2>5. TypeOK'
    BY <2>1, <2>2, <2>4 DEF ResolveInv, TypeOK, zoneVs
  <2>6. ControlInv' /\ HeardInv'
    BY <1>1, <2>1, <2>2, <2>3 DEF ControlInv, HeardInv, zoneVs
  <2> QED BY <2>3, <2>5, <2>6 DEF ResolveInv
<1>3. CASE zone < Len(Zones[host]) /\ NextZone
  <2>1. phase' = "ns" /\ zone' = zone + 1 /\ left' = Configured /\ nsHosts' = {} /\ UNCHANGED stack
    BY <1>3 DEF NextZone
  <2>2. SourcesExact' /\ (\A h \in Hosts \cap lines : heard[h] = {})' /\ host' \in Hosts \ lines'
    BY <2>1, SameResult DEF Looking
  <2>3. zone' \in Nat \ {0} /\ zone' <= Len(Zones[host'])
    BY <1>1, <1>3, <2>1
  <2>4. TypeOK'
    BY <2>1, <2>3 DEF ResolveInv, TypeOK
  <2>5. ControlInv' /\ HeardInv'
    BY <1>1, <2>1, <2>2, <2>3 DEF ControlInv, HeardInv
  <2> QED BY <2>2, <2>4, <2>5 DEF ResolveInv
<1> QED BY <1>2, <1>3 DEF NextZone

LEMMA EndNSStep ==
  ASSUME ResolveInv, EndNS
  PROVE  ResolveInv'
<1>1. phase = "ns" /\ stack = <<>> /\ UNCHANGED <<lines, sources, host, spent, auth, heard, asked>>
  BY DEF EndNS, ResolveInv, ControlInv
<1>2. CASE NextZone
  BY <1>1, <1>2, OnwardStep
<1>3. CASE phase' = "nsaddr" /\ UNCHANGED <<zoneVs, stack>>
  <2>1. SourcesExact' /\ (\A h \in Hosts \cap lines : heard[h] = {})' /\ host' \in Hosts \ lines'
    BY <1>1, <1>3, SameResult DEF Looking
  <2>2. TypeOK'
    BY <1>1, <1>3 DEF ResolveInv, TypeOK, zoneVs
  <2>3. ControlInv' /\ HeardInv'
    BY <1>1, <1>3, <2>1 DEF ResolveInv, ControlInv, HeardInv, zoneVs
  <2> QED BY <2>1, <2>2, <2>3 DEF ResolveInv
<1> QED BY <1>2, <1>3 DEF EndNS

LEMMA EndNSAddrStep ==
  ASSUME ResolveInv, EndNSAddr
  PROVE  ResolveInv'
  BY OnwardStep DEF EndNSAddr

LEMMA LookupNSStep ==
  ASSUME ResolveInv, NEW n \in Names, LookupNS(n)
  PROVE  ResolveInv'
<1> USE ResolverAssumption
<1>1. phase = "nsaddr" /\ stack' = <<Call(n, Configured)>>
      /\ UNCHANGED <<phase, lines, sources, host, spent, zone, left, auth, heard, asked>>
  BY DEF LookupNS
<1>2. stack' \in Seq(CallType) /\ Len(stack') = 1
  BY <1>1, OneCall
<1>3. SourcesExact' /\ (\A h \in Hosts \cap lines : heard[h] = {})' /\ host' \in Hosts \ lines'
  BY <1>1, SameResult DEF Looking
<1>4. nsHosts' \subseteq Names /\ Len(stack') <= MaxDepth + 1
  BY <1>2 DEF LookupNS, ResolveInv, TypeOK
<1>5. TypeOK'
  BY <1>1, <1>2, <1>4 DEF ResolveInv, TypeOK
<1>6. ControlInv' /\ HeardInv'
  BY <1>1, <1>3 DEF ResolveInv, ControlInv, HeardInv
<1> QED BY <1>3, <1>5, <1>6 DEF ResolveInv

(* A reply is added to what the call has found and, for the name, to what   *)
(* has been heard.                                                          *)
LEMMA AskedTyped ==
  ASSUME NEW call \in CallType, NEW s, NEW reply \in Reply
  PROVE  /\ Asked(call, s, reply) \in CallType
         /\ Asked(call, s, reply).addrs = call.addrs \cup reply.addrs
<1>1. PICK addrs \in SUBSET Addrs : addrs = call.addrs \cup reply.addrs
  BY DEF CallType, Reply
<1>2. PICK aliases \in SUBSET Names :
        aliases = IF call.left = {s} /\ addrs # {} THEN {} ELSE call.aliases \cup reply.aliases
  BY DEF CallType, Reply
<1>3. Asked(call, s, reply) = [call EXCEPT !.left = @ \ {s}, !.addrs = addrs, !.aliases = aliases]
  BY <1>1, <1>2 DEF Asked
<1>4. PICK new : new = [call EXCEPT !.left = @ \ {s}, !.addrs = addrs, !.aliases = aliases]
  OBVIOUS
<1>5. new \in CallType /\ new.addrs = addrs
  BY <1>4 DEF CallType
<1> QED BY <1>1, <1>3, <1>4, <1>5

LEMMA AskASets ==
  ASSUME ResolveInv, NEW s \in Addrs, AskA(s)
  PROVE  \E reply \in Reply :
           /\ stack' = SetTop(Asked(Top, s, reply))
           /\ heard' = IF phase = "addr" THEN [heard EXCEPT ![host] = @ \cup reply.addrs] ELSE heard
<1> USE ResolverAssumption
<1>0. TypeOK /\ stack # <<>> /\ Top \in CallType
  BY Stack DEF AskA, ResolveInv
<1>1. ASSUME NEW reply \in AAnswers[Top.name] PROVE reply \in Reply
  <2>1. Top.name \in Names
    BY <1>0 DEF CallType
  <2>2. AAnswers[Top.name] \subseteq Reply
    BY <2>1
  <2> QED BY <2>2
<1>2. NoReply \in Reply /\ [heard EXCEPT ![host] = @ \cup NoReply.addrs] = heard
  <2>1. NoReply \in Reply /\ NoReply.addrs = {}
    BY DEF NoReply, Reply
  <2>2. heard \in [Hosts -> SUBSET Addrs]
    BY <1>0 DEF TypeOK
  <2> QED BY <2>1, <2>2
<1> QED BY <1>1, <1>2 DEF AskA

LEMMA AskAStep ==
  ASSUME ResolveInv, NEW s \in Addrs, AskA(s)
  PROVE  ResolveInv'
<1> USE ResolverAssumption
<1>0. TypeOK /\ stack # <<>> /\ UNCHANGED <<phase, lines, sources, host, zoneVs, auth>>
      /\ Top \in CallType /\ phase \in {"nsaddr", "addr"}
  BY Stack DEF AskA, ResolveInv, ControlInv
<1>1. spent' \in 0 .. Budget
  BY <1>0, TimeTyped DEF AskA
<1>2. PICK reply \in Reply :
        /\ stack' = SetTop(Asked(Top, s, reply))
        /\ heard' = IF phase = "addr" THEN [heard EXCEPT ![host] = @ \cup reply.addrs] ELSE heard
  BY AskASets
<1>3. PICK c \in CallType : c = Asked(Top, s, reply) /\ c.addrs = Top.addrs \cup reply.addrs
  BY <1>0, AskedTyped
<1>4. stack' \in Seq(CallType) /\ Len(stack') <= MaxDepth + 1 /\ stack' # <<>>
  <2>1. stack' = SetTop(c)
    BY <1>2, <1>3
  <2> QED BY <1>0, <2>1, Stack, SetTopStack
<1>5. host \in Hosts \ lines /\ heard \in [Hosts -> SUBSET Addrs] /\ reply.addrs \subseteq Addrs
  BY <1>0 DEF ResolveInv, ControlInv, TypeOK, Reply
<1>6. heard' \in [Hosts -> SUBSET Addrs] /\ \A h \in Hosts \ {host} : heard'[h] = heard[h]
  BY <1>2, <1>5
<1>7. SourcesExact' /\ (\A h \in Hosts \cap lines : heard[h] = {})' /\ host' \in Hosts \ lines'
  BY <1>0, <1>6, SameResult DEF Looking
<1>8. phase' = "addr" => heard'[host'] = Gathered(stack')
  <2> SUFFICES ASSUME phase = "addr" PROVE heard'[host] = Gathered(stack')
    BY <1>0
  <2>1. heard'[host] = heard[host] \cup reply.addrs
    BY <1>2, <1>5
  <2>2. heard[host] = Below(stack) \cup Top.addrs
    BY <1>0, GatheredTop DEF ResolveInv, HeardInv
  <2>3. Gathered(stack') = Below(stack) \cup c.addrs
    BY <1>0, <1>2, <1>3, GatheredSetTop
  <2> QED BY <1>3, <2>1, <2>2, <2>3
<1>9. TypeOK'
  <2>1. asked' \subseteq Addrs
    BY <1>0 DEF AskA, TypeOK
  <2> QED BY <1>0, <1>1, <1>4, <1>6, <2>1 DEF TypeOK, zoneVs
<1>10. ControlInv'
  BY <1>0, <1>4, <1>7 DEF ResolveInv, ControlInv, zoneVs
<1>11. HeardInv'
  <2>1. phase' \in {"ns", "nsaddr"} => heard'[host'] = {}
    BY <1>0, <1>2 DEF ResolveInv, HeardInv
  <2> QED BY <1>7, <1>8, <2>1 DEF HeardInv
<1> QED BY <1>7, <1>9, <1>10, <1>11 DEF ResolveInv

LEMMA FollowStep ==
  ASSUME ResolveInv, NEW n \in Names, Follow(n)
  PROVE  ResolveInv'
<1> USE ResolverAssumption
<1>0. TypeOK /\ stack # <<>> /\ Top \in CallType /\ phase \in {"nsaddr", "addr"}
      /\ UNCHANGED <<phase, lines, sources, host, spent, zoneVs, auth, heard, asked>>
  BY Stack DEF Follow, ResolveInv, ControlInv
<1>1. PICK c : c = [Top EXCEPT !.aliases = @ \ {n}]
  OBVIOUS
<1>2. c \in CallType /\ c.addrs = Top.addrs
  BY <1>0, <1>1 DEF CallType
<1>3. PICK rest \in Seq(CallType) : /\ rest = SetTop(c) /\ Len(rest) = Len(stack) /\ rest # <<>>
                                    /\ Gathered(rest) = Gathered(stack)
  BY <1>0, <1>2, SetTopStack, GatheredSetTop, GatheredTop
<1>4. PICK new \in CallType : new = Call(n, Servers) /\ new.addrs = {}
  <2>1. Servers \in SUBSET Addrs
    BY <1>0 DEF Servers, TypeOK
  <2> QED BY <2>1, CallTyped
<1>5. stack' = IF Len(stack) > MaxDepth THEN rest ELSE Append(rest, new)
  BY <1>1, <1>3, <1>4 DEF Follow
<1>6. /\ stack' \in Seq(CallType) /\ Len(stack') <= MaxDepth + 1 /\ stack' # <<>>
      /\ Gathered(stack') = Gathered(stack)
  <2>1. CASE Len(stack) > MaxDepth
    BY <1>0, <1>3, <1>5, <2>1, Stack
  <2>2. CASE ~(Len(stack) > MaxDepth)
    <3>1. PICK k \in Nat \ {0} : k = Len(rest) /\ k = Len(stack) /\ k <= MaxDepth
      BY <1>0, <1>3, <2>2, Stack
    <3>2. PICK longer : longer = Append(rest, new)
      OBVIOUS
    <3>3. longer \in Seq(CallType) /\ longer # <<>> /\ Len(longer) = k + 1 /\ longer[k + 1] = new
          /\ \A i \in 1 .. k : longer[i] = rest[i]
      <4>1. \A i \in 1 .. Len(rest) : Append(rest, new)[i] = rest[i]
        BY AppendProperties
      <4>2. Append(rest, new) \in Seq(CallType) /\ Append(rest, new) # <<>>
            /\ Len(Append(rest, new)) = Len(rest) + 1 /\ Append(rest, new)[Len(rest) + 1] = new
        BY AppendProperties
      <4>3. \A i \in 1 .. k : longer[i] = rest[i]
        BY <3>1, <3>2, <4>1
      <4>4. longer \in Seq(CallType) /\ longer # <<>> /\ Len(longer) = k + 1 /\ longer[k + 1] = new
        BY <3>1, <3>2, <4>2
      <4> QED BY <4>3, <4>4
    <3>4. Below(longer) = Gathered(rest)
      <4>1. Below(longer) = Found(longer, k)
        BY <3>1, <3>3 DEF Below
      <4>2. Gathered(rest) = Found(rest, k)
        BY <3>1 DEF Gathered, Found
      <4>3. Found(longer, k) = Found(rest, k)
        BY <3>3, FoundSame
      <4> QED BY <4>1, <4>2, <4>3
    <3>5. Gathered(longer) = Gathered(rest)
      <4>1. Len(longer) \in Nat \ {0} /\ longer[Len(longer)].addrs = {}
        BY <1>4, <3>1, <3>3
      <4>2. Gathered(longer) = Below(longer) \cup longer[Len(longer)].addrs
        BY <4>1, GatheredSplit
      <4> QED BY <3>4, <4>1, <4>2
    <3> QED BY <1>3, <1>5, <2>2, <3>1, <3>2, <3>3, <3>5
  <2> QED BY <2>1, <2>2
<1>7. SourcesExact' /\ (\A h \in Hosts \cap lines : heard[h] = {})' /\ host' \in Hosts \ lines'
  BY <1>0, SameResult DEF Looking
<1>8. TypeOK'
  BY <1>0, <1>6 DEF TypeOK, zoneVs
<1>9. ControlInv' /\ HeardInv'
  BY <1>0, <1>6, <1>7 DEF ResolveInv, ControlInv, HeardInv, zoneVs
<1> QED BY <1>7, <1>8, <1>9 DEF ResolveInv

(* The last call of a name returns: its addresses are all that was heard. *)
LEMMA LastReturn ==
  ASSUME ResolveInv, Return, phase = "addr", Len(stack) = 1
  PROVE  ResolveInv'
<1> USE ResolverAssumption
<1>0. TypeOK /\ stack # <<>> /\ Top \in CallType /\ Top = stack[1]
      /\ host \in Hosts \ lines
  BY Stack DEF Return, ResolveInv, ControlInv, Top
<1>1. stack' = <<>> /\ phase' = "next" /\ UNCHANGED <<lines, host, spent, zoneVs, auth, heard, asked>>
      /\ sources' = [a \in Addrs |-> IF a \in Top.addrs THEN sources[a] \cup {host} ELSE sources[a]]
  <2>1. SubSeq(stack, 1, Len(stack) - 1) = <<>>
    BY SubSeqEmpty
  <2> QED BY <2>1 DEF Return
<1>2. heard[host] = Top.addrs
  <2>1. Below(stack) = {}
    BY DEF Below, Found
  <2> QED BY <1>0, <2>1, GatheredTop DEF ResolveInv, HeardInv
<1>3. SourcesExact'
  <2> SUFFICES ASSUME NEW a \in Addrs
               PROVE  sources'[a] = {l \in Literals \ lines' : l = a}
                                    \cup {h \in Hosts : Over(h)' /\ a \in heard'[h]}
    BY DEF SourcesExact
  <2>1. sources[a] = {l \in Literals \ lines : l = a} \cup {h \in Hosts : Over(h) /\ a \in heard[h]}
    BY DEF ResolveInv, SourcesExact
  <2>2. \A h \in Hosts : Over(h)' <=> Over(h) \/ h = host
    BY <1>0, <1>1 DEF Over
  <2>3. ~Over(host)
    BY DEF Over
  <2>4. CASE a \in Top.addrs
    <3>1. {h \in Hosts : Over(h)' /\ a \in heard'[h]}
          = {h \in Hosts : Over(h) /\ a \in heard[h]} \cup {host}
      BY <1>0, <1>1, <1>2, <2>2, <2>4
    <3> QED BY <1>1, <2>1, <2>4, <3>1
  <2>5. CASE a \notin Top.addrs
    <3>1. {h \in Hosts : Over(h)' /\ a \in heard'[h]} = {h \in Hosts : Over(h) /\ a \in heard[h]}
      BY <1>1, <1>2, <2>2, <2>3, <2>5
    <3> QED BY <1>1, <2>1, <2>5, <3>1
  <2> QED BY <2>4, <2>5
<1>4. TypeOK'
  <2>1. sources' \in [Addrs -> SUBSET (Hosts \cup Literals)]
    BY <1>0, <1>1 DEF TypeOK
  <2>2. stack' \in Seq(CallType) /\ Len(stack') <= MaxDepth + 1
    BY <1>1, EmptySeq
  <2> QED BY <1>0, <1>1, <2>1, <2>2 DEF TypeOK, zoneVs
<1>5. ControlInv' /\ HeardInv'
  BY <1>1 DEF ResolveInv, ControlInv, HeardInv
<1> QED BY <1>3, <1>4, <1>5 DEF ResolveInv

(* The other calls return to a caller or to the discovery of name servers. *)
LEMMA InnerReturn ==
  ASSUME ResolveInv, Return, ~(phase = "addr" /\ Len(stack) = 1)
  PROVE  ResolveInv'
<1> USE ResolverAssumption
<1>0. /\ TypeOK /\ stack # <<>> /\ stack \in Seq(CallType) /\ Top \in CallType
      /\ phase \in {"nsaddr", "addr"}
      /\ UNCHANGED <<phase, lines, sources, host, spent, zoneVs, heard, asked>>
  BY Stack DEF Return, ResolveInv, ControlInv
<1>1. auth' \subseteq Addrs
  BY <1>0 DEF Return, TypeOK, CallType
<1>2. PICK n \in Nat \ {0} : n = Len(stack) /\ n <= MaxDepth + 1
  BY <1>0, Stack
<1>3. PICK callers : callers = SubSeq(stack, 1, n - 1)
  OBVIOUS
<1>4. stack' \in Seq(CallType) /\ Len(stack') <= MaxDepth + 1
      /\ (phase = "addr" => stack' # <<>> /\ Gathered(stack') = Gathered(stack))
  <2>1. CASE n = 1
    <3>1. callers = <<>>
      BY <1>3, <2>1, SubSeqEmpty
    <3>2. stack' = <<>>
      BY <1>2, <1>3, <3>1 DEF Return
    <3> QED BY <1>2, <2>1, <3>2, EmptySeq
  <2>2. CASE n # 1
    <3>1. PICK k \in Nat \ {0} : k = n - 1 /\ k \in 1 .. k
      BY <2>2
    <3>2. /\ callers \in Seq(CallType) /\ Len(callers) = k
          /\ \A i \in 1 .. k : callers[i] = stack[i]
      <4>1. \A i \in 1 .. n - 1 : stack[i] \in CallType
        BY <1>0, <1>2, ElementOfSeq
      <4>2. SubSeq(stack, 1, n - 1) \in Seq(CallType)
            /\ Len(SubSeq(stack, 1, n - 1)) = (IF 1 <= n - 1 THEN n - 1 - 1 + 1 ELSE 0)
            /\ \A i \in 1 .. n - 1 - 1 + 1 : SubSeq(stack, 1, n - 1)[i] = stack[1 + i - 1]
        BY <4>1, SubSeqProperties
      <4>3. \A i \in 1 .. k : 1 + i - 1 = i
        OBVIOUS
      <4> QED BY <1>3, <3>1, <4>2, <4>3
    <3>3. callers # <<>> /\ callers[k] \in CallType
      BY <3>1, <3>2, EmptySeq, ElementOfSeq
    <3>4. PICK c : c = [callers[k] EXCEPT !.addrs = @ \cup Top.addrs]
      OBVIOUS
    <3>5. c \in CallType /\ c.addrs = callers[k].addrs \cup Top.addrs
      BY <1>0, <3>3, <3>4 DEF CallType
    <3>6. stack' = [callers EXCEPT ![k] = c]
      BY <1>2, <1>3, <3>2, <3>3, <3>4 DEF Return
    <3>7. stack' \in Seq(CallType) /\ Len(stack') = k /\ stack'[k] = c
          /\ \A i \in 1 .. k - 1 : stack'[i] = stack[i]
      BY <3>1, <3>2, <3>5, <3>6, ExceptSeq
    <3>8. Below(stack') = Found(stack, k - 1)
      <4>1. k - 1 \in Nat /\ Below(stack') = Found(stack', k - 1)
        BY <3>1, <3>7 DEF Below
      <4> QED BY <3>7, <4>1, FoundSame
    <3>9. Gathered(stack') = Below(stack') \cup c.addrs
      BY <3>1, <3>7, GatheredSplit
    <3>10. Below(stack) = Below(stack') \cup callers[k].addrs
      <4>1. Below(stack) = Found(stack, k)
        BY <1>2, <3>1 DEF Below
      <4>2. callers[k] = stack[k]
        BY <3>1, <3>2
      <4>3. Found(stack, k) = Found(stack, k - 1) \cup stack[k].addrs
        BY FoundSplit
      <4> QED BY <3>8, <4>1, <4>2, <4>3, Zenon
    <3>11. Gathered(stack') = Gathered(stack)
      BY <1>0, <3>5, <3>9, <3>10, GatheredTop
    <3>12. stack' # <<>>
      BY <3>1, <3>7, EmptySeq
    <3> QED BY <1>2, <3>1, <3>7, <3>11, <3>12
  <2> QED BY <2>1, <2>2
<1>5. SourcesExact' /\ (\A h \in Hosts \cap lines : heard[h] = {})' /\ host' \in Hosts \ lines'
  BY <1>0, SameResult DEF Looking
<1>6. TypeOK'
  BY <1>0, <1>1, <1>4 DEF TypeOK, zoneVs
<1>7. ControlInv'
  BY <1>0, <1>4, <1>5 DEF ResolveInv, ControlInv, zoneVs
<1>8. HeardInv'
  BY <1>0, <1>4, <1>5 DEF ResolveInv, HeardInv
<1> QED BY <1>5, <1>6, <1>7, <1>8 DEF ResolveInv
-----------------------------------------------------------------------------
LEMMA LiteralStep ==
  ASSUME ResolveInv, NEW l \in Literals, Literal(l)
  PROVE  ResolveInv'
<1> USE ResolverAssumption
<1>0. /\ phase = "next" /\ phase' = "next" /\ l \in lines /\ l \notin Hosts /\ l \in Addrs
      /\ lines' = lines \ {l} /\ sources' = [sources EXCEPT ![l] = @ \cup {l}]
      /\ UNCHANGED <<host, spent, zoneVs, auth, stack, heard, asked>>
  BY DEF Literal
<1>1. SourcesExact'
  <2> SUFFICES ASSUME NEW a \in Addrs
               PROVE  sources'[a] = {x \in Literals \ lines' : x = a}
                                    \cup {h \in Hosts : Over(h)' /\ a \in heard'[h]}
    BY DEF SourcesExact
  <2>1. sources[a] = {x \in Literals \ lines : x = a} \cup {h \in Hosts : Over(h) /\ a \in heard[h]}
    BY DEF ResolveInv, SourcesExact
  <2>2. \A h \in Hosts : Over(h)' <=> Over(h)
    BY <1>0 DEF Over
  <2>3. {h \in Hosts : Over(h)' /\ a \in heard'[h]} = {h \in Hosts : Over(h) /\ a \in heard[h]}
    BY <1>0, <2>2
  <2>4. sources \in [Addrs -> SUBSET (Hosts \cup Literals)]
    BY DEF ResolveInv, TypeOK
  <2>5. CASE a = l
    <3>1. sources'[a] = sources[a] \cup {l}
      BY <1>0, <2>4, <2>5
    <3>2. {x \in Literals \ lines' : x = a} = {x \in Literals \ lines : x = a} \cup {l}
      BY <1>0, <2>5
    <3> QED BY <2>1, <2>3, <3>1, <3>2
  <2>6. CASE a # l
    <3>1. sources'[a] = sources[a]
      BY <1>0, <2>4, <2>6
    <3>2. {x \in Literals \ lines' : x = a} = {x \in Literals \ lines : x = a}
      BY <1>0, <2>6
    <3> QED BY <2>1, <2>3, <3>1, <3>2
  <2> QED BY <2>5, <2>6
<1>2. TypeOK'
  BY <1>0 DEF ResolveInv, TypeOK, zoneVs
<1>3. ControlInv' /\ HeardInv'
  BY <1>0 DEF ResolveInv, ControlInv, HeardInv
<1> QED BY <1>1, <1>2, <1>3 DEF ResolveInv

LEMMA BeginStep ==
  ASSUME ResolveInv, NEW h \in Hosts, Begin(h)
  PROVE  ResolveInv'
<1> USE ResolverAssumption
<1>0. /\ phase = "next" /\ phase' = "ns" /\ h \in lines /\ lines' = lines \ {h} /\ host' = h
      /\ h \notin Literals
      /\ spent' = 0 /\ zone' = 1 /\ left' = Configured /\ nsHosts' = {} /\ auth' = {} /\ asked' = {}
      /\ UNCHANGED <<sources, stack, heard>>
  BY DEF Begin
<1>1. SourcesExact'
  <2>1. \A x \in Hosts : Over(x)' <=> Over(x)
    BY <1>0 DEF Over
  <2>2. Literals \ lines' = Literals \ lines
    BY <1>0
  <2> QED BY <1>0, <2>1, <2>2 DEF ResolveInv, SourcesExact
<1>2. TypeOK'
  BY <1>0 DEF ResolveInv, TypeOK
<1>3. ControlInv'
  BY <1>0 DEF ResolveInv, ControlInv
<1>4. HeardInv'
  BY <1>0 DEF ResolveInv, HeardInv
<1> QED BY <1>1, <1>2, <1>3, <1>4 DEF ResolveInv

LEMMA FinishStep ==
  ASSUME ResolveInv, Finish
  PROVE  ResolveInv'
<1>0. phase = "next" /\ phase' \in {"failed", "resolved"}
      /\ UNCHANGED <<lines, sources, host, spent, zoneVs, auth, stack, heard, asked>>
  BY DEF Finish
<1>1. SourcesExact'
  <2>1. \A x \in Hosts : Over(x)' <=> Over(x)
    BY <1>0 DEF Over
  <2> QED BY <1>0, <2>1 DEF ResolveInv, SourcesExact
<1>2. TypeOK' /\ ControlInv' /\ HeardInv'
  BY <1>0 DEF ResolveInv, TypeOK, ControlInv, HeardInv, zoneVs
<1> QED BY <1>1, <1>2 DEF ResolveInv

LEMMA Unchanged == ResolveInv /\ UNCHANGED vars => ResolveInv'
  BY DEF ResolveInv, TypeOK, ControlInv, HeardInv, Gathered, SourcesExact, Over, vars

LEMMA NextInv == ResolveInv /\ [Next]_vars => ResolveInv'
<1> SUFFICES ASSUME ResolveInv, [Next]_vars PROVE ResolveInv'
  OBVIOUS
<1>1. CASE \E l \in Literals : Literal(l)
  BY <1>1, LiteralStep
<1>2. CASE \E h \in Hosts : Begin(h)
  BY <1>2, BeginStep
<1>3. CASE \E s \in Addrs : AskNS(s) \/ AskA(s)
  BY <1>3, AskNSStep, AskAStep
<1>4. CASE EndNS \/ EndNSAddr
  BY <1>4, EndNSStep, EndNSAddrStep
<1>5. CASE \E n \in Names : LookupNS(n) \/ Follow(n)
  BY <1>5, LookupNSStep, FollowStep
<1>6. CASE Return
  BY <1>6, LastReturn, InnerReturn
<1>7. CASE Finish
  BY <1>7, FinishStep
<1>8. CASE UNCHANGED vars
  BY <1>8, Unchanged
<1> QED BY <1>1, <1>2, <1>3, <1>4, <1>5, <1>6, <1>7, <1>8 DEF Next, Step

LEMMA Invariant == Spec => []ResolveInv
  BY InitInv, NextInv, PTL DEF Spec

(* The variables keep their types, and no chain of aliases goes deeper than *)
(* MaxDepth, whatever the servers answer.                                   *)
THEOREM TypeCorrect == Spec => []TypeOK
<1>1. ResolveInv => TypeOK
  BY DEF ResolveInv
<1> QED BY <1>1, Invariant, PTL

(* The result is what the literals and the servers gave, each address with *)
(* its sources, for any number of servers, names and aliases                *)
(* (ResolveHostnames, lookupAWithServers, addResolvedSource).               *)
THEOREM ResultExact == Spec => []SourcesExact
<1>1. ResolveInv => SourcesExact
  BY DEF ResolveInv
<1> QED BY <1>1, Invariant, PTL
-----------------------------------------------------------------------------
(* Who has been asked for a name *)

(* The server asked is taken off the list of its call. *)
LEMMA AsksOne ==
  ASSUME ResolveInv, NEW s \in Addrs, AskA(s)
  PROVE  \E c \in CallType : c.left = Top.left \ {s} /\ stack' = SetTop(c)
<1>1. Top \in CallType
  BY Stack DEF AskA, ResolveInv
<1>2. PICK reply \in Reply : stack' = SetTop(Asked(Top, s, reply))
  BY AskASets
<1>3. Asked(Top, s, reply) \in CallType
  BY <1>1, AskedTyped
<1>4. Asked(Top, s, reply).left = Top.left \ {s}
  BY <1>1 DEF Asked, CallType
<1> QED BY <1>2, <1>3, <1>4

(* Time that has run out does not come back. *)
LEMMA Expires ==
  ASSUME TypeOK, NEW s \in Addrs, Answers(s) \/ Fails(s), spent' < Budget
  PROVE  Sends
BY ResolverAssumption DEF TypeOK, Answers, Fails, Sends

(* The outermost call: an inner one leaves it as it is, but for what it has *)
(* found.                                                                   *)
LEMMA AskAOutermost ==
  ASSUME ResolveInv, NEW s \in Addrs, AskA(s), phase = "addr", Sends
  PROVE  \/ asked' = asked /\ stack'[1].left = stack[1].left
         \/ /\ asked' = asked \cup {s} /\ s \in stack[1].left
            /\ stack'[1].left = stack[1].left \ {s}
<1>0. TypeOK /\ stack # <<>> /\ Len(stack) \in Nat \ {0}
  BY Stack DEF AskA, ResolveInv
<1>1. PICK c \in CallType : c.left = Top.left \ {s} /\ stack' = SetTop(c)
  BY AsksOne
<1>2. SetTop(c)[Len(stack)] = c /\ \A i \in 1 .. Len(stack) - 1 : SetTop(c)[i] = stack[i]
  BY <1>0, SetTopStack
<1>3. CASE Len(stack) = 1
  BY <1>1, <1>2, <1>3 DEF AskA, Top
<1>4. CASE Len(stack) # 1
  <2>1. 1 \in 1 .. Len(stack) - 1
    <3>1. PICK n \in Nat \ {0} : n = Len(stack)
      BY <1>0
    <3> QED BY <1>4, <3>1
  <2> QED BY <1>1, <1>2, <1>4, <2>1 DEF AskA
<1> QED BY <1>3, <1>4

LEMMA FollowOutermost ==
  ASSUME ResolveInv, NEW n \in Names, Follow(n)
  PROVE  stack'[1].left = stack[1].left
<1>0. TypeOK /\ stack # <<>> /\ Top \in CallType /\ Len(stack) \in Nat \ {0}
  BY Stack DEF Follow, ResolveInv
<1>1. PICK c : c = [Top EXCEPT !.aliases = @ \ {n}]
  OBVIOUS
<1>2. c \in CallType /\ c.left = Top.left
  BY <1>0, <1>1 DEF CallType
<1>3. PICK rest \in Seq(CallType) :
        /\ rest = SetTop(c) /\ Len(rest) = Len(stack) /\ rest[Len(stack)] = c
        /\ \A i \in 1 .. Len(stack) - 1 : rest[i] = stack[i]
  BY <1>0, <1>2, SetTopStack
<1>4. rest[1].left = stack[1].left
  <2>1. CASE Len(stack) = 1
    BY <1>2, <1>3, <2>1 DEF Top
  <2>2. CASE Len(stack) # 1
    <3>1. 1 \in 1 .. Len(stack) - 1
      <4>1. PICK k \in Nat \ {0} : k = Len(stack)
        BY <1>0
      <4> QED BY <2>2, <4>1
    <3> QED BY <1>3, <3>1
  <2> QED BY <2>1, <2>2
<1>5. PICK new : new = Call(n, Servers)
  OBVIOUS
<1>6. Append(rest, new)[1] = rest[1]
  <2>1. new \in CallType
    <3>1. Servers \in SUBSET Addrs
      BY <1>0, ResolverAssumption DEF Servers, TypeOK
    <3> QED BY <1>5, <3>1, CallTyped
  <2>2. 1 \in 1 .. Len(rest)
    BY <1>0, <1>3
  <2> QED BY <2>1, <2>2, AppendProperties
<1>7. stack' = IF Len(stack) > MaxDepth THEN rest ELSE Append(rest, new)
  BY <1>1, <1>3, <1>5 DEF Follow
<1> QED BY <1>4, <1>6, <1>7

LEMMA ReturnOutermost ==
  ASSUME ResolveInv, Return, Len(stack) # 1
  PROVE  stack'[1].left = stack[1].left
<1>0. TypeOK /\ stack # <<>> /\ stack \in Seq(CallType) /\ Top \in CallType
  BY Stack DEF Return, ResolveInv
<1>1. PICK k \in Nat \ {0} : Len(stack) = k + 1 /\ 1 \in 1 .. k
  <2>1. Len(stack) \in Nat \ {0, 1}
    BY <1>0, Stack
  <2> QED BY <2>1
<1>2. PICK callers : callers = SubSeq(stack, 1, k)
  OBVIOUS
<1>3. callers \in Seq(CallType) /\ Len(callers) = k /\ \A i \in 1 .. k : callers[i] = stack[i]
  <2>1. \A i \in 1 .. k : stack[i] \in CallType
    BY <1>0, <1>1, ElementOfSeq
  <2>2. SubSeq(stack, 1, k) \in Seq(CallType)
        /\ Len(SubSeq(stack, 1, k)) = (IF 1 <= k THEN k - 1 + 1 ELSE 0)
        /\ \A i \in 1 .. k - 1 + 1 : SubSeq(stack, 1, k)[i] = stack[1 + i - 1]
    BY <2>1, SubSeqProperties
  <2>3. \A i \in 1 .. k : 1 + i - 1 = i
    OBVIOUS
  <2> QED BY <1>1, <1>2, <2>2, <2>3
<1>4. callers # <<>> /\ callers[k] \in CallType
  BY <1>1, <1>3, EmptySeq, ElementOfSeq
<1>5. PICK c : c = [callers[k] EXCEPT !.addrs = @ \cup Top.addrs]
  OBVIOUS
<1>6. c.left = callers[k].left /\ c \in CallType
  BY <1>0, <1>4, <1>5 DEF CallType
<1>7. stack' = [callers EXCEPT ![k] = c]
  <2>1. Len(stack) - 1 = k
    BY <1>1
  <2> QED BY <1>2, <1>3, <1>4, <1>5, <2>1 DEF Return
<1>8. stack'[1] = IF 1 = k THEN c ELSE callers[1]
  BY <1>1, <1>3, <1>6, <1>7, ExceptSeq
<1> QED BY <1>1, <1>3, <1>6, <1>8

LEMMA NextAsked ==
  ASSUME ResolveInv, AskedInv, [Next]_vars
  PROVE  AskedInv'
<1> USE ResolverAssumption
<1>1. CASE \E l \in Literals : Literal(l)
  BY <1>1 DEF Literal, AskedInv, EveryServerAsked, Over
<1>2. CASE \E h \in Hosts : Begin(h)
  BY <1>2 DEF Begin, AskedInv, EveryServerAsked, Over
<1>3. ASSUME NEW s \in Addrs, AskNS(s) PROVE AskedInv'
  BY <1>3 DEF AskNS, AskedInv, EveryServerAsked, Over
<1>4. CASE EndNS \/ EndNSAddr
  <2>1. /\ phase \in {"ns", "nsaddr"} /\ asked = {}
        /\ UNCHANGED <<lines, host, spent, auth, asked>>
        /\ LookupHost \/ phase' \in {"ns", "nsaddr"}
    BY <1>4 DEF EndNS, EndNSAddr, NextZone, AskedInv
  <2>2. CASE LookupHost
    <3>1. stack'[1].left = Configured \cup auth /\ phase' = "addr"
      BY <2>2 DEF LookupHost, Call
    <3> QED BY <2>1, <3>1 DEF AskedInv, EveryServerAsked, Over
  <2>3. CASE phase' \in {"ns", "nsaddr"}
    BY <2>1, <2>3 DEF AskedInv, EveryServerAsked, Over
  <2> QED BY <2>1, <2>2, <2>3
<1>5. ASSUME NEW n \in Names, LookupNS(n) PROVE AskedInv'
  BY <1>5 DEF LookupNS, AskedInv, EveryServerAsked, Over
<1>6. ASSUME NEW s \in Addrs, AskA(s) PROVE AskedInv'
  <2>1. phase \in {"nsaddr", "addr"} /\ UNCHANGED <<phase, lines, host, auth>>
    BY <1>6 DEF AskA, ResolveInv, ControlInv, TypeOK
  <2>2. CASE phase = "addr"
    <3>1. spent' < Budget => spent < Budget
      BY <1>6, Expires DEF AskA, ResolveInv, Sends
    <3>2. spent < Budget => asked' \cup stack'[1].left = asked \cup stack[1].left
      BY <1>6, <2>2, AskAOutermost DEF Sends
    <3> QED BY <2>1, <2>2, <3>1, <3>2 DEF AskedInv, EveryServerAsked, Over
  <2>3. CASE phase = "nsaddr"
    BY <1>6, <2>1, <2>3 DEF AskA, AskedInv, EveryServerAsked, Over
  <2> QED BY <2>1, <2>2, <2>3
<1>7. ASSUME NEW n \in Names, Follow(n) PROVE AskedInv'
  <2>1. stack'[1].left = stack[1].left /\ UNCHANGED <<phase, lines, host, spent, auth, asked>>
    BY <1>7, FollowOutermost DEF Follow
  <2> QED BY <2>1 DEF AskedInv, EveryServerAsked, Over
<1>8. CASE Return
  <2>0. phase \in {"nsaddr", "addr"} /\ UNCHANGED <<lines, host, spent, asked>>
    BY <1>8 DEF Return, ResolveInv, ControlInv, TypeOK
  <2>1. CASE phase = "addr" /\ Len(stack) = 1
    <3>1. Top.left = {} /\ Top = stack[1] /\ phase' = "next" /\ auth' = auth
      BY <1>8, <2>1 DEF Return, Top
    <3> QED BY <2>0, <2>1, <3>1 DEF AskedInv, EveryServerAsked
  <2>2. CASE phase = "addr" /\ Len(stack) # 1
    <3>1. stack'[1].left = stack[1].left /\ phase' = phase /\ auth' = auth
      BY <1>8, <2>2, ReturnOutermost DEF Return
    <3> QED BY <2>0, <2>2, <3>1 DEF AskedInv, EveryServerAsked, Over
  <2>3. CASE phase = "nsaddr"
    BY <1>8, <2>0, <2>3 DEF Return, AskedInv, EveryServerAsked, Over
  <2> QED BY <2>0, <2>1, <2>2, <2>3
<1>9. CASE Finish
  BY <1>9 DEF Finish, AskedInv, EveryServerAsked, Over
<1>10. CASE UNCHANGED vars
  BY <1>10 DEF vars, AskedInv, EveryServerAsked, Over
<1> QED BY <1>1, <1>2, <1>3, <1>4, <1>5, <1>6, <1>7, <1>8, <1>9, <1>10 DEF Next, Step

(* Unless its time runs out, a name is asked of every server configured and *)
(* of every authoritative one that was found, whatever any of them answers, *)
(* and through whatever aliases (ResolveIPv4, lookupAWithServers).          *)
THEOREM AllServersAsked == Spec => []EveryServerAsked
<1>1. Init => AskedInv
  BY DEF Init, AskedInv, EveryServerAsked
<1>2. AskedInv => EveryServerAsked
  BY DEF AskedInv
<1> QED BY <1>1, <1>2, NextAsked, Invariant, PTL DEF Spec
=============================================================================
