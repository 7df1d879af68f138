------------------------------ MODULE Resolver ------------------------------
(***************************************************************************)
(* internal/syncer/resolver.go: ResolveHostnames, which turns the lines of *)
(* a job into addresses, name after name and server after server.          *)
(*                                                                         *)
(* A line is a name or a literal; a literal (address or CIDR block) stands *)
(* for itself.  A server is the address it listens on, and there is at     *)
(* least one: both callers, execute and the handler resolveHostnames,      *)
(* refuse an empty list before they call.  Servers are asked one after     *)
(* another in the order of the table; as the model knows nothing of a      *)
(* server but what it answers, any order stands for all of them.           *)
(***************************************************************************)
EXTENDS Naturals, Sequences, FiniteSets

CONSTANTS
  Names,       \* domain names
  Addrs,       \* addresses and blocks
  Hosts,       \* the lines that are names
  Literals,    \* the other lines
  Zones,       \* zoneCandidates of each of them
  Configured,  \* the enabled DNS servers
  AAnswers,    \* what servers may answer about addresses, per name
  NSAnswers,   \* and about name servers, per zone
  Silent,      \* servers that never answer
  Steady,      \* servers that always answer, at once
  Budget,      \* queryTimeout
  Slow,        \* Timeout of a dns.Client
  MaxDepth,    \* maxCNAMEFollowDepth
  NoHost       \* no name is being resolved

Reply == [addrs : SUBSET Addrs, aliases : SUBSET Names]

ASSUME ResolverAssumption ==
  /\ Hosts \subseteq Names /\ Literals \subseteq Addrs
  /\ Names \cap Addrs = {} /\ NoHost \notin Names
  /\ Zones \in [Hosts -> Seq(Names)] /\ \A h \in Hosts : Len(Zones[h]) > 0
  /\ Configured \subseteq Addrs /\ Configured # {}
  /\ AAnswers \in [Names -> SUBSET Reply] /\ NSAnswers \in [Names -> SUBSET SUBSET Names]
  /\ Silent \subseteq Addrs /\ Steady \subseteq Addrs \ Silent
  /\ Budget \in Nat \ {0} /\ Slow \in Nat \ {0} /\ MaxDepth \in Nat

VARIABLES
  phase,    \* what ResolveHostnames is doing
  lines,    \* lines it has not come to
  sources,  \* its result: the lines each address comes from
  host,     \* the name in ResolveIPv4
  spent,    \* time since its context was made, Budget when it has expired
  zone,     \* lookupAuthoritativeServers: the candidate,
  left,     \*   the servers not yet asked for its name servers,
  nsHosts,  \*   the name servers whose addresses are not yet looked up
  auth,     \*   and the addresses found
  stack,    \* calls of lookupAWithServers, the innermost last
  heard,    \* history: addresses that servers gave in the lookups of a name
  asked     \* history: servers that a query for the name itself was sent to

zoneVs == <<zone, left, nsHosts>>
vars   == <<phase, lines, sources, host, spent, zone, left, nsHosts, auth, stack, heard, asked>>

Top     == stack[Len(stack)]
SetTop(call) == [stack EXCEPT ![Len(stack)] = call]
Servers == IF phase = "addr" THEN Configured \cup auth ELSE Configured
Call(name, servers) == [name |-> name, left |-> servers, addrs |-> {}, aliases |-> {}]

CallType == [name : Names, left : SUBSET Addrs, addrs : SUBSET Addrs, aliases : SUBSET Names]
-----------------------------------------------------------------------------
(* exchangeDNS: over UDP and, if the reply is cut short, over TCP, each for *)
(* Slow at most and never beyond the deadline of the context.  After it,    *)
(* every exchange fails at once.                                            *)

Sends == spent < Budget

Answers(s) ==
  /\ s \notin Silent /\ Sends
  /\ \E d \in 0 .. (IF s \in Steady THEN 0 ELSE 2 * Slow) : spent + d < Budget /\ spent' = spent + d

\* an error, an empty response or a code other than success
Fails(s) ==
  /\ s \in Steady => spent = Budget
  /\ \E d \in (IF s \in Silent THEN {Slow} ELSE 0 .. 2 * Slow) :
       spent' = IF spent + d < Budget THEN spent + d ELSE Budget
-----------------------------------------------------------------------------
(* ResolveHostnames *)

Literal(l) ==
  /\ phase = "next" /\ l \in lines \cap Literals
  /\ lines' = lines \ {l}
  /\ sources' = [sources EXCEPT ![l] = @ \cup {l}]
  /\ UNCHANGED <<phase, host, spent, zoneVs, auth, stack, heard, asked>>

Begin(h) ==
  /\ phase = "next" /\ h \in lines \cap Hosts
  /\ phase' = "ns"
  /\ lines' = lines \ {h}
  /\ host' = h /\ spent' = 0
  /\ zone' = 1 /\ left' = Configured /\ nsHosts' = {}
  /\ auth' = {} /\ asked' = {}
  /\ UNCHANGED <<sources, stack, heard>>

(* with an error if there is no address at all *)
Finish ==
  /\ phase = "next" /\ lines = {}
  /\ phase' = IF \A a \in Addrs : sources[a] = {} THEN "failed" ELSE "resolved"
  /\ UNCHANGED <<lines, sources, host, spent, zoneVs, auth, stack, heard, asked>>
-----------------------------------------------------------------------------
(* lookupAuthoritativeServers *)

AskNS(s) ==
  /\ phase = "ns" /\ s \in left
  /\ left' = left \ {s}
  /\ \/ Answers(s) /\ \E ns \in NSAnswers[Zones[host][zone]] : nsHosts' = nsHosts \cup ns
     \/ Fails(s) /\ UNCHANGED nsHosts
  /\ UNCHANGED <<phase, lines, sources, host, zone, auth, stack, heard, asked>>

LookupHost ==
  /\ phase' = "addr"
  /\ stack' = <<Call(host, Configured \cup auth)>>
  /\ UNCHANGED zoneVs

NextZone ==
  IF zone < Len(Zones[host])
  THEN /\ phase' = "ns" /\ zone' = zone + 1 /\ left' = Configured /\ nsHosts' = {}
       /\ UNCHANGED stack
  ELSE LookupHost

EndNS ==
  /\ phase = "ns" /\ left = {}
  /\ IF nsHosts = {} THEN NextZone ELSE phase' = "nsaddr" /\ UNCHANGED <<zoneVs, stack>>
  /\ UNCHANGED <<lines, sources, host, spent, auth, heard, asked>>

LookupNS(n) ==
  /\ phase = "nsaddr" /\ stack = <<>> /\ n \in nsHosts
  /\ nsHosts' = nsHosts \ {n}
  /\ stack' = <<Call(n, Configured)>>
  /\ UNCHANGED <<phase, lines, sources, host, spent, zone, left, auth, heard, asked>>

EndNSAddr ==
  /\ phase = "nsaddr" /\ stack = <<>> /\ nsHosts = {}
  /\ IF auth = {} THEN NextZone ELSE LookupHost
  /\ UNCHANGED <<lines, sources, host, spent, auth, heard, asked>>
-----------------------------------------------------------------------------
(* lookupAWithServers *)

\* mutated: the first answer is enough
FirstAnswer(call, s, reply) ==
  LET addrs   == call.addrs \cup reply.addrs
      aliases == call.aliases \cup reply.aliases
  IN  [call EXCEPT !.left = IF addrs # {} THEN {} ELSE @ \ {s}, !.addrs = addrs,
                   !.aliases = IF addrs # {} THEN {} ELSE aliases]

(* aliases count only if no server gave an address *)
Asked(call, s, reply) ==
  LET addrs   == call.addrs \cup reply.addrs
      aliases == call.aliases \cup reply.aliases
  IN  [call EXCEPT !.left = @ \ {s}, !.addrs = addrs,
                   !.aliases = IF call.left = {s} /\ addrs # {} THEN {} ELSE aliases]

NoReply == [addrs |-> {}, aliases |-> {}]

\* mutated: a server that fails is asked again
AskAgain(s) ==
  /\ stack # <<>> /\ s \in Top.left
  /\ phase = "addr" /\ Top.left \cap auth # {} => s \in auth
  /\ \/ Answers(s) /\ \E reply \in AAnswers[Top.name] :
          /\ stack' = SetTop(Asked(Top, s, reply))
          /\ heard' = IF phase = "addr" THEN [heard EXCEPT ![host] = @ \cup reply.addrs] ELSE heard
     \/ Fails(s) /\ UNCHANGED <<stack, heard>>
  /\ asked' = IF Sends /\ phase = "addr" /\ Len(stack) = 1 THEN asked \cup {s} ELSE asked
  /\ UNCHANGED <<phase, lines, sources, host, zoneVs, auth>>

(* authoritative servers come first *)
AskA(s) ==
  /\ stack # <<>> /\ s \in Top.left
  /\ phase = "addr" /\ Top.left \cap auth # {} => s \in auth
  /\ \/ Answers(s) /\ \E reply \in AAnswers[Top.name] :
          /\ stack' = SetTop(Asked(Top, s, reply))
          /\ heard' = IF phase = "addr" THEN [heard EXCEPT ![host] = @ \cup reply.addrs] ELSE heard
     \/ Fails(s) /\ stack' = SetTop(Asked(Top, s, NoReply)) /\ UNCHANGED heard
  /\ asked' = IF Sends /\ phase = "addr" /\ Len(stack) = 1 THEN asked \cup {s} ELSE asked
  /\ UNCHANGED <<phase, lines, sources, host, zoneVs, auth>>

\* mutated: one alias too many
FollowDeeper(n) ==
  /\ stack # <<>> /\ Top.left = {} /\ n \in Top.aliases
  /\ LET rest == SetTop([Top EXCEPT !.aliases = @ \ {n}])
     IN  stack' = IF Len(stack) > MaxDepth + 1 THEN rest ELSE Append(rest, Call(n, Servers))
  /\ UNCHANGED <<phase, lines, sources, host, spent, zoneVs, auth, heard, asked>>

Follow(n) ==
  /\ stack # <<>> /\ Top.left = {} /\ n \in Top.aliases
  /\ LET rest == SetTop([Top EXCEPT !.aliases = @ \ {n}])
     IN  stack' = IF Len(stack) > MaxDepth THEN rest ELSE Append(rest, Call(n, Servers))
  /\ UNCHANGED <<phase, lines, sources, host, spent, zoneVs, auth, heard, asked>>

\* mutated: the addresses of an alias replace those of the one before
ReturnLast ==
  /\ stack # <<>> /\ Top.left = {} /\ Top.aliases = {}
  /\ LET callers == SubSeq(stack, 1, Len(stack) - 1)
     IN  stack' = IF callers = <<>> THEN callers
                  ELSE [callers EXCEPT ![Len(callers)].addrs = Top.addrs]
  /\ auth' = IF phase = "nsaddr" /\ Len(stack) = 1 THEN auth \cup Top.addrs ELSE auth
  /\ IF phase = "addr" /\ Len(stack) = 1
     THEN /\ sources' = [a \in Addrs |-> IF a \in Top.addrs THEN sources[a] \cup {host} ELSE sources[a]]
          /\ phase' = "next"
     ELSE UNCHANGED <<sources, phase>>
  /\ UNCHANGED <<lines, host, spent, zoneVs, heard, asked>>

(* the addresses found are added to those of the caller *)
Return ==
  /\ stack # <<>> /\ Top.left = {} /\ Top.aliases = {}
  /\ LET callers == SubSeq(stack, 1, Len(stack) - 1)
     IN  stack' = IF callers = <<>> THEN callers
                  ELSE [callers EXCEPT ![Len(callers)].addrs = @ \cup Top.addrs]
  /\ auth' = IF phase = "nsaddr" /\ Len(stack) = 1 THEN auth \cup Top.addrs ELSE auth
  /\ IF phase = "addr" /\ Len(stack) = 1
     THEN /\ sources' = [a \in Addrs |-> IF a \in Top.addrs THEN sources[a] \cup {host} ELSE sources[a]]
          /\ phase' = "next"
     ELSE UNCHANGED <<sources, phase>>
  /\ UNCHANGED <<lines, host, spent, zoneVs, heard, asked>>
-----------------------------------------------------------------------------
Init ==
  /\ phase = "next"
  /\ lines = Hosts \cup Literals
  /\ sources = [a \in Addrs |-> {}]
  /\ host = NoHost /\ spent = 0
  /\ zone = 1 /\ left = {} /\ nsHosts = {} /\ auth = {}
  /\ stack = <<>>
  /\ heard = [h \in Hosts |-> {}]
  /\ asked = {}

Step ==
  \/ \E l \in Literals : Literal(l)
  \/ \E h \in Hosts : Begin(h)
  \/ \E s \in Addrs : AskNS(s) \/ AskA(s)
  \/ EndNS \/ EndNSAddr
  \/ \E n \in Names : LookupNS(n) \/ Follow(n)
  \/ Return \/ Finish

Next == Step \/ (phase \in {"failed", "resolved"} /\ UNCHANGED vars)

Spec == Init /\ [][Next]_vars

(* Every exchange ends, with an answer or by its timeout. *)
FairSpec == Spec /\ WF_vars(Step)
-----------------------------------------------------------------------------
TypeOK ==
  /\ phase \in {"next", "ns", "nsaddr", "addr", "failed", "resolved"}
  /\ lines \subseteq Hosts \cup Literals
  /\ sources \in [Addrs -> SUBSET (Hosts \cup Literals)]
  /\ host \in Hosts \cup {NoHost} /\ spent \in 0 .. Budget
  /\ zone \in Nat \ {0} /\ left \subseteq Configured /\ nsHosts \subseteq Names /\ auth \subseteq Addrs
  /\ stack \in Seq(CallType) /\ Len(stack) <= MaxDepth + 1
  /\ heard \in [Hosts -> SUBSET Addrs]
  /\ asked \subseteq Addrs

Over(h) == h \in Hosts \ lines /\ (h = host => phase \notin {"ns", "nsaddr", "addr"})

(* The result names, for each address, exactly the literals that it is and  *)
(* the names in whose lookup a server gave it, through whatever aliases:    *)
(* nothing heard is lost when others fail, and the addresses of name        *)
(* servers stay out (ResolveHostnames, lookupAWithServers).                 *)
SourcesExact ==
  \A a \in Addrs :
    sources[a] = {l \in Literals \ lines : l = a} \cup {h \in Hosts : Over(h) /\ a \in heard[h]}

(* A name that is resolved within its time has been asked of all the        *)
(* servers configured and of all the authoritative ones found, whether or   *)
(* not others have answered or failed (README.md: "Multi-resolver DNS       *)
(* lookups").  A name whose time runs out is not: once spent is Budget,     *)
(* nothing is sent any more.                                                *)
EveryServerAsked ==
  host # NoHost /\ Over(host) /\ spent < Budget => asked = Configured \cup auth

(* It ends, with addresses or an error, though names may alias each other.  *)
Terminates == <>(phase \in {"failed", "resolved"})
-----------------------------------------------------------------------------
(* The inductive invariants: behind SourcesExact *)

ControlInv ==
  /\ phase \notin {"nsaddr", "addr"} => stack = <<>>
  /\ phase = "addr" => stack # <<>>
  /\ phase \in {"ns", "nsaddr", "addr"} =>
       host \in Hosts \ lines /\ zone <= Len(Zones[host])

\* while a name is looked up, the calls hold what has been heard of it
Gathered(calls) == UNION {calls[i].addrs : i \in 1 .. Len(calls)}
HeardInv ==
  /\ \A h \in Hosts \cap lines : heard[h] = {}
  /\ phase \in {"ns", "nsaddr"} => heard[host] = {}
  /\ phase = "addr" => heard[host] = Gathered(stack)

ResolveInv == TypeOK /\ ControlInv /\ HeardInv /\ SourcesExact

(* Behind EveryServerAsked: as long as there is time, who has not been       *)
(* asked is left.                                                           *)
AskedInv ==
  /\ phase \in {"ns", "nsaddr"} => asked = {}
  /\ phase = "addr" /\ spent < Budget => asked \cup stack[1].left = Configured \cup auth
  /\ EveryServerAsked
-----------------------------------------------------------------------------
(* What the README says and the code does not do: with one server silent,   *)
(* the others still resolve the name.                                       *)
OtherServersSuffice ==
  \A h \in Hosts : Over(h) /\ Configured \cap Steady # {} => heard[h] # {}
=============================================================================
