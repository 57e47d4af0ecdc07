-------------------------------- MODULE Stun --------------------------------
(***************************************************************************)
(* stun.rs: a temporary socket asks the STUN servers one after the other   *)
(* for the address they see it at, and takes one datagram per server.      *)
(***************************************************************************)
EXTENDS Naturals, Sequences, SequencesExt

CONSTANTS
  Servers,      \* a sequence: the addresses the configured names resolve to
  Endpoints,    \* public addresses a NAT may give the socket
  Bodies,       \* attribute lists responses carry: sequences of Attribute
  MaxQueries    \* bounds the queries

Server == {Servers[i] : i \in DOMAIN Servers}

ASSUME StunAssumption == Servers \in Seq(Server) /\ MaxQueries \in Nat

(* "xor" and "mapped" hold an IPv4 endpoint, "other" anything the parser   *)
(* skips, "overrun" an attribute longer than the message.                  *)
Attribute == [kind : {"xor", "mapped", "other", "overrun"}]

None == "none"

VARIABLES
  query,         \* the number of the query, and with it socket and transaction id
  serversAsked,  \* how many servers were asked
  stunPhase,     \* "idle", "ask" or "wait"
  stunRequests,  \* requests on their way: server and query
  answers,       \* datagrams on their way to the socket
  seen,          \* ghost: what each server saw this query's socket as
  result         \* the endpoint the last query returned, or None

stunVars == <<query, serversAsked, stunPhase, stunRequests, answers, seen, result>>

StunTypeOK ==
  /\ query \in 0 .. MaxQueries
  /\ serversAsked \in 0 .. Len(Servers)
  /\ stunPhase \in {"idle", "ask", "wait"}
  /\ stunRequests \subseteq Server \X (1 .. MaxQueries)
  /\ answers \subseteq [from : Server, transaction : 0 .. MaxQueries,
                   endpoint : Endpoints, body : Bodies]
  /\ seen \subseteq Server \X (1 .. MaxQueries) \X Endpoints
  /\ result \in Endpoints \cup {None}

StunInit ==
  /\ query = 0
  /\ serversAsked = 0
  /\ stunPhase = "idle"
  /\ stunRequests = {}
  /\ answers = {}
  /\ seen = {}
  /\ result = None
-----------------------------------------------------------------------------
(* discover_public_addr: a new socket, whose number stands for the         *)
(* transaction id; what was sent to the old socket is gone with it.        *)
Discover ==
  /\ stunPhase = "idle"
  /\ query < MaxQueries
  /\ query' = query + 1
  /\ serversAsked' = 0
  /\ stunPhase' = "ask"
  /\ answers' = {}
  /\ result' = None
  /\ UNCHANGED <<stunRequests, seen>>

(* query_reflexive_endpoint asks the next server, or gives up.             *)
Ask ==
  /\ stunPhase = "ask"
  /\ serversAsked < Len(Servers)
  /\ serversAsked' = serversAsked + 1
  /\ stunPhase' = "wait"
  /\ stunRequests' = stunRequests \cup {<<Servers[serversAsked + 1], query>>}
  /\ UNCHANGED <<query, answers, seen, result>>

NoServerLeft ==
  /\ stunPhase = "ask"
  /\ serversAsked = Len(Servers)
  /\ stunPhase' = "idle"
  /\ UNCHANGED <<query, serversAsked, stunRequests, answers, seen, result>>

(* parse_binding_response: the first IPv4 address attribute before an      *)
(* attribute that overruns the message.                                    *)
Parsed(body) ==
  LET stop == SelectInSeq(body, LAMBDA a : a.kind # "other")
  IN stop # 0 /\ body[stop].kind \in {"xor", "mapped"}

(* A fault to detect: the transaction id is not compared.                  *)
AcceptsAnyTransaction(d) == d.from = Servers[serversAsked] /\ Parsed(d.body)

(* A datagram counts when it comes from the server that was just asked,    *)
(* answers this query's transaction, and holds an endpoint.                *)
Accepts(d) ==
  /\ d.from = Servers[serversAsked]
  /\ d.transaction = query
  /\ Parsed(d.body)

(* One datagram is read per server: any other one, a late answer of the    *)
(* server before included, ends the wait for this server.                  *)
ReadAnswer(d) ==
  /\ stunPhase = "wait"
  /\ d \in answers
  /\ answers' = answers \ {d}
  /\ IF Accepts(d)
     THEN result' = d.endpoint /\ stunPhase' = "idle"
     ELSE UNCHANGED result /\ stunPhase' = "ask"
  /\ UNCHANGED <<query, serversAsked, stunRequests, seen>>

WaitEnds ==
  /\ stunPhase = "wait"
  /\ stunPhase' = "ask"
  /\ UNCHANGED <<query, serversAsked, stunRequests, answers, seen, result>>

(* A server answers with the endpoint it saw.  Somebody else, who does not *)
(* know the transaction id, can claim any server's address.                *)
ServerAnswers(r, e, body) ==
  /\ r \in stunRequests
  /\ stunRequests' = stunRequests \ {r}
  /\ answers' = IF r[2] = query
                THEN answers \cup {[from |-> r[1], transaction |-> r[2], endpoint |-> e, body |-> body]}
                ELSE answers
  /\ seen' = seen \cup {<<r[1], r[2], e>>}
  /\ UNCHANGED <<query, serversAsked, stunPhase, result>>

StrangerAnswers(s, e, body) ==
  /\ stunPhase # "idle"
  /\ \A d \in answers : d.transaction # 0
  /\ answers' = answers \cup {[from |-> s, transaction |-> 0, endpoint |-> e, body |-> body]}
  /\ UNCHANGED <<query, serversAsked, stunPhase, stunRequests, seen, result>>

StunNext ==
  \/ Discover
  \/ Ask
  \/ NoServerLeft
  \/ \E d \in answers : ReadAnswer(d)
  \/ WaitEnds
  \/ \E r \in stunRequests, e \in Endpoints, body \in Bodies : ServerAnswers(r, e, body)
  \/ \E s \in Server, e \in Endpoints, body \in Bodies : StrangerAnswers(s, e, body)

StunSpec == StunInit /\ [][StunNext]_stunVars
-----------------------------------------------------------------------------
(* The endpoint a query returns is one a server it asked saw this very     *)
(* socket at, whatever arrives late, twice or from somebody else.          *)
ReportedWasSeen == result # None => \E s \in Server : <<s, query, result>> \in seen
=============================================================================
