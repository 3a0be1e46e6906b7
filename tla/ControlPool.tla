----------------------------- MODULE ControlPool -----------------------------
(***************************************************************************)
(* The connections of the control client (control.rs): taking the query    *)
(* log first tries the connections that were kept, every other request     *)
(* opens one of its own.  KixDNS may restart, close a connection that has  *)
(* been idle or answer too late at any time, and a request may be dropped  *)
(* at any await.                                                           *)
(***************************************************************************)
EXTENDS Integers, FiniteSets, Sequences, SequencesExt

CONSTANTS
  Callers,          \* each has at most one request under way
  IdleConnections,  \* IDLE_CONNECTIONS
  MaxRequests,      \* bound on requests
  MaxPoolEvents     \* bound on restarts, closes, timeouts and dropped requests

ASSUME PoolAssumption ==
  /\ IsFiniteSet(Callers)
  /\ IdleConnections \in Nat \ {0} /\ {MaxRequests, MaxPoolEvents} \subseteq Nat

VARIABLES
  idle,       \* connections kept, the latest last
  wires,      \* each connection: whether it is open, and what it owes an answer
  call,       \* the request of each caller
  answering,  \* whether KixDNS takes connections
  sent, poolEvents

poolVars == <<idle, wires, call, answering, sent, poolEvents>>

Wires == 1 .. Cardinality(Callers) + IdleConnections
NoWire == 0
Gone == [open |-> FALSE, owed |-> <<>>]
NoCall == [pc |-> "idle", request |-> 0, reuses |-> FALSE, kept |-> FALSE, wire |-> NoWire,
           reply |-> 0, excused |-> FALSE, failed |-> FALSE]

PoolEvent == poolEvents < MaxPoolEvents /\ poolEvents' = poolEvents + 1
Wire(c) == wires[call[c].wire]
AtWire(c, pc) == call' = [call EXCEPT ![c].pc = pc]

\* A request comes to its end, with a reply or without; what it held is closed unless kept.
Answered(c, failed) ==
  call' = [call EXCEPT ![c] = [NoCall EXCEPT !.failed = failed /\ ~call[c].excused]]
Dropped(c) == IF call[c].wire = NoWire THEN wires ELSE [wires EXCEPT ![call[c].wire] = Gone]
Fails(c) == Answered(c, TRUE) /\ wires' = Dropped(c)

PoolInit ==
  /\ idle = <<>> /\ wires = [w \in Wires |-> Gone] /\ call = [c \in Callers |-> NoCall]
  /\ answering = TRUE /\ sent = 0 /\ poolEvents = 0

\* request_reusing for the query log, request_within for everything else.
BeginRequest(c) ==
  /\ call[c].pc = "idle" /\ sent < MaxRequests /\ sent' = sent + 1
  /\ \E reuses \in BOOLEAN :
       call' = [call EXCEPT ![c] = [NoCall EXCEPT !.pc = IF reuses THEN "take" ELSE "connect",
                                      !.request = sent + 1, !.reuses = reuses,
                                      !.excused = ~answering]]
  /\ UNCHANGED <<idle, wires, answering, poolEvents>>

\* take_idle: the connection kept last.
TakeIdle(c) ==
  /\ call[c].pc = "take"
  /\ IF idle = <<>> THEN AtWire(c, "connect") /\ UNCHANGED idle
     ELSE /\ idle' = Front(idle)
          /\ call' = [call EXCEPT ![c].pc = "ready", ![c].kept = TRUE, ![c].wire = Last(idle)]
  /\ UNCHANGED <<wires, answering, sent, poolEvents>>

\* A kept connection found closed gives way to the next.
TriesNext(c) ==
  /\ call' = [call EXCEPT ![c].pc = "take", ![c].kept = FALSE, ![c].wire = NoWire]
  /\ wires' = Dropped(c)

ConnectionReady(c) ==
  /\ call[c].pc = "ready"
  /\ IF Wire(c).open THEN AtWire(c, "send") /\ UNCHANGED wires ELSE TriesNext(c)
  /\ UNCHANGED <<idle, answering, sent, poolEvents>>

\* connect and the handshake.
Connect(c) ==
  /\ call[c].pc = "connect"
  /\ IF answering
     THEN \E w \in Wires :
            /\ w \notin ToSet(idle) \union {call[d].wire : d \in Callers}
            /\ \A v \in Wires : v \notin ToSet(idle) \union {call[d].wire : d \in Callers} => w <= v
            /\ wires' = [wires EXCEPT ![w] = [open |-> TRUE, owed |-> <<>>]]
            /\ call' = [call EXCEPT ![c].pc = "send", ![c].kept = FALSE, ![c].wire = w]
     ELSE Fails(c)
  /\ UNCHANGED <<idle, answering, sent, poolEvents>>

\* Mutant: a kept connection found closed ends the request.
ClosedEnds(c) == Fails(c)

\* SendFailure::Closed.
Closed(c) == IF call[c].kept THEN TriesNext(c) ELSE Fails(c)

\* send, up to KixDNS having the request.
Send(c) ==
  /\ call[c].pc = "send"
  /\ IF Wire(c).open
     THEN /\ AtWire(c, "head")
          /\ wires' = [wires EXCEPT ![call[c].wire].owed = Append(@, call[c].request)]
     ELSE Closed(c)
  /\ UNCHANGED <<idle, answering, sent, poolEvents>>

\* The head of the first reply owed, or the connection is gone.
ReceiveHead(c) ==
  /\ call[c].pc = "head"
  /\ IF Wire(c).open
     THEN UNCHANGED wires /\ call' = [call EXCEPT ![c].pc = "body",
                                                   ![c].reply = Head(Wire(c).owed)]
     ELSE Closed(c)
  /\ UNCHANGED <<idle, answering, sent, poolEvents>>

\* SendFailure::TimedOut is not tried again.
TimesOut(c) ==
  /\ call[c].pc = "head" /\ PoolEvent
  /\ call' = [call EXCEPT ![c] = NoCall] /\ wires' = Dropped(c)
  /\ UNCHANGED <<idle, answering, sent>>

\* Mutant: the connection of a reply too large is kept.
KeepsAny(c, whole) == call[c].reuses /\ Len(idle) < IdleConnections

\* read_and_keep: a reply read whole, an error of KixDNS included, and room.
Keeps(c, whole) == call[c].reuses /\ whole /\ Len(idle) < IdleConnections

\* read_reply: read whole, larger than MAX_RESPONSE_BYTES, or cut off.
ReadReply(c) ==
  /\ call[c].pc = "body"
  /\ IF ~Wire(c).open THEN Fails(c) /\ UNCHANGED idle
     ELSE \E whole \in BOOLEAN :
            /\ Answered(c, FALSE)
            /\ IF Keeps(c, whole)
               THEN /\ idle' = Append(idle, call[c].wire)
                    /\ wires' = IF whole THEN [wires EXCEPT ![call[c].wire].owed = Tail(@)]
                                 ELSE wires
               ELSE wires' = Dropped(c) /\ UNCHANGED idle
  /\ UNCHANGED <<answering, sent, poolEvents>>

\* The caller is dropped at an await: the connection goes with it.
DropCall(c) ==
  /\ call[c].pc \notin {"idle", "take"} /\ PoolEvent
  /\ call' = [call EXCEPT ![c] = NoCall] /\ wires' = Dropped(c)
  /\ UNCHANGED <<idle, answering, sent>>

---------------------------------------------------------------------------
(* KixDNS.                                                                 *)

Excusing == call' = [c \in Callers |-> [call[c] EXCEPT !.excused = call[c].pc # "idle"]]

ServerEnds ==
  /\ answering /\ PoolEvent /\ answering' = FALSE /\ wires' = [w \in Wires |-> Gone] /\ Excusing
  /\ UNCHANGED <<idle, sent>>

ServerStarts ==
  /\ ~answering /\ answering' = TRUE /\ UNCHANGED <<idle, wires, call, sent, poolEvents>>

\* A kept connection has been idle too long, or a request sent on it comes too late.
ServerClosesIdle ==
  /\ PoolEvent
  /\ \E w \in ToSet(idle) \union {call[c].wire : c \in {c \in Callers :
                                     call[c].kept /\ call[c].pc \in {"ready", "send", "head"}}} :
       wires[w].open /\ wires' = [wires EXCEPT ![w] = Gone]
  /\ UNCHANGED <<idle, call, answering, sent>>

PoolNext ==
  \/ \E c \in Callers :
       \/ BeginRequest(c) \/ TakeIdle(c) \/ ConnectionReady(c) \/ Connect(c) \/ Send(c)
       \/ ReceiveHead(c) \/ TimesOut(c) \/ ReadReply(c) \/ DropCall(c)
  \/ ServerEnds \/ ServerStarts \/ ServerClosesIdle

PoolSpec == PoolInit /\ [][PoolNext]_poolVars

---------------------------------------------------------------------------
PoolTypeOK ==
  /\ ToSet(idle) \subseteq Wires /\ \A w \in Wires : wires[w].open \in BOOLEAN
  /\ \A c \in Callers : /\ call[c].wire \in Wires \union {NoWire}
                        /\ call[c].request \in 0 .. MaxRequests
                        /\ call[c].pc \in {"idle", "take", "ready", "connect", "send", "head",
                                           "body"}
  /\ sent \in 0 .. MaxRequests /\ poolEvents \in 0 .. MaxPoolEvents

\* Whatever was dropped, timed out, too large or closed before, a request reads the reply to
\* itself, a connection is in one pair of hands and owes nothing while it is kept, and a
\* request fails only when it timed out or KixDNS ended while it was under way: connections
\* that went idle never cost one (control.rs:747).
CallsAreAnswered ==
  /\ PoolTypeOK
  /\ \A c \in Callers : call[c].pc = "body" => call[c].reply = call[c].request
  /\ \A c \in Callers : ~call[c].failed
  /\ \A i \in DOMAIN idle : /\ wires[idle[i]].owed = <<>>
                            /\ \A j \in DOMAIN idle : idle[i] = idle[j] => i = j
                            /\ \A c \in Callers : call[c].wire # idle[i]
  /\ Len(idle) <= IdleConnections
=============================================================================
